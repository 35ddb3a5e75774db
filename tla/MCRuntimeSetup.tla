----------------------------- MODULE MCRuntimeSetup -----------------------------
(***************************************************************************)
(* RuntimeSetup on small instances.                                        *)
(***************************************************************************)
EXTENDS RuntimeSetup, TLC

(* A plain word, one that the shell expands, and words that assign.        *)
One == <<"x">>
Dollar == <<"$x">>
Path == <<"y", "PATH=z">>
App == <<"y", "APP=z", "_HANDLER=z">>

SomeAssigns == ("PATH=z" :> Line("PATH", "z")) @@ ("APP=z" :> Line("APP", "z"))
                 @@ ("_HANDLER=z" :> Line("_HANDLER", "z"))
SomeExpands == "$x" :> ""

SomeEnvironments ==
  {<<>>, "APP" :> One, "APP" :> Path, "PATH" :> Dollar, "_HANDLER" :> App,
   ("APP" :> One) @@ ("PATH" :> App) @@ ("_HANDLER" :> One)}
TwoHandlers == {<<"f.main">>, <<"g.main">>}
================================================================================
