----------------------------- MODULE MCRunnerPool -----------------------------
(***************************************************************************)
(* RunnerPool on small instances.                                          *)
(***************************************************************************)
EXTENDS RunnerPool, TLC

CONSTANTS fn, dbg, ibg, res

Keys(debuggers) == [def : {fn}, debugger : debuggers]

(* One function with its debugger; and after the template put the other    *)
(* one of its runtime in its place (for node: legacy and inspector), which *)
(* occupies the same resource.                                             *)
AskedOne == Keys({dbg})
AskedEdited == Keys({dbg, ibg})
SameResource == [d \in Debuggers |-> res]

AllFiles == [d \in Defs |-> Files]

Symmetry == Permutations(Requests) \cup Permutations(Files) \cup Permutations(Debuggers)
================================================================================
