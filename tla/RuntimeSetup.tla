------------------------------ MODULE RuntimeSetup ------------------------------
(***************************************************************************)
(* From a function's entry in the template and the environment its proxy   *)
(* sent to the container that runs it: what formation, prepareEnv, run.Get *)
(* and runtime.New make of them, and what the container's scripts and mock *)
(* make of that.  Requests come one after another here; RunnerPool has     *)
(* them at once, its containers dying, and the life of a reservation.      *)
(*                                                                         *)
(* A value of a variable is the sequence of its words as a shell reads     *)
(* them.  Bytes that end a command or join words and lines (; & | quotes,  *)
(* newlines) are left out, and later words that are neither a name nor     *)
(* name=value, which the shell refuses: what it makes of a file with those *)
(* is not modelled.  There is one function: the name that runnerKey holds  *)
(* as well tells functions apart.                                          *)
(***************************************************************************)
EXTENDS Naturals, Sequences, FiniteSets

CONSTANTS
  Names,     \* of environment variables, "_HANDLER" among them
  Environments, \* from names to values, of the proxy and of the template
  Assigns,   \* the words that read name=value: their name and value
  Expands,   \* the words a shell does not leave alone, and what it makes of them
  Cleaned,   \* the names in prepareEnv's cleanEnv
  Dirs,      \* the directories a CodeUri can name
  Base,      \* the directory of the template
  Runtimes,  \* what the template says of the runtime
  Handlers,  \* ... and of the handler
  Spellings, \* ... and of the debugger: a string, TRUE, FALSE, something else
  MaxVersion,\* bound: versions of a code directory
  MaxChanges,\* bound: changes by the developer or in AWS after the first call
  MaxCalls   \* bound: requests

Python == {"python2.7", "python3.6"}
Node   == {"nodejs6.10"}
None   == "none"

ASSUME SetupAssumption ==
  /\ IsFiniteSet(Names) /\ "_HANDLER" \in Cleaned /\ Cleaned \subseteq Names
  /\ Handlers \subseteq Seq(STRING)
  /\ \A env \in Environments : DOMAIN env \subseteq Names /\ env \in [DOMAIN env -> Seq(STRING)]
  /\ Assigns \in [DOMAIN Assigns -> [name : Names, value : STRING]]
  /\ Expands \in [DOMAIN Expands -> STRING]
  /\ {MaxVersion, MaxChanges, MaxCalls} \subseteq Nat

VARIABLES
  resource,  \* the entry in the template
  proxied,   \* the environment of the proxy
  disk,      \* the version of each code directory, 0 if there is none
  runners,   \* the cached runners that run: a hash and a container per key
  given,     \* the last request: its function, environment and container
  changes, calls

vars == <<resource, proxied, disk, runners, given, changes, calls>>

Resource == [uri : Dirs \cup {None}, runtime : Runtimes, handler : Handlers,
             variables : Environments, debugger : Spellings]

-----------------------------------------------------------------------------
(* A debugger that is disabled, misspelt or of another runtime is none,    *)
(* and only warned of.                                                     *)
ParsePythonDebugger(raw) ==
  CASE raw \in {"pydev", "pydevd"} -> "pydevd"
    [] raw = "ptvsd"               -> raw
    [] OTHER                       -> None

ParseNodeDebugger(raw) ==
  CASE raw \in {"TRUE", "legacy"} -> "legacy"
    [] raw = "inspector"          -> raw
    [] OTHER                      -> None

(* Mutant: a spelling that is no debugger of the runtime is kept.          *)
ParseKept(runtime, raw) == raw

ParseDebugger(runtime, raw) ==
  IF runtime \in Python THEN ParsePythonDebugger(raw)
  ELSE IF runtime \in Node THEN ParseNodeDebugger(raw) ELSE None

(* read: fix, loadMlessParams and the configuration processor.             *)
Function(r) ==
  [dir       |-> IF r.uri = None THEN Base ELSE r.uri,
   runtime   |-> r.runtime,
   handler   |-> r.handler,
   variables |-> r.variables,
   debugger  |-> ParseDebugger(r.runtime, r.debugger)]

(* One map, or one variable, written over another.                         *)
Over(upper, lower) == [k \in DOMAIN upper \cup DOMAIN lower |->
                         IF k \in DOMAIN upper THEN upper[k] ELSE lower[k]]

With(lower, name, value) == [k \in DOMAIN lower \cup {name} |->
                               IF k = name THEN value ELSE lower[k]]

(* Mutant: the template's variables are merged before the cleaning.        *)
PrepareEarly(env, fn) == [k \in (DOMAIN env \cup DOMAIN fn.variables) \ Cleaned |->
                            Over(fn.variables, env)[k]]

PrepareEnv(env, fn) == Over(fn.variables, [k \in DOMAIN env \ Cleaned |-> env[k]])

(* EnvKey shows that the string env stands for it.                         *)
RunnerKey(fn, env, dbg) ==
  [runtime |-> fn.runtime, handler |-> fn.handler, env |-> env, debugger |-> dbg]

(* Mutant: the path is not hashed.                                         *)
HashFiles(dir) == disk[dir]

(* The path is hashed with what Walk finds there, an error if nothing.     *)
HashDir(dir) == <<dir, disk[dir]>>

-----------------------------------------------------------------------------
(* The orders in which range can visit the names of a map.                 *)
Orders(names) ==
  {o \in [1 .. Cardinality(names) -> names] :
     /\ \A n \in names : \E i \in DOMAIN o : o[i] = n
     /\ \A i, j \in DOMAIN o : o[i] = o[j] => i = j}

Line(name, value) == [name |-> name, value |-> value]

(* Mutant: _HANDLER is written before the environment.                     *)
EnvFileHandlerFirst(env, handler) ==
  {<<Line("_HANDLER", handler)>> \o [i \in DOMAIN o |-> Line(o[i], env[o[i]])] :
     o \in Orders(DOMAIN env)}

(* writeEnvFile: "export k=v" lines in any order, that of the handler last *)
EnvFile(env, handler) ==
  {Append([i \in DOMAIN o |-> Line(o[i], env[o[i]])], Line("_HANDLER", handler)) :
     o \in Orders(DOMAIN env)}

(* The START script of the container sources the file.  export k=v w gives *)
(* k the first word of the value, as the shell expands it; a later word    *)
(* that reads name=value is an assignment of its own, any other is the     *)
(* name of a variable to export and assigns nothing.                       *)
Word(w) == IF w \in DOMAIN Expands THEN Expands[w] ELSE w

Assigning(line) == {1} \cup {j \in 2 .. Len(line.value) : line.value[j] \in DOMAIN Assigns}

Target(line, j) == IF j = 1 THEN line.name ELSE Assigns[line.value[j]].name

Result(line, j) ==
  CASE j > 1           -> <<Assigns[line.value[j]].value>>
    [] line.value = <<>> -> <<>>
    [] OTHER           -> <<Word(line.value[1])>>

(* The assignments to a name, and the last one of them.                    *)
Writes(file, name) ==
  {w \in UNION {{<<i, j>> : j \in Assigning(file[i])} : i \in DOMAIN file} :
     Target(file[w[1]], w[2]) = name}

Last(writes) ==
  CHOOSE w \in writes : \A x \in writes : x[1] < w[1] \/ (x[1] = w[1] /\ x[2] <= w[2])

Sourced(file) ==
  [name \in {n \in Names : Writes(file, n) # {}} |->
     LET w == Last(Writes(file, name)) IN Result(file[w[1]], w[2])]

(* What the process may have, beside the variables of its image, when it   *)
(* calls the function.  The python mock sets the environment of the        *)
(* startup request once more, as it is.                                    *)
Environs(fn, env) ==
  LET shell == {Sourced(file) : file \in EnvFile(env, fn.handler)}
  IN  IF fn.runtime \in Python
      THEN {Over(env, With(e, "_HANDLER", fn.handler)) : e \in shell}
      ELSE shell

(* The handler: of the startup request, or process.env._HANDLER.           *)
Handler(fn, environ) ==
  IF fn.runtime \in Python THEN fn.handler ELSE environ["_HANDLER"]

(* Where the debugger is reached: pydevd connects to the desktop and is    *)
(* told where the sources are there, the others listen on a port.          *)
Attach(fn, dbg) ==
  CASE dbg = "pydevd" -> fn.dir
    [] dbg = "ptvsd"  -> "5678"
    [] dbg = None     -> None
    [] OTHER          -> "5858"

(* pythonCmdLine and node610CmdLine assert the type of the debugger.       *)
Asserted(fn, dbg) ==
  dbg = None \/ dbg \in (IF fn.runtime \in Python THEN {"pydevd", "ptvsd"}
                                                  ELSE {"legacy", "inspector"})

Panic == [panic |-> TRUE]

(* New(fn, env, debug) for a known runtime: what may come of it.           *)
New(fn, env, dbg) ==
  IF Asserted(fn, dbg)
  THEN {[image   |-> fn.runtime, code |-> <<fn.dir, disk[fn.dir]>>,
         handler |-> Handler(fn, environ), environ |-> environ,
         debugger |-> dbg, attach |-> Attach(fn, dbg)] : environ \in Environs(fn, env)}
  ELSE {Panic}

-----------------------------------------------------------------------------
NotYet == [container |-> None]

Init ==
  /\ resource \in Resource
  /\ proxied \in Environments
  /\ disk \in {d \in [Dirs \cup {Base} -> {0, 1}] : d[Base] = 1}
  /\ runners = <<>>
  /\ given = NotYet
  /\ changes = 0 /\ calls = 0

(* The developer edits the entry, or code; AWS changes the environment.    *)
Edited(r) ==
  UNION {{[r EXCEPT !.uri = x] : x \in Dirs \cup {None}},
         {[r EXCEPT !.runtime = x] : x \in Runtimes},
         {[r EXCEPT !.handler = x] : x \in Handlers},
         {[r EXCEPT !.variables = x] : x \in Environments},
         {[r EXCEPT !.debugger = x] : x \in Spellings}}

Change ==
  /\ calls > 0 /\ changes < MaxChanges
  /\ changes' = changes + 1
  /\ \/ /\ resource' \in Edited(resource)
        /\ UNCHANGED <<proxied, disk>>
     \/ /\ proxied' \in Environments
        /\ UNCHANGED <<resource, disk>>
     \/ /\ \E d \in DOMAIN disk : disk[d] < MaxVersion /\ disk' = [disk EXCEPT ![d] = @ + 1]
        /\ UNCHANGED <<resource, proxied>>
  /\ UNCHANGED <<runners, given, calls>>

(* getRunner: the cached runner has the same hash, or is closed.           *)
Found(key, hash) == key \in DOMAIN runners /\ runners[key].hash = hash

Without(key) == [k \in DOMAIN runners \ {key} |-> runners[k]]

Give(fn, dbg, container) ==
  given' = [fn |-> fn, proxied |-> proxied, debugger |-> dbg, container |-> container]

(* Get for a function whose runtime there is; for another New is an error. *)
Invoke ==
  LET fn   == Function(resource)
      env  == PrepareEnv(proxied, fn)
      hash == HashDir(fn.dir)
      Key(dbg) == RunnerKey(fn, env, dbg)
      Start(dbg) == \E container \in New(fn, env, dbg) :
                      /\ Give(fn, dbg, container)
                      /\ runners' = With(Without(Key(fn.debugger)), Key(dbg),
                                         [hash |-> hash, container |-> container])
      Reuse(dbg) == Found(Key(dbg), hash) /\ Give(fn, dbg, runners[Key(dbg)].container)
  IN
  /\ calls < MaxCalls
  /\ calls' = calls + 1
  /\ IF fn.runtime \notin Python \cup Node THEN UNCHANGED <<runners, given>>
     ELSE \/ Reuse(fn.debugger) /\ UNCHANGED runners
          \/ ~Found(Key(fn.debugger), hash) /\ Start(fn.debugger)
          \/ (* The debugger is still another container's, perhaps of the  *)
             (* one that was closed just now.                              *)
             /\ fn.debugger # None /\ ~Found(Key(fn.debugger), hash)
             /\ \/ Reuse(None) /\ runners' = Without(Key(fn.debugger))
                \/ ~Found(Key(None), hash) /\ Start(None)
  /\ UNCHANGED <<resource, proxied, disk, changes>>

Idle == calls = MaxCalls /\ UNCHANGED vars

Next == Change \/ Invoke \/ Idle

Spec == Init /\ [][Next]_vars

-----------------------------------------------------------------------------
(* Reuse is transparent: after whatever edits of the template, of the code *)
(* or of the proxy's environment, the container a request is given does    *)
(* what one started for it now would do (run.Get: "the same defenitions,   *)
(* same environment and and same code").                                   *)
Transparent ==
  [][LET fn == Function(resource) IN
     calls' # calls /\ fn.runtime \in Python \cup Node =>
       given'.container \in New(fn, PrepareEnv(proxied, fn), given'.debugger)]_vars

(* The container runs the handler of the template, whatever the            *)
(* environments of the proxy and of the template say of _HANDLER.          *)
HandlerRun ==
  given # NotYet => given.container.handler = given.fn.handler

(* What the template spells as debugger and the command lines assert to be *)
(* one agree for every runtime: no request panics on its debugger.         *)
NoAssertion == given # NotYet => given.container # Panic

(* The variables the function is configured with: the template's, and the  *)
(* proxy's unless they are the template's or belong to the proxy's own     *)
(* execution.                                                              *)
Configured ==
  LET upper == given.fn.variables
      lower == given.proxied
  IN  {Line(n, upper[n]) : n \in DOMAIN upper}
        \cup {Line(n, lower[n]) : n \in DOMAIN lower \ (Cleaned \cup DOMAIN upper)}

Sees(line) ==
  LET environ == given.container.environ
  IN  line.name \in DOMAIN environ /\ environ[line.name] = line.value

(* Some later word of a value, or of the handler, assigns a value to k.    *)
Overwritten(k) ==
  \E line \in Configured \cup {Line("_HANDLER", given.fn.handler)} :
    \E j \in Assigning(line) \ {1} : Target(line, j) = k

(* A value that the shell delivers: one word at most, which it leaves      *)
(* alone.                                                                  *)
Plain(v) == Len(v) <= 1 /\ \A j \in DOMAIN v : v[j] \notin DOMAIN Expands

(* The function sees each variable it is configured with: in python        *)
(* always, in node if its value is plain and no other value assigns to it. *)
(* It sees none of the variables of the proxy's own execution, unless a    *)
(* value assigns to one.                                                   *)
ConfiguredEnvironment ==
  given # NotYet =>
    /\ \A line \in Configured :
         /\ line.name # "_HANDLER"
         /\ \/ given.fn.runtime \in Python
            \/ Plain(line.value) /\ ~Overwritten(line.name)
         => Sees(line)
    /\ \A k \in Cleaned \ (DOMAIN given.fn.variables \cup {"_HANDLER"}) :
         ~Overwritten(k) => k \notin DOMAIN given.container.environ

(* README.md: "Running the function will use the role configured for the   *)
(* lambda function, and its configured environment" - in every runtime,    *)
(* whatever the value.                                                     *)
EnvironmentKept ==
  given # NotYet => \A line \in Configured : line.name # "_HANDLER" => Sees(line)
================================================================================
