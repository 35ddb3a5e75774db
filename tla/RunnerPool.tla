------------------------------ MODULE RunnerPool ------------------------------
(***************************************************************************)
(* The pool of runners of mlessd (mlessd/run): what run.Get does for the   *)
(* HTTP handlers of POST /invoke that call it concurrently, and the life   *)
(* of the containers it starts.                                            *)
(*                                                                         *)
(* A call of Get allocates at most one container name, so a container is   *)
(* identified with the request whose Get created it: proc[r] is the        *)
(* process that request r started, key[r] and hash[r] what it is cached    *)
(* under and compared with.  Inside, a container is here a mutex and the   *)
(* state of its process; JsonProcess opens that box.                       *)
(***************************************************************************)
EXTENDS Naturals

CONSTANTS
  Requests,    \* the requests the server handles, one goroutine each
  Nobody,      \* no request: a free mutex, an empty table entry
  Defs,        \* what runnerKey compares apart from the debugger:
               \* function name, runtime, handler and environment
  NodeDefs,    \* the definitions whose runtime is nodejs6.10
  Debuggers,   \* the values of Debugger, as the template spells them
  NoDebugger,  \* the nil Debugger
  Resources,   \* what a debugger occupies: a port, the desktop's listener
  ReservationKey, \* the resource of each debugger
  Asked,       \* the keys the template can make a request ask for
  Files,       \* the files hashDir can meet
  CodeOf,      \* the files below the code directory of a definition
  MaxVersion   \* bound: a file is edited at most MaxVersion - 1 times

Key == [def : Defs, debugger : Debuggers \cup {NoDebugger}]

ASSUME PoolAssumption ==
  /\ Nobody \notin Requests
  /\ NoDebugger \notin Debuggers
  /\ ReservationKey \in [Debuggers -> Resources]
  /\ NodeDefs \subseteq Defs
  /\ Asked \subseteq Key
  /\ CodeOf \in [Defs -> (SUBSET Files) \ {{}}]
  /\ MaxVersion \in Nat \ {0}

VARIABLES
  code,        \* the version of each file on disk, from 1 up
  stamp,       \* its size, mode and mtime: the version they are from
  pc,          \* where each request is
  want,        \* the key it came with, any before that
  arrival,     \* ghost: the stamps on disk when it came
  key,         \* the key Get works with (the debugger may be dropped)
  hash,        \* what hashDir has read so far: a stamp per file, 0 unread
  runner,      \* the runner it looks at or was given
  proc,        \* the process of the container it created
  loaded,      \* the code that process has loaded: a version per file, or 0
  serving,     \* the mutex of that container: the request being served
  runners,     \* the map of cached runners
  reservation  \* debuggerReservations: the container that owns a resource

disk     == <<code, stamp>>
reqVars  == <<pc, want, arrival, key, hash, runner>>
contVars == <<proc, loaded, serving>>
vars     == <<disk, reqVars, contVars, runners, reservation>>

-----------------------------------------------------------------------------
(* Requests on their way and answered ones.                                *)
Finished == {"replied", "failed", "panicked"}
InGet    == {"hash", "load", "check", "close", "reserve", "launch",
             "handshake", "store"}

(* Processes: "killed" and "crashed" are dead and not yet waited for,      *)
(* "done" has its Done channel closed, "gone" its watcher has finished.    *)
Dead == {"killed", "crashed"}

(* What a failed start may leave behind, without a watcher: a "doomed"     *)
(* process is killed but not yet waited for, an "orphan" goes on living,   *)
(* nobody waits for it and nobody will stop it.                            *)
LeftBehind == {"doomed", "orphan"}

(* A call is with the container: sent, or its reply is in the pipe.        *)
InCall == {"busy", "replying"}

(* Mutant: the wrong field is dropped.                                     *)
PlainDef(k) == [k EXCEPT !.def = NoDebugger]

Plain(k) == [k EXCEPT !.debugger = NoDebugger]

(* The second half of Get, after a reservation was refused.                *)
Fallback(r) == key[r] # want[r]

(* The runner cannot be told to have stopped until Done is closed.         *)
IsRunning(c) == c \in Requests /\ proc[c] \in {"up"} \cup Dead

Wants(c, res) == key[c].debugger # NoDebugger /\ ReservationKey[key[c].debugger] = res

(* Mutant: the previous owner is not looked at.                            *)
VacantAlways(res) == TRUE

Vacant(res) == reservation[res] = Nobody

(* Mutant: the comparison of the owner is the wrong way round.             *)
UnreserveOthers(c) ==
  reservation' = [res \in Resources |->
                    IF Wants(c, res) /\ reservation[res] # c THEN Nobody ELSE reservation[res]]

(* reservation.Close() of container c: only the owner frees the resource.  *)
Unreserve(c) ==
  reservation' = [res \in Resources |->
                    IF Wants(c, res) /\ reservation[res] = c THEN Nobody ELSE reservation[res]]

Init ==
  /\ code = [f \in Files |-> 1]
  /\ stamp = code
  /\ pc = [r \in Requests |-> "idle"]
  /\ \E k \in Asked : want = [r \in Requests |-> k]
  /\ key = want
  /\ arrival = [r \in Requests |-> stamp]
  /\ hash = [r \in Requests |-> [f \in Files |-> 0]]
  /\ runner = [r \in Requests |-> Nobody]
  /\ proc = [r \in Requests |-> "none"]
  /\ loaded = [r \in Requests |-> [f \in Files |-> 0]]
  /\ serving = [r \in Requests |-> Nobody]
  /\ runners = [k \in Key |-> Nobody]
  /\ reservation = [res \in Resources |-> Nobody]

-----------------------------------------------------------------------------
(* invokeHandler up to run.Get: the request has its function definition    *)
(* and environment, k.                                                     *)
Arrive(r, k) ==
  /\ pc[r] = "idle"
  /\ pc' = [pc EXCEPT ![r] = "hash"]
  /\ want' = [want EXCEPT ![r] = k]
  /\ key' = [key EXCEPT ![r] = k]
  /\ arrival' = [arrival EXCEPT ![r] = stamp]
  /\ UNCHANGED <<disk, hash, runner, contVars, runners, reservation>>

(* Mutant: the walk ends with its first file.                              *)
UnreadFirst(r) == {CHOOSE f \in CodeOf[key[r].def] : TRUE}

Unread(r) == {f \in CodeOf[key[r].def] : hash[r][f] = 0}

(* hashDir walks the code directory one file at a time and hashes what it  *)
(* can see of it without reading it, size, mode and mtime; the developer   *)
(* may save a file between two of them.                                    *)
HashFile(r, f) ==
  /\ pc[r] = "hash"
  /\ f \in Unread(r)
  /\ hash' = [hash EXCEPT ![r][f] = stamp[f]]
  /\ pc' = [pc EXCEPT ![r] = IF Unread(r) = {f} THEN "load" ELSE @]
  /\ UNCHANGED <<disk, want, arrival, key, runner, contVars, runners, reservation>>

(* getRunner, first step: runners.Load.                                    *)
Load(r) ==
  /\ pc[r] = "load"
  /\ runner' = [runner EXCEPT ![r] = runners[key[r]]]
  /\ pc' = [pc EXCEPT ![r] = "check"]
  /\ UNCHANGED <<disk, want, arrival, key, hash, contVars, runners, reservation>>

(* getRunner found nothing to return: Get goes on to reserve the debugger, *)
(* if it has one to reserve (not so after a refused reservation).          *)
Miss(r) ==
  /\ runner' = [runner EXCEPT ![r] = Nobody]
  /\ pc' = [pc EXCEPT ![r] = IF key[r].debugger = NoDebugger THEN "launch" ELSE "reserve"]
  /\ UNCHANGED <<disk, want, arrival, key, hash, loaded, serving, runners, reservation>>

(* Mutant: the hashes are not compared.                                    *)
AnyHash(r) == TRUE

SameHash(r) == hash[runner[r]] = hash[r]

(* getRunner, second step: is the loaded runner running, is its code ours? *)
Reuse(r) ==
  /\ pc[r] = "check"
  /\ IsRunning(runner[r])
  /\ SameHash(r)
  /\ pc' = [pc EXCEPT ![r] = "invoke"]
  /\ UNCHANGED <<disk, want, arrival, key, hash, runner, contVars, runners, reservation>>

Outdated(r) ==
  /\ pc[r] = "check"
  /\ IsRunning(runner[r])
  /\ ~SameHash(r)
  /\ pc' = [pc EXCEPT ![r] = "close"]
  /\ UNCHANGED <<disk, want, arrival, key, hash, runner, contVars, runners, reservation>>

NotRunning(r) ==
  /\ pc[r] = "check"
  /\ ~IsRunning(runner[r])
  /\ Miss(r)
  /\ UNCHANGED proc

(* Mutant: there is no mutex.                                              *)
NoMutex(c) == TRUE

Unlocked(c) == serving[c] = Nobody

(* old.Close(): take the mutex of the outdated container, kill its process *)
(* and give the mutex back.  Killing a dead process is an ignored error.   *)
CloseOld(r) ==
  LET old == runner[r] IN
  /\ pc[r] = "close"
  /\ Unlocked(old)
  /\ proc' = [proc EXCEPT ![old] = IF @ = "up" THEN "killed" ELSE @]
  /\ Miss(r)

(* allocateName and useDebugger: the resource is free, or it has an owner  *)
(* and the request continues without a debugger.                           *)
Reserve(r) ==
  /\ pc[r] = "reserve"
  /\ \E res \in Resources :
       /\ Wants(r, res)
       /\ Vacant(res)
       /\ reservation' = [reservation EXCEPT ![res] = r]
  /\ pc' = [pc EXCEPT ![r] = "launch"]
  /\ UNCHANGED <<disk, want, arrival, key, hash, runner, contVars, runners>>

ReservationRefused(r) ==
  /\ pc[r] = "reserve"
  /\ \E res \in Resources : Wants(r, res) /\ ~Vacant(res)
  /\ key' = [key EXCEPT ![r] = Plain(@)]
  /\ pc' = [pc EXCEPT ![r] = "load"]
  /\ UNCHANGED <<disk, want, arrival, hash, runner, contVars, runners, reservation>>

-----------------------------------------------------------------------------
(* runtime.New: the process is started ...                                 *)
Launch(r) ==
  /\ pc[r] = "launch"
  /\ pc' = [pc EXCEPT ![r] = "handshake"]
  /\ proc' = [proc EXCEPT ![r] = "starting"]
  /\ UNCHANGED <<disk, want, arrival, key, hash, runner, loaded, serving, runners, reservation>>

(* ... and answers the startup request.                                    *)
Handshake(r) ==
  /\ pc[r] = "handshake"
  /\ proc' = [proc EXCEPT ![r] = "up"]
  /\ pc' = [pc EXCEPT ![r] = "store"]
  /\ UNCHANGED <<disk, want, arrival, key, hash, runner, loaded, serving, runners, reservation>>

(* The error exit of Get.  After a refused reservation the closer is a nil *)
(* interface, and reservation.Close() panics in the handler's goroutine.   *)
GiveUp(r) ==
  /\ \/ /\ ~Fallback(r)
        /\ pc' = [pc EXCEPT ![r] = "failed"]
        /\ Unreserve(r)
     \/ /\ Fallback(r)
        /\ pc' = [pc EXCEPT ![r] = "panicked"]
        /\ UNCHANGED reservation
  /\ UNCHANGED <<disk, want, arrival, key, hash, runner, loaded, serving, runners>>

(* The environment file, the command line or the process could not be made.*)
LaunchFailed(r) ==
  /\ pc[r] = "launch"
  /\ GiveUp(r)
  /\ UNCHANGED proc

(* The startup answer is missing or wrong: newStdiocont sends the process  *)
(* a kill and does not wait for it to die, newNodeCont leaves it as it is, *)
(* dead or alive.                                                          *)
HandshakeFailed(r) ==
  /\ pc[r] = "handshake"
  /\ \E p \in (IF key[r].def \in NodeDefs THEN {"gone", "orphan"} ELSE {"doomed"}) :
       proc' = [proc EXCEPT ![r] = p]
  /\ GiveUp(r)

(* The new runner is cached, whatever its key maps to by now.              *)
Store(r) ==
  /\ pc[r] = "store"
  /\ runners' = [runners EXCEPT ![key[r]] = r]
  /\ runner' = [runner EXCEPT ![r] = r]
  /\ pc' = [pc EXCEPT ![r] = "invoke"]
  /\ UNCHANGED <<disk, want, arrival, key, hash, contVars, reservation>>

-----------------------------------------------------------------------------
(* runner.Invoke: under the mutex of the container the request is sent and *)
(* its reply awaited.                                                      *)
Begin(r) ==
  /\ pc[r] = "invoke"
  /\ Unlocked(runner[r])
  /\ serving' = [serving EXCEPT ![runner[r]] = r]
  /\ pc' = [pc EXCEPT ![r] = "busy"]
  /\ UNCHANGED <<disk, want, arrival, key, hash, runner, proc, loaded, runners, reservation>>

Return(r, how) ==
  /\ serving' = [serving EXCEPT ![runner[r]] = Nobody]
  /\ pc' = [pc EXCEPT ![r] = how]
  /\ UNCHANGED <<disk, want, arrival, key, hash, runner, proc, loaded, runners, reservation>>

(* The container executes the event and writes its reply ...               *)
Respond(r) ==
  /\ pc[r] = "busy"
  /\ proc[runner[r]] = "up"
  /\ \A f \in CodeOf[key[runner[r]].def] : loaded[runner[r]][f] # 0
  /\ pc' = [pc EXCEPT ![r] = "replying"]
  /\ UNCHANGED <<disk, want, arrival, key, hash, runner, contVars, runners, reservation>>

(* ... which is decoded even if the process has died since.                *)
Reply(r) ==
  /\ pc[r] = "replying"
  /\ Return(r, "replied")

(* Mutant: a failed call is tried again, on the same runner.               *)
InvokeRetried(r) ==
  /\ pc[r] \in InCall
  /\ Return(r, "invoke")

(* The process is dead, it refuses the connection, or what it writes does  *)
(* not decode or belongs to another request.                               *)
InvokeFailed(r) ==
  /\ pc[r] \in InCall
  /\ Return(r, "failed")

-----------------------------------------------------------------------------
(* The container: it loads each file of the code once, some time before    *)
(* its first reply, and it may die at any time.                            *)
LoadFile(c, f) ==
  /\ proc[c] \in {"starting", "up"}
  /\ f \in CodeOf[key[c].def]
  /\ loaded[c][f] = 0
  /\ loaded' = [loaded EXCEPT ![c][f] = code[f]]
  /\ UNCHANGED <<disk, reqVars, proc, serving, runners, reservation>>

Crash(c) ==
  /\ proc[c] \in {"up", "orphan"}
  /\ proc' = [proc EXCEPT ![c] = IF @ = "up" THEN "crashed" ELSE "gone"]
  /\ UNCHANGED <<disk, reqVars, loaded, serving, runners, reservation>>

(* The goroutine in Process.Wait closes the Done channel.  The one that    *)
(* waits for it has no more to do if the container has no reservation, and *)
(* there is none if the start failed.                                      *)
Reap(c) ==
  /\ proc[c] \in Dead \cup {"doomed"}
  /\ proc' = [proc EXCEPT ![c] = IF @ = "doomed" \/ key[c].debugger = NoDebugger
                                  THEN "gone" ELSE "done"]
  /\ UNCHANGED <<disk, reqVars, loaded, serving, runners, reservation>>

(* The goroutine Get left behind sees Done and closes the reservation.     *)
Watch(c) ==
  /\ proc[c] = "done"
  /\ Unreserve(c)
  /\ proc' = [proc EXCEPT ![c] = "gone"]
  /\ UNCHANGED <<disk, reqVars, loaded, serving, runners>>

(* The developer saves a file.  A save of the same size, in the clock tick *)
(* of the one before it or with an mtime set by hand, cannot be seen.      *)
Edit(f) ==
  /\ code[f] < MaxVersion
  /\ code' = [code EXCEPT ![f] = @ + 1]
  /\ stamp' \in {stamp, [stamp EXCEPT ![f] = code'[f]]}
  /\ UNCHANGED <<reqVars, contVars, runners, reservation>>

-----------------------------------------------------------------------------
(* The steps of a request that its goroutine takes without waiting for a   *)
(* mutex or for the container.                                             *)
GetStep(r) ==
  \/ \E f \in Files : HashFile(r, f)
  \/ Load(r)
  \/ Reuse(r) \/ Outdated(r) \/ NotRunning(r)
  \/ Reserve(r) \/ ReservationRefused(r)
  \/ Launch(r) \/ LaunchFailed(r)
  \/ Store(r)

Started(r) == Handshake(r) \/ HandshakeFailed(r)

Request(r) ==
  \/ \E k \in Asked : Arrive(r, k)
  \/ GetStep(r) \/ CloseOld(r) \/ Started(r)
  \/ Begin(r) \/ Respond(r) \/ Reply(r) \/ InvokeFailed(r)

Container(c) ==
  (\E f \in Files : LoadFile(c, f)) \/ Crash(c) \/ Reap(c) \/ Watch(c)

(* All requests are answered: the server idles.                            *)
Idle ==
  /\ \A r \in Requests : pc[r] \in Finished
  /\ UNCHANGED vars

Next ==
  \/ \E r \in Requests : Request(r) \/ Container(r)
  \/ \E f \in Files : Edit(f)
  \/ Idle

Spec == Init /\ [][Next]_vars

(* What the Go scheduler gives: a goroutine that can go on does, and one   *)
(* that waits for a mutex gets it if it is free again and again (since Go  *)
(* 1.9 a starving waiter is handed the mutex).  A call on a dead process   *)
(* fails, the kernel having closed its pipes and its port, and the kernel  *)
(* reports the dead.                                                       *)
ServerFairness ==
  \A r \in Requests :
    /\ WF_vars(GetStep(r))
    /\ SF_vars(CloseOld(r)) /\ SF_vars(Begin(r))
    /\ WF_vars(Reply(r))
    /\ WF_vars(InvokeFailed(r) /\ proc[runner[r]] # "up")
    /\ WF_vars(Reap(r)) /\ WF_vars(Watch(r))

(* What the code does not enforce, having no timeout: a starting container *)
(* answers or dies, and the user's function terminates.                    *)
ContainersRespond ==
  \A r \in Requests :
    /\ WF_vars(Started(r))
    /\ WF_vars(Respond(r))
    /\ \A f \in Files : WF_vars(LoadFile(r, f))

LiveSpec == Spec /\ ServerFairness /\ ContainersRespond

-----------------------------------------------------------------------------
Version == 0 .. MaxVersion

TypeOK ==
  /\ {code, stamp} \subseteq [Files -> 1 .. MaxVersion]
  /\ pc \in [Requests -> {"idle", "invoke"} \cup InGet \cup InCall \cup Finished]
  /\ want \in [Requests -> Key]
  /\ arrival \in [Requests -> [Files -> 1 .. MaxVersion]]
  /\ key \in [Requests -> Key]
  /\ hash \in [Requests -> [Files -> Version]]
  /\ runner \in [Requests -> Requests \cup {Nobody}]
  /\ proc \in [Requests -> {"none", "starting", "up", "done", "gone"} \cup Dead \cup LeftBehind]
  /\ loaded \in [Requests -> [Files -> Version]]
  /\ serving \in [Requests -> Requests \cup {Nobody}]
  /\ runners \in [Key -> Requests \cup {Nobody}]
  /\ reservation \in [Resources -> Requests \cup {Nobody}]

(* A request is executed by code at least as new, file by file, as the     *)
(* last save before its arrival that changed the file's size, mode or      *)
(* mtime, however edits fall between the walk of hashDir, the lookup, the  *)
(* start of a container and its loading of code (run.Get: runners are      *)
(* reused "as long as they have ... same code").  The exception is a save  *)
(* that hashDir cannot see: a running container keeps the code before it.  *)
FreshCode ==
  \A r \in Requests : pc[r] = "replied" =>
    \A f \in CodeOf[want[r].def] : loaded[runner[r]][f] >= arrival[r][f]

(* Whatever Get hands out was started for the same definition and under    *)
(* the same debugger, and hashed to the same code; only a request whose    *)
(* reservation was refused is given a runner without its debugger.         *)
RunnerMatches ==
  \A r \in Requests : pc[r] \in {"invoke", "replied"} \cup InCall =>
    /\ key[runner[r]] = key[r]
    /\ hash[runner[r]] = hash[r]
    /\ key[r] \in {want[r], Plain(want[r])}

(* A container that still owns the debugger resource it was given: its     *)
(* start has not failed and its death was not noticed.                     *)
Debugged(c) ==
  /\ key[c].debugger # NoDebugger
  /\ proc[c] \in {"starting", "up", "done"} \cup Dead

(* A container that lives, as far as the server knows, with a resource:    *)
(* those included whose start failed, which gave the reservation back      *)
(* before the process was dead.                                            *)
Occupies(c, res) ==
  /\ Wants(c, res)
  /\ Debugged(c) \/ proc[c] \in LeftBehind

(* What a failed start left behind, and no request is ever handed.         *)
Abandoned(c) ==
  /\ proc[c] \in LeftBehind
  /\ \A k \in Key : runners[k] # c
  /\ \A r \in Requests : runner[r] # c

(* Of the containers that live with one debugger resource (a port, a       *)
(* connection to the desktop), at most one can have requests: the owner in *)
(* debuggerReservations outlasts its process.  The others were left behind *)
(* by failed starts; a process of theirs may still hold the port (the      *)
(* killed one until it is dead, node's for as long as it lives).           *)
DebuggerExclusive ==
  \A c, d \in Requests : \A res \in Resources :
    Occupies(c, res) /\ Occupies(d, res) => c = d \/ Abandoned(c) \/ Abandoned(d)

(* A reservation always has somebody left who will release it: a Get that  *)
(* is still starting the container, or the watcher of a process that runs  *)
(* or has died; no error exit of Get leaves one behind.                    *)
ReservationAccounted ==
  \A res \in Resources : \A c \in Requests :
    reservation[res] = c => Wants(c, res) /\ (pc[c] = "launch" \/ Debugged(c))

(* A request that a live container is processing is never cut off by       *)
(* another one that finds the container's code outdated (jproc.go, Close:  *)
(* "prevent from killing a process in the middle of precessing a request").*)
NotCutOff ==
  [][\A r \in Requests :
       pc[r] \in InCall /\ proc[runner[r]] = "up" => proc'[runner[r]] # "killed"]_vars

(* Every request that arrived is answered, one way or the other.           *)
Answered ==
  \A r \in Requests : pc[r] = "hash" ~> pc[r] \in Finished

(* The debugger of a container that died is given back.                    *)
DebuggerReleased ==
  \A c \in Requests : proc[c] \in Dead ~> \A res \in Resources : reservation[res] # c

-----------------------------------------------------------------------------
(* What comments say of the code, and it does not do.                      *)

(* run.go, Get: "if reservation != nil" - a request without a reservation  *)
(* is expected, and the start of its container may fail: an error, no      *)
(* panic in the handler's goroutine.                                       *)
StartErrorReturned == \A r \in Requests : pc[r] # "panicked"

================================================================================
