------------------------------ MODULE JsonProcess ------------------------------
(***************************************************************************)
(* A container that talks JSON over stdin and stdout: util/jproc, the      *)
(* stdiocont of mlessd/runtime on top of it, and the python mock runtime   *)
(* (runtime-mock.py) at the other end of the pipes.  newStdiocont's        *)
(* startup exchange, concurrent Invoke and Close calls, the goroutine that *)
(* waits for the process, and the worker are all actors of their own.      *)
(***************************************************************************)
EXTENDS Naturals, Sequences

CONSTANTS
  Calls,     \* the calls of Invoke, one goroutine each
  Closers,   \* the calls of Close by a Get that found the code outdated
  Starter,   \* newStdiocont, which makes the startup exchange
  Nobody,    \* no goroutine: a free mutex, a reply cut short
  RequestId  \* the request id of each call; AWS may repeat one in a retry

Clients == Calls \cup Closers \cup {Starter}
Senders == Calls \cup {Starter}

ASSUME ProcessAssumption ==
  /\ Starter \notin Calls \cup Closers
  /\ Calls \cap Closers = {}
  /\ Nobody \notin Clients

VARIABLES
  pc,       \* where each goroutine is
  lock,     \* the mutex of the Process
  stdin,    \* what was written to the worker and not read: senders
  stdout,   \* what it wrote and was not decoded: replies
  got,      \* ghost: whose reply a call decoded
  proc,     \* the process: running, dead, waited for, then Done is closed
  status,   \* how it ended, known to the kernel
  err,      \* Process.err
  worker,   \* where the mock runtime is
  current,  \* the message it works on
  invoked,  \* _GLOBAL_INVOKED
  errored,  \* _GLOBAL_ERRORED
  outcome   \* ghost: what the function did with each call

goVars     == <<pc, lock, got>>
pipes      == <<stdin, stdout>>
osVars     == <<proc, status, err>>
workerVars == <<worker, current, invoked, errored, outcome>>
vars       == <<goVars, pipes, osVars, workerVars>>

-----------------------------------------------------------------------------
Waiting  == {"never", "lock"}
Sending  == {"encode", "decode"}
Returned == {"ok", "fault", "mismatch", "error"}

(* What a reply says: whom it is for, and its "errors" flag.  A process    *)
(* that dies while it writes leaves one that does not decode.              *)
Reply == [to : Clients \cup {Nobody}, errors : BOOLEAN]
Cut   == [to |-> Nobody, errors |-> FALSE]

Alive == proc = "running"

Init ==
  /\ \E callers \in {Calls, Calls \cup Closers} :
       pc = [g \in Clients |-> IF g \in callers \cup {Starter} THEN "lock" ELSE "never"]
  /\ lock = Nobody
  /\ stdin = <<>> /\ stdout = <<>>
  /\ got = [g \in Calls |-> Nobody]
  /\ proc = "running" /\ status = "none" /\ err = "none"
  /\ worker = "boot" /\ current = Nobody
  /\ invoked = FALSE /\ errored = FALSE
  /\ outcome = [g \in Calls |-> "none"]

-----------------------------------------------------------------------------
(* Mutant: nobody waits for the mutex.                                     *)
FreeAlways == TRUE

Free == lock = Nobody

(* Invoke and Close are called, at any time, on a container that started.  *)
Lock(g) ==
  /\ pc[g] = "lock"
  /\ g # Starter => pc[Starter] = "up"
  /\ Free
  /\ lock' = g
  /\ pc' = [pc EXCEPT ![g] = IF g \in Senders THEN "encode" ELSE "kill"]
  /\ UNCHANGED <<got, pipes, osVars, workerVars>>

(* The return of Send to its caller: the deferred Unlock.  newStdiocont    *)
(* closes the process unless the startup reply says ok.                    *)
Leave(g, how) ==
  /\ lock' = Nobody
  /\ pc' = [pc EXCEPT ![g] = IF g # Starter THEN how
                             ELSE IF how = "ok" THEN "up" ELSE "closing"]

(* The request is written to the pipe, or the reader of the pipe is gone.  *)
Encode(g) ==
  /\ pc[g] = "encode"
  /\ Alive
  /\ stdin' = Append(stdin, g)
  /\ pc' = [pc EXCEPT ![g] = "decode"]
  /\ UNCHANGED <<lock, got, stdout, osVars, workerVars>>

(* Mutant: a request that cannot be written is tried again.                *)
EncodeRetried(g) ==
  /\ pc[g] = "encode" /\ ~Alive
  /\ Leave(g, "lock")
  /\ UNCHANGED <<got, pipes, osVars, workerVars>>

EncodeFailed(g) ==
  /\ pc[g] = "encode"
  /\ ~Alive
  /\ Leave(g, "error")
  /\ UNCHANGED <<got, pipes, osVars, workerVars>>

(* processReply: the ids must agree; the errors flag makes a runtimeError. *)
Verdict(g, reply) ==
  IF g = Starter THEN IF reply.to = Starter THEN "ok" ELSE "error"
  ELSE IF reply.to = Starter \/ RequestId[reply.to] # RequestId[g] THEN "mismatch"
  ELSE IF reply.errors THEN "fault" ELSE "ok"

(* The next reply in the pipe, which the process may have left behind, is  *)
(* taken as the answer.                                                    *)
Decode(g) ==
  /\ pc[g] = "decode"
  /\ stdout # <<>>
  /\ Head(stdout) # Cut
  /\ stdout' = Tail(stdout)
  /\ got' = IF g \in Calls THEN [got EXCEPT ![g] = Head(stdout).to] ELSE got
  /\ Leave(g, Verdict(g, Head(stdout)))
  /\ UNCHANGED <<stdin, osVars, workerVars>>

DecodeFailed(g) ==
  /\ pc[g] = "decode"
  /\ IF stdout = <<>> THEN ~Alive ELSE Head(stdout) = Cut
  /\ Leave(g, "error")
  /\ UNCHANGED <<got, pipes, osVars, workerVars>>

(* Process.Kill under the mutex; of a dead process it is an error only.    *)
Kill(c) ==
  /\ pc[c] = "kill"
  /\ lock' = Nobody
  /\ pc' = [pc EXCEPT ![c] = "closed"]
  /\ IF Alive THEN proc' = "dead" /\ status' = "killed" ELSE UNCHANGED <<proc, status>>
  /\ UNCHANGED <<got, pipes, err, workerVars>>

(* The Close of newStdiocont's error exits: nobody else has the Process.   *)
KillFailedStart ==
  /\ pc[Starter] = "closing"
  /\ lock = Nobody
  /\ pc' = [pc EXCEPT ![Starter] = "closed"]
  /\ IF Alive THEN proc' = "dead" /\ status' = "killed" ELSE UNCHANGED <<proc, status>>
  /\ UNCHANGED <<lock, got, pipes, err, workerVars>>

-----------------------------------------------------------------------------
(* Mutant: an exit status is an error even if it is success.               *)
StatusAsError == status

ExitError == IF status = "success" THEN "nil" ELSE status

(* Mutant: the channel is closed after a success only.                     *)
CloseDoneOnSuccess ==
  /\ proc = "waited" /\ status = "success"
  /\ proc' = "done"
  /\ UNCHANGED <<goVars, pipes, status, err, workerVars>>

(* The goroutine in start: Wait returns, err is set, the channel is closed.*)
Waited ==
  /\ proc = "dead"
  /\ err' = ExitError
  /\ proc' = "waited"
  /\ UNCHANGED <<goVars, pipes, status, workerVars>>

CloseDone ==
  /\ proc = "waited"
  /\ proc' = "done"
  /\ UNCHANGED <<goVars, pipes, status, err, workerVars>>

(* The process exits by itself, with or without success, perhaps in the    *)
(* middle of a line on stdout.                                             *)
Exit ==
  /\ Alive
  /\ proc' = "dead"
  /\ status' \in {"success", "failed"}
  /\ stdout' \in {stdout} \cup (IF worker = "reporting" THEN {Append(stdout, Cut)} ELSE {})
  /\ UNCHANGED <<goVars, stdin, err, workerVars>>

-----------------------------------------------------------------------------
(* The worker.  receive_start and receive_invoke read one message.         *)
ReceiveStart ==
  /\ Alive /\ worker = "boot"
  /\ stdin # <<>>
  /\ current' = Head(stdin)
  /\ stdin' = Tail(stdin)
  /\ worker' = "starting"
  /\ UNCHANGED <<goVars, stdout, osVars, invoked, errored, outcome>>

ReportRunning ==
  /\ Alive /\ worker = "starting"
  /\ stdout' = Append(stdout, [to |-> current, errors |-> FALSE])
  /\ worker' = "init"
  /\ UNCHANGED <<goVars, stdin, osVars, current, invoked, errored, outcome>>

(* Mutants: a reply whether invoked or not; the flag survives.             *)
RepliesAlways == TRUE

Replies == invoked

ErroredSticky == errored

ErroredAfter == IF invoked THEN FALSE ELSE errored

(* report_done: writes a reply only if there was an invocation.            *)
Done(to) ==
  /\ stdout' = IF Replies THEN Append(stdout, [to |-> to, errors |-> errored]) ELSE stdout
  /\ errored' = ErroredAfter
  /\ worker' = "idle"

(* The bootstrap reports the end of its initialisation, too.               *)
InitDone ==
  /\ Alive /\ worker = "init"
  /\ Done(current)
  /\ UNCHANGED <<goVars, stdin, osVars, current, invoked, outcome>>

ReceiveInvoke ==
  /\ Alive /\ worker = "idle"
  /\ stdin # <<>>
  /\ current' = Head(stdin)
  /\ stdin' = Tail(stdin)
  /\ invoked' = TRUE
  /\ worker' = "busy"
  /\ UNCHANGED <<goVars, stdout, osVars, errored, outcome>>

(* The function returns, or raises and the bootstrap calls report_fault.   *)
FunctionReturns ==
  /\ Alive /\ worker = "busy"
  /\ worker' = "reporting"
  /\ outcome' = [outcome EXCEPT ![current] = "ok"]
  /\ UNCHANGED <<goVars, pipes, osVars, current, invoked, errored>>

ReportFault ==
  /\ Alive /\ worker = "busy"
  /\ worker' = "reporting"
  /\ errored' = TRUE
  /\ outcome' = [outcome EXCEPT ![current] = "fault"]
  /\ UNCHANGED <<goVars, pipes, osVars, current, invoked>>

ReportDone ==
  /\ Alive /\ worker = "reporting"
  /\ Done(current)
  /\ UNCHANGED <<goVars, stdin, osVars, current, invoked, outcome>>

-----------------------------------------------------------------------------
Client(g) ==
  Lock(g) \/ Encode(g) \/ EncodeFailed(g) \/ Decode(g) \/ DecodeFailed(g) \/ Kill(g)

Host == KillFailedStart \/ Waited \/ CloseDone

Start    == ReceiveStart \/ ReportRunning \/ InitDone
Function == FunctionReturns \/ ReportFault
Worker   == Start \/ ReceiveInvoke \/ Function \/ ReportDone

(* Everybody has returned, or was never called for want of a container.    *)
Idle ==
  /\ \A g \in Clients : \/ pc[g] \in Returned \cup {"never", "up", "closed"}
                        \/ pc[g] = "lock" /\ pc[Starter] = "closed"
  /\ UNCHANGED vars

Next == (\E g \in Clients : Client(g)) \/ Host \/ Exit \/ Worker \/ Idle

Spec == Init /\ [][Next]_vars

(* The Go side: goroutines go on, a waiter for the mutex is handed it (Go  *)
(* 1.9 and later).                                                         *)
HostFairness ==
  /\ WF_vars(Host)
  /\ \A g \in Clients :
       /\ SF_vars(Lock(g))
       /\ WF_vars(Encode(g) \/ EncodeFailed(g) \/ Decode(g) \/ DecodeFailed(g) \/ Kill(g))

(* The runtime around the function, a loop without waits of its own.       *)
RuntimeFairness == WF_vars(Start) /\ WF_vars(ReceiveInvoke) /\ WF_vars(ReportDone)

(* No timeout in the code ends a function that hangs, or a debugger that   *)
(* holds it: that it terminates is assumed of the user.                    *)
FunctionTerminates == WF_vars(Function)

LiveSpec == Spec /\ HostFairness /\ RuntimeFairness /\ FunctionTerminates

-----------------------------------------------------------------------------
TypeOK ==
  /\ pc \in [Clients -> Waiting \cup Sending \cup Returned \cup {"kill", "closing", "closed", "up"}]
  /\ lock \in Clients \cup {Nobody}
  /\ stdin \in Seq(Senders)
  /\ stdout \in Seq(Reply)
  /\ got \in [Calls -> Clients \cup {Nobody}]
  /\ proc \in {"running", "dead", "waited", "done"}
  /\ status \in {"none", "killed", "failed", "success"}
  /\ err \in {"none", "nil", "killed", "failed"}
  /\ worker \in {"boot", "starting", "init", "idle", "busy", "reporting"}
  /\ current \in Senders \cup {Nobody}
  /\ invoked \in BOOLEAN /\ errored \in BOOLEAN
  /\ outcome \in [Calls -> {"none", "ok", "fault"}]

(* The streams never get out of step: every call that returns an answer    *)
(* decoded its own, even when two calls carry one request id, and the      *)
(* mismatch that processReply tests for does not happen.                   *)
OwnReply ==
  \A g \in Calls :
    /\ pc[g] \in {"ok", "fault"} => got[g] = g
    /\ pc[g] # "mismatch"

(* An invocation is reported as failed if and only if the function failed  *)
(* in that very invocation: _GLOBAL_ERRORED does not leak into the next.   *)
FaultAttribution ==
  \A g \in Calls : pc[g] \in {"ok", "fault"} => pc[g] = outcome[g]

(* Close never kills the process in the middle of an exchange (jproc.go:   *)
(* "prevent from killing a process in the middle of precessing a request").*)
KillsBetween ==
  [][\A g \in Senders : status' = "killed" /\ status # "killed" => pc[g] \notin Sending]_vars

(* Every call of Invoke returns, even if it was waiting for the mutex when *)
(* the process died or was killed.                                         *)
CallReturns == pc[Starter] = "up" ~> \A g \in Calls : pc[g] \in Returned

(* Every Close ends, and the Done channel is closed for those who wait for *)
(* the process: Get's goroutine, which holds the debugger reservation.     *)
CloseEnds ==
  pc[Starter] = "up" /\ (\E c \in Closers : pc[c] = "lock")
    ~> proc = "done" /\ \A c \in Closers : pc[c] = "closed"

-----------------------------------------------------------------------------
(* How the container ended, by a Close or by itself.                       *)
Fate == IF Alive THEN "up" ELSE IF status = "killed" THEN "closed" ELSE "dead"

(* The container as its users see it.                                      *)
container == INSTANCE Invoker WITH
  state <- [g \in Calls |-> IF pc[g] \in Waiting THEN "ready"
                            ELSE IF pc[g] \in Sending THEN "serving"
                            ELSE IF pc[g] = "mismatch" THEN "error" ELSE pc[g]],
  fate <- Fate,
  MayRefuse <- FALSE

(* It serializes the calls, runs each once, answers each with what its own *)
(* run did, fails a call only when the process is dead, and is closed only *)
(* between two calls.                                                      *)
ImplementsInvoker == container!Spec
================================================================================
