----------------------------- MODULE NodeContainer -----------------------------
(***************************************************************************)
(* The nodejs container: mlessd/runtime/nodecont.go, and the mock runtime  *)
(* (awslambda-mock.js) in the container.  A request goes to a listener     *)
(* that serves one request and is then closed until it is armed again; its *)
(* empty http reply comes at once, the function's on stdout.  The function *)
(* does not end while the node event loop holds the http connection.       *)
(***************************************************************************)
EXTENDS Naturals, Sequences

CONSTANTS
  Calls,     \* the calls of Invoke, one goroutine each
  Closers,   \* the calls of Close
  Starter,   \* newNodeCont
  Nobody,    \* no goroutine
  Chatty,    \* the calls whose function may write on stdout itself
  RequestId  \* the request id of each call; AWS may repeat one in a retry

Clients == Calls \cup Closers \cup {Starter}

ASSUME NodeAssumption ==
  /\ Starter \notin Calls \cup Closers
  /\ Calls \cap Closers = {}
  /\ Nobody \notin Clients
  /\ Chatty \subseteq Calls

VARIABLES
  chatty,  \* those whose function does, which never changes
  pc,      \* where each goroutine is
  lock,    \* nodecont.lock
  got,     \* ghost: whose reply a call decoded
  conn,    \* the http connection: none, open, replied to, idle in the pool
  wire,    \* the request on it that node has not received
  stdout,  \* what node wrote and was not decoded
  proc,    \* the process: running, dead, waited for, then Done is closed
  status,  \* how it ended, known to the kernel
  err,     \* nodecont.err
  worker,  \* where the mock runtime is
  armed,   \* InvokeServer.server listens
  msg,     \* InvokeServer.msg: received before wait was called
  current, \* the request it works on
  invoked, \* the mock's invoked
  outcome  \* ghost: what the function did with each call

goVars     == <<pc, lock, got>>
http       == <<conn, wire>>
osVars     == <<chatty, proc, status, err>>
server     == <<armed, msg>>
workerVars == <<worker, current, invoked, outcome>>
nodeVars   == <<server, workerVars>>
vars       == <<goVars, http, stdout, osVars, nodeVars>>

-----------------------------------------------------------------------------
Waiting  == {"never", "lock"}
Serving  == {"dial", "post", "decode"}
Returned == {"ok", "fault", "mismatch", "error"}

(* What is on stdout: replies, an object that is none, or a text that does *)
(* not decode - the decoder is stuck on it for good.                       *)
Reply == [to : Calls \cup {Starter, Nobody}, errors : BOOLEAN]
Stray == [to |-> Nobody, errors |-> FALSE]
Junk  == [to |-> Nobody, errors |-> TRUE]

Alive == proc = "running"

Init ==
  /\ chatty \in SUBSET Chatty
  /\ \E callers \in {Calls, Calls \cup Closers} :
       pc = [g \in Clients |-> IF g = Starter THEN "decode"
                               ELSE IF g \in callers THEN "lock" ELSE "never"]
  /\ lock = Nobody
  /\ got = [g \in Calls |-> Nobody]
  /\ conn = "none" /\ wire = Nobody
  /\ stdout = <<>>
  /\ proc = "running" /\ status = "none" /\ err = "none"
  /\ worker = "boot" /\ armed = FALSE /\ msg = Nobody
  /\ current = Nobody /\ invoked = FALSE
  /\ outcome = [g \in Calls |-> "none"]

-----------------------------------------------------------------------------
(* Mutant: nobody waits for the mutex.                                     *)
FreeAlways == TRUE

Free == lock = Nobody

(* Invoke and Close are called, at any time, on a container that started.  *)
Lock(g) ==
  /\ pc[g] = "lock"
  /\ pc[Starter] = "up"
  /\ Free
  /\ lock' = g
  /\ pc' = [pc EXCEPT ![g] = IF g \in Calls THEN "dial" ELSE "kill"]
  /\ UNCHANGED <<got, http, stdout, osVars, nodeVars>>

(* Mutant: the idle connection is left in the pool.                        *)
PoolAsIs == IF conn = "idle" THEN "idle" ELSE "none"

EmptyPool == "none"

(* The deferred calls of Invoke: CloseIdleConnections, then Unlock.        *)
Leave(g, how) ==
  /\ lock' = Nobody
  /\ pc' = [pc EXCEPT ![g] = how]
  /\ wire' = Nobody
  /\ conn' = EmptyPool

(* client.Post connects if somebody listens.                               *)
Dial(g) ==
  /\ pc[g] = "dial"
  /\ Alive /\ armed
  /\ conn' = "open" /\ wire' = g
  /\ pc' = [pc EXCEPT ![g] = "post"]
  /\ UNCHANGED <<lock, got, stdout, osVars, nodeVars>>

Refused(g) ==
  /\ pc[g] = "dial"
  /\ ~(Alive /\ armed)
  /\ Leave(g, "error")
  /\ UNCHANGED <<got, stdout, osVars, nodeVars>>

(* The empty reply: the connection goes back to the pool of transport.     *)
(* The connections Invoke closes next are those of http.DefaultTransport.  *)
Posted(g) ==
  /\ pc[g] = "post"
  /\ conn = "replied"
  /\ conn' = "idle"
  /\ pc' = [pc EXCEPT ![g] = "decode"]
  /\ UNCHANGED <<lock, got, wire, stdout, osVars, nodeVars>>

PostFailed(g) ==
  /\ pc[g] = "post"
  /\ ~Alive
  /\ Leave(g, "error")
  /\ UNCHANGED <<got, stdout, osVars, nodeVars>>

(* Mutant: idle connections have no timeout.                               *)
IdleTimeoutNever == FALSE

(* IdleConnTimeout closes it.                                              *)
IdleTimeout ==
  /\ conn = "idle"
  /\ conn' = "none"
  /\ UNCHANGED <<goVars, wire, stdout, osVars, nodeVars>>

(* processReply: the ids must agree; the errors flag makes a runtimeError. *)
Verdict(g, reply) ==
  IF reply.to \notin Calls \/ RequestId[reply.to] # RequestId[g] THEN "mismatch"
  ELSE IF reply.errors THEN "fault" ELSE "ok"

Decode(g) ==
  /\ pc[g] = "decode" /\ g # Starter
  /\ stdout # <<>> /\ Head(stdout) # Junk
  /\ stdout' = Tail(stdout)
  /\ got' = [got EXCEPT ![g] = Head(stdout).to]
  /\ Leave(g, Verdict(g, Head(stdout)))
  /\ UNCHANGED <<osVars, nodeVars>>

DecodeFailed(g) ==
  /\ pc[g] = "decode" /\ g # Starter
  /\ IF stdout = <<>> THEN ~Alive ELSE Head(stdout) = Junk
  /\ Leave(g, "error")
  /\ UNCHANGED <<got, stdout, osVars, nodeVars>>

(* Process.Kill under the mutex; of a dead process it is an error only.    *)
Kill(c) ==
  /\ pc[c] = "kill"
  /\ lock' = Nobody
  /\ pc' = [pc EXCEPT ![c] = "closed"]
  /\ IF Alive THEN proc' = "dead" /\ status' = "killed" ELSE UNCHANGED <<proc, status>>
  /\ UNCHANGED <<chatty, got, http, stdout, err, nodeVars>>

-----------------------------------------------------------------------------
(* newNodeCont waits for the acknowledgement.  If it does not come, the    *)
(* process is not killed and nobody waits for it.                          *)
Started ==
  /\ pc[Starter] = "decode"
  /\ stdout # <<>> /\ Head(stdout) # Junk
  /\ stdout' = Tail(stdout)
  /\ pc' = [pc EXCEPT ![Starter] = "up"]
  /\ UNCHANGED <<lock, got, http, osVars, nodeVars>>

StartFailed ==
  /\ pc[Starter] = "decode"
  /\ IF stdout = <<>> THEN ~Alive ELSE Head(stdout) = Junk
  /\ pc' = [pc EXCEPT ![Starter] = "failed"]
  /\ UNCHANGED <<lock, got, http, stdout, osVars, nodeVars>>

(* Mutant: an exit status is an error even if it is success.               *)
StatusAsError == status

ExitError == IF status = "success" THEN "nil" ELSE status

(* Mutant: the channel is closed after a success only.                     *)
CloseDoneOnSuccess ==
  /\ proc = "waited" /\ status = "success"
  /\ proc' = "done"
  /\ UNCHANGED <<chatty, goVars, http, stdout, status, err, nodeVars>>

(* waiter: Wait returns, err is set, the channel is closed.                *)
Waited ==
  /\ proc = "dead"
  /\ pc[Starter] = "up"
  /\ err' = ExitError
  /\ proc' = "waited"
  /\ UNCHANGED <<chatty, goVars, http, stdout, status, nodeVars>>

CloseDone ==
  /\ proc = "waited"
  /\ proc' = "done"
  /\ UNCHANGED <<chatty, goVars, http, stdout, status, err, nodeVars>>

(* The process exits by itself, perhaps in the middle of a write to stdout.*)
Exit ==
  /\ Alive
  /\ proc' = "dead"
  /\ status' \in {"success", "failed"}
  /\ stdout' \in {stdout} \cup
       (IF worker \in {"boot", "reporting"} THEN {Append(stdout, Junk)} ELSE {})
  /\ conn' = IF conn = "idle" THEN "none" ELSE conn
  /\ UNCHANGED <<chatty, goVars, wire, err, nodeVars>>

-----------------------------------------------------------------------------
(* The mock is loaded: the server is started, then initRuntime writes OK.  *)
Boot ==
  /\ Alive /\ worker = "boot"
  /\ armed' = TRUE
  /\ stdout' = Append(stdout, [to |-> Starter, errors |-> FALSE])
  /\ worker' = "init"
  /\ UNCHANGED <<goVars, http, osVars, msg, current, invoked, outcome>>

(* Mutant: a request that comes before wait is not kept.                   *)
KeepNothing == Nobody

Kept == wire

(* _recieve: replies, closes the server, and calls the function if         *)
(* waitForInvoke is there for it, or else keeps the message.               *)
Receive ==
  /\ Alive /\ wire # Nobody
  /\ armed' = FALSE
  /\ conn' = "replied" /\ wire' = Nobody
  /\ IF worker = "listening"
     THEN worker' = "busy" /\ current' = wire /\ invoked' = TRUE /\ UNCHANGED msg
     ELSE msg' = Kept /\ UNCHANGED <<worker, current, invoked>>
  /\ UNCHANGED <<goVars, stdout, osVars, outcome>>

(* waitForInvoke, which the bootstrap calls when it is ready.              *)
WaitForInvoke ==
  /\ Alive /\ worker = "ready"
  /\ IF msg = Nobody
     THEN worker' = "listening" /\ UNCHANGED <<msg, current, invoked>>
     ELSE worker' = "busy" /\ current' = msg /\ invoked' = TRUE /\ msg' = Nobody
  /\ UNCHANGED <<goVars, http, stdout, osVars, armed, outcome>>

(* The function calls back, having perhaps written on stdout.              *)
FunctionReturns ==
  /\ Alive /\ worker = "busy"
  /\ \E o \in {"ok", "fault"} : outcome' = [outcome EXCEPT ![current] = o]
  /\ stdout' \in {stdout} \cup
       (IF current \in chatty THEN {Append(stdout, Stray), Append(stdout, Junk)} ELSE {})
  /\ worker' = "ending"
  /\ UNCHANGED <<goVars, http, osVars, server, current, invoked>>

(* It throws at once: reportDone is called by waitForInvoke.               *)
FunctionThrows ==
  /\ Alive /\ worker = "busy"
  /\ outcome' = [outcome EXCEPT ![current] = "fault"]
  /\ worker' = "reporting"
  /\ UNCHANGED <<goVars, http, stdout, osVars, server, current, invoked>>

(* The event loop is empty: the bootstrap calls reportDone.                *)
FunctionEnds ==
  /\ Alive /\ worker = "ending"
  /\ conn = "none"
  /\ worker' = "reporting"
  /\ UNCHANGED <<goVars, http, stdout, osVars, server, current, invoked, outcome>>

(* Mutant: reportDone does not look at invoked.                            *)
ReportsAlways == TRUE

Reports == invoked

(* reportDone: the reply first; the server is armed again after it.  The   *)
(* bootstrap reports the end of its initialisation, too.                   *)
ReportDone ==
  /\ Alive /\ worker \in {"init", "reporting"}
  /\ stdout' = IF ~Reports THEN stdout
               ELSE Append(stdout, [to     |-> current,
                                    errors |-> current # Nobody /\ outcome[current] = "fault"])
  /\ worker' = IF Reports THEN "rearm" ELSE "ready"
  /\ UNCHANGED <<goVars, http, osVars, server, current, invoked, outcome>>

Rearm ==
  /\ Alive /\ worker = "rearm"
  /\ armed' = TRUE
  /\ worker' = "ready"
  /\ UNCHANGED <<goVars, http, stdout, osVars, msg, current, invoked, outcome>>

-----------------------------------------------------------------------------
Invoke(g) ==
  Dial(g) \/ Refused(g) \/ Posted(g) \/ PostFailed(g) \/ Decode(g) \/ DecodeFailed(g)

Host == Started \/ StartFailed \/ Waited \/ CloseDone

Function == FunctionReturns \/ FunctionThrows
Runtime  == Boot \/ Receive \/ WaitForInvoke \/ FunctionEnds \/ ReportDone \/ Rearm

(* Everybody has returned, or was never called for want of a container.    *)
Quiet ==
  /\ conn = "none"
  /\ \A g \in Clients : \/ pc[g] \in Returned \cup {"never", "up", "failed", "closed"}
                        \/ pc[g] = "lock" /\ pc[Starter] = "failed"
  /\ UNCHANGED vars

Next ==
  \/ \E g \in Calls : Invoke(g)
  \/ \E g \in Calls \cup Closers : Lock(g)
  \/ \E c \in Closers : Kill(c)
  \/ Host \/ IdleTimeout \/ Exit \/ Function \/ Runtime \/ Quiet

Spec == Init /\ [][Next]_vars

(* The Go side: goroutines go on, a waiter for the mutex is handed it (Go  *)
(* 1.9 and later), and the transport's timer goes off.                     *)
HostFairness ==
  /\ WF_vars(Host) /\ WF_vars(IdleTimeout)
  /\ \A g \in Calls : SF_vars(Lock(g)) /\ WF_vars(Invoke(g))
  /\ \A c \in Closers : SF_vars(Lock(c)) /\ WF_vars(Kill(c))

(* Node runs its callbacks; that the function calls back is assumed of the *)
(* user, since no timeout of the code ends it.                             *)
LiveSpec == Spec /\ HostFairness /\ WF_vars(Runtime) /\ WF_vars(Function)

-----------------------------------------------------------------------------
TypeOK ==
  /\ chatty \subseteq Chatty
  /\ pc \in [Clients -> Waiting \cup Serving \cup Returned \cup {"kill", "closed", "up", "failed"}]
  /\ lock \in Clients \cup {Nobody}
  /\ got \in [Calls -> Calls \cup {Starter, Nobody}]
  /\ conn \in {"none", "open", "replied", "idle"}
  /\ wire \in Calls \cup {Nobody}
  /\ stdout \in Seq(Reply)
  /\ proc \in {"running", "dead", "waited", "done"}
  /\ status \in {"none", "killed", "failed", "success"}
  /\ err \in {"none", "nil", "killed", "failed"}
  /\ worker \in {"boot", "init", "ready", "listening", "busy", "ending", "reporting", "rearm"}
  /\ armed \in BOOLEAN
  /\ msg \in Calls \cup {Nobody}
  /\ current \in Calls \cup {Nobody}
  /\ invoked \in BOOLEAN
  /\ outcome \in [Calls -> {"none", "ok", "fault"}]

(* A call that returns an answer returns what the function did with its    *)
(* own event, or with an earlier attempt of AWS at it, whatever functions  *)
(* write on stdout; if they write nothing there, it is its own attempt,    *)
(* and no call sees a reply that is not its own.                           *)
OwnReply ==
  \A g \in Calls :
    /\ pc[g] \in {"ok", "fault"} =>
         /\ RequestId[got[g]] = RequestId[g]
         /\ pc[g] = outcome[got[g]]
    /\ chatty = {} => pc[g] # "mismatch" /\ got[g] \in {g, Nobody}

(* The mock's own assertions hold: waitForInvoke finds the server armed or *)
(* a message kept ("not listening"), and it is not armed twice ("already   *)
(* started").                                                              *)
ServerProtocol ==
  /\ worker = "ready" => armed \/ msg # Nobody
  /\ worker = "rearm" => ~armed

(* No request goes over the connection of an earlier one, whose server is  *)
(* closed: the pool is empty when a call has the mutex.                    *)
NoReuse == \A g \in Calls : pc[g] = "dial" => conn = "none"

(* Close never kills the process in the middle of an exchange.             *)
KillsBetween ==
  [][\A g \in Calls : status' = "killed" /\ status # "killed" => pc[g] \notin Serving]_vars

(* Every call of Invoke returns: not the process's death, nor a decoder    *)
(* stuck on what a function wrote, nor the circle of the function waiting  *)
(* for the connection to be closed and Invoke for the function stops it.   *)
CallReturns == pc[Starter] = "up" ~> \A g \in Calls : pc[g] \in Returned

(* Every Close ends, and those who wait for the process are told.          *)
CloseEnds ==
  pc[Starter] = "up" /\ (\E c \in Closers : pc[c] = "lock")
    ~> proc = "done" /\ \A c \in Closers : pc[c] = "closed"

-----------------------------------------------------------------------------
(* How the container ended, by a Close or by itself.                       *)
Fate == IF Alive THEN "up" ELSE IF status = "killed" THEN "closed" ELSE "dead"

(* The container as its users see it.                                      *)
container == INSTANCE Invoker WITH
  state <- [g \in Calls |-> IF pc[g] \in Waiting THEN "ready"
                            ELSE IF pc[g] \in Serving THEN "serving"
                            ELSE IF pc[g] = "mismatch" THEN "error" ELSE pc[g]],
  fate <- Fate,
  MayRefuse <- TRUE

(* It serializes the calls, runs each at most once and answers each with   *)
(* what its own run did; a call that fails while the container is up has   *)
(* not been run, and a Close waits for the call being served.  All this if *)
(* functions leave stdout to the replies.                                  *)
ImplementsInvoker ==
  container!Init /\ [][chatty = {} => container!Next]_(container!vars)
================================================================================
