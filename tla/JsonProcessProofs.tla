--------------------------- MODULE JsonProcessProofs ---------------------------
(***************************************************************************)
(* What TLAPS proves of JsonProcess, for any number of calls and closers   *)
(* and any request ids: at most one exchange is in the pipes, the one of   *)
(* the goroutine that holds the mutex, and so the container implements     *)
(* Invoker.                                                                *)
(***************************************************************************)
EXTENDS JsonProcess, TLAPS

USE ProcessAssumption

LEMMA Pipes ==
  ASSUME NEW S, NEW x \in S, NEW s \in Seq(S)
  PROVE  /\ <<>> \in Seq(S) /\ <<x>> \in Seq(S) /\ Append(s, x) \in Seq(S)
         /\ Append(<<>>, x) = <<x>> /\ Head(<<x>>) = x /\ Tail(<<x>>) = <<>> /\ <<x>> # <<>>
         /\ s # <<>> => Head(s) \in S /\ Tail(s) \in Seq(S)
OBVIOUS

-----------------------------------------------------------------------------
LEMMA TypeInit == Init => TypeOK
<1> SUFFICES ASSUME Init PROVE TypeOK
  OBVIOUS
<1>1. PICK callers \in {Calls, Calls \cup Closers} :
        pc = [g \in Clients |-> IF g \in callers \cup {Starter} THEN "lock" ELSE "never"]
  BY DEF Init
<1>2. pc \in [Clients -> Waiting]
  BY <1>1 DEF Waiting
<1>3. stdin \in Seq(Senders) /\ stdout \in Seq(Reply)
  BY DEF Init
<1>4. invoked \in BOOLEAN /\ errored \in BOOLEAN
  BY DEF Init
<1> QED
  BY <1>2, <1>3, <1>4 DEF Init, TypeOK

(* Whoever sends or kills holds the mutex, and it is a sender or a closer. *)
LockInv ==
  \A g \in Clients :
    /\ pc[g] \in Sending \cup {"kill"} => lock = g
    /\ pc[g] \in Sending => g \in Senders
    /\ pc[g] = "kill" => g \in Closers

LEMMA TypeStep == TypeOK /\ LockInv /\ [Next]_vars => TypeOK'
<1> SUFFICES ASSUME TypeOK, LockInv, [Next]_vars PROVE TypeOK'
  OBVIOUS
<1> USE DEF TypeOK, Clients, Senders, Sending, Returned, goVars, pipes, osVars, workerVars
<1>1. ASSUME NEW g \in Clients, Lock(g) \/ Kill(g) PROVE TypeOK'
  BY <1>1 DEF Lock, Kill
<1>2. ASSUME NEW g \in Clients, Encode(g) PROVE TypeOK'
  <2>1. g \in Senders /\ stdin' \in Seq(Senders)
    BY <1>2, Pipes DEF Encode, LockInv
  <2> QED
    BY <1>2, <2>1 DEF Encode
<1>3. ASSUME NEW g \in Clients, EncodeFailed(g) \/ DecodeFailed(g) PROVE TypeOK'
  BY <1>3 DEF EncodeFailed, DecodeFailed, Leave
<1>4. ASSUME NEW g \in Clients, Decode(g) PROVE TypeOK'
  <2>1. Head(stdout) \in Reply /\ stdout' \in Seq(Reply)
    BY <1>4, Pipes DEF Decode
  <2>2. Verdict(g, Head(stdout)) \in Returned
    BY DEF Verdict
  <2>3. pc' \in [Clients -> Waiting \cup Sending \cup Returned \cup {"kill", "closing", "closed", "up"}]
    BY <1>4, <2>2 DEF Decode, Leave
  <2>4. got' \in [Calls -> Clients \cup {Nobody}]
    BY <1>4, <2>1 DEF Decode, Reply
  <2> QED
    BY <1>4, <2>1, <2>3, <2>4 DEF Decode, Leave
<1>5. CASE KillFailedStart \/ Waited \/ CloseDone
  BY <1>5 DEF KillFailedStart, Waited, CloseDone, ExitError
<1>6. CASE Exit
  <2>1. Cut \in Reply /\ Append(stdout, Cut) \in Seq(Reply)
    <3>1. Cut \in Reply
      BY DEF Cut, Reply
    <3> QED
      BY <3>1, Pipes
  <2>2. stdout' \in Seq(Reply)
    BY <1>6, <2>1 DEF Exit
  <2> QED
    BY <1>6, <2>2 DEF Exit
<1>7. CASE ReceiveStart \/ ReceiveInvoke
  <2>1. Head(stdin) \in Senders /\ Tail(stdin) \in Seq(Senders)
    BY <1>7, Pipes DEF ReceiveStart, ReceiveInvoke
  <2> QED
    BY <1>7, <2>1 DEF ReceiveStart, ReceiveInvoke
<1>8. CASE ReportRunning
  <2>1. [to |-> current, errors |-> FALSE] \in Reply
    BY DEF Reply
  <2>2. stdout' \in Seq(Reply)
    BY <1>8, <2>1, Pipes DEF ReportRunning
  <2> QED
    BY <1>8, <2>2 DEF ReportRunning
<1>9. CASE InitDone \/ ReportDone
  <2>0. [to |-> current, errors |-> errored] \in Reply
    BY DEF Reply
  <2>1. Append(stdout, [to |-> current, errors |-> errored]) \in Seq(Reply)
    BY <2>0, Pipes
  <2>2. stdout' \in Seq(Reply)
    BY <1>9, <2>1 DEF InitDone, ReportDone, Done
  <2>3. errored' \in BOOLEAN
    BY <1>9 DEF InitDone, ReportDone, Done, ErroredAfter
  <2> QED
    BY <1>9, <2>2, <2>3 DEF InitDone, ReportDone, Done
<1>10. CASE Function
  BY <1>10 DEF Function, FunctionReturns, ReportFault
<1>11. CASE UNCHANGED vars
  BY <1>11 DEF vars
<1> QED
  BY <1>1, <1>2, <1>3, <1>4, <1>5, <1>6, <1>7, <1>8, <1>9, <1>10, <1>11
  DEF Next, Client, Host, Worker, Start, Idle

LEMMA LockStep == TypeOK /\ LockInv /\ [Next]_vars => LockInv'
<1> SUFFICES ASSUME TypeOK, LockInv, [Next]_vars PROVE LockInv'
  OBVIOUS
<1> USE DEF LockInv, TypeOK, Clients, Senders, Sending
<1>1. ASSUME NEW g \in Clients, Lock(g) PROVE LockInv'
  BY <1>1 DEF Lock, Free
<1>2. ASSUME NEW g \in Clients, Encode(g) \/ Kill(g) PROVE LockInv'
  BY <1>2 DEF Encode, Kill
<1>3. ASSUME NEW g \in Clients, NEW how \in Returned, Leave(g, how),
             pc[g] \in Sending
      PROVE LockInv'
  BY <1>3 DEF Leave, Returned
<1>4. ASSUME NEW g \in Clients, EncodeFailed(g) \/ DecodeFailed(g) PROVE LockInv'
  BY <1>3, <1>4 DEF EncodeFailed, DecodeFailed, Returned
<1>5. ASSUME NEW g \in Clients, Decode(g) PROVE LockInv'
  <2>1. Verdict(g, Head(stdout)) \in Returned
    BY DEF Verdict, Returned
  <2> QED
    BY <1>3, <1>5, <2>1 DEF Decode
<1>6. CASE KillFailedStart
  BY <1>6 DEF KillFailedStart
<1>7. CASE UNCHANGED goVars
  BY <1>7 DEF goVars
<1> QED
  BY <1>1, <1>2, <1>4, <1>5, <1>6, <1>7
  DEF Next, Client, Host, Waited, CloseDone, Exit, Worker, Start, Function, ReceiveStart,
      ReportRunning, InitDone, ReceiveInvoke, FunctionReturns, ReportFault, ReportDone, Idle, vars

(* The type invariant holds in every reachable state.                      *)
THEOREM TypeCorrect == Spec => []TypeOK
<1>1. Init => LockInv
  BY DEF Init, LockInv, Sending
<1> QED
  BY <1>1, TypeInit, TypeStep, LockStep, PTL DEF Spec

-----------------------------------------------------------------------------
(* The container is used when newStdiocont has returned it.                *)
StartInv ==
  /\ \A g \in Calls \cup Closers : pc[g] \notin Waiting => pc[Starter] = "up"
  /\ worker = "boot" => pc[Starter] # "up"
  /\ worker = "starting" => pc[Starter] # "up"
  /\ pc[Starter] \in {"lock", "encode"} => worker = "boot"

(* The mock's globals.                                                     *)
WorkerInv ==
  /\ worker \in {"boot", "starting", "init"} => ~invoked
  /\ worker \in {"busy", "reporting"} => invoked /\ current \in Calls
  /\ IF worker = "reporting" THEN outcome[current] = (IF errored THEN "fault" ELSE "ok")
     ELSE ~errored

Says(reply) == IF reply.errors THEN "fault" ELSE "ok"

(* The exchange of g: its request is in the pipe, it is worked on, its     *)
(* reply is in the pipe, or the reply was cut short.                       *)
Asking(g) ==
  /\ stdin = <<g>> /\ stdout = <<>>
  /\ worker \in IF g = Starter THEN {"boot"} ELSE {"init", "idle"}
  /\ g \in Calls => outcome[g] = "none"

Working(g) ==
  /\ stdin = <<>> /\ stdout = <<>> /\ current = g
  /\ worker \in IF g = Starter THEN {"starting"} ELSE {"busy", "reporting"}
  /\ worker = "busy" => outcome[g] = "none"

Answered(g) ==
  /\ stdin = <<>> /\ worker \in {"init", "idle"}
  /\ \E r \in Reply :
       /\ stdout = <<r>> /\ r.to = g
       /\ g \in Calls => outcome[g] = Says(r)

Broken == ~Alive /\ stdout = <<Cut>>

(* At most one exchange is in the pipes, and it is the one of the sender   *)
(* that waits for its reply: while nobody does, nothing is left in them.   *)
ExchangeInv ==
  /\ \A g \in Clients : pc[g] = "decode" => Asking(g) \/ Working(g) \/ Answered(g) \/ Broken
  /\ Alive /\ (\A g \in Clients : pc[g] # "decode") =>
       stdin = <<>> /\ stdout = <<>> /\ worker \in {"boot", "init", "idle"}

(* A function runs for a call after the call was sent.                     *)
UnsentInv == \A g \in Calls : pc[g] \in Waiting \cup {"encode"} => outcome[g] = "none"

-----------------------------------------------------------------------------
(* The mutex lets one goroutine at a time into an exchange.                *)
LEMMA OneExchange ==
  ASSUME LockInv, NEW g \in Clients, pc[g] \in Sending \cup {"kill"}
  PROVE  lock = g /\ \A h \in Clients \ {g} : pc[h] \notin Sending \cup {"kill"}
BY DEF LockInv

(* A request in the pipe, and a worker at work, are those of the sender    *)
(* that waits for its reply.                                               *)
LEMMA Served ==
  ASSUME TypeOK, ExchangeInv, Alive
  PROVE  /\ stdin # <<>> => \E g \in Clients : pc[g] = "decode" /\ Asking(g)
         /\ worker \in {"starting", "busy", "reporting"} =>
              current \in Clients /\ pc[current] = "decode" /\ Working(current)
<1>1. ASSUME NEW g \in Clients, pc[g] = "decode" PROVE Asking(g) \/ Working(g) \/ Answered(g)
  BY <1>1 DEF ExchangeInv, Broken
<1>2. CASE stdin # <<>>
  <2>1. PICK g \in Clients : pc[g] = "decode"
    BY <1>2 DEF ExchangeInv
  <2>2. Asking(g) /\ worker \notin {"starting", "busy", "reporting"}
    BY <1>1, <1>2, <2>1 DEF Asking, Working, Answered
  <2> QED
    BY <2>1, <2>2
<1>3. CASE stdin = <<>> /\ worker \in {"starting", "busy", "reporting"}
  <2>1. PICK g \in Clients : pc[g] = "decode"
    BY <1>3 DEF ExchangeInv
  <2>2. Working(g)
    BY <1>1, <1>3, <2>1, Pipes DEF Asking, Answered
  <2>3. current = g
    BY <2>2 DEF Working
  <2> QED
    BY <1>3, <2>1, <2>2, <2>3
<1> QED
  BY <1>2, <1>3

(* What is decoded is the sender's own reply, and it says what its         *)
(* function did.                                                           *)
LEMMA Delivered ==
  ASSUME TypeOK, LockInv, ExchangeInv, NEW g \in Clients, Decode(g)
  PROVE  /\ stdin = <<>> /\ stdout' = <<>> /\ worker \in {"init", "idle"}
         /\ g \in Calls => got' = [got EXCEPT ![g] = g]
         /\ g \in Senders
         /\ Verdict(g, Head(stdout)) = IF g = Starter THEN "ok" ELSE outcome[g]
<1>1. pc[g] = "decode" /\ g \in Senders
  BY DEF Decode, LockInv, Sending
<1>2. Answered(g)
  <2>1. stdout # <<>> /\ Head(stdout) # Cut
    BY DEF Decode
  <2>2. ~Broken
    BY <2>1 DEF Broken
  <2> QED
    BY <1>1, <2>1, <2>2 DEF ExchangeInv, Asking, Working
<1>3. PICK r \in Reply :
        /\ stdout = <<r>> /\ r.to = g
        /\ g \in Calls => outcome[g] = Says(r)
  BY <1>2 DEF Answered
<1>4. Head(stdout) = r /\ Tail(stdout) = <<>>
  BY <1>3
<1> QED
  BY <1>1, <1>2, <1>3, <1>4 DEF Answered, Decode, Verdict, Senders, Says

LEMMA Ran ==
  ASSUME TypeOK, LockInv, ExchangeInv, NEW g \in Calls, Decode(g)
  PROVE  outcome[g] \in {"ok", "fault"}
<1>1. stdout # <<>> /\ Head(stdout) # Cut /\ pc[g] = "decode" /\ g \in Clients
  BY DEF Decode, Clients
<1>2. ~Broken
  BY <1>1 DEF Broken
<1>3. Answered(g)
  BY <1>1, <1>2 DEF ExchangeInv, Asking, Working
<1> QED
  BY <1>3 DEF Answered, Says

(* A reply fails to come only if the process is dead.                      *)
LEMMA Undelivered ==
  ASSUME TypeOK, ExchangeInv, NEW g \in Clients, DecodeFailed(g)
  PROVE  ~Alive
<1> SUFFICES ASSUME Alive PROVE FALSE
  OBVIOUS
<1>1. pc[g] = "decode" /\ stdout # <<>> /\ Head(stdout) = Cut
  BY DEF DecodeFailed
<1>2. Answered(g)
  BY <1>1 DEF ExchangeInv, Asking, Working, Broken
<1>3. PICK r \in Reply : stdout = <<r>> /\ r.to = g
  BY <1>2 DEF Answered
<1> QED
  BY <1>1, <1>3 DEF Cut

ExchangePart == TypeOK /\ LockInv /\ StartInv /\ WorkerInv /\ ExchangeInv /\ UnsentInv

LEMMA StartStep == ExchangePart /\ [Next]_vars => StartInv'
<1> SUFFICES ASSUME ExchangePart, [Next]_vars PROVE StartInv'
  OBVIOUS
<1> USE DEF ExchangePart, StartInv, TypeOK, Clients, Senders, Waiting
<1>1. ASSUME NEW g \in Clients, Lock(g) \/ Encode(g) \/ Kill(g) PROVE StartInv'
  BY <1>1 DEF Lock, Encode, Kill, LockInv, workerVars
<1>2. ASSUME NEW g \in Clients, EncodeFailed(g) \/ DecodeFailed(g) PROVE StartInv'
  BY <1>2 DEF EncodeFailed, DecodeFailed, Leave, LockInv, Sending, workerVars
<1>3. ASSUME NEW g \in Clients, Decode(g) PROVE StartInv'
  BY <1>3, Delivered DEF Decode, Leave, LockInv, Sending, workerVars
<1>4. CASE KillFailedStart
  BY <1>4 DEF KillFailedStart, workerVars
<1>5. CASE ReceiveStart
  <2>1. PICK g \in Clients : pc[g] = "decode" /\ Asking(g)
    BY <1>5, Served DEF ReceiveStart
  <2>2. g = Starter
    BY <1>5, <2>1 DEF ReceiveStart, Asking
  <2> QED
    BY <1>5, <2>1, <2>2 DEF ReceiveStart, goVars
<1>6. CASE Worker /\ ~ReceiveStart
  BY <1>6 DEF Worker, Start, ReportRunning, InitDone, Done, ReceiveInvoke, Function,
              FunctionReturns, ReportFault, ReportDone, goVars
<1>7. CASE UNCHANGED <<pc, worker>>
  BY <1>7
<1> QED
  BY <1>1, <1>2, <1>3, <1>4, <1>5, <1>6, <1>7
  DEF Next, Client, Host, Waited, CloseDone, Exit, Idle, vars, goVars, workerVars

LEMMA WorkerStep == ExchangePart /\ [Next]_vars => WorkerInv'
<1> SUFFICES ASSUME ExchangePart, [Next]_vars PROVE WorkerInv'
  OBVIOUS
<1> USE DEF ExchangePart, WorkerInv, TypeOK
<1>1. CASE ReceiveStart \/ ReportRunning
  BY <1>1 DEF ReceiveStart, ReportRunning
<1>2. CASE InitDone \/ ReportDone
  BY <1>2 DEF InitDone, ReportDone, Done, ErroredAfter
<1>3. CASE ReceiveInvoke
  <2>1. PICK g \in Clients : pc[g] = "decode" /\ Asking(g)
    BY <1>3, Served DEF ReceiveInvoke
  <2>2. g \in Calls /\ Head(stdin) = g
    BY <1>3, <2>1, Pipes DEF ReceiveInvoke, Asking, LockInv, Senders, Sending
  <2> QED
    BY <1>3, <2>2 DEF ReceiveInvoke
<1>4. CASE FunctionReturns \/ ReportFault
  BY <1>4 DEF FunctionReturns, ReportFault
<1>5. CASE UNCHANGED workerVars
  BY <1>5 DEF workerVars
<1> QED
  BY <1>1, <1>2, <1>3, <1>4, <1>5
  DEF Next, Client, Lock, Encode, EncodeFailed, Decode, DecodeFailed, Kill, Host, KillFailedStart,
      Waited, CloseDone, Exit, Worker, Start, Function, Idle, vars

(* While nobody waits for a reply, what the others do cannot put anything  *)
(* into the pipes.                                                         *)
LEMMA ExchangeStep == ExchangePart /\ [Next]_vars => ExchangeInv'
<1> SUFFICES ASSUME ExchangePart, [Next]_vars PROVE ExchangeInv'
  OBVIOUS
<1> USE DEF ExchangePart, TypeOK
<1>1. ASSUME NEW g \in Clients, Lock(g) PROVE ExchangeInv'
  BY <1>1 DEF Lock, ExchangeInv, Asking, Working, Answered, Broken, Alive, pipes, osVars, workerVars
<1>2. ASSUME NEW g \in Clients, Encode(g) PROVE ExchangeInv'
  <2>1. pc[g] = "encode" /\ g \in Senders /\ Alive /\ Alive'
    BY <1>2 DEF Encode, LockInv, Sending, osVars, Alive
  <2>2. \A h \in Clients : pc[h] # "decode"
    BY <2>1, OneExchange DEF Sending
  <2>3. stdin = <<>> /\ stdout = <<>> /\ worker \in {"boot", "init", "idle"}
    BY <2>1, <2>2 DEF ExchangeInv
  <2>4. worker = "boot" <=> g = Starter
    BY <2>1, <2>3 DEF StartInv, Senders, Waiting
  <2>5. g \in Calls => outcome[g] = "none"
    BY <2>1 DEF UnsentInv
  <2>6. Asking(g)'
    BY <1>2, <2>3, <2>4, <2>5 DEF Encode, Asking, workerVars
  <2>7. \A h \in Clients : pc'[h] = "decode" => h = g
    BY <1>2, <2>2 DEF Encode
  <2> QED
    BY <1>2, <2>1, <2>6, <2>7 DEF ExchangeInv, Encode
<1>3. ASSUME NEW g \in Clients, EncodeFailed(g) \/ DecodeFailed(g) PROVE ExchangeInv'
  <2>1. ~Alive /\ ~Alive'
    BY <1>3, Undelivered DEF EncodeFailed, DecodeFailed, osVars, Alive
  <2>2. \A h \in Clients : pc'[h] # "decode"
    BY <1>3, OneExchange DEF EncodeFailed, DecodeFailed, Leave, Sending
  <2> QED
    BY <2>1, <2>2 DEF ExchangeInv
<1>4. ASSUME NEW g \in Clients, Decode(g) PROVE ExchangeInv'
  <2>1. stdin' = <<>> /\ stdout' = <<>> /\ worker' \in {"init", "idle"}
    BY <1>4, Delivered DEF Decode, workerVars
  <2>2. \A h \in Clients : pc'[h] # "decode"
    <3>1. Verdict(g, Head(stdout)) # "decode"
      BY DEF Verdict
    <3> QED
      BY <1>4, <3>1, OneExchange DEF Decode, Leave, Sending
  <2> QED
    BY <2>1, <2>2 DEF ExchangeInv
<1>5. ASSUME NEW c \in Clients, Kill(c) PROVE ExchangeInv'
  <2>1. ~Alive'
    BY <1>5 DEF Kill, Alive
  <2>2. \A h \in Clients : pc'[h] # "decode"
    BY <1>5, OneExchange DEF Kill, Sending
  <2> QED
    BY <2>1, <2>2 DEF ExchangeInv
<1>6. CASE KillFailedStart
  <2>1. ~Alive'
    BY <1>6 DEF KillFailedStart, Alive
  <2>2. \A h \in Clients : pc'[h] # "decode"
    BY <1>6 DEF KillFailedStart, LockInv, Sending
  <2> QED
    BY <2>1, <2>2 DEF ExchangeInv
<1>7. CASE Waited \/ CloseDone
  BY <1>7 DEF Waited, CloseDone, ExchangeInv, Asking, Working, Answered, Broken, Alive,
              goVars, pipes, workerVars
<1>8. CASE Exit
  <2>1. Alive /\ ~Alive' /\ UNCHANGED <<pc, stdin, worker, current, outcome>>
    BY <1>8 DEF Exit, Alive, goVars, workerVars
  <2>2. ASSUME NEW g \in Clients, pc[g] = "decode"
        PROVE  Asking(g)' \/ Working(g)' \/ Answered(g)' \/ Broken'
    <3>1. CASE stdout' = stdout
      BY <2>1, <2>2, <3>1 DEF ExchangeInv, Asking, Working, Answered, Broken
    <3>2. CASE worker = "reporting" /\ stdout' = Append(stdout, Cut)
      <4>1. stdout = <<>>
        BY <2>1, <3>2, Served DEF Working
      <4> QED
        BY <2>1, <3>2, <4>1 DEF Broken
    <3> QED
      BY <1>8, <3>1, <3>2 DEF Exit
  <2> QED
    BY <2>1, <2>2 DEF ExchangeInv
<1>9. CASE ReceiveStart \/ ReceiveInvoke
  <2>1. PICK g \in Clients : pc[g] = "decode" /\ Asking(g)
    BY <1>9, Served DEF ReceiveStart, ReceiveInvoke
  <2>2. Head(stdin) = g /\ Tail(stdin) = <<>>
    BY <2>1 DEF Asking
  <2>3. Working(g)'
    BY <1>9, <2>1, <2>2 DEF ReceiveStart, ReceiveInvoke, Asking, Working, LockInv, Sending, Senders
  <2>4. \A h \in Clients : pc'[h] = "decode" => h = g
    BY <1>9, <2>1, OneExchange DEF ReceiveStart, ReceiveInvoke, goVars, Sending
  <2> QED
    BY <1>9, <2>1, <2>3, <2>4 DEF ExchangeInv, ReceiveStart, ReceiveInvoke, goVars
<1>10. CASE ReportRunning \/ ReportDone
  <2>1. current \in Clients /\ pc[current] = "decode" /\ Working(current)
    BY <1>10, Served DEF ReportRunning, ReportDone
  <2>2. PICK r \in Reply :
          /\ stdout' = <<r>> /\ r.to = current
          /\ current \in Calls => outcome[current] = Says(r)
    <3>1. CASE ReportRunning
      <4>1. /\ stdout' = <<[to |-> current, errors |-> FALSE]>>
            /\ [to |-> current, errors |-> FALSE] \in Reply
        BY <2>1, <3>1 DEF ReportRunning, Working, Reply
      <4>2. current = Starter
        BY <2>1, <3>1 DEF ReportRunning, Working
      <4> QED
        BY <4>1, <4>2
    <3>2. CASE ReportDone
      <4>1. /\ stdout' = <<[to |-> current, errors |-> errored]>>
            /\ [to |-> current, errors |-> errored] \in Reply
        BY <2>1, <3>2 DEF ReportDone, Done, Replies, WorkerInv, Working, Reply
      <4>2. outcome[current] = Says([to |-> current, errors |-> errored])
        BY <3>2 DEF ReportDone, WorkerInv, Says
      <4> QED
        BY <4>1, <4>2
    <3> QED
      BY <1>10, <3>1, <3>2
  <2>3. Answered(current)'
    <3>1. /\ stdin' = <<>> /\ worker' \in {"init", "idle"}
          /\ current' = current /\ outcome' = outcome
      BY <1>10, <2>1 DEF ReportRunning, ReportDone, Done, Working
    <3> QED
      BY <2>2, <3>1 DEF Answered
  <2>4. \A h \in Clients : pc'[h] = "decode" => h = current
    BY <1>10, <2>1, OneExchange DEF ReportRunning, ReportDone, goVars, Sending
  <2> QED
    BY <1>10, <2>1, <2>3, <2>4 DEF ExchangeInv, ReportRunning, ReportDone, goVars
<1>11. CASE InitDone
  <2>1. stdout' = stdout
    BY <1>11 DEF InitDone, Done, Replies, WorkerInv
  <2> QED
    BY <1>11, <2>1 DEF InitDone, Done, ExchangeInv, Asking, Working, Answered, Broken, Alive,
                       goVars, osVars
<1>12. CASE FunctionReturns \/ ReportFault
  <2>1. current \in Clients /\ pc[current] = "decode" /\ Working(current)
    BY <1>12, Served DEF FunctionReturns, ReportFault
  <2>2. Working(current)' /\ UNCHANGED <<pc, current>>
    BY <1>12, <2>1 DEF FunctionReturns, ReportFault, Working, pipes, goVars
  <2>3. \A h \in Clients : pc'[h] = "decode" => h = current
    BY <2>1, <2>2, OneExchange DEF Sending
  <2> QED
    BY <2>1, <2>2, <2>3 DEF ExchangeInv
<1>13. CASE UNCHANGED vars
  BY <1>13 DEF vars, goVars, pipes, osVars, workerVars, ExchangeInv, Asking, Working, Answered,
               Broken, Alive
<1> QED
  BY <1>1, <1>2, <1>3, <1>4, <1>5, <1>6, <1>7, <1>8, <1>9, <1>10, <1>11, <1>12, <1>13
  DEF Next, Client, Host, Worker, Start, Function, Idle

LEMMA UnsentStep == ExchangePart /\ [Next]_vars => UnsentInv'
<1> SUFFICES ASSUME ExchangePart, [Next]_vars PROVE UnsentInv'
  OBVIOUS
<1> USE DEF ExchangePart, UnsentInv, TypeOK, Waiting, Clients
<1>1. CASE FunctionReturns \/ ReportFault
  <2>1. pc[current] = "decode"
    BY <1>1, Served DEF FunctionReturns, ReportFault
  <2> QED
    BY <1>1, <2>1 DEF FunctionReturns, ReportFault, goVars
<1>2. ASSUME NEW g \in Clients, Lock(g) PROVE UnsentInv'
  BY <1>2 DEF Lock, workerVars
<1>3. ASSUME NEW g \in Clients, Encode(g) \/ EncodeFailed(g) \/ DecodeFailed(g) \/ Kill(g)
      PROVE  UnsentInv'
  BY <1>3 DEF Encode, EncodeFailed, DecodeFailed, Leave, Kill, workerVars
<1>4. ASSUME NEW g \in Clients, Decode(g) PROVE UnsentInv'
  BY <1>4 DEF Decode, Leave, Verdict, workerVars
<1>5. CASE KillFailedStart
  BY <1>5 DEF KillFailedStart, workerVars
<1>6. CASE UNCHANGED <<pc, outcome>>
  BY <1>6
<1> QED
  BY <1>1, <1>2, <1>3, <1>4, <1>5, <1>6
  DEF Next, Client, Host, Waited, CloseDone, Exit, Worker, Start, Function, ReceiveStart,
      ReportRunning, InitDone, ReceiveInvoke, ReportDone, Idle, vars, goVars, workerVars

LEMMA ExchangeHolds == Spec => []ExchangePart
<1>1. Init => ExchangePart
  <2> SUFFICES ASSUME Init PROVE ExchangePart
    OBVIOUS
  <2>1. PICK callers \in {Calls, Calls \cup Closers} :
          pc = [g \in Clients |-> IF g \in callers \cup {Starter} THEN "lock" ELSE "never"]
    BY DEF Init
  <2>2. \A g \in Clients : pc[g] \in {"lock", "never"}
    BY <2>1
  <2>3. pc[Starter] = "lock"
    BY <2>1 DEF Clients
  <2>4. LockInv
    BY <2>2 DEF LockInv, Sending
  <2>5. StartInv
    BY <2>2, <2>3 DEF Init, StartInv, Clients, Waiting
  <2>6. WorkerInv /\ ExchangeInv /\ UnsentInv
    BY <2>2 DEF Init, WorkerInv, ExchangeInv, UnsentInv
  <2> QED
    BY <2>4, <2>5, <2>6, TypeInit DEF ExchangePart
<1>2. ExchangePart /\ [Next]_vars => ExchangePart'
  BY TypeStep, LockStep, StartStep, WorkerStep, ExchangeStep, UnsentStep DEF ExchangePart
<1> QED
  BY <1>1, <1>2, PTL DEF Spec

-----------------------------------------------------------------------------
(* What a call returned, and the reply it took for its own, do not change  *)
(* any more.                                                               *)
Answers ==
  \A g \in Calls :
    /\ pc[g] # "mismatch"
    /\ pc[g] \in {"ok", "fault"} => got[g] = g /\ outcome[g] = pc[g]

LEMMA AnswersStep == ExchangePart /\ Answers /\ [Next]_vars => Answers'
<1> SUFFICES ASSUME ExchangePart, Answers, [Next]_vars PROVE Answers'
  OBVIOUS
<1> USE DEF ExchangePart, Answers, TypeOK, Clients
<1>1. CASE FunctionReturns \/ ReportFault
  <2>1. pc[current] = "decode"
    BY <1>1, Served DEF FunctionReturns, ReportFault
  <2> QED
    BY <1>1, <2>1 DEF FunctionReturns, ReportFault, goVars
<1>2. ASSUME NEW g \in Clients, Decode(g) PROVE Answers'
  <2>1. pc'[g] = IF g = Starter THEN "up" ELSE outcome[g]
    BY <1>2, Delivered DEF Decode, Leave
  <2>2. \A h \in Clients \ {g} : pc'[h] = pc[h]
    BY <1>2 DEF Decode, Leave
  <2>3. g \in Calls => got' = [got EXCEPT ![g] = g]
    BY <1>2, Delivered
  <2>4. g \notin Calls => got' = got
    BY <1>2 DEF Decode
  <2>5. outcome' = outcome
    BY <1>2 DEF Decode, workerVars
  <2> SUFFICES ASSUME NEW h \in Calls
               PROVE  /\ pc'[h] # "mismatch"
                      /\ pc'[h] \in {"ok", "fault"} => got'[h] = h /\ outcome'[h] = pc'[h]
    OBVIOUS
  <2>6. CASE h = g
    BY <2>1, <2>3, <2>5, <2>6
  <2>7. CASE h # g
    BY <2>2, <2>3, <2>4, <2>5, <2>7
  <2> QED
    BY <2>6, <2>7
<1>3. ASSUME NEW g \in Clients, Lock(g) \/ Encode(g) \/ Kill(g) PROVE Answers'
  BY <1>3 DEF Lock, Encode, Kill, workerVars
<1>4. ASSUME NEW g \in Clients, EncodeFailed(g) \/ DecodeFailed(g) PROVE Answers'
  BY <1>4 DEF EncodeFailed, DecodeFailed, Leave, workerVars
<1>5. CASE KillFailedStart
  BY <1>5 DEF KillFailedStart, workerVars
<1>6. CASE UNCHANGED <<pc, got, outcome>>
  BY <1>6
<1> QED
  BY <1>1, <1>2, <1>3, <1>4, <1>5, <1>6
  DEF Next, Client, Host, Waited, CloseDone, Exit, Worker, Start, Function, ReceiveStart,
      ReportRunning, InitDone, ReceiveInvoke, ReportDone, Idle, vars, goVars, workerVars

LEMMA AnswersHold == Spec => []Answers
<1>1. Init => Answers
  BY DEF Init, Answers, Clients
<1> QED
  BY <1>1, ExchangeHolds, AnswersStep, PTL DEF Spec

(* The streams never get out of step: a call that returns an answer        *)
(* decoded its own, and no call sees an id that does not match.            *)
THEOREM RepliesMatch == Spec => []OwnReply
<1>1. Answers => OwnReply
  BY DEF Answers, OwnReply
<1> QED
  BY <1>1, AnswersHold, PTL

(* A call is told that its function failed if and only if its own did.     *)
THEOREM FaultsMatch == Spec => []FaultAttribution
<1>1. Answers => FaultAttribution
  BY DEF Answers, FaultAttribution
<1> QED
  BY <1>1, AnswersHold, PTL

(* The process is not killed while a sender's request or reply is under    *)
(* way: a killer holds the mutex, or nobody does.                          *)
THEOREM KillsOnlyBetween == Spec => KillsBetween
<1>1. ExchangePart /\ [Next]_vars
        => [\A g \in Senders : status' = "killed" /\ status # "killed" => pc[g] \notin Sending]_vars
  <2> SUFFICES ASSUME ExchangePart, [Next]_vars, NEW g \in Senders,
                      status' = "killed", status # "killed"
               PROVE  pc[g] \notin Sending
    OBVIOUS
  <2> g \in Clients
    BY DEF Senders, Clients
  <2>1. KillFailedStart \/ \E c \in Clients : Kill(c)
    BY DEF Next, Client, Lock, Encode, EncodeFailed, Decode, DecodeFailed, Host, Waited, CloseDone,
           Exit, Worker, Start, Function, ReceiveStart, ReportRunning, InitDone, ReceiveInvoke,
           FunctionReturns, ReportFault, ReportDone, Idle, vars, osVars
  <2>2. CASE KillFailedStart
    BY <2>2 DEF KillFailedStart, ExchangePart, LockInv
  <2>3. ASSUME NEW c \in Clients, Kill(c) PROVE pc[g] \notin Sending
    BY <2>3 DEF Kill, ExchangePart, LockInv, Sending
  <2> QED
    BY <2>1, <2>2, <2>3
<1> QED
  BY <1>1, ExchangeHolds, PTL DEF Spec, KillsBetween

-----------------------------------------------------------------------------
(* The state of the abstract container: what the substitution of           *)
(* JsonProcess makes of each call's pc.                                    *)
Stage(p) == IF p \in Waiting THEN "ready"
            ELSE IF p \in Sending THEN "serving"
            ELSE IF p = "mismatch" THEN "error" ELSE p

State == [g \in Calls |-> Stage(pc[g])]

LEMMA Stages ==
  ASSUME TypeOK, NEW g \in Calls
  PROVE  /\ State[g] = Stage(pc[g])
         /\ State[g] = "serving" <=> pc[g] \in Sending
BY DEF TypeOK, State, Stage, Clients, Waiting, Sending, Returned

(* What a step does to the abstract state, if it moves one goroutine.      *)
LEMMA Moved ==
  ASSUME TypeOK, NEW g \in Clients, NEW p, pc' = [pc EXCEPT ![g] = p]
  PROVE  /\ g \in Calls => State' = [State EXCEPT ![g] = Stage(p)]
         /\ g \notin Calls \/ Stage(p) = Stage(pc[g]) => State' = State
<1>1. \A h \in Calls : Stage(pc'[h]) = IF h = g THEN Stage(p) ELSE Stage(pc[h])
  BY DEF TypeOK, Clients
<1>2. State' = [h \in Calls |-> IF h = g THEN Stage(p) ELSE Stage(pc[h])]
  BY <1>1 DEF State
<1> QED
  BY <1>2 DEF State

(* Each step of the process is a step of the container or a stutter.       *)
LEMMA StepImplements ==
  ExchangePart /\ [Next]_vars => [container!Next]_(container!vars)
<1> SUFFICES ASSUME ExchangePart, [Next]_vars PROVE [container!Next]_(container!vars)
  OBVIOUS
<1> USE DEF ExchangePart
<1> DEFINE Stutter == UNCHANGED <<State, outcome, Fate>>
<1>1. ASSUME NEW g \in Clients, Lock(g) PROVE IF g \in Calls THEN container!Serve(g) ELSE Stutter
  <2>1. UNCHANGED <<outcome, Fate>>
    BY <1>1 DEF Lock, osVars, workerVars, Fate, Alive
  <2>2. CASE g \notin Calls
    BY <1>1, <2>1, <2>2, Moved DEF Lock
  <2>3. CASE g \in Calls
    <3>1. State[g] = "ready"
      BY <1>1, <2>3, Stages DEF Lock, Stage, Waiting
    <3>2. \A h \in Calls : State[h] # "serving"
      BY <1>1, Stages DEF Lock, Free, Clients, LockInv
    <3>3. State' = [State EXCEPT ![g] = "serving"]
      <4>1. Stage("encode") = "serving"
        BY DEF Stage, Waiting, Sending
      <4> QED
        BY <1>1, <2>3, <4>1, Moved DEF Lock, Senders
    <3> QED
      BY <2>1, <2>3, <3>1, <3>2, <3>3 DEF container!Serve, State, Stage, Fate
  <2> QED
    BY <2>2, <2>3
<1>2. ASSUME NEW g \in Clients, Encode(g) PROVE Stutter
  <2>1. Stage("encode") = Stage("decode")
    BY DEF Stage, Waiting, Sending
  <2> QED
    BY <1>2, <2>1, Moved DEF Encode, osVars, workerVars, Fate, Alive
<1>3. ASSUME NEW g \in Clients, EncodeFailed(g) \/ DecodeFailed(g)
      PROVE  IF g \in Calls THEN container!Fail(g) ELSE Stutter
  <2>1. ~Alive /\ UNCHANGED <<outcome, Fate>>
    BY <1>3, Undelivered DEF EncodeFailed, DecodeFailed, osVars, workerVars, Fate, Alive
  <2>2. pc' = [pc EXCEPT ![g] = IF g # Starter THEN "error" ELSE "closing"]
    BY <1>3 DEF EncodeFailed, DecodeFailed, Leave
  <2>3. CASE g \notin Calls
    BY <2>1, <2>2, <2>3, Moved
  <2>4. CASE g \in Calls
    <3>1. State[g] = "serving"
      BY <1>3, <2>4, Stages DEF EncodeFailed, DecodeFailed, Sending
    <3>2. State' = [State EXCEPT ![g] = "error"]
      <4>1. Stage("error") = "error"
        BY DEF Stage, Waiting, Sending
      <4> QED
        BY <2>2, <2>4, <4>1, Moved
    <3> QED
      BY <2>1, <2>4, <3>1, <3>2 DEF container!Fail, State, Stage, Fate
  <2> QED
    BY <2>3, <2>4
<1>4. ASSUME NEW g \in Clients, Decode(g) PROVE IF g \in Calls THEN container!Answer(g) ELSE Stutter
  <2>1. UNCHANGED <<outcome, Fate>>
    BY <1>4 DEF Decode, osVars, workerVars, Fate, Alive
  <2>2. pc' = [pc EXCEPT ![g] = IF g # Starter THEN outcome[g] ELSE "up"]
    BY <1>4, Delivered DEF Decode, Leave
  <2>3. CASE g \notin Calls
    BY <2>1, <2>2, <2>3, Moved
  <2>4. CASE g \in Calls
    <3>1. State[g] = "serving"
      BY <1>4, <2>4, Stages DEF Decode, Sending
    <3>2. outcome[g] \in {"ok", "fault"}
      BY <1>4, <2>4, Ran
    <3>3. State' = [State EXCEPT ![g] = outcome[g]]
      <4>1. Stage(outcome[g]) = outcome[g]
        BY <3>2 DEF Stage, Waiting, Sending
      <4> QED
        BY <2>2, <2>4, <4>1, Moved
    <3> QED
      BY <2>1, <2>4, <3>1, <3>2, <3>3 DEF container!Answer, State, Stage, Fate
  <2> QED
    BY <2>3, <2>4
<1>5. ASSUME NEW c \in Clients, Kill(c) PROVE Stutter \/ container!Stop
  <2>1. c \in Closers /\ UNCHANGED outcome
    BY <1>5 DEF Kill, LockInv, workerVars
  <2>2. State' = State
    BY <1>5, <2>1, Moved DEF Kill
  <2>3. CASE Alive
    <3>1. Fate' = "closed"
      BY <1>5, <2>3 DEF Kill, Fate, Alive
    <3>2. \A g \in Calls : State[g] # "serving"
      BY <1>5, OneExchange, Stages DEF Kill, Clients, Sending
    <3> QED
      BY <2>1, <2>2, <2>3, <3>1, <3>2 DEF container!Stop, State, Stage, Fate
  <2>4. CASE ~Alive
    BY <1>5, <2>1, <2>2, <2>4 DEF Kill, Fate, Alive
  <2> QED
    BY <2>3, <2>4
<1>6. CASE KillFailedStart
  <2>1. UNCHANGED outcome /\ State' = State
    BY <1>6, Moved DEF KillFailedStart, Clients, workerVars
  <2>2. CASE Alive
    <3>1. Fate = "up" /\ Fate' = "closed"
      BY <1>6, <2>2 DEF KillFailedStart, Fate, Alive
    <3>2. \A g \in Calls : State[g] # "serving"
      BY <1>6, Stages DEF KillFailedStart, LockInv, Clients
    <3> QED
      BY <2>1, <3>1, <3>2 DEF container!Next, container!Stop, State, Stage
  <2>3. CASE ~Alive
    BY <1>6, <2>1, <2>3 DEF KillFailedStart, Fate, Alive, container!vars, State, Stage
  <2> QED
    BY <2>2, <2>3
<1>12. CASE Exit
  <2>1. UNCHANGED <<outcome, State>>
    BY <1>12 DEF Exit, goVars, workerVars, State
  <2>2. Fate = "up" /\ Fate' = "dead"
    BY <1>12 DEF Exit, Fate, Alive
  <2> QED
    BY <2>1, <2>2 DEF container!Next, container!Crash, State, Stage
<1>7. CASE FunctionReturns \/ ReportFault
  <2>1. current \in Calls /\ Alive /\ worker = "busy"
    BY <1>7 DEF FunctionReturns, ReportFault, WorkerInv
  <2>2. pc[current] = "decode" /\ outcome[current] = "none"
    BY <2>1, Served DEF Working
  <2>3. State[current] = "serving"
    BY <2>1, <2>2, Stages DEF Sending
  <2>4. /\ UNCHANGED <<State, Fate>>
        /\ \E o \in {"ok", "fault"} : outcome' = [outcome EXCEPT ![current] = o]
    BY <1>7 DEF FunctionReturns, ReportFault, goVars, osVars, State, Fate, Alive
  <2>5. container!Run(current)
    BY <2>1, <2>2, <2>3, <2>4 DEF container!Run, container!Outcome, State, Stage, Fate
  <2> QED
    BY <2>1, <2>5 DEF container!Next
<1>8. ASSUME Waited \/ CloseDone PROVE Stutter
  BY <1>8 DEF Waited, CloseDone, goVars, workerVars, Fate, Alive, State
<1>9. ASSUME Start \/ ReceiveInvoke \/ ReportDone PROVE Stutter
  BY <1>9 DEF Start, ReceiveStart, ReportRunning, InitDone, ReceiveInvoke, ReportDone, goVars, osVars,
              State, Fate, Alive
<1>10. ASSUME UNCHANGED vars PROVE Stutter
  BY <1>10 DEF vars, goVars, osVars, workerVars, State, Fate, Alive
<1>11. Stutter => UNCHANGED container!vars
  BY DEF container!vars, State, Stage, Fate
<1> QED
  BY <1>1, <1>2, <1>3, <1>4, <1>5, <1>6, <1>7, <1>8, <1>9, <1>10, <1>11, <1>12
  DEF Next, Client, Host, Worker, Function, Idle, container!Next

(* A container of this kind serializes the calls, runs each once, answers  *)
(* each with what its own run did, and fails a call only when its process  *)
(* is dead: it implements Invoker.                                         *)
THEOREM Implementation == Spec => ImplementsInvoker
<1>1. Init => container!Init
  <2> SUFFICES ASSUME Init PROVE container!Init
    OBVIOUS
  <2>1. \A g \in Calls : pc[g] \in Waiting
    BY DEF Init, Waiting, Clients
  <2>2. outcome = [g \in Calls |-> "none"] /\ Fate = "up"
    BY DEF Init, Fate, Alive
  <2> QED
    BY <2>1, <2>2 DEF container!Init
<1> QED
  BY <1>1, StepImplements, ExchangeHolds, PTL DEF Spec, ImplementsInvoker, container!Spec
================================================================================
