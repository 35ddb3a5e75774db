-------------------------- MODULE NodeContainerProofs --------------------------
(***************************************************************************)
(* What TLAPS proves of NodeContainer, for any number of calls and closers *)
(* and any request ids.  The protocol of listener, connection and mutex is *)
(* kept whatever functions write on stdout; that every call sees its own   *)
(* reply, and that the container implements Invoker, if they write nothing.*)
(***************************************************************************)
EXTENDS NodeContainer, TLAPS

USE NodeAssumption

(* Whoever serves or kills holds the mutex, after the container has        *)
(* started.                                                                *)
LockInv ==
  /\ \A g \in Calls \cup Closers :
       /\ pc[g] \in Serving \cup {"kill"} => lock = g
       /\ pc[g] \notin Waiting => pc[Starter] = "up"
  /\ \A c \in Closers : pc[c] \notin Serving
  /\ \A g \in Calls : pc[g] # "kill"
  /\ pc[Starter] \notin {"dial", "post", "kill", "lock"}

(* A connection is the one of the call that posts or decodes, and the      *)
(* request on it the one of the call that posts.                           *)
HttpInv ==
  /\ wire # Nobody => conn = "open" /\ armed /\ pc[wire] = "post"
  /\ conn # "none" => lock \in Calls /\ pc[lock] \in {"post", "decode"}
  /\ conn \in {"open", "replied"} => pc[lock] = "post"
  /\ conn = "open" => wire # Nobody
  /\ \A g \in Calls : pc[g] = "post" => conn \in {"open", "replied"}

(* The listener is closed from the moment a request is received until it   *)
(* is armed again, and the request is kept until the mock waits for it.    *)
ServerInv ==
  /\ worker = "listening" => armed /\ msg = Nobody
  /\ worker \in {"init", "ready"} => (armed <=> msg = Nobody)
  /\ worker \in {"boot", "busy", "ending", "reporting", "rearm"} => ~armed /\ msg = Nobody

(* Of the mock and the handshake: the first invocation comes after both.   *)
StartInv ==
  /\ worker \in {"boot", "init"} => ~invoked
  /\ worker \in {"busy", "ending", "reporting"} => invoked /\ current \in Calls
  /\ worker = "boot" => pc[Starter] # "up" /\ (stdout = <<>> \/ (~Alive /\ stdout = <<Junk>>))

(* A function runs once, after its call was posted, and its outcome stands *)
(* from then on.                                                           *)
RunInv ==
  /\ \A g \in Calls : pc[g] \in Waiting \cup {"dial"} \/ g \in {wire, msg} => outcome[g] = "none"
  /\ \A g \in Calls \cap {current, msg} : pc[g] \notin Waiting \cup {"dial"}
  /\ worker = "busy" => outcome[current] = "none"
  /\ worker \in {"ending", "reporting"} => outcome[current] # "none"

Says(reply) == IF reply.errors THEN "fault" ELSE "ok"

(* Every reply on stdout tells the outcome of the call it names.           *)
StdoutInv ==
  \A i \in 1 .. Len(stdout) :
    stdout[i].to \in Calls => outcome[stdout[i].to] = Says(stdout[i])

(* The exchange of g, once its request was received.                       *)
Working(g) ==
  /\ stdout = <<>>
  /\ \/ msg = g /\ worker \in {"init", "ready"}
     \/ current = g /\ worker \in {"busy", "ending", "reporting"}

Answered(g) ==
  /\ worker \in {"init", "ready", "listening", "rearm"} /\ msg = Nobody
  /\ \E r \in Reply : stdout = <<r>> /\ r.to = g

Broken == ~Alive /\ stdout = <<Junk>>

Clean ==
  /\ stdout = <<>>
  /\ worker \in {"init", "ready", "listening", "rearm"} /\ msg = Nobody

InExchange(g) == pc[g] = "decode" \/ (pc[g] = "post" /\ conn = "replied")

(* At most one exchange is under way, that of the goroutine that waits.    *)
ExchangeInv ==
  chatty = {} =>
    /\ \A g \in Calls : InExchange(g) => Working(g) \/ Answered(g) \/ Broken
    /\ pc[Starter] = "decode" => (worker = "boot" /\ stdout = <<>>) \/ Answered(Starter) \/ Broken
    /\ Alive /\ (\A g \in Calls \cup {Starter} : ~InExchange(g)) => Clean

-----------------------------------------------------------------------------
LEMMA Pipe ==
  ASSUME NEW S, NEW s \in Seq(S), NEW x \in S
  PROVE  /\ <<>> \in Seq(S) /\ Append(s, x) \in Seq(S)
         /\ Append(<<>>, x) = <<x>> /\ Head(<<x>>) = x /\ Tail(<<x>>) = <<>> /\ <<x>> # <<>>
         /\ Len(Append(s, x)) = Len(s) + 1
         /\ \A i \in 1 .. Len(s) + 1 : Append(s, x)[i] = IF i = Len(s) + 1 THEN x ELSE s[i]
OBVIOUS

LEMMA Drained ==
  ASSUME NEW S, NEW s \in Seq(S), s # <<>>
  PROVE  /\ Head(s) \in S /\ Tail(s) \in Seq(S)
         /\ 1 \in 1 .. Len(s) /\ Head(s) = s[1]
         /\ \A i \in 1 .. Len(Tail(s)) : i + 1 \in 1 .. Len(s) /\ Tail(s)[i] = s[i + 1]
OBVIOUS

LEMMA Texts == Stray \in Reply /\ Junk \in Reply /\ Stray.to = Nobody /\ Junk.to = Nobody
BY DEF Stray, Junk, Reply

-----------------------------------------------------------------------------
LEMMA TypeInit == Init => TypeOK
<1> SUFFICES ASSUME Init PROVE TypeOK
  OBVIOUS
<1>1. PICK callers \in {Calls, Calls \cup Closers} :
        pc = [g \in Clients |-> IF g = Starter THEN "decode"
                                ELSE IF g \in callers THEN "lock" ELSE "never"]
  BY DEF Init
<1>2. pc \in [Clients -> Waiting \cup {"decode"}]
  BY <1>1 DEF Waiting
<1>3. stdout \in Seq(Reply) /\ chatty \subseteq Chatty
  BY DEF Init
<1>4. invoked \in BOOLEAN /\ armed \in BOOLEAN
  BY DEF Init
<1> QED
  BY <1>2, <1>3, <1>4 DEF Init, TypeOK, Serving

LEMMA TypeStep == TypeOK /\ [Next]_vars => TypeOK'
<1> SUFFICES ASSUME TypeOK, [Next]_vars PROVE TypeOK'
  OBVIOUS
<1> USE DEF TypeOK, Clients, goVars, http, osVars, server, workerVars, nodeVars
<1> DEFINE PC == Waiting \cup Serving \cup Returned \cup {"kill", "closed", "up", "failed"}
<1>1. ASSUME NEW g \in Calls \cup Closers, Lock(g) \/ Kill(g) PROVE TypeOK'
  BY <1>1 DEF Lock, Kill, Serving
<1>2. ASSUME NEW g \in Calls, Dial(g) \/ Posted(g) PROVE TypeOK'
  BY <1>2 DEF Dial, Posted, Serving
<1>3. ASSUME NEW g \in Calls, Refused(g) \/ PostFailed(g) \/ DecodeFailed(g) PROVE TypeOK'
  BY <1>3 DEF Refused, PostFailed, DecodeFailed, Leave, EmptyPool, Returned
<1>4. ASSUME NEW g \in Calls, Decode(g) PROVE TypeOK'
  <2>1. Head(stdout) \in Reply /\ stdout' \in Seq(Reply)
    BY <1>4, Drained DEF Decode
  <2>2. Verdict(g, Head(stdout)) \in Returned
    BY DEF Verdict, Returned
  <2>3. pc' \in [Clients -> PC]
    BY <1>4, <2>2 DEF Decode, Leave
  <2>4. got' \in [Calls -> Calls \cup {Starter, Nobody}]
    BY <1>4, <2>1 DEF Decode, Reply
  <2> QED
    BY <1>4, <2>1, <2>3, <2>4 DEF Decode, Leave, EmptyPool
<1>5. CASE Started \/ StartFailed
  <2>1. stdout' \in Seq(Reply)
    BY <1>5, Drained DEF Started, StartFailed
  <2> QED
    BY <1>5, <2>1 DEF Started, StartFailed
<1>6. CASE Waited \/ CloseDone \/ IdleTimeout
  BY <1>6 DEF Waited, CloseDone, IdleTimeout, ExitError
<1>7. CASE Exit
  <2>1. Append(stdout, Junk) \in Seq(Reply)
    BY Texts, Pipe
  <2>2. stdout' \in Seq(Reply)
    BY <1>7, <2>1 DEF Exit
  <2> QED
    BY <1>7, <2>2 DEF Exit
<1>8. CASE Boot
  <2>1. [to |-> Starter, errors |-> FALSE] \in Reply
    BY DEF Reply
  <2>2. stdout' \in Seq(Reply)
    BY <1>8, <2>1, Pipe DEF Boot
  <2> QED
    BY <1>8, <2>2 DEF Boot
<1>9. CASE Receive \/ WaitForInvoke \/ FunctionEnds \/ Rearm
  <2>1. armed' \in BOOLEAN /\ invoked' \in BOOLEAN
    BY <1>9 DEF Receive, WaitForInvoke, FunctionEnds, Rearm
  <2>2. CASE Receive
    BY <2>1, <2>2 DEF Receive, Kept
  <2>3. CASE WaitForInvoke
    BY <2>1, <2>3 DEF WaitForInvoke
  <2>4. CASE FunctionEnds
    BY <2>4 DEF FunctionEnds
  <2>5. CASE Rearm
    BY <2>1, <2>5 DEF Rearm
  <2> QED
    BY <1>9, <2>2, <2>3, <2>4, <2>5
<1>10. CASE FunctionReturns
  <2>1. Append(stdout, Junk) \in Seq(Reply) /\ Append(stdout, Stray) \in Seq(Reply)
    BY Texts, Pipe
  <2>2. stdout' \in Seq(Reply)
    BY <1>10, <2>1 DEF FunctionReturns
  <2>3. outcome' \in [Calls -> {"none", "ok", "fault"}]
    BY <1>10 DEF FunctionReturns
  <2> QED
    BY <1>10, <2>2, <2>3 DEF FunctionReturns
<1>11. CASE FunctionThrows
  <2>1. outcome' \in [Calls -> {"none", "ok", "fault"}]
    BY <1>11 DEF FunctionThrows
  <2> QED
    BY <1>11, <2>1 DEF FunctionThrows
<1>12. CASE ReportDone
  <2>1. [to |-> current, errors |-> current # Nobody /\ outcome[current] = "fault"] \in Reply
    BY DEF Reply
  <2>2. Append(stdout, [to |-> current, errors |-> current # Nobody /\ outcome[current] = "fault"])
          \in Seq(Reply)
    BY <2>1, Pipe
  <2>3. stdout' \in Seq(Reply)
    BY <1>12, <2>2 DEF ReportDone
  <2> QED
    BY <1>12, <2>3 DEF ReportDone
<1>13. CASE UNCHANGED vars
  BY <1>13 DEF vars
<1> QED
  BY <1>1, <1>2, <1>3, <1>4, <1>5, <1>6, <1>7, <1>8, <1>9, <1>10, <1>11, <1>12, <1>13
  DEF Next, Invoke, Host, Function, Runtime, Quiet

(* The type invariant holds in every reachable state.                      *)
THEOREM TypeCorrect == Spec => []TypeOK
BY TypeInit, TypeStep, PTL DEF Spec

-----------------------------------------------------------------------------
ProtocolPart == TypeOK /\ LockInv /\ HttpInv /\ ServerInv /\ StartInv

LEMMA LockStep == TypeOK /\ LockInv /\ [Next]_vars => LockInv'
<1> SUFFICES ASSUME TypeOK, LockInv, [Next]_vars PROVE LockInv'
  OBVIOUS
<1> USE DEF TypeOK, LockInv, Clients, Waiting, Serving
<1>1. ASSUME NEW g \in Calls \cup Closers, Lock(g) PROVE LockInv'
  BY <1>1 DEF Lock, Free
<1>2. ASSUME NEW g \in Calls, Dial(g) \/ Posted(g) PROVE LockInv'
  BY <1>2 DEF Dial, Posted
<1>3. ASSUME NEW g \in Calls, NEW how \in Returned, Leave(g, how), pc[g] \in Serving
      PROVE  LockInv'
  BY <1>3 DEF Leave, Returned
<1>4. ASSUME NEW g \in Calls, Refused(g) \/ PostFailed(g) \/ DecodeFailed(g) PROVE LockInv'
  BY <1>3, <1>4 DEF Refused, PostFailed, DecodeFailed, Returned
<1>5. ASSUME NEW g \in Calls, Decode(g) PROVE LockInv'
  <2>1. Verdict(g, Head(stdout)) \in Returned
    BY DEF Verdict, Returned
  <2> QED
    BY <1>3, <1>5, <2>1 DEF Decode
<1>6. ASSUME NEW c \in Closers, Kill(c) PROVE LockInv'
  BY <1>6 DEF Kill
<1>7. CASE Started \/ StartFailed
  BY <1>7 DEF Started, StartFailed
<1>8. CASE UNCHANGED goVars
  BY <1>8 DEF goVars
<1> QED
  BY <1>1, <1>2, <1>4, <1>5, <1>6, <1>7, <1>8
  DEF Next, Invoke, Host, Waited, CloseDone, IdleTimeout, Exit, Function, FunctionReturns,
      FunctionThrows, Runtime, Boot, Receive, WaitForInvoke, FunctionEnds, ReportDone, Rearm,
      Quiet, vars

LEMMA HttpStep == ProtocolPart /\ [Next]_vars => HttpInv'
<1> SUFFICES ASSUME ProtocolPart, [Next]_vars PROVE HttpInv'
  OBVIOUS
<1> USE DEF ProtocolPart, TypeOK, HttpInv, Clients
<1>1. ASSUME NEW g \in Calls \cup Closers, Lock(g) PROVE HttpInv'
  BY <1>1 DEF Lock, Free, http, nodeVars, server
<1>2. ASSUME NEW g \in Calls, Dial(g) PROVE HttpInv'
  BY <1>2 DEF Dial, LockInv, Serving, nodeVars, server
<1>3. ASSUME NEW g \in Calls, Posted(g) PROVE HttpInv'
  BY <1>3 DEF Posted, LockInv, Serving, nodeVars, server
<1>4. ASSUME NEW g \in Calls, NEW how \in Returned, Leave(g, how), pc[g] \in Serving
      PROVE  HttpInv'
  BY <1>4 DEF Leave, EmptyPool, LockInv, Serving, Returned
<1>5. ASSUME NEW g \in Calls, Refused(g) \/ PostFailed(g) \/ DecodeFailed(g) PROVE HttpInv'
  BY <1>4, <1>5 DEF Refused, PostFailed, DecodeFailed, Returned, Serving
<1>6. ASSUME NEW g \in Calls, Decode(g) PROVE HttpInv'
  <2>1. Verdict(g, Head(stdout)) \in Returned
    BY DEF Verdict, Returned
  <2> QED
    BY <1>4, <1>6, <2>1 DEF Decode, Serving
<1>7. ASSUME NEW c \in Closers, Kill(c) PROVE HttpInv'
  BY <1>7 DEF Kill, LockInv, http, nodeVars, server
<1>8. CASE Started \/ StartFailed
  BY <1>8 DEF Started, StartFailed, http, nodeVars, server
<1>9. CASE Exit \/ IdleTimeout
  BY <1>9 DEF Exit, IdleTimeout, goVars, nodeVars, server
<1>10. CASE Receive
  BY <1>10 DEF Receive, goVars
<1>11. CASE Boot \/ Rearm
  BY <1>11 DEF Boot, Rearm, goVars, http
<1>12. CASE UNCHANGED <<pc, lock, conn, wire, armed>>
  BY <1>12
<1> QED
  BY <1>1, <1>2, <1>3, <1>5, <1>6, <1>7, <1>8, <1>9, <1>10, <1>11, <1>12
  DEF Next, Invoke, Host, Waited, CloseDone, Function, FunctionReturns, FunctionThrows, Runtime,
      WaitForInvoke, FunctionEnds, ReportDone, Quiet, vars, goVars, http, nodeVars, server

LEMMA ServerStep == ProtocolPart /\ [Next]_vars => ServerInv'
<1> SUFFICES ASSUME ProtocolPart, [Next]_vars PROVE ServerInv'
  OBVIOUS
<1> USE DEF ProtocolPart, TypeOK, ServerInv
<1>1. CASE Boot
  BY <1>1 DEF Boot
<1>2. CASE Receive
  <2>1. wire \in Calls /\ wire # Nobody /\ armed
    BY <1>2 DEF Receive, HttpInv
  <2> QED
    BY <1>2, <2>1 DEF Receive, Kept
<1>3. CASE WaitForInvoke
  BY <1>3 DEF WaitForInvoke
<1>4. CASE Function \/ FunctionEnds
  BY <1>4 DEF Function, FunctionReturns, FunctionThrows, FunctionEnds, server
<1>5. CASE ReportDone
  <2>1. worker = "init" => ~Reports
    BY DEF Reports, StartInv
  <2>2. worker = "reporting" => Reports
    BY DEF Reports, StartInv
  <2> QED
    BY <1>5, <2>1, <2>2 DEF ReportDone, server
<1>6. CASE Rearm
  BY <1>6 DEF Rearm
<1>7. CASE UNCHANGED <<worker, server>>
  BY <1>7 DEF server
<1> QED
  BY <1>1, <1>2, <1>3, <1>4, <1>5, <1>6, <1>7
  DEF Next, Invoke, Lock, Dial, Refused, Posted, PostFailed, Decode, DecodeFailed, Kill, Host,
      Started, StartFailed, Waited, CloseDone, IdleTimeout, Exit, Runtime, Quiet, vars, nodeVars,
      workerVars

LEMMA StartStep == ProtocolPart /\ [Next]_vars => StartInv'
<1> SUFFICES ASSUME ProtocolPart, [Next]_vars PROVE StartInv'
  OBVIOUS
<1> USE DEF ProtocolPart, TypeOK, StartInv, Clients
<1>1. CASE Started
  <2>1. worker # "boot"
    BY <1>1 DEF Started
  <2> QED
    BY <1>1, <2>1 DEF Started, nodeVars, workerVars
<1>2. CASE StartFailed
  BY <1>2 DEF StartFailed, nodeVars, workerVars, osVars, Alive
<1>3. CASE Boot
  BY <1>3 DEF Boot
<1>4. CASE Receive
  BY <1>4 DEF Receive, goVars, osVars, Alive
<1>5. CASE WaitForInvoke
  BY <1>5 DEF WaitForInvoke
<1>6. CASE Function \/ FunctionEnds
  BY <1>6 DEF Function, FunctionReturns, FunctionThrows, FunctionEnds
<1>7. CASE ReportDone \/ Rearm
  BY <1>7 DEF ReportDone, Reports, Rearm
<1>8. CASE Exit
  <2>1. worker = "boot" => stdout' \in {<<>>, <<Junk>>}
    BY <1>8 DEF Exit
  <2>2. ~Alive'
    BY <1>8 DEF Exit, Alive
  <2> QED
    BY <1>8, <2>1, <2>2 DEF Exit, goVars, nodeVars, workerVars
<1>9. ASSUME NEW g \in Calls, Decode(g) PROVE StartInv'
  <2>1. worker # "boot"
    BY <1>9 DEF Decode, LockInv, Waiting
  <2> QED
    BY <1>9, <2>1 DEF Decode, nodeVars, workerVars
<1>10. ASSUME UNCHANGED <<stdout, workerVars>>, pc'[Starter] = pc[Starter], ~Alive => ~Alive'
       PROVE  StartInv'
  BY <1>10 DEF workerVars
<1>11. ASSUME NEW g \in Calls \cup Closers,
              Lock(g) \/ Dial(g) \/ Refused(g) \/ Posted(g) \/ PostFailed(g) \/ DecodeFailed(g) \/ Kill(g)
       PROVE  StartInv'
  <2>1. UNCHANGED <<stdout, workerVars>> /\ pc'[Starter] = pc[Starter]
    BY <1>11 DEF Lock, Dial, Refused, Posted, PostFailed, DecodeFailed, Leave, Kill, nodeVars
  <2>2. ~Alive => ~Alive'
    BY <1>11 DEF Lock, Dial, Refused, Posted, PostFailed, DecodeFailed, Kill, Alive, osVars
  <2> QED
    BY <1>10, <2>1, <2>2
<1>12. CASE Waited \/ CloseDone \/ IdleTimeout \/ UNCHANGED vars
  BY <1>10, <1>12 DEF Waited, CloseDone, IdleTimeout, goVars, nodeVars, osVars, vars, Alive
<1> QED
  BY <1>1, <1>2, <1>3, <1>4, <1>5, <1>6, <1>7, <1>8, <1>9, <1>11, <1>12
  DEF Next, Invoke, Host, Runtime, Quiet

(* What is received is the request of the call that posts, and the mock is *)
(* free.                                                                   *)
LEMMA Received ==
  ASSUME ProtocolPart, Receive
  PROVE  /\ wire \in Calls /\ pc[wire] = "post" /\ conn = "open" /\ lock = wire
         /\ worker \in {"init", "ready", "listening"} /\ msg = Nobody
         /\ IF worker = "listening"
            THEN worker' = "busy" /\ current' = wire /\ msg' = Nobody
            ELSE worker' = worker /\ current' = current /\ msg' = wire
<1>1. wire \in Calls /\ pc[wire] = "post" /\ conn = "open" /\ armed
  BY DEF Receive, ProtocolPart, TypeOK, HttpInv
<1>2. worker \in {"init", "ready", "listening"} /\ msg = Nobody
  BY <1>1 DEF ProtocolPart, TypeOK, ServerInv
<1> QED
  BY <1>1, <1>2 DEF Receive, Kept, ProtocolPart, LockInv, Serving

RunPart == ProtocolPart /\ RunInv /\ StdoutInv

LEMMA RunStep == RunPart /\ [Next]_vars => RunInv'
<1> SUFFICES ASSUME RunPart, [Next]_vars PROVE RunInv'
  OBVIOUS
<1> USE DEF RunPart, ProtocolPart, TypeOK, RunInv, Clients
<1>1. ASSUME NEW g \in Calls \cup Closers, Lock(g) \/ Kill(g) PROVE RunInv'
  BY <1>1 DEF Lock, Kill, Waiting, Serving, http, nodeVars, server, workerVars
<1>2. ASSUME NEW g \in Calls, Dial(g) PROVE RunInv'
  BY <1>2 DEF Dial, Waiting, nodeVars, server, workerVars
<1>3. ASSUME NEW g \in Calls, Posted(g) PROVE RunInv'
  BY <1>3 DEF Posted, Waiting, nodeVars, server, workerVars
<1>4. ASSUME NEW g \in Calls, NEW how \in Returned, Leave(g, how), UNCHANGED nodeVars
      PROVE  RunInv'
  BY <1>4 DEF Leave, Returned, Waiting, nodeVars, server, workerVars
<1>5. ASSUME NEW g \in Calls, Refused(g) \/ PostFailed(g) \/ DecodeFailed(g) PROVE RunInv'
  BY <1>4, <1>5 DEF Refused, PostFailed, DecodeFailed, Returned
<1>6. ASSUME NEW g \in Calls, Decode(g) PROVE RunInv'
  <2>1. Verdict(g, Head(stdout)) \in Returned
    BY DEF Verdict, Returned
  <2> QED
    BY <1>4, <1>6, <2>1 DEF Decode
<1>7. CASE Started \/ StartFailed
  BY <1>7 DEF Started, StartFailed, http, nodeVars, server, workerVars
<1>8. CASE Receive
  <2>1. UNCHANGED <<pc, outcome>> /\ wire' = Nobody
    BY <1>8 DEF Receive, goVars
  <2>2. pc[wire] = "post" /\ wire \in Calls
    BY <1>8, Received
  <2>3. CASE worker = "listening"
    <3>1. worker' = "busy" /\ current' = wire /\ msg' = Nobody
      BY <1>8, <2>3, Received
    <3> QED
      BY <2>1, <2>2, <3>1 DEF Waiting
  <2>4. CASE worker # "listening"
    <3>1. worker' = worker /\ current' = current /\ msg' = wire
      BY <1>8, <2>4, Received
    <3> QED
      BY <2>1, <2>2, <3>1 DEF Waiting
  <2> QED
    BY <2>3, <2>4
<1>9. CASE WaitForInvoke
  BY <1>9 DEF WaitForInvoke, goVars, http
<1>10. CASE Function
  <2>1. current \in Calls /\ wire = Nobody /\ msg = Nobody
    BY <1>10 DEF Function, FunctionReturns, FunctionThrows, StartInv, HttpInv, ServerInv
  <2>2. \E o \in {"ok", "fault"} : outcome' = [outcome EXCEPT ![current] = o]
    BY <1>10 DEF Function, FunctionReturns, FunctionThrows
  <2>3. worker' \in {"ending", "reporting"} /\ UNCHANGED <<pc, wire, msg, current>>
    BY <1>10 DEF Function, FunctionReturns, FunctionThrows, goVars, http, server
  <2> QED
    BY <2>1, <2>2, <2>3
<1>11. CASE Boot \/ FunctionEnds \/ ReportDone \/ Rearm
  BY <1>11 DEF Boot, FunctionEnds, ReportDone, Rearm, goVars, http, server
<1>12. CASE UNCHANGED <<pc, wire, msg, current, outcome, worker>>
  BY <1>12
<1> QED
  BY <1>1, <1>2, <1>3, <1>5, <1>6, <1>7, <1>8, <1>9, <1>10, <1>11, <1>12
  DEF Next, Invoke, Host, Waited, CloseDone, IdleTimeout, Exit, Runtime, Quiet, vars, goVars, http,
      nodeVars, server, workerVars

(* A message that is written keeps what stdout says true, and so does a    *)
(* message that is read.                                                   *)
LEMMA Written ==
  ASSUME TypeOK, StdoutInv, NEW r \in Reply, stdout' = Append(stdout, r),
         UNCHANGED outcome, r.to \in Calls => outcome[r.to] = Says(r)
  PROVE  StdoutInv'
<1>1. Len(stdout') = Len(stdout) + 1 /\ Len(stdout) \in Nat
  BY Pipe DEF TypeOK
<1>2. \A i \in 1 .. Len(stdout') : stdout'[i] = IF i = Len(stdout) + 1 THEN r ELSE stdout[i]
  BY <1>1, Pipe DEF TypeOK
<1> QED
  BY <1>1, <1>2 DEF StdoutInv

LEMMA Read ==
  ASSUME TypeOK, StdoutInv, stdout # <<>>, stdout' = Tail(stdout), UNCHANGED outcome
  PROVE  StdoutInv'
BY Drained DEF TypeOK, StdoutInv

LEMMA StdoutStep == RunPart /\ [Next]_vars => StdoutInv'
<1> SUFFICES ASSUME RunPart, [Next]_vars PROVE StdoutInv'
  OBVIOUS
<1> USE DEF RunPart, ProtocolPart
<1>1. ASSUME NEW g \in Calls, Decode(g) PROVE StdoutInv'
  BY <1>1, Read DEF Decode, nodeVars, workerVars
<1>2. CASE Started
  BY <1>2, Read DEF Started, nodeVars, workerVars
<1>3. ASSUME UNCHANGED <<stdout, outcome>> PROVE StdoutInv'
  BY <1>3 DEF StdoutInv
<1>4. CASE Exit
  <2>1. UNCHANGED outcome /\ (stdout' = stdout \/ stdout' = Append(stdout, Junk))
    BY <1>4 DEF Exit, nodeVars, workerVars
  <2> QED
    BY <1>3, <2>1, Written, Texts DEF Clients
<1>5. CASE Boot
  <2> DEFINE r == [to |-> Starter, errors |-> FALSE]
  <2>1. r \in Reply /\ r.to \notin Calls
    BY DEF Reply
  <2>2. stdout' = Append(stdout, r) /\ UNCHANGED outcome
    BY <1>5 DEF Boot
  <2> HIDE DEF r
  <2> QED
    BY <2>1, <2>2, Written
<1>6. CASE ReportDone
  <2> DEFINE failed == current # Nobody /\ outcome[current] = "fault"
             r == [to |-> current, errors |-> failed]
  <2>1. UNCHANGED outcome
    BY <1>6 DEF ReportDone
  <2>2. CASE worker = "init"
    BY <1>3, <1>6, <2>1, <2>2 DEF ReportDone, Reports, StartInv
  <2>3. CASE worker = "reporting"
    <3>1. invoked /\ current \in Calls /\ outcome[current] \in {"ok", "fault"}
      BY <2>3 DEF StartInv, RunInv, TypeOK
    <3>2. stdout' = Append(stdout, r)
      BY <1>6, <3>1 DEF ReportDone, Reports
    <3>3. r \in Reply /\ r.to = current
      BY <3>1 DEF Reply
    <3>4. outcome[current] = Says(r)
      BY <3>1 DEF Says, Clients
    <3> HIDE DEF r
    <3> QED
      BY <2>1, <3>2, <3>3, <3>4, Written
  <2> QED
    BY <1>6, <2>2, <2>3 DEF ReportDone
<1>7. CASE Function
  <2>1. /\ current \in Calls /\ outcome[current] = "none"
        /\ \A h \in Calls \ {current} : outcome'[h] = outcome[h]
    BY <1>7 DEF Function, FunctionReturns, FunctionThrows, StartInv, RunInv, TypeOK
  <2>2. \A i \in 1 .. Len(stdout) : stdout[i].to # current
    BY <2>1 DEF StdoutInv, Says
  <2>3. ASSUME stdout' = stdout PROVE StdoutInv'
    BY <2>1, <2>2, <2>3 DEF StdoutInv
  <2>4. ASSUME NEW x \in {Stray, Junk}, stdout' = Append(stdout, x) PROVE StdoutInv'
    <3>1. x \in Reply /\ x.to \notin Calls
      BY Texts DEF Clients
    <3>2. Len(stdout') = Len(stdout) + 1 /\ Len(stdout) \in Nat
      BY <2>4, <3>1, Pipe DEF TypeOK
    <3>3. \A i \in 1 .. Len(stdout') : stdout'[i] = IF i = Len(stdout) + 1 THEN x ELSE stdout[i]
      BY <2>4, <3>1, <3>2, Pipe DEF TypeOK
    <3> QED
      BY <2>1, <2>2, <3>1, <3>2, <3>3 DEF StdoutInv
  <2> QED
    BY <1>7, <2>3, <2>4 DEF Function, FunctionReturns, FunctionThrows
<1> QED
  BY <1>1, <1>2, <1>3, <1>4, <1>5, <1>6, <1>7
  DEF Next, Invoke, Lock, Dial, Refused, Posted, PostFailed, DecodeFailed, Kill, Host, StartFailed,
      Waited, CloseDone, IdleTimeout, Runtime, Receive, WaitForInvoke, FunctionEnds, Rearm, Quiet,
      vars, nodeVars, workerVars

-----------------------------------------------------------------------------
(* From here on no function writes on stdout.                              *)
NodePart == RunPart /\ ExchangeInv

(* The mutex lets one call at a time into an exchange, after the start.    *)
LEMMA OneExchange ==
  ASSUME ProtocolPart, NEW g \in Calls, pc[g] \in Serving
  PROVE  /\ lock = g /\ pc[Starter] = "up" /\ ~InExchange(Starter)
         /\ \A h \in Calls \ {g} : pc[h] \notin Serving /\ ~InExchange(h)
BY DEF ProtocolPart, LockInv, InExchange, Serving, Waiting

LEMMA ClosersTurn ==
  ASSUME ProtocolPart, lock \notin Calls
  PROVE  \A h \in Calls : pc[h] \notin Serving /\ ~InExchange(h)
BY DEF ProtocolPart, LockInv, InExchange, Serving

(* While the container starts, no call is under way.                       *)
LEMMA Handshake ==
  ASSUME ProtocolPart, pc[Starter] # "up"
  PROVE  \A h \in Calls : pc[h] \in Waiting /\ ~InExchange(h)
BY DEF ProtocolPart, LockInv, InExchange, Waiting

(* Whatever the mock works on is the call that waits for its reply.        *)
LEMMA Served ==
  ASSUME NodePart, chatty = {}, Alive
  PROVE  /\ msg # Nobody => msg \in Calls /\ InExchange(msg) /\ Working(msg)
         /\ worker \in {"busy", "ending", "reporting"} =>
              current \in Calls /\ InExchange(current) /\ Working(current)
<1> SUFFICES ASSUME msg # Nobody \/ worker \in {"busy", "ending", "reporting"}
             PROVE  \E g \in Calls : InExchange(g) /\ Working(g)
  BY DEF Working, NodePart, RunPart, ProtocolPart, ServerInv, Clients
<1> USE DEF NodePart, RunPart, ProtocolPart
<1>1. ~Broken /\ ~Clean /\ worker # "boot"
  BY DEF Broken, Clean, ServerInv
<1>2. \A g : ~Answered(g)
  BY DEF Answered
<1>3. ~InExchange(Starter)
  BY <1>1, <1>2 DEF ExchangeInv, InExchange, LockInv
<1>4. PICK g \in Calls : InExchange(g)
  BY <1>1, <1>3 DEF ExchangeInv
<1> QED
  BY <1>1, <1>2, <1>4 DEF ExchangeInv

(* What a call decodes is its own reply.                                   *)
LEMMA Delivered ==
  ASSUME NodePart, chatty = {}, NEW g \in Calls, Decode(g)
  PROVE  Answered(g) /\ Head(stdout).to = g /\ stdout' = <<>>
<1>1. stdout # <<>> /\ Head(stdout) # Junk /\ InExchange(g) /\ stdout' = Tail(stdout)
  BY DEF Decode, InExchange
<1>2. ~Working(g) /\ ~Broken
  BY <1>1 DEF Working, Broken
<1>3. Answered(g)
  BY <1>1, <1>2 DEF NodePart, ExchangeInv
<1>4. PICK r \in Reply : stdout = <<r>> /\ r.to = g
  BY <1>3 DEF Answered
<1> QED
  BY <1>1, <1>3, <1>4

(* A reply fails to come only if the process is dead.                      *)
LEMMA Undelivered ==
  ASSUME NodePart, chatty = {}, NEW g \in Calls, DecodeFailed(g)
  PROVE  ~Alive
<1> SUFFICES ASSUME Alive PROVE FALSE
  OBVIOUS
<1>1. stdout # <<>> /\ Head(stdout) = Junk /\ InExchange(g)
  BY DEF DecodeFailed, InExchange
<1>2. Answered(g)
  BY <1>1 DEF Working, Broken, NodePart, ExchangeInv
<1>3. PICK r \in Reply : stdout = <<r>> /\ r.to = g
  BY <1>2 DEF Answered
<1> QED
  BY <1>1, <1>3, Texts DEF Clients

(* Nobody is in an exchange, and then nothing is on stdout.                *)
Rest == (\A g \in Calls \cup {Starter} : ~InExchange(g)) /\ (Alive => Clean)

LEMMA HostStep ==
  ASSUME NodePart, chatty = {}, NEW g \in Calls \cup Closers,
         Lock(g) \/ (g \in Calls /\ Invoke(g)) \/ (g \in Closers /\ Kill(g))
  PROVE  ExchangeInv'
<1> USE DEF NodePart, RunPart, ProtocolPart, TypeOK, Clients
<1>1. CASE Lock(g)
  <2>1. /\ UNCHANGED <<chatty, conn, stdout, proc, worker, msg, current>>
        /\ pc'[g] \in {"dial", "kill"} /\ pc[g] = "lock" /\ pc'[Starter] = pc[Starter]
        /\ \A h \in Calls \ {g} : pc'[h] = pc[h]
    BY <1>1 DEF Lock, http, osVars, nodeVars, server, workerVars
  <2>2. \A h \in Calls \cup {Starter} : InExchange(h)' <=> InExchange(h)
    BY <2>1 DEF InExchange
  <2> QED
    BY <2>1, <2>2 DEF ExchangeInv, Working, Answered, Broken, Clean, Alive
<1>2. CASE g \in Calls /\ Dial(g)
  <2>1. pc[Starter] = "up" /\ \A h \in Calls \ {g} : pc[h] \notin Serving /\ ~InExchange(h)
    BY <1>2, OneExchange DEF Dial, Serving
  <2>2. Alive => Clean
    BY <1>2, <2>1 DEF ExchangeInv, InExchange, Dial
  <2>3. Rest'
    BY <1>2, <2>1, <2>2 DEF Dial, Rest, InExchange, Clean, Alive, osVars, nodeVars, server, workerVars, Serving
  <2> QED
    BY <2>3 DEF Rest, ExchangeInv, InExchange
<1>3. CASE g \in Calls /\ Posted(g)
  <2>1. pc[Starter] = "up" /\ \A h \in Calls \ {g} : pc[h] \notin Serving /\ ~InExchange(h)
    BY <1>3, OneExchange DEF Posted, Serving
  <2>2. \A h \in Calls \cup {Starter} : InExchange(h)' <=> InExchange(h)
    BY <1>3, <2>1 DEF Posted, InExchange, Serving
  <2>3. UNCHANGED <<chatty, stdout, proc, worker, msg, current>> /\ pc'[Starter] = pc[Starter]
    BY <1>3 DEF Posted, osVars, nodeVars, server, workerVars
  <2> QED
    BY <2>2, <2>3 DEF ExchangeInv, Working, Answered, Broken, Clean, Alive
<1>4. ASSUME g \in Calls, NEW how \in Returned, Leave(g, how), pc[g] \in Serving, Alive' => Clean'
      PROVE  ExchangeInv'
  <2>1. pc[Starter] = "up" /\ \A h \in Calls \ {g} : pc[h] \notin Serving
    BY <1>4, OneExchange
  <2>2. Rest'
    BY <1>4, <2>1 DEF Leave, Returned, Rest, InExchange, Serving
  <2> QED
    BY <2>2 DEF Rest, ExchangeInv, InExchange
<1>5. CASE g \in Calls /\ Refused(g)
  <2>1. pc[Starter] = "up" /\ \A h \in Calls \ {g} : ~InExchange(h)
    BY <1>5, OneExchange DEF Refused, Serving
  <2>2. Alive => Clean
    BY <1>5, <2>1 DEF ExchangeInv, InExchange, Refused
  <2>3. Alive' => Clean'
    BY <1>5, <2>2 DEF Refused, Clean, Alive, osVars, nodeVars, server, workerVars
  <2> QED
    BY <1>4, <1>5, <2>3 DEF Refused, Returned, Serving
<1>6. CASE g \in Calls /\ (PostFailed(g) \/ DecodeFailed(g))
  <2>1. ~Alive'
    BY <1>6, Undelivered DEF PostFailed, DecodeFailed, Alive, osVars
  <2> QED
    BY <1>4, <1>6, <2>1 DEF PostFailed, DecodeFailed, Returned, Serving
<1>7. CASE g \in Calls /\ Decode(g)
  <2>1. Clean'
    BY <1>7, Delivered DEF Answered, Clean, Decode, nodeVars, server, workerVars
  <2>2. Verdict(g, Head(stdout)) \in Returned
    BY DEF Verdict, Returned
  <2> QED
    BY <1>4, <1>7, <2>1, <2>2 DEF Decode, Serving
<1>8. CASE g \in Closers /\ Kill(g)
  <2>1. lock \notin Calls /\ pc[Starter] = "up"
    BY <1>8 DEF Kill, LockInv, Waiting
  <2>2. ~Alive' /\ conn' = conn
    BY <1>8 DEF Kill, Alive, http
  <2>3. \A h \in Calls \cup {Starter} : ~InExchange(h)'
    BY <1>8, <2>1, <2>2, ClosersTurn DEF Kill, InExchange
  <2>4. Rest'
    BY <2>2, <2>3 DEF Rest
  <2> QED
    BY <2>4 DEF Rest, ExchangeInv, InExchange
<1> QED
  BY <1>1, <1>2, <1>3, <1>5, <1>6, <1>7, <1>8 DEF Invoke

LEMMA NodeStep ==
  ASSUME NodePart, chatty = {},
         Host \/ IdleTimeout \/ Exit \/ Function \/ Runtime
  PROVE  ExchangeInv'
<1> USE DEF NodePart, RunPart, ProtocolPart, TypeOK, Clients
<1>1. CASE Started
  <2>1. pc[Starter] = "decode" /\ stdout # <<>> /\ Head(stdout) # Junk
    BY <1>1 DEF Started
  <2>2. Answered(Starter)
    BY <2>1 DEF ExchangeInv, Broken
  <2>3. PICK r \in Reply : stdout = <<r>>
    BY <2>2 DEF Answered
  <2>4. Clean'
    BY <1>1, <2>2, <2>3 DEF Started, Answered, Clean, nodeVars, server, workerVars
  <2>5. Rest'
    BY <1>1, <2>1, <2>4, Handshake DEF Started, Rest, InExchange, http
  <2> QED
    BY <2>5 DEF Rest, ExchangeInv, InExchange
<1>2. CASE StartFailed
  <2>1. pc[Starter] = "decode"
    BY <1>2 DEF StartFailed
  <2>2. ~Alive
    <3> SUFFICES ASSUME Alive PROVE FALSE
      OBVIOUS
    <3>1. stdout # <<>> /\ Head(stdout) = Junk
      BY <1>2 DEF StartFailed
    <3>2. Answered(Starter)
      BY <2>1, <3>1 DEF ExchangeInv, Broken
    <3>3. PICK r \in Reply : stdout = <<r>> /\ r.to = Starter
      BY <3>2 DEF Answered
    <3> QED
      BY <3>1, <3>3, Texts
  <2>3. ~Alive' /\ UNCHANGED conn
    BY <1>2, <2>2 DEF StartFailed, Alive, osVars, http
  <2>4. Rest'
    BY <1>2, <2>1, <2>3, Handshake DEF StartFailed, Rest, InExchange
  <2> QED
    BY <2>4 DEF Rest, ExchangeInv, InExchange
<1>3. CASE Waited \/ CloseDone
  <2>1. ~Alive /\ ~Alive' /\ UNCHANGED <<chatty, pc, conn, stdout, worker, msg, current>>
    BY <1>3 DEF Waited, CloseDone, Alive, goVars, http, nodeVars, server, workerVars
  <2> QED
    BY <2>1 DEF ExchangeInv, InExchange, Working, Answered, Broken
<1>4. ASSUME IdleTimeout \/ Exit
      PROVE  \A h \in Calls \cup {Starter} : InExchange(h)' <=> InExchange(h)
  <2>1. UNCHANGED pc /\ (conn' = conn \/ (conn = "idle" /\ conn' = "none"))
    BY <1>4 DEF IdleTimeout, Exit, goVars
  <2> QED
    BY <2>1 DEF InExchange
<1>5. CASE IdleTimeout
  <2>1. UNCHANGED <<chatty, pc, stdout, proc, worker, msg, current>>
    BY <1>5 DEF IdleTimeout, goVars, osVars, nodeVars, server, workerVars
  <2> QED
    BY <1>4, <1>5, <2>1 DEF ExchangeInv, Working, Answered, Broken, Clean, Alive
<1>6. CASE Exit
  <2>1. Alive /\ ~Alive' /\ UNCHANGED <<chatty, pc, worker, msg, current>>
    BY <1>6 DEF Exit, Alive, goVars, nodeVars, server, workerVars
  <2>2. \/ stdout' = stdout
        \/ worker \in {"boot", "reporting"} /\ stdout' = Append(stdout, Junk)
    BY <1>6 DEF Exit
  <2>3. ~Broken
    BY <2>1 DEF Broken
  <2>4. worker \in {"boot", "reporting"} => \A g : ~Answered(g)
    BY DEF Answered
  <2>5. ASSUME NEW g \in Calls, InExchange(g) PROVE Working(g)' \/ Answered(g)' \/ Broken'
    <3>1. CASE stdout' = stdout
      BY <2>1, <2>3, <2>5, <3>1 DEF ExchangeInv, Working, Answered
    <3>2. CASE worker \in {"boot", "reporting"} /\ stdout' = Append(stdout, Junk)
      <4>1. stdout = <<>>
        BY <2>3, <2>4, <2>5, <3>2 DEF ExchangeInv, Working
      <4> QED
        BY <2>1, <3>2, <4>1 DEF Broken
    <3> QED
      BY <2>2, <3>1, <3>2
  <2>6. ASSUME pc[Starter] = "decode"
        PROVE  (worker' = "boot" /\ stdout' = <<>>) \/ Answered(Starter)' \/ Broken'
    <3>1. CASE stdout' = stdout
      BY <2>1, <2>3, <2>6, <3>1 DEF ExchangeInv, Answered
    <3>2. CASE worker \in {"boot", "reporting"} /\ stdout' = Append(stdout, Junk)
      <4>1. stdout = <<>>
        BY <2>3, <2>4, <2>6, <3>2 DEF ExchangeInv
      <4> QED
        BY <2>1, <3>2, <4>1 DEF Broken
    <3> QED
      BY <2>2, <3>1, <3>2
  <2> QED
    BY <1>4, <1>6, <2>1, <2>5, <2>6 DEF ExchangeInv
<1>7. CASE Boot
  <2>1. Alive /\ worker = "boot" /\ ~Broken /\ ~Clean /\ pc[Starter] # "up"
    BY <1>7 DEF Boot, StartInv, Broken, Clean
  <2>2. pc[Starter] = "decode" /\ \A h \in Calls : ~InExchange(h)
    BY <2>1, Handshake DEF ExchangeInv, InExchange, LockInv
  <2>3. stdout = <<>> /\ msg = Nobody
    BY <2>1, <2>2 DEF ExchangeInv, Answered, ServerInv
  <2>4. Answered(Starter)'
    <3> DEFINE r == [to |-> Starter, errors |-> FALSE]
    <3>1. r \in Reply /\ r.to = Starter
      BY DEF Reply
    <3>2. stdout' = <<r>> /\ worker' = "init" /\ msg' = Nobody
      BY <1>7, <2>3 DEF Boot
    <3> HIDE DEF r
    <3> QED
      BY <3>1, <3>2 DEF Answered
  <2>5. UNCHANGED <<pc, conn, chatty>>
    BY <1>7 DEF Boot, goVars, http, osVars
  <2> QED
    BY <2>2, <2>4, <2>5 DEF ExchangeInv, InExchange
<1>8. CASE Receive
  <2>1. PICK g \in Calls : g = wire
    BY <1>8, Received
  <2>2. pc[g] = "post" /\ conn = "open" /\ conn' = "replied" /\ Alive
    BY <1>8, <2>1, Received DEF Receive
  <2>3. pc[Starter] = "up" /\ \A h \in Calls \ {g} : pc[h] \notin Serving /\ ~InExchange(h)
    BY <2>2, OneExchange DEF Serving
  <2>4. Clean
    BY <2>2, <2>3 DEF ExchangeInv, InExchange
  <2>5. UNCHANGED <<pc, stdout, chatty>>
    BY <1>8 DEF Receive, goVars, osVars
  <2>6. Working(g)'
    <3>1. CASE worker = "listening"
      BY <1>8, <2>1, <2>4, <2>5, <3>1, Received DEF Working, Clean
    <3>2. CASE worker # "listening"
      BY <1>8, <2>1, <2>4, <2>5, <3>2, Received DEF Working, Clean
    <3> QED
      BY <3>1, <3>2
  <2>7. InExchange(g)' /\ \A h \in Calls : InExchange(h)' => h = g
    BY <2>2, <2>3, <2>5 DEF InExchange, Serving
  <2> QED
    BY <2>3, <2>5, <2>6, <2>7 DEF ExchangeInv
<1>9. CASE WaitForInvoke /\ msg = Nobody
  <2>1. /\ worker = "ready" /\ worker' = "listening"
        /\ UNCHANGED <<chatty, pc, conn, stdout, proc, msg, current>>
    BY <1>9 DEF WaitForInvoke, goVars, http, osVars
  <2> QED
    BY <1>9, <2>1 DEF ExchangeInv, InExchange, Working, Answered, Broken, Clean, Alive
<1>10. ASSUME NEW g \in Calls, InExchange(g), UNCHANGED <<chatty, pc, conn>>,
              Working(g)' \/ Answered(g)'
       PROVE  ExchangeInv'
  <2>1. pc[g] \in Serving
    BY <1>10 DEF InExchange, Serving
  <2>2. pc[Starter] = "up" /\ \A h \in Calls \ {g} : ~InExchange(h)
    BY <2>1, OneExchange
  <2> QED
    BY <1>10, <2>2 DEF ExchangeInv, InExchange
<1>11. CASE WaitForInvoke /\ msg # Nobody
  <2>1. PICK g \in Calls : g = msg /\ InExchange(g) /\ Working(g)
    BY <1>11, Served DEF WaitForInvoke
  <2>2. Working(g)' /\ UNCHANGED <<chatty, pc, conn>>
    BY <1>11, <2>1 DEF WaitForInvoke, Working, goVars, http, osVars
  <2> QED
    BY <1>10, <2>1, <2>2
<1>12. CASE Function \/ FunctionEnds
  <2>1. PICK g \in Calls : g = current /\ InExchange(g) /\ Working(g)
    BY <1>12, Served DEF Function, FunctionReturns, FunctionThrows, FunctionEnds
  <2>2. Working(g)' /\ UNCHANGED <<chatty, pc, conn>>
    BY <1>12, <2>1 DEF Function, FunctionReturns, FunctionThrows, FunctionEnds, Working, goVars, http,
                       osVars, server
  <2> QED
    BY <1>10, <2>1, <2>2
<1>13. CASE ReportDone /\ worker = "reporting"
  <2>1. PICK g \in Calls : g = current /\ InExchange(g) /\ Working(g)
    BY <1>13, Served DEF ReportDone
  <2>2. PICK r \in Reply : r.to = g /\ stdout' = <<r>>
    <3> DEFINE failed == current # Nobody /\ outcome[current] = "fault"
               r == [to |-> current, errors |-> failed]
    <3>1. r \in Reply /\ r.to = g
      BY <2>1 DEF Reply
    <3>2. stdout' = <<r>>
      BY <1>13, <2>1 DEF ReportDone, Reports, StartInv, Working
    <3> HIDE DEF r
    <3> QED
      BY <3>1, <3>2
  <2>3. worker' = "rearm" /\ msg' = Nobody /\ UNCHANGED <<chatty, pc, conn>>
    BY <1>13 DEF ReportDone, Reports, StartInv, ServerInv, goVars, http, osVars, server
  <2>4. Answered(g)'
    BY <2>2, <2>3 DEF Answered
  <2> QED
    BY <1>10, <2>1, <2>3, <2>4
<1>14. CASE (ReportDone /\ worker = "init") \/ Rearm
  <2>1. /\ worker \in {"init", "rearm"} /\ worker' = "ready"
        /\ UNCHANGED <<chatty, pc, conn, stdout, proc, msg, current>>
    BY <1>14 DEF ReportDone, Reports, StartInv, Rearm, goVars, http, osVars, server
  <2> QED
    BY <2>1 DEF ExchangeInv, InExchange, Working, Answered, Broken, Clean, Alive
<1> QED
  BY <1>1, <1>2, <1>3, <1>5, <1>6, <1>7, <1>8, <1>9, <1>11, <1>12, <1>13, <1>14
  DEF Host, Runtime, ReportDone

LEMMA ExchangeStep == NodePart /\ [Next]_vars => ExchangeInv'
<1> SUFFICES ASSUME NodePart, [Next]_vars PROVE ExchangeInv'
  OBVIOUS
<1>1. chatty' = chatty
  BY DEF Next, Invoke, Lock, Dial, Refused, Posted, PostFailed, Decode, DecodeFailed, Kill, Host,
         Started, StartFailed, Waited, CloseDone, IdleTimeout, Exit, Function, FunctionReturns,
         FunctionThrows, Runtime, Boot, Receive, WaitForInvoke, FunctionEnds, ReportDone, Rearm,
         Quiet, vars, osVars
<1>2. CASE chatty # {}
  BY <1>1, <1>2 DEF ExchangeInv
<1>3. CASE UNCHANGED vars
  BY <1>3 DEF NodePart, ExchangeInv, InExchange, Working, Answered, Broken, Clean, Alive, vars,
              goVars, http, osVars, nodeVars, server, workerVars
<1> QED
  BY <1>2, <1>3, HostStep, NodeStep DEF Next, Quiet

LEMMA NodeHolds == Spec => []NodePart
<1>1. Init => NodePart
  <2> SUFFICES ASSUME Init PROVE NodePart
    OBVIOUS
  <2>1. PICK callers \in {Calls, Calls \cup Closers} :
          pc = [g \in Clients |-> IF g = Starter THEN "decode"
                                  ELSE IF g \in callers THEN "lock" ELSE "never"]
    BY DEF Init
  <2>2. pc[Starter] = "decode" /\ \A g \in Calls \cup Closers : pc[g] \in Waiting
    BY <2>1 DEF Clients, Waiting
  <2>3. \A g \in Calls \cup Closers : pc[g] \notin Serving \cup {"kill"}
    BY <2>2 DEF Waiting, Serving
  <2>4. TypeOK /\ LockInv
    BY <2>2, <2>3, TypeInit DEF LockInv
  <2>5. HttpInv /\ ServerInv /\ StartInv
    BY <2>2, <2>3 DEF Init, HttpInv, ServerInv, StartInv, Serving
  <2>6. RunInv /\ StdoutInv
    BY DEF Init, RunInv, StdoutInv, Clients
  <2>7. ExchangeInv
    BY <2>2, <2>3 DEF Init, ExchangeInv, InExchange, Serving
  <2> QED
    BY <2>4, <2>5, <2>6, <2>7 DEF NodePart, RunPart, ProtocolPart
<1>2. NodePart /\ [Next]_vars => NodePart'
  BY TypeStep, LockStep, HttpStep, ServerStep, StartStep, RunStep, StdoutStep, ExchangeStep
  DEF NodePart, RunPart, ProtocolPart
<1> QED
  BY <1>1, <1>2, PTL DEF Spec

-----------------------------------------------------------------------------
(* No request goes over the connection of an earlier one.                  *)
THEOREM FreshConnections == Spec => []NoReuse
<1>1. NodePart => NoReuse
  BY DEF NodePart, RunPart, ProtocolPart, LockInv, HttpInv, NoReuse, Serving, TypeOK
<1> QED
  BY NodeHolds, <1>1, PTL

(* The mock's own assertions hold: it is never found not listening, and    *)
(* never started twice, whatever the functions write.                      *)
THEOREM AssertionsHold == Spec => []ServerProtocol
<1>1. NodePart => ServerProtocol
  BY DEF NodePart, RunPart, ProtocolPart, ServerInv, ServerProtocol
<1> QED
  BY NodeHolds, <1>1, PTL

(* Close never kills the process in the middle of an exchange.             *)
THEOREM KillsOnlyBetween == Spec => KillsBetween
<1>1. NodePart /\ [Next]_vars
        => [\A g \in Calls : status' = "killed" /\ status # "killed" => pc[g] \notin Serving]_vars
  <2> SUFFICES ASSUME NodePart, [Next]_vars, NEW g \in Calls, status' = "killed", status # "killed"
               PROVE  pc[g] \notin Serving
    OBVIOUS
  <2>1. PICK c \in Closers : Kill(c)
    BY DEF Next, Invoke, Lock, Dial, Refused, Posted, PostFailed, Decode, DecodeFailed, Host, Started,
           StartFailed, Waited, CloseDone, IdleTimeout, Exit, Function, FunctionReturns,
           FunctionThrows, Runtime, Boot, Receive, WaitForInvoke, FunctionEnds, ReportDone, Rearm,
           Quiet, vars, osVars
  <2>2. lock = c
    BY <2>1 DEF Kill, NodePart, RunPart, ProtocolPart, LockInv
  <2> QED
    BY <2>2, ClosersTurn DEF NodePart, RunPart
<1> QED
  BY NodeHolds, <1>1, PTL DEF Spec, KillsBetween

-----------------------------------------------------------------------------
(* What a call returned is what the function did for the call whose reply  *)
(* it got; that one was its own unless functions write on stdout.          *)
Answers ==
  \A g \in Calls :
    /\ pc[g] \in {"ok", "fault"} =>
         /\ got[g] \in Calls
         /\ RequestId[got[g]] = RequestId[g]
         /\ pc[g] = outcome[got[g]]
    /\ chatty = {} => pc[g] # "mismatch" /\ got[g] \in {g, Nobody}

(* The verdict on a reply.                                                 *)
LEMMA Judged ==
  ASSUME NodePart, NEW g \in Calls, Decode(g)
  PROVE  /\ pc' = [pc EXCEPT ![g] = pc'[g]] /\ got' = [got EXCEPT ![g] = Head(stdout).to]
         /\ pc'[g] \in {"ok", "fault"} =>
              /\ Head(stdout).to \in Calls
              /\ RequestId[Head(stdout).to] = RequestId[g]
              /\ pc'[g] = outcome[Head(stdout).to]
         /\ chatty = {} => pc'[g] # "mismatch" /\ Head(stdout).to = g
<1> USE DEF NodePart, RunPart, ProtocolPart, TypeOK, Clients
<1>1. pc' = [pc EXCEPT ![g] = Verdict(g, Head(stdout))] /\ got' = [got EXCEPT ![g] = Head(stdout).to]
  BY DEF Decode, Leave
<1>2. stdout # <<>> /\ 1 \in 1 .. Len(stdout) /\ Head(stdout) = stdout[1]
  BY Drained DEF Decode
<1>3. Head(stdout).to \in Calls => outcome[Head(stdout).to] = Says(Head(stdout))
  BY <1>2 DEF StdoutInv
<1>4. chatty = {} => Head(stdout).to = g
  BY Delivered
<1> QED
  BY <1>1, <1>3, <1>4 DEF Verdict, Says

LEMMA AnswersStep == NodePart /\ Answers /\ [Next]_vars => Answers'
<1> SUFFICES ASSUME NodePart, Answers, [Next]_vars PROVE Answers'
  OBVIOUS
<1> USE DEF NodePart, RunPart, ProtocolPart, TypeOK, Answers, Clients
<1>1. ASSUME NEW g \in Calls, Decode(g) PROVE Answers'
  <2>1. UNCHANGED <<chatty, outcome>>
    BY <1>1 DEF Decode, osVars, nodeVars, workerVars
  <2>2. ASSUME NEW h \in Calls \ {g}
        PROVE  pc'[h] = pc[h] /\ got'[h] = got[h]
    BY <1>1, Judged
  <2>3. got'[g] = Head(stdout).to
    BY <1>1, Judged
  <2> QED
    BY <1>1, <2>1, <2>2, <2>3, Judged
<1>2. CASE Function
  <2>1. /\ current \in Calls /\ outcome[current] = "none"
        /\ \A h \in Calls \ {current} : outcome'[h] = outcome[h]
    BY <1>2 DEF Function, FunctionReturns, FunctionThrows, StartInv, RunInv
  <2>2. UNCHANGED <<pc, got, chatty>>
    BY <1>2 DEF Function, FunctionReturns, FunctionThrows, goVars, osVars
  <2> QED
    BY <2>1, <2>2
<1>3. ASSUME UNCHANGED <<got, chatty, outcome>>, NEW g \in Clients,
             \E p : p \notin {"ok", "fault", "mismatch"} /\ pc' = [pc EXCEPT ![g] = p]
      PROVE  Answers'
  BY <1>3
<1>4. ASSUME NEW g \in Calls, Dial(g) \/ Refused(g) \/ Posted(g) \/ PostFailed(g) \/ DecodeFailed(g)
      PROVE  Answers'
  BY <1>3, <1>4 DEF Dial, Refused, Posted, PostFailed, DecodeFailed, Leave, osVars, nodeVars, workerVars
<1>5. ASSUME NEW g \in Calls \cup Closers, Lock(g) \/ Kill(g) PROVE Answers'
  BY <1>3, <1>5 DEF Lock, Kill, osVars, nodeVars, workerVars
<1>6. CASE Started \/ StartFailed
  BY <1>3, <1>6 DEF Started, StartFailed, osVars, nodeVars, workerVars
<1>7. CASE UNCHANGED <<pc, got, chatty, outcome>>
  BY <1>7
<1> QED
  BY <1>1, <1>2, <1>4, <1>5, <1>6, <1>7
  DEF Next, Invoke, Host, Waited, CloseDone, IdleTimeout, Exit, Runtime, Boot, Receive,
      WaitForInvoke, FunctionEnds, ReportDone, Rearm, Quiet, vars, goVars, osVars, nodeVars,
      workerVars

(* A call that returns an answer returns what the function did for its own *)
(* event or an earlier attempt at it; its own attempt, and never a         *)
(* mismatch, if functions write nothing on stdout.                         *)
THEOREM RepliesMatch == Spec => []OwnReply
<1>1. Init => Answers
  BY DEF Init, Answers, Clients
<1>2. Answers => OwnReply
  BY DEF Answers, OwnReply
<1> QED
  BY <1>1, <1>2, NodeHolds, AnswersStep, PTL DEF Spec

-----------------------------------------------------------------------------
(* The state of the abstract container: what the substitution of           *)
(* NodeContainer makes of each call's pc.                                  *)
Stage(p) == IF p \in Waiting THEN "ready"
            ELSE IF p \in Serving THEN "serving"
            ELSE IF p = "mismatch" THEN "error" ELSE p

State == [g \in Calls |-> Stage(pc[g])]

LEMMA Stages ==
  ASSUME NodePart, NEW g \in Calls
  PROVE  /\ State[g] = Stage(pc[g])
         /\ State[g] = "serving" <=> pc[g] \in Serving
         /\ Stage("dial") = "serving" /\ Stage("post") = "serving" /\ Stage("decode") = "serving"
         /\ Stage("error") = "error" /\ Stage("ok") = "ok" /\ Stage("fault") = "fault"
BY DEF NodePart, RunPart, ProtocolPart, TypeOK, State, Stage, Clients, Waiting, Serving, Returned

(* What a step does to the abstract state, if it moves one goroutine.      *)
LEMMA Moved ==
  ASSUME NodePart, NEW g \in Clients, NEW p, pc' = [pc EXCEPT ![g] = p]
  PROVE  /\ g \in Calls => State' = [State EXCEPT ![g] = Stage(p)]
         /\ g \notin Calls \/ Stage(p) = Stage(pc[g]) => State' = State
<1>1. \A h \in Calls : Stage(pc'[h]) = IF h = g THEN Stage(p) ELSE Stage(pc[h])
  BY DEF NodePart, RunPart, ProtocolPart, TypeOK, Clients
<1>2. State' = [h \in Calls |-> IF h = g THEN Stage(p) ELSE Stage(pc[h])]
  BY <1>1 DEF State
<1> QED
  BY <1>2 DEF State

(* Each step of the container is a step of Invoker or a stutter, if no     *)
(* function writes on stdout.                                              *)
LEMMA StepImplements ==
  ASSUME NodePart, [Next]_vars, chatty = {}
  PROVE  [container!Next]_(container!vars)
<1> USE DEF NodePart, RunPart, ProtocolPart
<1> DEFINE Stutter == UNCHANGED <<State, outcome, Fate>>
<1>1. ASSUME NEW g \in Calls \cup Closers, Lock(g)
      PROVE  IF g \in Calls THEN container!Serve(g) ELSE Stutter
  <2>1. UNCHANGED <<outcome, Fate>>
    BY <1>1 DEF Lock, osVars, nodeVars, workerVars, Fate, Alive
  <2>2. CASE g \notin Calls
    BY <1>1, <2>1, <2>2, Moved DEF Lock, Clients
  <2>3. CASE g \in Calls
    <3>1. State[g] = "ready"
      BY <1>1, <2>3, Stages DEF Lock, Stage, Waiting
    <3>2. \A h \in Calls : State[h] # "serving"
      BY <1>1, Stages DEF Lock, Free, Clients, LockInv
    <3>3. State' = [State EXCEPT ![g] = "serving"]
      <4>1. pc' = [pc EXCEPT ![g] = "dial"] /\ Stage("dial") = "serving"
        BY <1>1, <2>3, Stages DEF Lock
      <4> QED
        BY <2>3, <4>1, Moved DEF Clients
    <3> QED
      BY <2>1, <2>3, <3>1, <3>2, <3>3 DEF container!Serve, State, Stage, Fate
  <2> QED
    BY <2>2, <2>3
<1>2. ASSUME NEW g \in Calls, Dial(g) \/ Posted(g) PROVE Stutter
  <2>1. PICK p \in {"post", "decode"} : pc' = [pc EXCEPT ![g] = p]
    BY <1>2 DEF Dial, Posted
  <2>2. Stage(p) = Stage(pc[g])
    BY <1>2, Stages DEF Dial, Posted
  <2> QED
    BY <1>2, <2>1, <2>2, Moved DEF Dial, Posted, Clients, osVars, nodeVars, workerVars, Fate, Alive
<1>3. ASSUME NEW g \in Calls, Refused(g) \/ PostFailed(g) \/ DecodeFailed(g) PROVE container!Fail(g)
  <2>1. UNCHANGED <<outcome, Fate>> /\ pc' = [pc EXCEPT ![g] = "error"]
    BY <1>3 DEF Refused, PostFailed, DecodeFailed, Leave, osVars, nodeVars, workerVars, Fate, Alive
  <2>2. Alive => outcome[g] = "none"
    <3>1. CASE Refused(g)
      BY <3>1 DEF Refused, RunInv
    <3>2. CASE PostFailed(g) \/ DecodeFailed(g)
      BY <3>2, Undelivered DEF PostFailed
    <3> QED
      BY <1>3, <3>1, <3>2
  <2>3. State[g] = "serving"
    BY <1>3, Stages DEF Refused, PostFailed, DecodeFailed, Serving
  <2>4. State' = [State EXCEPT ![g] = "error"]
    <3>1. Stage("error") = "error"
      BY Stages
    <3> QED
      BY <2>1, <3>1, Moved DEF Clients
  <2> QED
    BY <2>1, <2>2, <2>3, <2>4 DEF container!Fail, State, Stage, Fate
<1>4. ASSUME NEW g \in Calls, Decode(g) PROVE container!Answer(g)
  <2>1. UNCHANGED <<outcome, Fate>>
    BY <1>4 DEF Decode, osVars, nodeVars, workerVars, Fate, Alive
  <2>2. Verdict(g, Head(stdout)) = outcome[g] /\ outcome[g] \in {"ok", "fault"}
    <3>1. Head(stdout).to = g
      BY <1>4, Delivered
    <3>2. stdout # <<>> /\ 1 \in 1 .. Len(stdout) /\ Head(stdout) = stdout[1]
      BY <1>4, Drained DEF Decode, TypeOK
    <3> QED
      BY <3>1, <3>2 DEF StdoutInv, Says, Verdict
  <2>3. State[g] = "serving"
    BY <1>4, Stages DEF Decode, Serving
  <2>4. State' = [State EXCEPT ![g] = outcome[g]]
    <3>1. pc' = [pc EXCEPT ![g] = outcome[g]]
      BY <1>4, <2>2 DEF Decode, Leave
    <3>2. Stage(outcome[g]) = outcome[g]
      BY <2>2, Stages
    <3> QED
      BY <3>1, <3>2, Moved DEF Clients
  <2> QED
    BY <2>1, <2>2, <2>3, <2>4 DEF container!Answer, State, Stage, Fate
<1>5. ASSUME NEW c \in Closers, Kill(c) PROVE Stutter \/ container!Stop
  <2>1. UNCHANGED outcome /\ State' = State
    BY <1>5, Moved DEF Kill, Clients, nodeVars, workerVars
  <2>2. CASE Alive
    <3>1. Fate' = "closed"
      BY <1>5, <2>2 DEF Kill, Fate, Alive
    <3>2. \A g \in Calls : State[g] # "serving"
      <4>1. lock \notin Calls
        BY <1>5 DEF Kill, LockInv
      <4> QED
        BY <4>1, ClosersTurn, Stages
    <3> QED
      BY <2>1, <2>2, <3>1, <3>2 DEF container!Stop, State, Stage, Fate
  <2>3. CASE ~Alive
    BY <1>5, <2>1, <2>3 DEF Kill, Fate, Alive
  <2> QED
    BY <2>2, <2>3
<1>6. CASE Exit
  <2>1. UNCHANGED <<outcome, State>>
    BY <1>6 DEF Exit, goVars, nodeVars, workerVars, State
  <2>2. Alive /\ Fate' = "dead"
    BY <1>6 DEF Exit, Fate, Alive
  <2> QED
    BY <2>1, <2>2 DEF container!Next, container!Crash, State, Stage, Fate
<1>7. CASE Function
  <2>1. Alive /\ worker = "busy"
    BY <1>7 DEF Function, FunctionReturns, FunctionThrows
  <2>2. PICK g \in Calls : g = current /\ InExchange(g)
    BY <2>1, Served
  <2>3. outcome[g] = "none"
    BY <2>1, <2>2 DEF RunInv
  <2>4. State[g] = "serving"
    BY <2>2, Stages DEF InExchange, Serving
  <2>5. UNCHANGED <<State, Fate>> /\ \E o \in {"ok", "fault"} : outcome' = [outcome EXCEPT ![g] = o]
    BY <1>7, <2>2 DEF Function, FunctionReturns, FunctionThrows, goVars, osVars, State, Fate, Alive
  <2>6. container!Run(g)
    BY <2>1, <2>3, <2>4, <2>5 DEF container!Run, container!Outcome, State, Stage, Fate
  <2> QED
    BY <2>6 DEF container!Next
<1>8. ASSUME Started \/ StartFailed PROVE Stutter
  <2>1. PICK p : pc' = [pc EXCEPT ![Starter] = p]
    BY <1>8 DEF Started, StartFailed
  <2> QED
    BY <1>8, <2>1, Moved DEF Started, StartFailed, Clients, osVars, nodeVars, workerVars, Fate, Alive
<1>9. ASSUME Waited \/ CloseDone PROVE Stutter
  BY <1>9 DEF Waited, CloseDone, goVars, nodeVars, workerVars, Fate, Alive, State
<1>10. ASSUME IdleTimeout \/ Runtime PROVE Stutter
  BY <1>10 DEF IdleTimeout, Runtime, Boot, Receive, WaitForInvoke, FunctionEnds, ReportDone, Rearm,
               goVars, osVars, nodeVars, workerVars, State, Fate, Alive
<1>11. ASSUME UNCHANGED vars PROVE Stutter
  BY <1>11 DEF vars, goVars, osVars, nodeVars, workerVars, State, Fate, Alive
<1>12. Stutter => UNCHANGED container!vars
  BY DEF container!vars, State, Stage, Fate
<1> QED
  BY <1>1, <1>2, <1>3, <1>4, <1>5, <1>6, <1>7, <1>8, <1>9, <1>10, <1>11, <1>12
  DEF Next, Invoke, Host, Quiet, container!Next

(* If functions leave stdout to the replies, the node container implements *)
(* Invoker: it serializes the calls, runs each at most once and answers    *)
(* each with what its own run did.                                         *)
THEOREM Implementation == Spec => ImplementsInvoker
<1>1. Init => container!Init
  <2> SUFFICES ASSUME Init PROVE container!Init
    OBVIOUS
  <2>1. \A g \in Calls : pc[g] \in Waiting
    BY DEF Init, Waiting, Clients
  <2>2. outcome = [g \in Calls |-> "none"] /\ Fate = "up"
    BY DEF Init, Fate, Alive
  <2> QED
    BY <2>1, <2>2 DEF container!Init
<1>2. NodePart /\ [Next]_vars => [chatty = {} => container!Next]_(container!vars)
  BY StepImplements
<1> QED
  BY <1>1, <1>2, NodeHolds, PTL DEF Spec, ImplementsInvoker
================================================================================
