--------------------------------- MODULE Mlessd ---------------------------------
(***************************************************************************)
(* The daemon: main, the HTTP server and its one handler, composed of the  *)
(* template (Template) and the pool of runners (RunnerPool).  A request    *)
(* goes through both, and meets there the ticker, other requests, and a    *)
(* developer who edits template and code alike.                            *)
(*                                                                         *)
(* All requests are for one function.  A template without it is, to them,  *)
(* the empty table.  Functions.Close is never called.                      *)
(***************************************************************************)
EXTENDS Naturals

CONSTANTS
  Requests, Nobody,
  Opener, Ticker, MaxVersion, MaxWrites,             \* see Template
  NodeDefs, Debuggers, NoDebugger, Resources,
  ReservationKey, Files, CodeOf,                     \* see RunnerPool
  MaxCode,     \* bound: RunnerPool's MaxVersion
  MaxEdits,    \* bound: edits of template and code together
  Defs,        \* see RunnerPool
  KeyOf        \* what runnerKey makes of a version of the template

VARIABLES
  content, mtime, latest, writes, hidden, functions, modTime, ticking, due,
  lock, step, seen, read, result, asked, spoilt,     \* Template's, pc is step
  code, stamp, pc, want, arrival, key, hash, runner, proc, loaded, serving, runners,
  reservation,                                       \* RunnerPool's
  server,      \* main: "starting", "listening" or "exited"
  edits,       \* so far
  answer,      \* a request's HTTP answer: "none", "ok", "error" or "closed"
  first        \* ghost: the stamps of the code when it was accepted

template == INSTANCE Template WITH pc <- step
pool == INSTANCE RunnerPool WITH MaxVersion <- MaxCode,
          Asked <- {KeyOf[v] : v \in 1 .. MaxVersion}

ASSUME MlessdAssumption ==
  /\ template!TemplateAssumption /\ pool!PoolAssumption
  /\ MaxEdits \in Nat
  /\ KeyOf \in [1 .. MaxVersion -> pool!Key]

templateVars == <<content, mtime, latest, writes, hidden, functions, modTime, ticking,
                  due, lock, step, seen, read, result, asked, spoilt>>
poolVars == <<code, stamp, pc, want, arrival, key, hash, runner, proc, loaded,
              serving, runners, reservation>>
http == <<answer, first>>
vars == <<templateVars, poolVars, server, edits, http>>

Init ==
  /\ template!Init /\ pool!Init
  /\ server = "starting"
  /\ want = [r \in Requests |-> KeyOf[1]]
  /\ edits = 0
  /\ answer = [r \in Requests |-> "none"]
  /\ first = [r \in Requests |-> stamp]

-----------------------------------------------------------------------------
(* mlessd: New's error ends the program before it listens, and so does a   *)
(* port that is taken.                                                     *)
Listen ==
  /\ server = "starting"
  /\ step[Opener] = "idle"
  /\ server' = "listening"
  /\ UNCHANGED <<templateVars, poolVars, edits, http>>

Exit ==
  /\ server = "starting"
  /\ step[Opener] \in {"idle", "failed"}
  /\ server' = "exited"
  /\ UNCHANGED <<templateVars, poolVars, edits, http>>

(* The refreshes of the ticker, of New and of the requests.                *)
Refreshing ==
  /\ server # "exited"
  /\ \/ \E a \in template!Refreshers : template!Refresh(a) \/ template!RefreshStep(a)
     \/ template!Range \/ template!Fire \/ template!Tick
  /\ UNCHANGED <<poolVars, server, edits, http>>

-----------------------------------------------------------------------------
Answered(r, how) == answer' = [answer EXCEPT ![r] = how]

Waiting(r) == server = "listening" /\ answer[r] = "none"

(* The body does not parse, or names no function.                          *)
BadRequest(r) ==
  /\ Waiting(r)
  /\ step[r] = "idle"
  /\ Answered(r, "error")
  /\ UNCHANGED <<templateVars, poolVars, server, edits, first>>

(* Mutant: the handler relies on the ticker.                               *)
AcceptUnrefreshed(r) ==
  /\ Waiting(r)
  /\ step[r] = "idle"
  /\ step' = [step EXCEPT ![r] = "get"]
  /\ asked' = [asked EXCEPT ![r] = IF content \in template!Versions /\ ~hidden THEN content ELSE 0]
  /\ spoilt' = [spoilt EXCEPT ![r] = content \notin template!Versions]
  /\ first' = [first EXCEPT ![r] = stamp]
  /\ UNCHANGED <<content, mtime, latest, writes, hidden, functions, modTime, ticking,
                 due, lock, seen, read, result, poolVars, server, edits, answer>>

(* invokeHandler goes on to refresh the template.                          *)
Accept(r) ==
  /\ Waiting(r)
  /\ template!Arrive(r)
  /\ first' = [first EXCEPT ![r] = stamp]
  /\ UNCHANGED <<poolVars, server, edits, answer>>

(* functions.Get and, with the definition of that moment, prepareEnv and   *)
(* run.Get.                                                                *)
Found(r) ==
  /\ template!Get(r)
  /\ functions # 0
  /\ pool!Arrive(r, KeyOf[functions])
  /\ UNCHANGED <<server, edits, http>>

NoSuchFunction(r) ==
  /\ template!Get(r)
  /\ functions = 0
  /\ Answered(r, "error")
  /\ UNCHANGED <<poolVars, server, edits, first>>

(* run.Get and runner.Invoke, and what containers do meanwhile.            *)
Running ==
  /\ \E r \in Requests :
       \/ pool!GetStep(r) \/ pool!CloseOld(r) \/ pool!Started(r)
       \/ pool!Begin(r) \/ pool!Respond(r) \/ pool!Reply(r) \/ pool!InvokeFailed(r)
       \/ pool!Container(r)
  /\ UNCHANGED <<templateVars, server, edits, http>>

(* jsonHandler writes the result or the error; net/http recovers a panic   *)
(* and closes the connection.                                              *)
Status == [replied |-> "ok", failed |-> "error", panicked |-> "closed"]

Answer(r) ==
  /\ answer[r] = "none"
  /\ pc[r] \in pool!Finished
  /\ Answered(r, Status[pc[r]])
  /\ UNCHANGED <<templateVars, poolVars, server, edits, first>>

-----------------------------------------------------------------------------
(* The developer edits the template and the code.                          *)
Edit ==
  /\ edits < MaxEdits
  /\ edits' = edits + 1
  /\ \/ template!Edit /\ UNCHANGED poolVars
     \/ (\E f \in Files : pool!Edit(f)) /\ UNCHANGED templateVars
  /\ UNCHANGED <<server, http>>

(* The program ended.                                                      *)
Ended == server = "exited" /\ UNCHANGED vars

Handler(r) ==
  BadRequest(r) \/ Accept(r) \/ Found(r) \/ NoSuchFunction(r) \/ Answer(r)

Next ==
  \/ Listen \/ Exit \/ Ended
  \/ Refreshing \/ Running \/ Edit
  \/ \E r \in Requests : Handler(r)

Spec == Init /\ [][Next]_vars

-----------------------------------------------------------------------------
(* From end to end, an event is executed under a definition and by code at *)
(* least as new as what was on disk when its request was accepted, however *)
(* the developer's edits of template and code fall between the steps.  The *)
(* exceptions are those of Template - a save it cannot see, a file it      *)
(* cannot read - and of RunnerPool: saves of code since the last one that  *)
(* changed the file's size, mode or mtime.                                 *)
UpToDate ==
  \A r \in Requests : answer[r] = "ok" =>
    /\ \E v \in 1 .. MaxVersion :
         /\ v >= asked[r] \/ spoilt[r]
         /\ KeyOf[v] = want[r]
    /\ key[runner[r]].def = want[r].def
    /\ \A f \in CodeOf[want[r].def] : loaded[runner[r]][f] >= first[r][f]
================================================================================
