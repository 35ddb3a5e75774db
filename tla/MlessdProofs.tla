------------------------------ MODULE MlessdProofs ------------------------------
(***************************************************************************)
(* What TLAPS proves of the daemon: it implements its parts, Template and  *)
(* RunnerPool, so that what is proved of those holds in it; with what the  *)
(* handler hands from one to the other, an event is executed from end to   *)
(* end by what is up to date.                                              *)
(***************************************************************************)
EXTENDS Mlessd, TLAPS

templateProofs == INSTANCE TemplateProofs WITH pc <- step
poolProofs == INSTANCE RunnerPoolProofs WITH MaxVersion <- MaxCode,
                Asked <- {KeyOf[v] : v \in 1 .. MaxVersion}

USE MlessdAssumption

(* The modules of the proofs and those of the daemon say the same.         *)
LEMMA SameAssumptions == templateProofs!TemplateAssumption /\ poolProofs!PoolAssumption
BY DEF templateProofs!Refreshers, template!Refreshers, poolProofs!Key, pool!Key

LEMMA SameTemplate ==
  /\ template!Init <=> templateProofs!Init
  /\ [template!Next]_(template!vars) => [templateProofs!Next]_(templateProofs!vars)
<1>1. template!Init <=> templateProofs!Init
  BY DEF template!Init, templateProofs!Init, template!Refreshers, templateProofs!Refreshers,
         template!Versions, templateProofs!Versions, template!Bad, templateProofs!Bad,
         template!Missing, templateProofs!Missing, template!Content, templateProofs!Content
<1>2. UNCHANGED template!vars <=> UNCHANGED templateProofs!vars
  BY DEF template!vars, templateProofs!vars, template!file, templateProofs!file, template!table,
         templateProofs!table, template!clock, templateProofs!clock, template!found,
         templateProofs!found, template!ghost, templateProofs!ghost
<1>3. template!Next <=> templateProofs!Next
  BY DEF template!Next, templateProofs!Next, template!Arrive, templateProofs!Arrive,
         template!Refresh, templateProofs!Refresh, template!RefreshStep, templateProofs!RefreshStep,
         template!StatFailed, templateProofs!StatFailed, template!StatSame, templateProofs!StatSame,
         template!StatNew, templateProofs!StatNew, template!Open, templateProofs!Open,
         template!Assign, templateProofs!Assign, template!Get, templateProofs!Get, template!Range,
         templateProofs!Range, template!Panic, templateProofs!Panic, template!Fire,
         templateProofs!Fire, template!Tick, templateProofs!Tick, template!Close,
         templateProofs!Close, template!Edit, templateProofs!Edit, template!Write,
         templateProofs!Write, template!Quiet, templateProofs!Quiet, template!After,
         templateProofs!After, template!Free, templateProofs!Free, template!Same,
         templateProofs!Same, template!Parsed, templateProofs!Parsed, template!Refreshers,
         templateProofs!Refreshers, template!Versions, templateProofs!Versions, template!Bad,
         templateProofs!Bad, template!Missing, templateProofs!Missing, template!Content,
         templateProofs!Content, template!file, templateProofs!file, template!table,
         templateProofs!table, template!clock, templateProofs!clock, template!found,
         templateProofs!found, template!ghost, templateProofs!ghost, template!vars,
         templateProofs!vars
<1> QED
  BY <1>1, <1>2, <1>3

LEMMA SamePool ==
  /\ pool!Init <=> poolProofs!Init
  /\ [pool!Next]_(pool!vars) => [poolProofs!Next]_(poolProofs!vars)
<1>1. pool!Init <=> poolProofs!Init
  BY DEF pool!Init, poolProofs!Init, pool!Key, poolProofs!Key
<1>2. UNCHANGED pool!vars <=> UNCHANGED poolProofs!vars
  BY DEF pool!vars, poolProofs!vars, pool!disk, poolProofs!disk, pool!reqVars, poolProofs!reqVars, pool!contVars,
         poolProofs!contVars
<1>3. pool!Next <=> poolProofs!Next
  BY DEF pool!Next, poolProofs!Next, pool!Request, poolProofs!Request, pool!Container,
         poolProofs!Container, pool!GetStep, poolProofs!GetStep, pool!Started, poolProofs!Started,
         pool!HashFile, poolProofs!HashFile, pool!Load, poolProofs!Load, pool!Reuse,
         poolProofs!Reuse, pool!Outdated, poolProofs!Outdated, pool!NotRunning,
         poolProofs!NotRunning, pool!CloseOld, poolProofs!CloseOld, pool!Miss, poolProofs!Miss,
         pool!Reserve, poolProofs!Reserve, pool!ReservationRefused, poolProofs!ReservationRefused,
         pool!Launch, poolProofs!Launch, pool!LaunchFailed, poolProofs!LaunchFailed, pool!Store,
         poolProofs!Store, pool!Handshake, poolProofs!Handshake, pool!HandshakeFailed,
         poolProofs!HandshakeFailed, pool!GiveUp, poolProofs!GiveUp, pool!Begin, poolProofs!Begin,
         pool!Return, poolProofs!Return, pool!Reply, poolProofs!Reply, pool!InvokeFailed,
         poolProofs!InvokeFailed, pool!Respond, poolProofs!Respond, pool!InCall,
         poolProofs!InCall, pool!LeftBehind, poolProofs!LeftBehind, pool!disk, poolProofs!disk, pool!LoadFile, poolProofs!LoadFile, pool!Crash, poolProofs!Crash,
         pool!Reap, poolProofs!Reap, pool!Watch, poolProofs!Watch, pool!Edit, poolProofs!Edit,
         pool!Idle, poolProofs!Idle, pool!Arrive, poolProofs!Arrive, pool!Unread, poolProofs!Unread,
         pool!IsRunning, poolProofs!IsRunning, pool!SameHash, poolProofs!SameHash, pool!Unlocked,
         poolProofs!Unlocked, pool!Wants, poolProofs!Wants, pool!Vacant, poolProofs!Vacant,
         pool!Plain, poolProofs!Plain, pool!Fallback, poolProofs!Fallback, pool!Unreserve,
         poolProofs!Unreserve, pool!Dead, poolProofs!Dead, pool!Finished, poolProofs!Finished,
         pool!contVars, poolProofs!contVars, pool!reqVars, poolProofs!reqVars, pool!vars,
         poolProofs!vars
<1> QED
  BY <1>1, <1>2, <1>3

-----------------------------------------------------------------------------
(* Every step of the daemon is a step of the template or leaves it alone.  *)
LEMMA TemplateMoves == [Next]_vars => [template!Next]_(template!vars)
<1> SUFFICES ASSUME [Next]_vars PROVE [template!Next]_(template!vars)
  OBVIOUS
<1> DEFINE Same == UNCHANGED templateVars
<1>1. ASSUME Listen \/ Exit \/ Ended PROVE Same
  BY <1>1 DEF Listen, Exit, Ended, vars
<1>2. CASE Refreshing
  <2>1. ASSUME NEW a \in template!Refreshers, template!Refresh(a) \/ template!RefreshStep(a)
        PROVE  template!Next
    BY <2>1 DEF template!Next
  <2> QED
    BY <1>2, <2>1 DEF Refreshing, template!Next
<1>3. ASSUME Running PROVE Same
  BY <1>3 DEF Running
<1>4. CASE Edit
  BY <1>4 DEF Edit, template!Next, templateVars, template!vars, template!file, template!table,
              template!clock, template!found, template!ghost
<1>5. ASSUME NEW r \in Requests, BadRequest(r) \/ Answer(r) PROVE Same
  BY <1>5 DEF BadRequest, Answer
<1>6. ASSUME NEW r \in Requests, Accept(r) \/ Found(r) \/ NoSuchFunction(r) PROVE template!Next
  BY <1>6 DEF Accept, Found, NoSuchFunction, template!Next, template!Refreshers
<1>7. CASE UNCHANGED vars
  BY <1>7 DEF vars, templateVars, template!vars, template!file, template!table, template!clock,
              template!found, template!ghost
<1>8. Same => UNCHANGED template!vars
  BY DEF templateVars, template!vars, template!file, template!table, template!clock, template!found,
         template!ghost
<1> QED
  BY <1>1, <1>2, <1>3, <1>4, <1>5, <1>6, <1>7, <1>8 DEF Next, Handler

(* ... and so with the pool: the key a request brings is one of those that *)
(* the versions of the template can ask for.                               *)
LEMMA PoolMoves == template!TypeOK /\ [Next]_vars => [pool!Next]_(pool!vars)
<1> SUFFICES ASSUME template!TypeOK, [Next]_vars PROVE [pool!Next]_(pool!vars)
  OBVIOUS
<1> DEFINE Same == UNCHANGED poolVars
<1>1. ASSUME Listen \/ Exit \/ Ended \/ Refreshing PROVE Same
  BY <1>1 DEF Listen, Exit, Ended, Refreshing, vars
<1>2. CASE Running
  BY <1>2 DEF Running, pool!Next, pool!Request
<1>3. CASE Edit
  BY <1>3 DEF Edit, pool!Next, poolVars, pool!vars, pool!disk, pool!reqVars, pool!contVars
<1>4. ASSUME NEW r \in Requests, BadRequest(r) \/ Answer(r) \/ Accept(r) \/ NoSuchFunction(r)
      PROVE  Same
  BY <1>4 DEF BadRequest, Answer, Accept, NoSuchFunction
<1>5. ASSUME NEW r \in Requests, Found(r) PROVE pool!Next
  <2>1. functions \in 1 .. MaxVersion /\ pool!Arrive(r, KeyOf[functions])
    BY <1>5 DEF Found, template!TypeOK, template!TemplateAssumption
  <2> QED
    BY <2>1 DEF pool!Next, pool!Request
<1>6. CASE UNCHANGED vars
  BY <1>6 DEF vars, poolVars, pool!vars, pool!disk, pool!reqVars, pool!contVars
<1>7. Same => UNCHANGED pool!vars
  BY DEF poolVars, pool!vars, pool!disk, pool!reqVars, pool!contVars
<1> QED
  BY <1>1, <1>2, <1>3, <1>4, <1>5, <1>6, <1>7 DEF Next, Handler

(* What Template and RunnerPool say of requests, refreshes and edits of    *)
(* their own holds of those of the daemon: whatever its handlers and the   *)
(* developer do is a step of theirs.                                       *)
THEOREM Components == Spec => template!Spec /\ pool!Spec
<1>1. Spec => template!Spec
  BY TemplateMoves, PTL DEF Spec, Init, template!Spec
<1>2. Spec => []template!TypeOK
  <2>1. template!Spec => templateProofs!Spec
    BY SameTemplate, PTL DEF template!Spec, templateProofs!Spec
  <2>2. templateProofs!Spec => []templateProofs!TypeOK
    BY templateProofs!TypeCorrect, SameAssumptions
  <2>3. templateProofs!TypeOK => template!TypeOK
    BY DEF templateProofs!TypeOK, template!TypeOK, templateProofs!Content, template!Content,
           templateProofs!Versions, template!Versions, templateProofs!Bad, template!Bad,
           templateProofs!Missing, template!Missing, templateProofs!Refreshers, template!Refreshers
  <2> QED
    BY <1>1, <2>1, <2>2, <2>3, PTL
<1>3. Spec => pool!Spec
  BY <1>2, PoolMoves, PTL DEF Spec, Init, pool!Spec
<1> QED
  BY <1>1, <1>3

-----------------------------------------------------------------------------
(* So their inductive invariants hold in the daemon.                       *)
PartsInv == templateProofs!TemplateInv /\ poolProofs!IInv

LEMMA PartsHold == Spec => []PartsInv
<1>1. template!Spec => templateProofs!Spec
  BY SameTemplate, PTL DEF template!Spec, templateProofs!Spec
<1>2. templateProofs!Spec => []templateProofs!TemplateInv
  BY templateProofs!Invariance, SameAssumptions
<1>3. pool!Spec => poolProofs!Spec
  BY SamePool, PTL DEF pool!Spec, poolProofs!Spec
<1>4. poolProofs!Spec => []poolProofs!IInv
  BY poolProofs!Invariance, SameAssumptions
<1> QED
  BY Components, <1>1, <1>2, <1>3, <1>4, PTL DEF PartsInv

(* What the handler passes on: a request is in the pool with the           *)
(* definition that Get found in the template, and the stamps of its code   *)
(* were taken when it was accepted, before it entered the pool.            *)
HandlerInv ==
  \A r \in Requests :
    /\ pc[r] # "idle" =>
         /\ step[r] = "done" /\ result[r] # 0
         /\ KeyOf[result[r]] = want[r]
         /\ \A f \in Files : first[r][f] <= arrival[r][f]
    /\ answer[r] = "ok" => pc[r] = "replied"
    /\ first[r] \in [Files -> 1 .. MaxCode]
    /\ \A f \in Files : first[r][f] <= stamp[f]

(* What the steps of the pool after the arrival leave alone.               *)
LEMMA PoolKeeps ==
  ASSUME PartsInv, Running
  PROVE  /\ UNCHANGED <<stamp, want, arrival>>
         /\ \A r \in Requests :
              /\ pc'[r] # "idle" => pc[r] # "idle"
              /\ pc[r] = "replied" => pc'[r] = "replied"
<1> USE DEF PartsInv, poolProofs!IInv, poolProofs!TypeOK
<1>1. ASSUME NEW r \in Requests, pool!GetStep(r)
      PROVE  /\ UNCHANGED <<stamp, want, arrival>> /\ pc[r] \notin {"idle", "replied"}
             /\ \E p : pc' = [pc EXCEPT ![r] = p]
  BY <1>1 DEF pool!GetStep, pool!HashFile, pool!Load, pool!Reuse, pool!Outdated, pool!NotRunning,
              pool!Miss, pool!Reserve, pool!ReservationRefused, pool!Launch, pool!LaunchFailed,
              pool!GiveUp, pool!Store, pool!disk
<1>2. ASSUME NEW r \in Requests,
             pool!CloseOld(r) \/ pool!Started(r) \/ pool!Begin(r)
             \/ pool!Respond(r) \/ pool!Reply(r) \/ pool!InvokeFailed(r)
      PROVE  /\ UNCHANGED <<stamp, want, arrival>> /\ pc[r] \notin {"idle", "replied"}
             /\ \E p : pc' = [pc EXCEPT ![r] = p]
  BY <1>2 DEF pool!CloseOld, pool!Miss, pool!Started, pool!Handshake, pool!HandshakeFailed,
              pool!GiveUp, pool!Begin, pool!Respond, pool!Reply, pool!InvokeFailed, pool!Return,
              pool!InCall, pool!disk
<1>3. ASSUME NEW r \in Requests, pool!Container(r)
      PROVE  UNCHANGED <<stamp, want, arrival, pc>>
  BY <1>3 DEF pool!Container, pool!LoadFile, pool!Crash, pool!Reap, pool!Watch, pool!reqVars, pool!disk
<1>4. ASSUME NEW r \in Requests, NEW p, pc[r] \notin {"idle", "replied"}, pc' = [pc EXCEPT ![r] = p]
      PROVE  \A q \in Requests :
               /\ pc'[q] # "idle" => pc[q] # "idle"
               /\ pc[q] = "replied" => pc'[q] = "replied"
  BY <1>4
<1> QED
  BY <1>1, <1>2, <1>3, <1>4 DEF Running

(* A request that has its definition is done with the template.            *)
LEMMA TemplateKeeps ==
  ASSUME PartsInv, Refreshing
  PROVE  \A r \in Requests : step[r] = "done" => step'[r] = "done" /\ result'[r] = result[r]
<1> USE DEF PartsInv, templateProofs!TemplateInv, templateProofs!TypeOK
<1>1. Ticker \notin Requests
  BY DEF template!TemplateAssumption
<1>2. ASSUME NEW a \in template!Refreshers, template!Refresh(a) \/ template!RefreshStep(a)
      PROVE  UNCHANGED result /\ step[a] # "done" /\ \E p : step' = [step EXCEPT ![a] = p]
  BY <1>2 DEF template!Refresh, template!RefreshStep, template!StatFailed, template!StatSame,
              template!StatNew, template!Open, template!Assign
<1>3. ASSUME template!Range \/ template!Fire \/ template!Tick
      PROVE  UNCHANGED result /\ (UNCHANGED step \/ \E p : step' = [step EXCEPT ![Ticker] = p])
  BY <1>3 DEF template!Range, template!Fire, template!Tick
<1> QED
  BY <1>1, <1>2, <1>3 DEF Refreshing, templateProofs!Refreshers

LEMMA HandlerStep == PartsInv /\ HandlerInv /\ [Next]_vars => HandlerInv'
<1> SUFFICES ASSUME PartsInv, HandlerInv, [Next]_vars PROVE HandlerInv'
  OBVIOUS
<1>1. /\ DOMAIN step = templateProofs!Refreshers /\ DOMAIN result = Requests
      /\ Requests \subseteq templateProofs!Refreshers /\ functions \in 0 .. MaxVersion
  BY DEF PartsInv, templateProofs!TemplateInv, templateProofs!TypeOK, templateProofs!Refreshers
<1>2. /\ DOMAIN pc = Requests /\ DOMAIN want = Requests /\ DOMAIN arrival = Requests
      /\ MaxCode \in Nat /\ {code, stamp} \subseteq [Files -> 1 .. MaxCode]
      /\ \A f \in Files : stamp[f] <= code[f]
  BY DEF PartsInv, poolProofs!IInv, poolProofs!TypeOK, poolProofs!FreshInv, pool!PoolAssumption
<1>3. CASE Refreshing
  BY <1>3, TemplateKeeps DEF Refreshing, HandlerInv, poolVars, http
<1>4. CASE Running
  <2>1. UNCHANGED <<step, result, answer, first>>
    BY <1>4 DEF Running, templateVars, http
  <2>2. UNCHANGED <<stamp, want, arrival>>
    BY <1>4, PoolKeeps
  <2>3. ASSUME NEW r \in Requests
        PROVE  /\ pc'[r] # "idle" => pc[r] # "idle"
               /\ pc[r] = "replied" => pc'[r] = "replied"
    BY <1>4, PoolKeeps
  <2> QED
    BY <2>1, <2>2, <2>3 DEF HandlerInv
<1>5. CASE Edit
  <2>1. UNCHANGED <<pc, want, arrival, step, result, answer, first>>
    BY <1>5 DEF Edit, template!Edit, template!Write, pool!Edit, pool!reqVars, templateVars, poolVars, http
  <2>2. ASSUME NEW f \in Files PROVE stamp[f] <= stamp'[f] /\ stamp'[f] \in Nat /\ stamp[f] \in Nat
    <3>1. code[f] \in Nat /\ stamp[f] \in Nat /\ stamp[f] <= code[f]
      BY <1>2
    <3>2. CASE stamp' = stamp
      BY <3>1, <3>2
    <3>3. CASE stamp' # stamp
      <4>1. PICK g \in Files : code' = [code EXCEPT ![g] = @ + 1] /\ stamp' = [stamp EXCEPT ![g] = code'[g]]
        BY <1>5, <3>3 DEF Edit, pool!Edit, poolVars
      <4>2. stamp'[f] = stamp[f] \/ stamp'[f] = code[f] + 1
        BY <1>2, <4>1
      <4> QED
        BY <3>1, <4>2
    <3> QED
      BY <3>2, <3>3
  <2>3. ASSUME NEW r \in Requests, NEW f \in Files PROVE first[r][f] <= stamp'[f]
    <3>1. first[r][f] <= stamp[f] /\ first[r][f] \in Nat
      BY <1>2 DEF HandlerInv
    <3> QED
      BY <2>2, <3>1
  <2> QED
    BY <2>1, <2>3 DEF HandlerInv
<1>6. ASSUME NEW r \in Requests, BadRequest(r) \/ NoSuchFunction(r) PROVE HandlerInv'
  <2>1. UNCHANGED <<first, poolVars>> /\ answer' = [answer EXCEPT ![r] = "error"]
    BY <1>6 DEF BadRequest, NoSuchFunction, Answered
  <2>2. ASSUME NEW q \in Requests, step[q] = "done" PROVE step'[q] = "done" /\ result'[q] = result[q]
    BY <1>1, <1>6, <2>2 DEF BadRequest, NoSuchFunction, template!Get, templateVars
  <2>3. ASSUME NEW q \in Requests, answer'[q] = "ok" PROVE answer[q] = "ok"
    BY <2>1, <2>3
  <2> QED
    BY <2>1, <2>2, <2>3 DEF HandlerInv, poolVars
<1>7. ASSUME NEW r \in Requests, Accept(r) PROVE HandlerInv'
  <2>1. /\ UNCHANGED <<answer, poolVars, result>> /\ step[r] = "idle"
        /\ step' = [step EXCEPT ![r] = "refresh"] /\ first' = [first EXCEPT ![r] = stamp]
    BY <1>7 DEF Accept, template!Arrive
  <2>2. pc[r] = "idle"
    BY <2>1 DEF HandlerInv
  <2> QED
    BY <1>1, <1>2, <2>1, <2>2 DEF HandlerInv, poolVars
<1>8. ASSUME NEW r \in Requests, Found(r) PROVE HandlerInv'
  <2>1. /\ UNCHANGED <<answer, first, stamp>> /\ functions # 0 /\ pc[r] = "idle"
        /\ step' = [step EXCEPT ![r] = "done"] /\ result' = [result EXCEPT ![r] = functions]
        /\ pc' = [pc EXCEPT ![r] = "hash"] /\ want' = [want EXCEPT ![r] = KeyOf[functions]]
        /\ arrival' = [arrival EXCEPT ![r] = stamp]
    BY <1>8 DEF Found, template!Get, pool!Arrive, pool!disk, http
  <2> QED
    BY <1>1, <1>2, <2>1 DEF HandlerInv
<1>9. ASSUME NEW r \in Requests, Answer(r) PROVE HandlerInv'
  <2>1. /\ UNCHANGED <<first, templateVars, poolVars>> /\ pc[r] \in pool!Finished
        /\ answer' = [answer EXCEPT ![r] = Status[pc[r]]]
    BY <1>9 DEF Answer, Answered
  <2>2. Status[pc[r]] = "ok" => pc[r] = "replied"
    BY <2>1 DEF Status, pool!Finished
  <2> QED
    BY <2>1, <2>2 DEF HandlerInv, templateVars, poolVars
<1>10. CASE UNCHANGED <<templateVars, poolVars, http>>
  BY <1>10 DEF HandlerInv, templateVars, poolVars, http
<1> QED
  BY <1>3, <1>4, <1>5, <1>6, <1>7, <1>8, <1>9, <1>10 DEF Next, Handler, Listen, Exit, Ended, vars

LEMMA HandlerHolds == Spec => [](PartsInv /\ HandlerInv)
<1>1. Init /\ PartsInv => HandlerInv
  <2> SUFFICES ASSUME Init, PartsInv PROVE HandlerInv
    OBVIOUS
  <2>1. MaxCode \in Nat /\ stamp \in [Files -> 1 .. MaxCode]
    BY DEF PartsInv, poolProofs!IInv, poolProofs!TypeOK, pool!PoolAssumption
  <2>2. \A r \in Requests : pc[r] = "idle" /\ answer[r] = "none" /\ first[r] = stamp
    BY DEF Init, pool!Init
  <2>3. \A f \in Files : stamp[f] <= stamp[f]
    BY <2>1
  <2> QED
    BY <2>1, <2>2, <2>3 DEF HandlerInv
<1> QED
  BY PartsHold, HandlerStep, <1>1, PTL DEF Spec

(* From end to end: the definition is that of Template's promise, the      *)
(* runner and its code those of the pool's.                                *)
THEOREM EndToEnd == Spec => []UpToDate
<1>1. PartsInv /\ HandlerInv => UpToDate
  <2> SUFFICES ASSUME PartsInv, HandlerInv, NEW r \in Requests, answer[r] = "ok"
               PROVE  /\ \E v \in 1 .. MaxVersion : (v >= asked[r] \/ spoilt[r]) /\ KeyOf[v] = want[r]
                      /\ key[runner[r]].def = want[r].def
                      /\ \A f \in CodeOf[want[r].def] : loaded[runner[r]][f] >= first[r][f]
    BY DEF UpToDate
  <2>1. /\ pc[r] = "replied" /\ step[r] = "done" /\ result[r] # 0
        /\ KeyOf[result[r]] = want[r]
        /\ \A f \in Files : first[r][f] <= arrival[r][f]
        /\ first[r] \in [Files -> 1 .. MaxCode]
    BY DEF HandlerInv
  <2>2. \E v \in 1 .. MaxVersion : (v >= asked[r] \/ spoilt[r]) /\ KeyOf[v] = want[r]
    <3>1. result[r] \in 1 .. MaxVersion
      BY <2>1 DEF PartsInv, templateProofs!TemplateInv, templateProofs!TypeOK
    <3>2. result[r] >= asked[r] \/ spoilt[r]
      BY <2>1 DEF PartsInv, templateProofs!TemplateInv, templateProofs!FreshDefinition
    <3> QED
      BY <2>1, <3>1, <3>2
  <2>3. key[runner[r]] = key[r] /\ key[r].def = want[r].def /\ CodeOf[want[r].def] \subseteq Files
    <3>1. key[runner[r]] = key[r]
      BY <2>1 DEF PartsInv, poolProofs!IInv, poolProofs!PointerInv, poolProofs!InCall
    <3> QED
      BY <3>1, poolProofs!SameDef, SameAssumptions DEF PartsInv, poolProofs!IInv
  <2>4. \A f \in CodeOf[want[r].def] : loaded[runner[r]][f] >= arrival[r][f]
    BY <2>1, poolProofs!FreshEnough, SameAssumptions DEF PartsInv, poolProofs!IInv, poolProofs!FreshCode
  <2>5. /\ runner[r] \in Requests /\ MaxCode \in Nat
        /\ arrival[r] \in [Files -> 1 .. MaxCode]
        /\ loaded[runner[r]] \in [Files -> poolProofs!Version]
    BY <2>1 DEF PartsInv, poolProofs!IInv, poolProofs!TypeOK, poolProofs!PointerInv, pool!PoolAssumption
  <2>6. ASSUME NEW f \in CodeOf[want[r].def] PROVE loaded[runner[r]][f] >= first[r][f]
    <3>1. f \in Files /\ loaded[runner[r]][f] >= arrival[r][f] /\ first[r][f] <= arrival[r][f]
      BY <2>1, <2>3, <2>4
    <3>2. loaded[runner[r]][f] \in Nat /\ arrival[r][f] \in Nat /\ first[r][f] \in Nat
      BY <2>1, <2>5, <3>1 DEF poolProofs!Version
    <3> QED
      BY <3>1, <3>2
  <2> QED
    BY <2>2, <2>3, <2>6
<1> QED
  BY HandlerHolds, <1>1, PTL
================================================================================
