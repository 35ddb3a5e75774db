--------------------------- MODULE RunnerPoolProofs ---------------------------
(***************************************************************************)
(* What TLAPS proves of RunnerPool, for any number of requests, functions, *)
(* debuggers, files and edits.                                             *)
(***************************************************************************)
EXTENDS RunnerPool, TLAPS

USE PoolAssumption DEF disk

(* A key without its debugger is a key of the same definition.             *)
LEMMA PlainKey ==
  ASSUME NEW k \in Key
  PROVE  Plain(k) \in Key /\ Plain(k).def = k.def /\ Plain(k).debugger = NoDebugger
BY DEF Plain, Key

LEMMA TypeInit == Init => TypeOK
BY DEF Init, TypeOK, Key, Version, InGet, InCall, Finished, Dead, LeftBehind

LEMMA TypeStep == TypeOK /\ [Next]_vars => TypeOK'
<1> SUFFICES ASSUME TypeOK, [Next]_vars PROVE TypeOK'
  OBVIOUS
<1> USE DEF TypeOK, Version, InGet, InCall, Finished, Dead, LeftBehind
<1>1. ASSUME NEW r \in Requests, NEW k \in Asked, Arrive(r, k) PROVE TypeOK'
  BY <1>1 DEF Arrive, contVars
<1>2. ASSUME NEW r \in Requests, NEW f \in Files, HashFile(r, f) PROVE TypeOK'
  BY <1>2 DEF HashFile, Unread, contVars
<1>3. ASSUME NEW r \in Requests, Load(r) PROVE TypeOK'
  BY <1>3 DEF Load, contVars
<1>4. ASSUME NEW r \in Requests, Reuse(r) \/ Outdated(r) PROVE TypeOK'
  BY <1>4 DEF Reuse, Outdated, contVars
<1>5. ASSUME NEW r \in Requests, NotRunning(r) PROVE TypeOK'
  BY <1>5 DEF NotRunning, Miss
<1>6. ASSUME NEW r \in Requests, CloseOld(r) PROVE TypeOK'
  BY <1>6 DEF CloseOld, Miss
<1>7. ASSUME NEW r \in Requests, Reserve(r) PROVE TypeOK'
  BY <1>7 DEF Reserve, Vacant, contVars
<1>8. ASSUME NEW r \in Requests, ReservationRefused(r) PROVE TypeOK'
  BY <1>8, PlainKey DEF ReservationRefused, contVars
<1>9. ASSUME NEW r \in Requests, Launch(r) \/ Handshake(r) PROVE TypeOK'
  BY <1>9 DEF Launch, Handshake
<1>10. ASSUME NEW r \in Requests, GiveUp(r), proc' \in [Requests -> {"none", "starting", "up", "done", "gone"} \cup Dead \cup LeftBehind]
       PROVE TypeOK'
  BY <1>10 DEF GiveUp, Unreserve
<1>11. ASSUME NEW r \in Requests, LaunchFailed(r) PROVE TypeOK'
  BY <1>10, <1>11 DEF LaunchFailed
<1>12. ASSUME NEW r \in Requests, HandshakeFailed(r) PROVE TypeOK'
  BY <1>10, <1>12 DEF HandshakeFailed
<1>13. ASSUME NEW r \in Requests, Store(r) PROVE TypeOK'
  BY <1>13 DEF Store, contVars
<1>14. ASSUME NEW r \in Requests, Begin(r) PROVE TypeOK'
  BY <1>14 DEF Begin
<1>15. ASSUME NEW r \in Requests, Respond(r) \/ Reply(r) \/ InvokeFailed(r) PROVE TypeOK'
  BY <1>15 DEF Respond, Reply, InvokeFailed, Return, contVars
<1>16. ASSUME NEW c \in Requests, NEW f \in Files, LoadFile(c, f) PROVE TypeOK'
  BY <1>16 DEF LoadFile, reqVars
<1>17. ASSUME NEW c \in Requests, Crash(c) \/ Reap(c) PROVE TypeOK'
  BY <1>17 DEF Crash, Reap, reqVars
<1>18. ASSUME NEW c \in Requests, Watch(c) PROVE TypeOK'
  BY <1>18 DEF Watch, Unreserve, reqVars
<1>19. ASSUME NEW f \in Files, Edit(f) PROVE TypeOK'
  BY <1>19 DEF Edit, reqVars, contVars
<1>20. CASE UNCHANGED vars
  BY <1>20 DEF vars, reqVars, contVars
<1> QED
  BY <1>1, <1>2, <1>3, <1>4, <1>5, <1>6, <1>7, <1>8, <1>9, <1>11, <1>12, <1>13, <1>14,
     <1>15, <1>16, <1>17, <1>18, <1>19, <1>20
  DEF Next, Request, Container, GetStep, Started, Idle


(* The type invariant holds in every reachable state.                      *)
THEOREM TypeCorrect == Spec => []TypeOK
BY TypeInit, TypeStep, PTL DEF Spec

-----------------------------------------------------------------------------
(* A request has no process before it launches one, only while it waits    *)
(* for the handshake is the process starting, and a process is left behind *)
(* only if Get has failed.                                                 *)
Searching == {"idle", "hash", "load", "check", "close", "reserve", "launch"}

StageInv ==
  \A r \in Requests :
    /\ pc[r] \in Searching => proc[r] = "none"
    /\ pc[r] = "handshake" <=> proc[r] = "starting"
    /\ proc[r] \in LeftBehind => pc[r] \in {"failed", "panicked"}

LEMMA StageStep == TypeOK /\ StageInv /\ [Next]_vars => StageInv'
<1> SUFFICES ASSUME TypeOK, StageInv, [Next]_vars PROVE StageInv'
  OBVIOUS
<1> USE DEF StageInv, Searching, LeftBehind, InCall
<1>1. ASSUME NEW r \in Requests, GetStep(r) PROVE StageInv'
  <2>1. CASE Launch(r)
    BY <2>1 DEF Launch, TypeOK
  <2>2. CASE LaunchFailed(r)
    BY <2>2 DEF LaunchFailed, GiveUp, TypeOK
  <2>3. ASSUME NEW f \in Files, HashFile(r, f) PROVE StageInv'
    BY <2>3 DEF HashFile, contVars, TypeOK
  <2>4. CASE Load(r) \/ Reuse(r) \/ Outdated(r) \/ NotRunning(r)
    BY <2>4 DEF Load, Reuse, Outdated, NotRunning, Miss, contVars, TypeOK
  <2>5. CASE Reserve(r) \/ ReservationRefused(r) \/ Store(r)
    BY <2>5 DEF Reserve, ReservationRefused, Store, contVars, TypeOK
  <2> QED
    BY <1>1, <2>1, <2>2, <2>3, <2>4, <2>5 DEF GetStep
<1>2. ASSUME NEW r \in Requests, Started(r) PROVE StageInv'
  <2>1. CASE Handshake(r)
    BY <2>1 DEF Handshake, TypeOK
  <2>2. CASE HandshakeFailed(r)
    BY <2>2 DEF HandshakeFailed, GiveUp, TypeOK
  <2> QED
    BY <1>2, <2>1, <2>2 DEF Started
<1>3. ASSUME NEW r \in Requests, CloseOld(r) PROVE StageInv'
  BY <1>3 DEF CloseOld, Miss, TypeOK
<1>4. ASSUME NEW r \in Requests, (\E k \in Asked : Arrive(r, k)) \/ Begin(r) \/ Respond(r) \/ Reply(r) \/ InvokeFailed(r)
      PROVE  StageInv'
  BY <1>4 DEF Arrive, Begin, Respond, Reply, InvokeFailed, Return, contVars, TypeOK
<1>5. ASSUME NEW c \in Requests, Container(c) PROVE StageInv'
  BY <1>5 DEF Container, LoadFile, Crash, Reap, Watch, reqVars, Dead, TypeOK
<1>6. ASSUME NEW f \in Files, Edit(f) PROVE StageInv'
  BY <1>6 DEF Edit, reqVars, contVars
<1>7. CASE UNCHANGED vars
  BY <1>7 DEF vars, reqVars, contVars
<1> QED
  BY <1>1, <1>2, <1>3, <1>4, <1>5, <1>6, <1>7 DEF Next, Request, Idle

(* A request works with the key it came with or, after a refused           *)
(* reservation, with that key less its debugger.                           *)
KeyInv == \A r \in Requests : key[r] = want[r] \/ key[r] = Plain(want[r])

LEMMA KeyStep == TypeOK /\ KeyInv /\ [Next]_vars => KeyInv'
<1> SUFFICES ASSUME TypeOK, KeyInv, [Next]_vars PROVE KeyInv'
  OBVIOUS
<1>1. ASSUME NEW r \in Requests, ReservationRefused(r) PROVE KeyInv'
  <2>1. Plain(Plain(want[r])) = Plain(want[r])
    BY DEF Plain, TypeOK, Key
  <2> QED
    BY <1>1, <2>1 DEF ReservationRefused, KeyInv, TypeOK
<1>2. ASSUME NEW r \in Requests, NEW k \in Asked, Arrive(r, k) PROVE KeyInv'
  BY <1>2 DEF Arrive, KeyInv, TypeOK
<1>3. CASE UNCHANGED <<want, key>>
  BY <1>3 DEF KeyInv
<1> QED
  BY <1>1, <1>2, <1>3
  DEF Next, Request, Container, GetStep, Started, Idle, vars, reqVars, HashFile, Load, Reuse,
      Outdated, NotRunning, CloseOld, Miss, Reserve, Launch, LaunchFailed, Handshake, HandshakeFailed,
      GiveUp, Store, Begin, Respond, Reply, InvokeFailed, Return, LoadFile, Crash, Reap, Watch, Edit

-----------------------------------------------------------------------------
(* The owner of a debugger: whoever launches or runs a container with the  *)
(* debugger holds the reservation (Owns), and conversely a reservation is  *)
(* accounted for.                                                          *)
Owns ==
  \A c \in Requests : \A res \in Resources :
    Wants(c, res) /\ (pc[c] = "launch" \/ Debugged(c)) => reservation[res] = c

OwnerInv == Owns /\ ReservationAccounted

(* The resource that a container asks for is one.                          *)
LEMMA OneResource ==
  ASSUME TypeOK, NEW c \in Requests, key[c].debugger # NoDebugger
  PROVE  /\ ReservationKey[key[c].debugger] \in Resources
         /\ \A res \in Resources : Wants(c, res) <=> res = ReservationKey[key[c].debugger]
BY DEF TypeOK, Key, Wants

(* A step that leaves keys and reservations alone, and the launching and   *)
(* debugged containers what they are, changes no ownership.                *)
LEMMA OwnerFrame ==
  ASSUME OwnerInv, TypeOK, UNCHANGED <<key, reservation>>,
         \A c \in Requests : ((pc[c] = "launch" /\ key[c].debugger # NoDebugger) \/ Debugged(c))
                         <=> ((pc'[c] = "launch" /\ key[c].debugger # NoDebugger) \/ Debugged(c)')
  PROVE  OwnerInv'
BY DEF OwnerInv, Owns, ReservationAccounted, Wants, TypeOK

(* A request that has no process yet may change its key.                   *)
LEMMA OwnerRekey ==
  ASSUME OwnerInv, TypeOK, UNCHANGED <<proc, reservation>>,
         NEW r \in Requests, proc[r] = "none", pc[r] # "launch", pc'[r] # "launch",
         \A c \in Requests \ {r} : key'[c] = key[c] /\ pc'[c] = pc[c]
  PROVE  OwnerInv'
<1>1. ~Debugged(r) /\ ~Debugged(r)'
  BY DEF Debugged, Dead
<1>2. \A res \in Resources : reservation[res] # r
  BY <1>1 DEF OwnerInv, ReservationAccounted
<1>3. \A c \in Requests \ {r} : Debugged(c)' <=> Debugged(c)
  BY DEF Debugged
<1>4. Owns'
  BY <1>1, <1>3 DEF OwnerInv, Owns, Wants
<1>5. ReservationAccounted'
  BY <1>2, <1>3 DEF OwnerInv, ReservationAccounted, Wants
<1> QED
  BY <1>4, <1>5 DEF OwnerInv

LEMMA OwnerStep == TypeOK /\ StageInv /\ KeyInv /\ OwnerInv /\ [Next]_vars => OwnerInv'
<1> SUFFICES ASSUME TypeOK, StageInv, KeyInv, OwnerInv, [Next]_vars PROVE OwnerInv'
  OBVIOUS
<1>1. ASSUME NEW r \in Requests, Reserve(r) PROVE OwnerInv'
  BY <1>1, OneResource DEF Reserve, Vacant, contVars, OwnerInv, Owns, ReservationAccounted, Debugged, Wants, TypeOK, StageInv, Searching
<1>2. ASSUME NEW r \in Requests, ReservationRefused(r) PROVE OwnerInv'
  BY <1>2, OwnerRekey DEF ReservationRefused, contVars, StageInv, Searching, TypeOK
<1>3. ASSUME NEW r \in Requests, Launch(r) \/ Handshake(r) PROVE OwnerInv'
  BY <1>3, OwnerFrame DEF Launch, Handshake, Debugged, TypeOK, StageInv
<1>4. ASSUME NEW r \in Requests, LaunchFailed(r) \/ HandshakeFailed(r) PROVE OwnerInv'
  <2>1. /\ UNCHANGED key
        /\ \A c \in Requests \ {r} : pc'[c] = pc[c] /\ proc'[c] = proc[c]
        /\ pc'[r] # "launch" /\ proc'[r] \in {"none", "gone"} \cup LeftBehind
    BY <1>4 DEF LaunchFailed, HandshakeFailed, GiveUp, StageInv, Searching, LeftBehind, TypeOK
  <2>2. \A c \in Requests : c # r => (Debugged(c)' <=> Debugged(c))
    BY <2>1 DEF Debugged
  <2>3. ~Debugged(r)'
    BY <2>1 DEF Debugged, Dead, LeftBehind
  <2>4. CASE Unreserve(r)
    <3>1. \A res \in Resources :
            reservation'[res] = IF Wants(r, res) /\ reservation[res] = r THEN Nobody ELSE reservation[res]
      BY <2>4 DEF Unreserve
    <3>2. Owns'
      BY <2>1, <2>2, <2>3, <3>1 DEF OwnerInv, Owns, Wants
    <3>3. ReservationAccounted'
      <4> SUFFICES ASSUME NEW res \in Resources, NEW c \in Requests, reservation'[res] = c
                   PROVE  Wants(c, res)' /\ (pc'[c] = "launch" \/ Debugged(c)')
        BY DEF ReservationAccounted
      <4>1. reservation[res] = c /\ ~(Wants(r, res) /\ c = r)
        BY <3>1
      <4>2. Wants(c, res) /\ (pc[c] = "launch" \/ Debugged(c))
        BY <4>1 DEF OwnerInv, ReservationAccounted
      <4> QED
        BY <2>1, <2>2, <4>1, <4>2 DEF Wants
    <3> QED
      BY <3>2, <3>3 DEF OwnerInv
  <2>5. CASE Fallback(r) /\ UNCHANGED reservation
    <3>1. key[r].debugger = NoDebugger
      BY <2>5, PlainKey DEF Fallback, KeyInv, TypeOK
    <3>2. Owns'
      BY <2>1, <2>2, <2>3, <2>5, <3>1 DEF OwnerInv, Owns, Wants
    <3>3. ReservationAccounted'
      <4> SUFFICES ASSUME NEW res \in Resources, NEW c \in Requests, reservation[res] = c
                   PROVE  Wants(c, res)' /\ (pc'[c] = "launch" \/ Debugged(c)')
        BY <2>5 DEF ReservationAccounted
      <4>1. Wants(c, res) /\ (pc[c] = "launch" \/ Debugged(c))
        BY DEF OwnerInv, ReservationAccounted
      <4> QED
        BY <2>1, <2>2, <3>1, <4>1 DEF Wants
    <3> QED
      BY <3>2, <3>3 DEF OwnerInv
  <2> QED
    BY <1>4, <2>4, <2>5 DEF LaunchFailed, HandshakeFailed, GiveUp
<1>5. ASSUME NEW r \in Requests, CloseOld(r) \/ NotRunning(r) PROVE OwnerInv'
  BY <1>5, OwnerFrame DEF CloseOld, NotRunning, Miss, Debugged, Dead, TypeOK
<1>6. ASSUME NEW r \in Requests, NEW f \in Files, HashFile(r, f) PROVE OwnerInv'
  BY <1>6, OwnerFrame DEF HashFile, contVars, Debugged, TypeOK
<1>7. ASSUME NEW r \in Requests, Load(r) \/ Reuse(r) \/ Outdated(r) \/ Store(r) PROVE OwnerInv'
  BY <1>7, OwnerFrame DEF Load, Reuse, Outdated, Store, contVars, Debugged, TypeOK
<1>8. ASSUME NEW r \in Requests, Begin(r) \/ Respond(r) \/ Reply(r) \/ InvokeFailed(r) PROVE OwnerInv'
  BY <1>8, OwnerFrame DEF Begin, Respond, Reply, InvokeFailed, Return, InCall, contVars, Debugged, TypeOK
<1>9. ASSUME NEW c \in Requests, NEW f \in Files, LoadFile(c, f) PROVE OwnerInv'
  BY <1>9, OwnerFrame DEF LoadFile, reqVars, Debugged
<1>10. ASSUME NEW c \in Requests, Crash(c) \/ Reap(c) PROVE OwnerInv'
  BY <1>10, OwnerFrame DEF Crash, Reap, reqVars, Debugged, Dead, TypeOK
<1>11. ASSUME NEW c \in Requests, Watch(c) PROVE OwnerInv'
  BY <1>11, OneResource DEF Watch, Unreserve, reqVars, OwnerInv, Owns, ReservationAccounted, Debugged, Dead, Wants, TypeOK, StageInv, Searching
<1>12. ASSUME NEW f \in Files, Edit(f) PROVE OwnerInv'
  BY <1>12, OwnerFrame DEF Edit, reqVars, contVars, Debugged
<1>13. ASSUME NEW r \in Requests, NEW k \in Asked, Arrive(r, k) PROVE OwnerInv'
  BY <1>13, OwnerRekey DEF Arrive, contVars, StageInv, Searching, TypeOK
<1>14. CASE UNCHANGED vars
  BY <1>14, OwnerFrame DEF vars, reqVars, contVars, Debugged
<1> QED
  BY <1>1, <1>2, <1>3, <1>4, <1>5, <1>6, <1>7, <1>8, <1>9, <1>10, <1>11, <1>12, <1>13, <1>14
  DEF Next, Request, Container, GetStep, Started, Idle

-----------------------------------------------------------------------------
(* A runner in the cache was stored under its own key by a request that is *)
(* past the store, and so is the runner a request looks at or was given:   *)
(* nothing changes its key or its hash any more.                           *)
Stored == {"invoke"} \cup InCall \cup Finished

PointerInv ==
  /\ \A k \in Key : \A c \in Requests :
       runners[k] = c => key[c] = k /\ pc[c] \in Stored
  /\ \A r, c \in Requests :
       runner[r] = c => pc[c] \in Stored /\ key[c] = key[r]
  /\ \A r \in Requests :
       pc[r] \in {"close", "invoke", "replied"} \cup InCall => runner[r] \in Requests
  /\ \A r \in Requests :
       pc[r] \in {"invoke", "replied"} \cup InCall => hash[runner[r]] = hash[r]
  /\ \A r \in Requests :
       pc[r] \in {"idle", "hash", "load", "reserve", "launch", "handshake", "store"} => runner[r] = Nobody

(* A step that moves one request only, and leaves what it looks at alone.  *)
LEMMA PointerMove ==
  ASSUME TypeOK, PointerInv, NEW r \in Requests, NEW v,
         pc' = [pc EXCEPT ![r] = v], UNCHANGED <<key, hash, runner, runners>>,
         pc[r] \in Stored => v \in Stored,
         v \in {"close", "invoke", "replied"} \cup InCall => runner[r] \in Requests,
         v \in {"invoke", "replied"} \cup InCall => hash[runner[r]] = hash[r],
         v \in {"idle", "hash", "load", "reserve", "launch", "handshake", "store"} => runner[r] = Nobody
  PROVE  PointerInv'
<1>1. pc'[r] = v /\ \A q \in Requests \ {r} : pc'[q] = pc[q]
  BY DEF TypeOK
<1>2. \A q \in Requests : pc[q] \in Stored => pc'[q] \in Stored
  BY <1>1
<1> QED
  BY <1>1, <1>2 DEF PointerInv

(* A step of a request that is not stored and looks at no runner after it. *)
LEMMA PointerClear ==
  ASSUME TypeOK, PointerInv, NEW r \in Requests, UNCHANGED runners,
         pc[r] \notin Stored, runner'[r] = Nobody,
         pc'[r] \in {"hash", "load", "reserve", "launch"},
         \A q \in Requests \ {r} : /\ pc'[q] = pc[q] /\ key'[q] = key[q]
                                  /\ runner'[q] = runner[q] /\ hash'[q] = hash[q]
  PROVE  PointerInv'
<1>1. \A q \in Requests : runner[q] # r
  BY DEF PointerInv
<1>2. \A k \in Key : runners[k] # r
  BY DEF PointerInv
<1>3. \A k \in Key : \A c \in Requests : runners'[k] = c => key'[c] = k /\ pc'[c] \in Stored
  BY <1>2 DEF PointerInv
<1>4. \A q, c \in Requests : runner'[q] = c => pc'[c] \in Stored /\ key'[c] = key'[q]
  BY <1>1 DEF PointerInv
<1>5. \A q \in Requests :
        /\ pc'[q] \in {"close", "invoke", "replied"} \cup InCall => runner'[q] \in Requests
        /\ pc'[q] \in {"invoke", "replied"} \cup InCall => hash'[runner'[q]] = hash'[q]
  <2> SUFFICES ASSUME NEW q \in Requests, pc'[q] \in {"close", "invoke", "replied"} \cup InCall
               PROVE  /\ runner'[q] \in Requests
                      /\ pc'[q] # "close" => hash'[runner'[q]] = hash'[q]
    BY DEF InCall
  <2>1. q # r /\ runner'[q] = runner[q] /\ pc'[q] = pc[q]
    BY DEF InCall
  <2>2. runner[q] \in Requests \ {r}
    BY <1>1, <2>1 DEF PointerInv
  <2> QED
    BY <2>1, <2>2 DEF PointerInv
<1>6. \A q \in Requests :
        pc'[q] \in {"idle", "hash", "load", "reserve", "launch", "handshake", "store"} => runner'[q] = Nobody
  BY DEF PointerInv
<1> QED
  BY <1>3, <1>4, <1>5, <1>6 DEF PointerInv

LEMMA PointerStep == TypeOK /\ PointerInv /\ [Next]_vars => PointerInv'
<1> SUFFICES ASSUME TypeOK, PointerInv, [Next]_vars PROVE PointerInv'
  OBVIOUS
<1> USE DEF PointerInv, Stored, InCall, Finished
<1>1. ASSUME NEW r \in Requests, NEW k \in Asked, Arrive(r, k) PROVE PointerInv'
  <2>1. /\ pc[r] = "idle" /\ runner'[r] = Nobody /\ pc'[r] = "hash"
        /\ \A q \in Requests \ {r} : pc'[q] = pc[q] /\ key'[q] = key[q]
        /\ UNCHANGED <<hash, runner, runners>>
    BY <1>1 DEF Arrive, contVars, TypeOK
  <2> HIDE DEF PointerInv
  <2> QED
    BY <2>1, PointerClear
<1>2. ASSUME NEW r \in Requests, NEW f \in Files, HashFile(r, f) PROVE PointerInv'
  <2>1. /\ pc[r] = "hash" /\ runner'[r] = Nobody /\ pc'[r] \in {"hash", "load"}
        /\ \A q \in Requests \ {r} : pc'[q] = pc[q] /\ runner'[q] = runner[q] /\ hash'[q] = hash[q]
        /\ UNCHANGED <<key, runners>>
    BY <1>2 DEF HashFile, Unread, contVars, TypeOK
  <2> HIDE DEF PointerInv
  <2> QED
    BY <2>1, PointerClear
<1>3. ASSUME NEW r \in Requests, Load(r) PROVE PointerInv'
  BY <1>3 DEF Load, contVars, TypeOK
<1>4. ASSUME NEW r \in Requests, Reuse(r) \/ Outdated(r) PROVE PointerInv'
  <2>1. CASE Reuse(r)
    BY <2>1, PointerMove DEF Reuse, SameHash, IsRunning
  <2>2. CASE Outdated(r)
    BY <2>2, PointerMove DEF Outdated, IsRunning
  <2> QED
    BY <1>4, <2>1, <2>2
<1>5. ASSUME NEW r \in Requests, NotRunning(r) \/ CloseOld(r) PROVE PointerInv'
  <2>1. /\ pc[r] \in {"check", "close"} /\ runner'[r] = Nobody /\ pc'[r] \in {"reserve", "launch"}
        /\ \A q \in Requests \ {r} : pc'[q] = pc[q] /\ runner'[q] = runner[q]
        /\ UNCHANGED <<key, hash, runners>>
    BY <1>5 DEF NotRunning, CloseOld, Miss, TypeOK
  <2> HIDE DEF PointerInv
  <2> QED
    BY <2>1, PointerClear
<1>6. ASSUME NEW r \in Requests, Reserve(r) PROVE PointerInv'
  BY <1>6 DEF Reserve, contVars, TypeOK
<1>7. ASSUME NEW r \in Requests, ReservationRefused(r) PROVE PointerInv'
  BY <1>7 DEF ReservationRefused, contVars, TypeOK
<1>8. ASSUME NEW r \in Requests, Launch(r) \/ Handshake(r) PROVE PointerInv'
  <2>1. CASE Launch(r)
    BY <2>1, PointerMove DEF Launch
  <2>2. CASE Handshake(r)
    BY <2>2, PointerMove DEF Handshake
  <2> QED
    BY <1>8, <2>1, <2>2
<1>9. ASSUME NEW r \in Requests, LaunchFailed(r) \/ HandshakeFailed(r) PROVE PointerInv'
  <2>1. /\ pc[r] \in {"launch", "handshake"} /\ UNCHANGED <<key, hash, runner, runners>>
        /\ \E v \in {"failed", "panicked"} : pc' = [pc EXCEPT ![r] = v]
    BY <1>9 DEF LaunchFailed, HandshakeFailed, GiveUp
  <2>2. PICK v \in {"failed", "panicked"} : pc' = [pc EXCEPT ![r] = v]
    BY <2>1
  <2> HIDE DEF PointerInv
  <2> QED
    BY <2>1, <2>2, PointerMove
<1>10. ASSUME NEW r \in Requests, Store(r) PROVE PointerInv'
  BY <1>10 DEF Store, contVars, TypeOK
<1>11. ASSUME NEW r \in Requests, Begin(r) \/ Respond(r) \/ Reply(r) \/ InvokeFailed(r) PROVE PointerInv'
  <2>1. /\ pc[r] \in {"invoke", "busy", "replying"} /\ UNCHANGED <<key, hash, runner, runners>>
        /\ \E v \in {"busy", "replying", "replied", "failed"} : pc' = [pc EXCEPT ![r] = v]
    BY <1>11 DEF Begin, Respond, Reply, InvokeFailed, Return
  <2>2. PICK v \in {"busy", "replying", "replied", "failed"} : pc' = [pc EXCEPT ![r] = v]
    BY <2>1
  <2>3. runner[r] \in Requests /\ hash[runner[r]] = hash[r]
    BY <2>1
  <2> HIDE DEF PointerInv
  <2> QED
    BY <2>1, <2>2, <2>3, PointerMove
<1>12. ASSUME NEW c \in Requests, Container(c) PROVE PointerInv'
  BY <1>12 DEF Container, LoadFile, Crash, Reap, Watch, reqVars, TypeOK
<1>13. ASSUME NEW f \in Files, Edit(f) PROVE PointerInv'
  BY <1>13 DEF Edit, reqVars, contVars
<1>14. CASE UNCHANGED vars
  BY <1>14 DEF vars, reqVars, contVars
<1> QED
  BY <1>1, <1>2, <1>3, <1>4, <1>5, <1>6, <1>7, <1>8, <1>9, <1>10, <1>11, <1>12, <1>13, <1>14
  DEF Next, Request, GetStep, Started, Idle

(* What Get hands out matches the request.                                 *)
LEMMA PointerMatches == TypeOK /\ KeyInv /\ PointerInv => RunnerMatches
BY DEF TypeOK, KeyInv, PointerInv, RunnerMatches

-----------------------------------------------------------------------------
(* Nothing leads to a process that a failed start left behind.             *)
LeftInv == \A c \in Requests : proc[c] \in LeftBehind => Abandoned(c)

LEMMA LeftStep == TypeOK /\ StageInv /\ PointerInv /\ LeftInv /\ [Next]_vars => LeftInv'
<1> SUFFICES ASSUME TypeOK, StageInv, PointerInv, LeftInv, [Next]_vars PROVE LeftInv'
  OBVIOUS
<1> USE DEF LeftInv, Abandoned, LeftBehind
<1>1. ASSUME NEW r \in Requests, HandshakeFailed(r) PROVE LeftInv'
  <2>1. /\ pc[r] = "handshake" /\ UNCHANGED <<runner, runners>>
        /\ \A c \in Requests \ {r} : proc'[c] = proc[c]
    BY <1>1 DEF HandshakeFailed, GiveUp, TypeOK
  <2>2. (\A k \in Key : runners[k] # r) /\ \A q \in Requests : runner[q] # r
    BY <2>1 DEF PointerInv, Stored, InCall, Finished
  <2> QED
    BY <2>1, <2>2
<1>2. ASSUME NEW r \in Requests, Store(r) PROVE LeftInv'
  <2>1. proc[r] \notin LeftBehind /\ UNCHANGED proc
    BY <1>2 DEF Store, StageInv, contVars
  <2>2. /\ \A k \in Key : runners'[k] \in {runners[k], r}
        /\ \A q \in Requests : runner'[q] \in {runner[q], r}
    BY <1>2 DEF Store, TypeOK
  <2> QED
    BY <2>1, <2>2
<1>3. ASSUME NEW r \in Requests, Load(r) PROVE LeftInv'
  BY <1>3 DEF Load, contVars, TypeOK
<1>4. ASSUME UNCHANGED runners,
             \A q \in Requests : runner'[q] \in {runner[q], Nobody},
             \A c \in Requests : proc'[c] \in LeftBehind => proc[c] \in LeftBehind
      PROVE  LeftInv'
  BY <1>4
<1>5. ASSUME NEW r \in Requests, NotRunning(r) \/ CloseOld(r) \/ Launch(r) \/ LaunchFailed(r) \/ Handshake(r)
      PROVE  LeftInv'
  <2>1. /\ UNCHANGED runners /\ \A q \in Requests : runner'[q] \in {runner[q], Nobody}
        /\ \A c \in Requests : proc'[c] \in LeftBehind => proc[c] \in LeftBehind
    BY <1>5 DEF NotRunning, CloseOld, Miss, Launch, LaunchFailed, GiveUp, Handshake, TypeOK
  <2> QED
    BY <1>4, <2>1
<1>6. ASSUME NEW c \in Requests, Crash(c) \/ Reap(c) \/ Watch(c) PROVE LeftInv'
  <2>1. /\ UNCHANGED <<runner, runners>>
        /\ \A d \in Requests : proc'[d] \in LeftBehind => proc[d] \in LeftBehind
    BY <1>6 DEF Crash, Reap, Watch, reqVars, TypeOK
  <2> QED
    BY <1>4, <2>1
<1>7. CASE UNCHANGED <<proc, runner, runners>>
  BY <1>7
<1> QED
  BY <1>1, <1>2, <1>3, <1>5, <1>6, <1>7
  DEF Next, Request, Container, GetStep, Started, Idle, vars, reqVars, contVars, Arrive, HashFile, Reuse,
      Outdated, Reserve, ReservationRefused, Begin, Respond, Reply, InvokeFailed, Return, LoadFile, Edit

(* Two owners of one resource are the same container.                      *)
LEMMA OwnerUnique == OwnerInv /\ LeftInv => DebuggerExclusive
BY DEF OwnerInv, Owns, LeftInv, Occupies, DebuggerExclusive

-----------------------------------------------------------------------------
(* File versions only move forward along the walk of a request, the cached *)
(* hash and the code a container loads; what can be seen of a file is at   *)
(* most as new as what is in it.                                           *)
Unhashed == {"idle", "hash"}
Executed == {"replying", "replied"}

FreshInv ==
  /\ \A f \in Files : stamp[f] <= code[f]
  /\ \A r \in Requests : \A f \in Files :
       /\ arrival[r][f] <= stamp[f]
       /\ hash[r][f] <= stamp[f]
       /\ hash[r][f] # 0 => arrival[r][f] <= hash[r][f]
       /\ loaded[r][f] # 0 => hash[r][f] <= loaded[r][f]
       /\ pc[r] = "idle" => hash[r][f] = 0
       /\ pc[r] \in Unhashed => loaded[r][f] = 0
  /\ \A r \in Requests : pc[r] \notin Unhashed =>
       \A f \in CodeOf[want[r].def] : hash[r][f] # 0
  /\ \A r \in Requests : pc[r] \in Executed =>
       \A f \in CodeOf[want[r].def] : loaded[runner[r]][f] # 0

(* Both keys of a request name the same definition.                        *)
LEMMA SameDef ==
  ASSUME TypeOK, KeyInv, NEW r \in Requests
  PROVE  key[r].def = want[r].def /\ CodeOf[want[r].def] \subseteq Files
BY PlainKey DEF TypeOK, KeyInv, Key

(* A step past the hash that reads and writes no file, and answers nobody. *)
LEMMA FreshMove ==
  ASSUME TypeOK, FreshInv, NEW r \in Requests, UNCHANGED <<disk, want, arrival, hash, loaded>>,
         pc[r] \notin Unhashed, pc'[r] \notin Unhashed \cup Executed,
         \A q \in Requests \ {r} : pc'[q] = pc[q] /\ runner'[q] = runner[q]
  PROVE  FreshInv'
BY DEF FreshInv, Unhashed, Executed

LEMMA FreshFrame ==
  ASSUME FreshInv, UNCHANGED <<disk, reqVars, loaded>>
  PROVE  FreshInv'
BY DEF FreshInv, Unhashed, reqVars

LEMMA FreshStep == TypeOK /\ StageInv /\ KeyInv /\ PointerInv /\ FreshInv /\ [Next]_vars => FreshInv'
<1> SUFFICES ASSUME TypeOK, StageInv, KeyInv, PointerInv, FreshInv, [Next]_vars PROVE FreshInv'
  OBVIOUS
<1> USE DEF FreshInv, Unhashed, Executed, Version
<1>1. ASSUME NEW r \in Requests, NEW k \in Asked, Arrive(r, k) PROVE FreshInv'
  BY <1>1 DEF Arrive, contVars, TypeOK
<1>2. ASSUME NEW r \in Requests, NEW f \in Files, HashFile(r, f) PROVE FreshInv'
  BY <1>2, SameDef DEF HashFile, Unread, contVars, TypeOK
<1>3. ASSUME NEW r \in Requests, Load(r) \/ Reuse(r) \/ Outdated(r) PROVE FreshInv'
  BY <1>3, FreshMove DEF Load, Reuse, Outdated, contVars, TypeOK
<1>4. ASSUME NEW r \in Requests, NotRunning(r) \/ CloseOld(r) PROVE FreshInv'
  BY <1>4, FreshMove DEF NotRunning, CloseOld, Miss, TypeOK
<1>5. ASSUME NEW r \in Requests, Reserve(r) \/ ReservationRefused(r) \/ Store(r) PROVE FreshInv'
  BY <1>5, FreshMove DEF Reserve, ReservationRefused, Store, contVars, TypeOK
<1>6. ASSUME NEW r \in Requests, Launch(r) \/ Handshake(r) PROVE FreshInv'
  BY <1>6, FreshMove DEF Launch, Handshake, TypeOK
<1>7. ASSUME NEW r \in Requests, LaunchFailed(r) \/ HandshakeFailed(r) PROVE FreshInv'
  BY <1>7, FreshMove DEF LaunchFailed, HandshakeFailed, GiveUp, TypeOK
<1>8. ASSUME NEW r \in Requests, Begin(r) \/ InvokeFailed(r) PROVE FreshInv'
  BY <1>8, FreshMove DEF Begin, InvokeFailed, InCall, Return, TypeOK
<1>9. ASSUME NEW r \in Requests, Respond(r) PROVE FreshInv'
  <2>1. /\ pc[r] = "busy" /\ pc' = [pc EXCEPT ![r] = "replying"]
        /\ \A f \in CodeOf[key[runner[r]].def] : loaded[runner[r]][f] # 0
        /\ UNCHANGED <<disk, want, arrival, hash, loaded, runner>>
    BY <1>9 DEF Respond, contVars
  <2>2. key[runner[r]] = key[r] /\ key[r].def = want[r].def
    BY <2>1, SameDef DEF PointerInv, InCall
  <2>3. pc'[r] = "replying" /\ \A q \in Requests \ {r} : pc'[q] = pc[q]
    BY <2>1 DEF TypeOK
  <2> QED
    BY <2>1, <2>2, <2>3
<1>10. ASSUME NEW c \in Requests, NEW f \in Files, LoadFile(c, f) PROVE FreshInv'
  BY <1>10, SameDef DEF LoadFile, reqVars, StageInv, Searching, TypeOK
<1>11. ASSUME NEW c \in Requests, Crash(c) \/ Reap(c) \/ Watch(c) PROVE FreshInv'
  <2>1. UNCHANGED <<disk, reqVars, loaded>>
    BY <1>11 DEF Crash, Reap, Watch
  <2> HIDE DEF FreshInv
  <2> QED
    BY <2>1, FreshFrame
<1>12. ASSUME NEW f \in Files, Edit(f) PROVE FreshInv'
  <2>1. UNCHANGED <<reqVars, loaded>>
    BY <1>12 DEF Edit, contVars
  <2>2. code[f] \in 1 .. MaxVersion /\ stamp[f] \in 1 .. MaxVersion /\ stamp[f] <= code[f]
    BY DEF TypeOK
  <2>3. code' = [code EXCEPT ![f] = @ + 1] /\ stamp' \in {stamp, [stamp EXCEPT ![f] = code[f] + 1]}
    BY <1>12 DEF Edit, TypeOK
  <2>4. \A g \in Files : stamp'[g] <= code'[g] /\ stamp[g] <= stamp'[g] /\ stamp'[g] \in Nat
    BY <2>2, <2>3 DEF TypeOK
  <2>5. ASSUME NEW r \in Requests, NEW g \in Files
        PROVE  arrival[r][g] <= stamp'[g] /\ hash[r][g] <= stamp'[g]
    <3>1. arrival[r][g] \in Nat /\ hash[r][g] \in Nat /\ stamp[g] \in Nat
      BY DEF TypeOK
    <3> QED
      BY <2>4, <3>1
  <2> QED
    BY <2>1, <2>4, <2>5 DEF reqVars
<1>14. ASSUME NEW r \in Requests, Reply(r) PROVE FreshInv'
  <2>1. /\ pc[r] = "replying" /\ pc' = [pc EXCEPT ![r] = "replied"]
        /\ UNCHANGED <<disk, want, arrival, hash, loaded, runner>>
    BY <1>14 DEF Reply, Return
  <2>2. pc'[r] = "replied" /\ \A q \in Requests \ {r} : pc'[q] = pc[q]
    BY <2>1 DEF TypeOK
  <2> QED
    BY <2>1, <2>2
<1>13. CASE UNCHANGED vars
  <2>1. UNCHANGED <<disk, reqVars, loaded>>
    BY <1>13 DEF vars, contVars
  <2> HIDE DEF FreshInv
  <2> QED
    BY <2>1, FreshFrame
<1> QED
  BY <1>1, <1>2, <1>3, <1>4, <1>5, <1>6, <1>7, <1>8, <1>9, <1>10, <1>11, <1>12, <1>13, <1>14
  DEF Next, Request, Container, GetStep, Started, Idle

LEMMA FreshEnough == TypeOK /\ KeyInv /\ PointerInv /\ FreshInv => FreshCode
<1> SUFFICES ASSUME TypeOK, KeyInv, PointerInv, FreshInv, NEW r \in Requests, pc[r] = "replied",
                    NEW f \in CodeOf[want[r].def]
             PROVE  loaded[runner[r]][f] >= arrival[r][f]
  BY DEF FreshCode
<1>1. runner[r] \in Requests /\ hash[runner[r]] = hash[r] /\ f \in Files
  BY SameDef DEF PointerInv
<1>2. hash[r][f] # 0 /\ loaded[runner[r]][f] # 0
  BY <1>1 DEF FreshInv, Unhashed, Executed
<1>3. arrival[r][f] <= hash[r][f] /\ hash[r][f] <= loaded[runner[r]][f]
  BY <1>1, <1>2 DEF FreshInv
<1> QED
  BY <1>1, <1>3 DEF TypeOK, Version

-----------------------------------------------------------------------------
(* Who is served holds the mutex of the container.                         *)
ServingInv == \A r \in Requests : pc[r] \in InCall => serving[runner[r]] = r

LEMMA ServingStep == TypeOK /\ PointerInv /\ ServingInv /\ [Next]_vars => ServingInv'
<1> SUFFICES ASSUME TypeOK, PointerInv, ServingInv, [Next]_vars PROVE ServingInv'
  OBVIOUS
<1> USE DEF ServingInv, InCall
<1>1. ASSUME NEW r \in Requests, Begin(r) PROVE ServingInv'
  BY <1>1 DEF Begin, Unlocked, PointerInv, TypeOK
<1>2. ASSUME NEW r \in Requests, Respond(r) \/ Reply(r) \/ InvokeFailed(r) PROVE ServingInv'
  BY <1>2 DEF Respond, contVars, Reply, InvokeFailed, Return, PointerInv, TypeOK
<1>3. ASSUME NEW r \in Requests, (\E k \in Asked : Arrive(r, k)) \/ GetStep(r) \/ CloseOld(r) \/ Started(r)
      PROVE  ServingInv'
  BY <1>3 DEF Arrive, GetStep, HashFile, Load, Reuse, Outdated, NotRunning, CloseOld, Miss, Reserve,
              ReservationRefused, Launch, LaunchFailed, Store, Started, Handshake, HandshakeFailed,
              GiveUp, contVars, TypeOK
<1>4. CASE UNCHANGED <<pc, runner, serving>>
  BY <1>4
<1> QED
  BY <1>1, <1>2, <1>3, <1>4
  DEF Next, Request, Container, LoadFile, Crash, Reap, Watch, Edit, Idle, vars, reqVars, contVars

-----------------------------------------------------------------------------
(* The inductive invariant, and what follows from it.                      *)
IInv ==
  /\ TypeOK /\ StageInv /\ KeyInv /\ OwnerInv /\ PointerInv /\ LeftInv /\ FreshInv
  /\ ServingInv

LEMMA IInvInit == Init => IInv
<1> SUFFICES ASSUME Init PROVE IInv
  OBVIOUS
<1>1. TypeOK
  BY TypeInit
<1>2. StageInv /\ KeyInv /\ ServingInv
  BY DEF Init, StageInv, KeyInv, ServingInv, Searching, InCall, LeftBehind
<1>3. OwnerInv
  BY DEF Init, OwnerInv, Owns, ReservationAccounted, Debugged, Dead
<1>4. PointerInv
  BY DEF Init, PointerInv, Stored, InCall, Finished
<1>6. LeftInv
  BY DEF Init, LeftInv, LeftBehind
<1>5. FreshInv
  BY <1>1 DEF Init, FreshInv, Unhashed, Executed, TypeOK
<1> QED
  BY <1>1, <1>2, <1>3, <1>4, <1>5, <1>6 DEF IInv

LEMMA IInvStep == IInv /\ [Next]_vars => IInv'
BY TypeStep, StageStep, KeyStep, OwnerStep, PointerStep, LeftStep, FreshStep, ServingStep DEF IInv

THEOREM Invariance == Spec => []IInv
BY IInvInit, IInvStep, PTL DEF Spec

(* However edits fall between the walk of hashDir, the lookup, the start   *)
(* of a container and its loading of code, a reply comes from code at      *)
(* least as new as the last save before the request arrived that hashDir   *)
(* can see: one that changed the size, mode or mtime of the file.          *)
THEOREM Freshness == Spec => []FreshCode
<1>1. IInv => FreshCode
  BY FreshEnough DEF IInv
<1> QED
  BY <1>1, Invariance, PTL

(* Get hands out runners of the definition, the debugger and the code hash *)
(* that the request asks for.                                              *)
THEOREM Matching == Spec => []RunnerMatches
<1>1. IInv => RunnerMatches
  BY PointerMatches DEF IInv
<1> QED
  BY <1>1, Invariance, PTL

(* Of the containers that live with one debugger resource at most one can  *)
(* have requests; any other was left behind by a failed start, and nothing *)
(* leads to it.                                                            *)
THEOREM Exclusion == Spec => []DebuggerExclusive
<1>1. IInv => DebuggerExclusive
  BY OwnerUnique DEF IInv
<1> QED
  BY <1>1, Invariance, PTL

(* Every reservation has a container that will give it back.               *)
THEOREM Accounting == Spec => []ReservationAccounted
<1>1. IInv => ReservationAccounted
  BY DEF IInv, OwnerInv
<1> QED
  BY <1>1, Invariance, PTL

(* Closing an outdated runner cuts no request off: whoever kills a process *)
(* has found the mutex of its container free.                              *)
THEOREM NoCutOff == Spec => NotCutOff
<1>1. ASSUME IInv, [Next]_vars, NEW r \in Requests, pc[r] \in InCall, proc[runner[r]] = "up"
      PROVE  proc'[runner[r]] # "killed"
  <2>1. runner[r] \in Requests /\ serving[runner[r]] = r
    BY <1>1 DEF IInv, PointerInv, ServingInv
  <2>2. ASSUME NEW q \in Requests, CloseOld(q) PROVE proc'[runner[r]] # "killed"
    <3>1. runner[q] # runner[r]
      BY <2>1, <2>2, PoolAssumption DEF CloseOld, Unlocked
    <3> QED
      BY <1>1, <2>2, <3>1 DEF CloseOld
  <2>3. ASSUME NEW q \in Requests, Launch(q) \/ LaunchFailed(q) \/ Started(q)
        PROVE  proc'[runner[r]] # "killed"
    BY <1>1, <2>1, <2>3 DEF Launch, LaunchFailed, Started, Handshake, HandshakeFailed, IInv, TypeOK
  <2>4. ASSUME NEW c \in Requests, Crash(c) \/ Reap(c) \/ Watch(c) PROVE proc'[runner[r]] # "killed"
    BY <1>1, <2>1, <2>4 DEF Crash, Reap, Watch, IInv, TypeOK
  <2>5. CASE UNCHANGED proc
    BY <1>1, <2>5
  <2> QED
    BY <1>1, <2>2, <2>3, <2>4, <2>5
    DEF Next, Request, Container, GetStep, Idle, Arrive, HashFile, Load, Reuse, Outdated, NotRunning,
        Reserve, ReservationRefused, Store, Begin, Respond, Reply, InvokeFailed, Return, LoadFile, Edit,
        vars, contVars
<1>2. IInv /\ [Next]_vars =>
        [\A r \in Requests : pc[r] \in InCall /\ proc[runner[r]] = "up" => proc'[runner[r]] # "killed"]_vars
  BY <1>1
<1> QED
  BY <1>2, Invariance, PTL DEF Spec, NotCutOff
================================================================================
