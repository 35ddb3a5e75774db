----------------------------- MODULE TemplateProofs -----------------------------
(***************************************************************************)
(* What TLAPS proves of Template, for any number of requests, versions and *)
(* writes: a request works with a definition that is fresh, and the table  *)
(* never goes back.  The argument follows modification times: the table's  *)
(* is at most the one a refresh has seen, which is at most the file's.     *)
(***************************************************************************)
EXTENDS Template, TLAPS

USE TemplateAssumption

(* The modification time moves by one at most with a write.                *)
WriteInv == mtime <= 1 + writes

(* Whoever is between the Stat and the assignments holds the mutex.        *)
Reading == {"stat", "open", "assign"}

LockInv == \A a \in Refreshers : pc[a] \in Reading => lock = a

(* The file holds the latest version or none; neither the table nor what   *)
(* an Open found is ahead of it, and the table is not ahead of the Open.   *)
VersionInv ==
  /\ content \in Versions => content = latest
  /\ functions <= latest
  /\ \A a \in Refreshers : pc[a] = "assign" /\ read[a] \in Versions =>
       functions <= read[a] /\ read[a] <= latest

TimeInv ==
  /\ modTime <= mtime
  /\ \A a \in Refreshers : pc[a] \in {"open", "assign"} =>
       modTime <= seen[a] /\ seen[a] <= mtime

(* Unless the last write hid behind the time of the one before, the time   *)
(* of the file tells what it holds.                                        *)
CurrentInv ==
  ~hidden =>
    /\ modTime = mtime => functions = Parsed(content)
    /\ \A a \in Refreshers : pc[a] = "assign" /\ seen[a] = mtime => read[a] = content

(* A request that arrived when the file had the modification time t, and   *)
(* what a table of that time or a later one is good for.                   *)
Dated(a, t) ==
  /\ t <= mtime
  /\ modTime >= t => functions >= asked[a]
  /\ \A b \in Refreshers : pc[b] = "assign" /\ seen[b] >= t => Parsed(read[b]) >= asked[a]
  /\ pc[a] \in {"open", "assign"} => seen[a] >= t
  /\ pc[a] = "get" => modTime >= t

Looking == {"refresh", "get"} \cup Reading

RequestInv ==
  \A a \in Requests : pc[a] \in Looking /\ ~spoilt[a] =>
    /\ content \in Versions
    /\ asked[a] <= content
    /\ \E t \in Nat : Dated(a, t)

-----------------------------------------------------------------------------
LEMMA TypeInit == Init => TypeOK /\ WriteInv
<1> SUFFICES ASSUME Init PROVE TypeOK /\ WriteInv
  OBVIOUS
<1>1. /\ 1 \in Versions /\ content \in Content
      /\ mtime \in 1 .. 1 + MaxWrites /\ 0 \in 0 .. 1 + MaxWrites /\ 0 \in 0 .. MaxVersion
  BY DEF Init, Content, Versions
<1>2. pc \in [Refreshers -> {"idle", "refresh", "start"}]
  BY DEF Init
<1>3. /\ seen \in [Refreshers -> 0 .. 1 + MaxWrites]
      /\ read \in [Refreshers -> Content \cup {0}]
      /\ result \in [Requests -> 0 .. MaxVersion]
      /\ asked \in [Requests -> 0 .. MaxVersion]
      /\ spoilt \in [Requests -> BOOLEAN]
  BY <1>1 DEF Init
<1>4. /\ latest \in Versions /\ writes \in 0 .. MaxWrites /\ mtime <= 1 + writes
      /\ functions \in 0 .. MaxVersion /\ modTime \in 0 .. 1 + MaxWrites
  BY <1>1 DEF Init
<1>5. /\ hidden \in BOOLEAN /\ ticking \in BOOLEAN /\ due \in BOOLEAN
      /\ lock \in Refreshers \cup {Nobody}
  BY DEF Init
<1> QED
  BY <1>1, <1>2, <1>3, <1>4, <1>5 DEF TypeOK, WriteInv

LEMMA TypeStep == TypeOK /\ WriteInv /\ [Next]_vars => TypeOK' /\ WriteInv'
<1> SUFFICES ASSUME TypeOK, WriteInv, [Next]_vars PROVE TypeOK' /\ WriteInv'
  OBVIOUS
<1> USE DEF TypeOK, WriteInv, Refreshers, file, table, clock, found, ghost
<1>1. ASSUME NEW a \in Refreshers, Arrive(a) PROVE TypeOK' /\ WriteInv'
  BY <1>1 DEF Arrive, Versions
<1>2. ASSUME NEW a \in Refreshers, Refresh(a) PROVE TypeOK' /\ WriteInv'
  BY <1>2 DEF Refresh, Free
<1>3. ASSUME NEW a \in Refreshers, StatFailed(a) \/ StatSame(a) PROVE TypeOK' /\ WriteInv'
  BY <1>3 DEF StatFailed, StatSame, After
<1>4. ASSUME NEW a \in Refreshers, StatNew(a) PROVE TypeOK' /\ WriteInv'
  BY <1>4 DEF StatNew
<1>5. ASSUME NEW a \in Refreshers, Open(a) PROVE TypeOK' /\ WriteInv'
  BY <1>5 DEF Open
<1>6. ASSUME NEW a \in Refreshers, Assign(a) PROVE TypeOK' /\ WriteInv'
  <2>1. Parsed(read[a]) \in 0 .. MaxVersion
    BY DEF Parsed, Versions
  <2>2. After(a, read[a] \notin Versions) \in {"get", "failed", "idle"}
    BY DEF After
  <2> QED
    BY <1>6, <2>1, <2>2 DEF Assign
<1>7. ASSUME NEW a \in Refreshers, Get(a) PROVE TypeOK' /\ WriteInv'
  BY <1>7 DEF Get
<1>8. CASE Range \/ Panic \/ Fire \/ Tick \/ Close
  BY <1>8 DEF Range, Panic, Fire, Tick, Close
<1>9. ASSUME NEW c \in Content, NEW m \in {mtime, mtime + 1}, Write(c, m)
      PROVE  TypeOK' /\ WriteInv'
  BY <1>9 DEF Write
<1>10. CASE UNCHANGED vars
  BY <1>10 DEF vars
<1> QED
  BY <1>1, <1>2, <1>3, <1>4, <1>5, <1>6, <1>7, <1>8, <1>9, <1>10
  DEF Next, RefreshStep, Edit, Quiet

(* The type invariant holds in every reachable state.                      *)
THEOREM TypeCorrect == Spec => []TypeOK
BY TypeInit, TypeStep, PTL DEF Spec

-----------------------------------------------------------------------------
LEMMA LockStep == TypeOK /\ LockInv /\ [Next]_vars => LockInv'
<1> SUFFICES ASSUME TypeOK, LockInv, [Next]_vars PROVE LockInv'
  OBVIOUS
<1> USE DEF TypeOK, LockInv, Reading, table, clock, found, ghost, file
<1>1. ASSUME NEW a \in Refreshers, Arrive(a) \/ Refresh(a) \/ Get(a) PROVE LockInv'
  BY <1>1 DEF Arrive, Refresh, Free, Get
<1>2. ASSUME NEW a \in Refreshers, RefreshStep(a) PROVE LockInv'
  BY <1>2 DEF RefreshStep, StatFailed, StatSame, StatNew, Open, Assign, After
<1>3. CASE Range \/ Panic \/ Tick
  BY <1>3 DEF Range, Panic, Tick
<1>4. CASE UNCHANGED <<lock, pc>>
  BY <1>4
<1> QED
  BY <1>1, <1>2, <1>3, <1>4 DEF Next, Fire, Close, Edit, Write, Quiet, vars

(* Steps that leave the file, the table and the readers as they are.       *)
LEMMA Readers ==
  ASSUME TypeOK, [Next]_vars
  PROVE  \/ \E a \in Refreshers : StatNew(a) \/ Open(a) \/ Assign(a)
         \/ Edit
         \/ /\ UNCHANGED <<file, table, found>>
            /\ \A a \in Refreshers : pc'[a] \in {"open", "assign"} => pc'[a] = pc[a]
<1> USE DEF TypeOK, Reading, table, clock, found, ghost, file
<1>1. ASSUME NEW a \in Refreshers, Arrive(a) \/ Refresh(a) \/ Get(a) \/ StatFailed(a) \/ StatSame(a)
      PROVE  /\ UNCHANGED <<file, table, found>>
             /\ \A b \in Refreshers : pc'[b] \in {"open", "assign"} => pc'[b] = pc[b]
  BY <1>1 DEF Arrive, Refresh, Get, StatFailed, StatSame, After
<1>2. CASE Range \/ Panic \/ Fire \/ Tick \/ Close \/ Quiet \/ UNCHANGED vars
  BY <1>2 DEF Range, Panic, Fire, Tick, Close, Quiet, vars
<1> QED
  BY <1>1, <1>2 DEF Next, RefreshStep

LEMMA VersionStep == TypeOK /\ LockInv /\ VersionInv /\ [Next]_vars => VersionInv'
<1> SUFFICES ASSUME TypeOK, LockInv, VersionInv, [Next]_vars PROVE VersionInv'
  OBVIOUS
<1> USE DEF TypeOK, VersionInv, Versions
<1>1. ASSUME NEW a \in Refreshers, StatNew(a) PROVE VersionInv'
  BY <1>1 DEF StatNew, table, file
<1>2. ASSUME NEW a \in Refreshers, Open(a) PROVE VersionInv'
  BY <1>2 DEF Open, table, file
<1>3. ASSUME NEW a \in Refreshers, Assign(a) PROVE VersionInv'
  <2>1. \A b \in Refreshers : pc'[b] # "assign"
    BY <1>3 DEF Assign, LockInv, Reading, After
  <2> QED
    BY <1>3, <2>1 DEF Assign, Parsed, file
<1>4. ASSUME NEW c \in Content, NEW m \in {mtime, mtime + 1}, Write(c, m) PROVE VersionInv'
  BY <1>4 DEF Write, found, table, Bad, Missing
<1>5. CASE /\ UNCHANGED <<file, table, found>>
           /\ \A a \in Refreshers : pc'[a] \in {"open", "assign"} => pc'[a] = pc[a]
  BY <1>5 DEF file, table, found
<1> QED
  BY <1>1, <1>2, <1>3, <1>4, <1>5, Readers DEF Edit

LEMMA TimeStep == TypeOK /\ LockInv /\ TimeInv /\ [Next]_vars => TimeInv'
<1> SUFFICES ASSUME TypeOK, LockInv, TimeInv, [Next]_vars PROVE TimeInv'
  OBVIOUS
<1> USE DEF TypeOK, TimeInv
<1>1. ASSUME NEW a \in Refreshers, StatNew(a) PROVE TimeInv'
  BY <1>1 DEF StatNew, table, file
<1>2. ASSUME NEW a \in Refreshers, Open(a) PROVE TimeInv'
  BY <1>2 DEF Open, table, file
<1>3. ASSUME NEW a \in Refreshers, Assign(a) PROVE TimeInv'
  <2>1. \A b \in Refreshers : pc'[b] \notin {"open", "assign"}
    BY <1>3 DEF Assign, LockInv, Reading, After
  <2> QED
    BY <1>3, <2>1 DEF Assign, file
<1>4. ASSUME NEW c \in Content, NEW m \in {mtime, mtime + 1}, Write(c, m) PROVE TimeInv'
  BY <1>4 DEF Write, found, table
<1>5. CASE /\ UNCHANGED <<file, table, found>>
           /\ \A a \in Refreshers : pc'[a] \in {"open", "assign"} => pc'[a] = pc[a]
  BY <1>5 DEF file, table, found
<1> QED
  BY <1>1, <1>2, <1>3, <1>4, <1>5, Readers DEF Edit

LEMMA CurrentStep ==
  TypeOK /\ LockInv /\ TimeInv /\ CurrentInv /\ [Next]_vars => CurrentInv'
<1> SUFFICES ASSUME TypeOK, LockInv, TimeInv, CurrentInv, [Next]_vars PROVE CurrentInv'
  OBVIOUS
<1> USE DEF TypeOK, CurrentInv
<1>1. ASSUME NEW a \in Refreshers, StatNew(a) PROVE CurrentInv'
  BY <1>1 DEF StatNew, table, file, Parsed
<1>2. ASSUME NEW a \in Refreshers, Open(a) PROVE CurrentInv'
  BY <1>2 DEF Open, table, file, Parsed
<1>3. ASSUME NEW a \in Refreshers, Assign(a) PROVE CurrentInv'
  <2>1. \A b \in Refreshers : pc'[b] # "assign"
    BY <1>3 DEF Assign, LockInv, Reading, After
  <2> QED
    BY <1>3, <2>1 DEF Assign, Parsed, file
<1>4. ASSUME NEW c \in Content, NEW m \in {mtime, mtime + 1}, Write(c, m) PROVE CurrentInv'
  <2>1. hidden' \/ mtime' = mtime + 1
    BY <1>4 DEF Write
  <2> QED
    BY <1>4, <2>1 DEF Write, found, table, TimeInv
<1>5. CASE /\ UNCHANGED <<file, table, found>>
           /\ \A a \in Refreshers : pc'[a] \in {"open", "assign"} => pc'[a] = pc[a]
  BY <1>5 DEF file, table, found, Parsed
<1> QED
  BY <1>1, <1>2, <1>3, <1>4, <1>5, Readers DEF Edit

-----------------------------------------------------------------------------
(* What a refresh has found stays good for a request that is under way:    *)
(* every step keeps the time t that the request's arrival is dated by.     *)
LEMMA DatedStep ==
  ASSUME TypeOK, LockInv, VersionInv, TimeInv, [Next]_vars,
         NEW a \in Requests, ~Arrive(a), pc[a] \in Looking, pc'[a] \in Looking,
         content \in Versions, content' \in Versions, asked[a] <= content,
         NEW t \in Nat, Dated(a, t)
  PROVE  asked'[a] = asked[a] /\ asked[a] <= content' /\ Dated(a, t)'
<1> USE DEF TypeOK, Dated
<1> a \in Refreshers
  BY DEF Refreshers
<1>1. ASSUME NEW b \in Refreshers, StatNew(b)
      PROVE  asked'[a] = asked[a] /\ asked[a] <= content' /\ Dated(a, t)'
  BY <1>1 DEF StatNew, table, file, ghost
<1>2. ASSUME NEW b \in Refreshers, Open(b)
      PROVE  asked'[a] = asked[a] /\ asked[a] <= content' /\ Dated(a, t)'
  BY <1>2 DEF Open, table, file, ghost, Parsed
<1>3. ASSUME NEW b \in Refreshers, Assign(b)
      PROVE  asked'[a] = asked[a] /\ asked[a] <= content' /\ Dated(a, t)'
  <2>1. \A c \in Refreshers : pc'[c] \notin {"open", "assign"}
    BY <1>3 DEF Assign, LockInv, Reading, After
  <2>2. functions' = Parsed(read[b]) /\ modTime' = seen[b] /\ UNCHANGED <<file, ghost>>
    BY <1>3 DEF Assign
  <2>3. modTime' >= t => functions' >= asked[a]
    BY <1>3, <2>2 DEF Assign
  <2>4. pc'[a] = "get" => modTime' >= t
    <3>1. CASE a = b
      BY <1>3, <2>2, <3>1 DEF Assign
    <3>2. CASE a # b
      BY <1>3, <2>2, <3>2 DEF Assign, TimeInv
    <3> QED
      BY <3>1, <3>2
  <2> QED
    BY <2>1, <2>2, <2>3, <2>4 DEF file, ghost
<1>4. ASSUME NEW c \in Content, NEW m \in {mtime, mtime + 1}, Write(c, m)
      PROVE  asked'[a] = asked[a] /\ asked[a] <= content' /\ Dated(a, t)'
  <2>1. c \in {latest, latest + 1}
    BY <1>4 DEF Write, Bad, Missing, Versions
  <2>2. asked'[a] = asked[a] /\ asked[a] <= content'
    BY <1>4, <2>1 DEF Write, VersionInv, Versions
  <2> QED
    BY <1>4, <2>2 DEF Write, table, found
<1>5. ASSUME NEW b \in Refreshers, Refresh(b) \/ StatFailed(b) \/ StatSame(b) \/ Get(b)
      PROVE  asked'[a] = asked[a] /\ asked[a] <= content' /\ Dated(a, t)'
  <2>1. UNCHANGED <<file, table, found, asked>>
    BY <1>5 DEF Refresh, StatFailed, StatSame, Get, ghost
  <2>2. \A c \in Refreshers : pc'[c] \in {"open", "assign"} => pc'[c] = pc[c]
    BY <1>5 DEF Refresh, StatFailed, StatSame, Get, After
  <2>3. pc'[a] = "get" => modTime >= t
    <3>1. content # Missing
      BY DEF Versions, Missing
    <3>2. CASE a = b /\ StatSame(b)
      BY <3>2 DEF StatSame, Same
    <3>3. CASE a # b \/ ~StatSame(b)
      BY <1>5, <3>1, <3>3 DEF Refresh, StatFailed, StatSame, Get
    <3> QED
      BY <3>2, <3>3
  <2> QED
    BY <2>1, <2>2, <2>3 DEF file, table, found, Parsed
<1>6. ASSUME NEW b \in Refreshers \ {a}, Arrive(b)
      PROVE  asked'[a] = asked[a] /\ asked[a] <= content' /\ Dated(a, t)'
  BY <1>6 DEF Arrive, file, table, found, Parsed
<1>7. CASE Range \/ Panic \/ Fire \/ Tick \/ Close \/ Quiet \/ UNCHANGED vars
  <2>1. UNCHANGED <<file, table, found, asked>>
    BY <1>7 DEF Range, Panic, Fire, Tick, Close, Quiet, vars, ghost
  <2>2. \A c \in Refreshers : pc'[c] \in {"open", "assign", "get"} => pc'[c] = pc[c]
    BY <1>7 DEF Range, Panic, Fire, Tick, Close, Quiet, vars
  <2> QED
    BY <2>1, <2>2 DEF file, table, found, Parsed
<1> QED
  BY <1>1, <1>2, <1>3, <1>4, <1>5, <1>6, <1>7 DEF Next, RefreshStep, Edit

(* Nobody but the request that arrives starts to look, and a moment in     *)
(* which the file does not parse is remembered.                            *)
LEMMA LookingStep ==
  ASSUME TypeOK, [Next]_vars, NEW a \in Requests, ~Arrive(a), pc'[a] \in Looking, ~spoilt'[a]
  PROVE  pc[a] \in Looking /\ ~spoilt[a] /\ (content \in Versions => content' \in Versions)
<1> USE DEF TypeOK, Looking, Reading
<1> a \in Refreshers
  BY DEF Refreshers
<1>1. ASSUME NEW b \in Refreshers, Refresh(b) \/ RefreshStep(b) \/ Get(b)
      PROVE  pc[a] \in Looking /\ ~spoilt[a] /\ content' = content
  BY <1>1 DEF Refresh, RefreshStep, StatFailed, StatSame, StatNew, Open, Assign, Get, After,
              ghost, file
<1>2. ASSUME NEW b \in Refreshers \ {a}, Arrive(b)
      PROVE  pc[a] \in Looking /\ ~spoilt[a] /\ content' = content
  BY <1>2 DEF Arrive, file
<1>3. CASE Range \/ Panic \/ Fire \/ Tick \/ Close \/ Quiet \/ UNCHANGED vars
  BY <1>3 DEF Range, Panic, Fire, Tick, Close, Quiet, vars, ghost, file
<1>4. ASSUME NEW c \in Content, NEW m \in {mtime, mtime + 1}, Write(c, m)
      PROVE  pc[a] \in Looking /\ ~spoilt[a] /\ content' \in Versions
  BY <1>4 DEF Write
<1> QED
  BY <1>1, <1>2, <1>3, <1>4 DEF Next, Edit

LEMMA RequestStep ==
  TypeOK /\ LockInv /\ VersionInv /\ TimeInv /\ CurrentInv /\ RequestInv /\ [Next]_vars
    => RequestInv'
<1> SUFFICES ASSUME TypeOK, LockInv, VersionInv, TimeInv, CurrentInv, RequestInv, [Next]_vars,
                    NEW a \in Requests, pc'[a] \in Looking, ~spoilt'[a]
             PROVE  /\ content' \in Versions
                    /\ asked'[a] <= content'
                    /\ \E t \in Nat : Dated(a, t)'
  BY DEF RequestInv
<1> a \in Refreshers
  BY DEF Refreshers
<1>1. CASE Arrive(a)
  <2>1. UNCHANGED <<file, table, found>> /\ content \in Versions
    BY <1>1 DEF Arrive, TypeOK
  <2>2. asked'[a] \in {0, content} /\ (hidden => asked'[a] = 0)
    BY <1>1 DEF Arrive, TypeOK
  <2>3. pc'[a] = "refresh" /\ \A b \in Refreshers : pc'[b] = "assign" => pc[b] = "assign"
    BY <1>1 DEF Arrive, TypeOK
  <2>4. Dated(a, mtime)'
    <3>1. functions \in Nat /\ \A b \in Refreshers : Parsed(read[b]) \in Nat
      BY DEF TypeOK, Parsed, Versions
    <3>2. CASE asked'[a] = 0
      BY <2>1, <2>3, <3>1, <3>2 DEF Dated, TypeOK, file, table, found, Parsed
    <3>3. CASE asked'[a] = content /\ ~hidden
      <4>1. Parsed(content) = content
        BY <2>1 DEF Parsed
      <4>2. modTime >= mtime => functions = content
        BY <3>3, <4>1 DEF TimeInv, CurrentInv, TypeOK
      <4>3. \A b \in Refreshers : pc[b] = "assign" /\ seen[b] >= mtime => read[b] = content
        BY <3>3 DEF TimeInv, CurrentInv, TypeOK
      <4> QED
        BY <2>1, <2>3, <3>3, <4>1, <4>2, <4>3 DEF Dated, TypeOK, file, table, found, Parsed, Versions
    <3> QED
      BY <2>2, <3>2, <3>3
  <2>5. asked'[a] <= content'
    BY <2>1, <2>2 DEF file, Versions
  <2>6. mtime' \in Nat
    BY <2>1 DEF file, TypeOK
  <2>7. \E t \in Nat : Dated(a, t)'
    BY <2>1, <2>4, <2>6 DEF Dated, file
  <2> QED
    BY <2>1, <2>5, <2>7 DEF file
<1>2. CASE ~Arrive(a)
  <2>1. /\ pc[a] \in Looking /\ ~spoilt[a]
        /\ content \in Versions => content' \in Versions
    BY <1>2, LookingStep
  <2>2. content \in Versions /\ asked[a] <= content /\ \E t \in Nat : Dated(a, t)
    BY <2>1 DEF RequestInv
  <2>3. PICK t \in Nat : Dated(a, t)
    BY <2>2
  <2> QED
    BY <1>2, <2>1, <2>2, <2>3, DatedStep
<1> QED
  BY <1>1, <1>2

LEMMA FreshStep ==
  TypeOK /\ RequestInv /\ FreshDefinition /\ [Next]_vars => FreshDefinition'
<1> SUFFICES ASSUME TypeOK, RequestInv, FreshDefinition, [Next]_vars,
                    NEW a \in Requests, pc'[a] = "done", ~spoilt'[a]
             PROVE  result'[a] >= asked'[a]
  BY DEF FreshDefinition
<1> a \in Refreshers
  BY DEF Refreshers
<1>1. CASE Get(a)
  <2>1. PICK t \in Nat : Dated(a, t)
    BY <1>1 DEF Get, RequestInv, Looking, ghost
  <2> QED
    BY <1>1, <2>1 DEF Get, Dated, TypeOK, ghost
<1>2. CASE ~Get(a)
  <2>1. pc[a] = "done" /\ result'[a] = result[a] /\ asked'[a] = asked[a] /\ ~spoilt[a]
    <3> USE DEF TypeOK
    <3>1. ASSUME NEW b \in Refreshers, Arrive(b) \/ Refresh(b) \/ RefreshStep(b) \/ (b # a /\ Get(b))
          PROVE  pc[a] = "done" /\ result'[a] = result[a] /\ asked'[a] = asked[a] /\ ~spoilt[a]
      BY <3>1 DEF Arrive, Refresh, RefreshStep, StatFailed, StatSame, StatNew, Open, Assign, Get,
                  After, ghost
    <3>2. CASE Range \/ Panic \/ Fire \/ Tick \/ Close \/ Quiet \/ UNCHANGED vars
      BY <3>2 DEF Range, Panic, Fire, Tick, Close, Quiet, vars, ghost
    <3>3. CASE Edit
      BY <3>3 DEF Edit, Write
    <3> QED
      BY <1>2, <3>1, <3>2, <3>3 DEF Next
  <2> QED
    BY <2>1 DEF FreshDefinition
<1> QED
  BY <1>1, <1>2

-----------------------------------------------------------------------------
TemplateInv ==
  TypeOK /\ WriteInv /\ LockInv /\ VersionInv /\ TimeInv /\ CurrentInv /\ RequestInv
  /\ FreshDefinition

LEMMA InvInit == Init => TemplateInv
<1> SUFFICES ASSUME Init PROVE TemplateInv
  OBVIOUS
<1>1. TypeOK /\ WriteInv
  BY TypeInit
<1>2. \A a \in Refreshers : pc[a] \in {"refresh", "start", "idle"}
  BY DEF Init
<1>3. LockInv /\ TimeInv /\ CurrentInv
  BY <1>2 DEF Init, LockInv, Reading, TimeInv, CurrentInv
<1>4. VersionInv
  BY <1>2 DEF Init, VersionInv, Versions, Bad, Missing
<1>5. \A a \in Requests : a \in Refreshers /\ pc[a] = "idle"
  BY DEF Init, Refreshers
<1>6. RequestInv /\ FreshDefinition
  BY <1>5 DEF RequestInv, Looking, Reading, FreshDefinition
<1> QED
  BY <1>1, <1>3, <1>4, <1>6 DEF TemplateInv

LEMMA Invariance == Spec => []TemplateInv
<1>1. TemplateInv /\ [Next]_vars => TemplateInv'
  BY TypeStep, LockStep, VersionStep, TimeStep, CurrentStep, RequestStep, FreshStep DEF TemplateInv
<1> QED
  BY InvInit, <1>1, PTL DEF Spec

(* A request works with a definition at least as new as the template it    *)
(* could see when it arrived, however many others refresh the table and    *)
(* however the file changes under them.                                    *)
THEOREM Freshness == Spec => []FreshDefinition
<1>1. TemplateInv => FreshDefinition
  BY DEF TemplateInv
<1> QED
  BY Invariance, <1>1, PTL

(* No refresh that read the file earlier stores its table later: a step    *)
(* never takes the table back to an older version.                         *)
THEOREM MovesOn == Spec => TableMovesOn
<1>1. TemplateInv /\ [Next]_vars
        => [functions # 0 /\ functions' # 0 => functions' >= functions]_vars
  <2> SUFFICES ASSUME TemplateInv, [Next]_vars, functions # 0, functions' # 0
               PROVE  functions' >= functions
    OBVIOUS
  <2> USE DEF TemplateInv, TypeOK
  <2>1. ASSUME NEW a \in Refreshers, Assign(a) PROVE functions' >= functions
    BY <2>1 DEF Assign, Parsed, VersionInv, Versions
  <2>2. CASE UNCHANGED functions
    BY <2>2
  <2> QED
    BY <2>1, <2>2, Readers DEF table, StatNew, Open, Edit, Write
<1> QED
  BY Invariance, <1>1, PTL DEF Spec, TableMovesOn
================================================================================
