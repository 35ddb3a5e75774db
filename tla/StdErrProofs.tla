------------------------------ MODULE StdErrProofs ------------------------------
(***************************************************************************)
(* What TLAPS proves of StdErr: the log is what was written.  The first    *)
(* part is about FlattenSeq, the concatenation of lines, for which         *)
(* induction over Nat is stated with a set, not a predicate.               *)
(***************************************************************************)
EXTENDS StdErr, SequenceTheorems, WellFoundedInduction, TLAPS

(* What holds of 0 and goes from n to n + 1 holds of all numbers: the      *)
(* least exception has a predecessor.                                      *)
LEMMA Induction ==
  ASSUME NEW T, 0 \in T, \A n \in Nat : n \in T => n + 1 \in T
  PROVE  Nat \subseteq T
<1> DEFINE Rest == Nat \ T
<1> DEFINE Less == OpToRel(<, Nat)
<1> SUFFICES ASSUME Rest # {} PROVE FALSE
  OBVIOUS
<1>1. \E x \in Rest : \A y \in Rest : <<y, x>> \notin Less
  <2>1. Rest \subseteq Nat
    OBVIOUS
  <2> HIDE DEF Rest
  <2> QED
    BY NatLessThanWellFounded, WFMin, <2>1
<1>2. ASSUME NEW x \in Nat, NEW y \in Nat, y < x PROVE <<y, x>> \in Less
  BY <1>2 DEF OpToRel
<1> HIDE DEF Less
<1>3. PICK x \in Rest : \A y \in Rest : ~ (y < x)
  BY <1>1, <1>2
<1>4. x # 0 /\ x - 1 \in Nat /\ x - 1 < x
  OBVIOUS
<1>5. x - 1 \in T
  BY <1>3, <1>4
<1> QED
  BY <1>4, <1>5

(* f concatenates the first n of seqs, one after the other.                *)
Link(f, seqs, i) == IF i = 1 THEN seqs[i] ELSE f[i - 1] \o seqs[i]

Recurs(f, seqs, n) == f = [i \in 1 .. n |-> Link(f, seqs, i)]

Flattens(f, seqs, n, S) ==
  f \in [1 .. n -> Seq(S)] /\ \A i \in 1 .. n : f[i] = Link(f, seqs, i)

LEMMA RecursEach ==
  ASSUME NEW f, NEW seqs, NEW n, Recurs(f, seqs, n)
  PROVE  DOMAIN f = 1 .. n /\ \A i \in 1 .. n : f[i] = Link(f, seqs, i)
<1> DEFINE h == [i \in 1 .. n |-> Link(f, seqs, i)]
<1>1. DOMAIN h = 1 .. n /\ \A i \in 1 .. n : h[i] = Link(f, seqs, i)
  OBVIOUS
<1>2. f = h
  BY Zenon DEF Recurs
<1> HIDE DEF h
<1> QED
  BY <1>1, <1>2

LEMMA FlattensRecurs ==
  ASSUME NEW f, NEW seqs, NEW n \in Nat, NEW S, Flattens(f, seqs, n, S)
  PROVE  Recurs(f, seqs, n)
<1> DEFINE h == [i \in 1 .. n |-> Link(f, seqs, i)]
<1>1. DOMAIN h = 1 .. n /\ \A i \in 1 .. n : h[i] = Link(f, seqs, i)
  OBVIOUS
<1>2. h \in [1 .. n -> Seq(S)]
  BY <1>1 DEF Flattens
<1> HIDE DEF h
<1>3. f = h
  <2>1. f \in [1 .. n -> Seq(S)] /\ \A i \in 1 .. n : f[i] = h[i]
    BY <1>1 DEF Flattens
  <2> QED
    BY <1>2, <2>1
<1> QED
  BY <1>3, Zenon DEF h, Recurs

LEMMA RecursFlattens ==
  ASSUME NEW S, NEW seqs \in Seq(Seq(S)), NEW n \in 0 .. Len(seqs), NEW f, Recurs(f, seqs, n)
  PROVE  Flattens(f, seqs, n, S)
<1> DEFINE T == {i \in Nat : i \in 1 .. n => f[i] \in Seq(S)}
<1>1. 0 \in T
  OBVIOUS
<1>2. ASSUME NEW i \in Nat, i \in T PROVE i + 1 \in T
  <2> SUFFICES ASSUME i + 1 \in 1 .. n PROVE f[i + 1] \in Seq(S)
    OBVIOUS
  <2>1. f[i + 1] = Link(f, seqs, i + 1) /\ seqs[i + 1] \in Seq(S)
    BY RecursEach
  <2>2. i # 0 => f[i] \in Seq(S)
    BY <1>2
  <2> QED
    BY <2>1, <2>2 DEF Link
<1>3. Nat \subseteq T
  <2> HIDE DEF T
  <2> QED
    BY <1>1, <1>2, Induction
<1>4. \A i \in 1 .. n : f[i] \in Seq(S)
  BY <1>3
<1>5. f = [i \in 1 .. n |-> f[i]]
  BY RecursEach DEF Recurs
<1> QED
  BY <1>4, <1>5, RecursEach DEF Flattens

LEMMA FlattensExists ==
  ASSUME NEW S, NEW seqs \in Seq(Seq(S)), NEW n \in 0 .. Len(seqs)
  PROVE  \E f : Flattens(f, seqs, n, S)
<1> DEFINE T == {m \in Nat : m <= Len(seqs) => \E f : Flattens(f, seqs, m, S)}
<1>1. 0 \in T
  <2>1. Flattens([i \in 1 .. 0 |-> <<>>], seqs, 0, S)
    BY DEF Flattens
  <2> QED
    BY <2>1
<1>2. ASSUME NEW m \in Nat, m \in T PROVE m + 1 \in T
  <2> SUFFICES ASSUME m + 1 <= Len(seqs) PROVE \E f : Flattens(f, seqs, m + 1, S)
    OBVIOUS
  <2>1. PICK f : Flattens(f, seqs, m, S)
    BY <1>2
  <2> DEFINE g == [i \in 1 .. m + 1 |-> IF i <= m THEN f[i] ELSE Link(f, seqs, i)]
  <2>2. ASSUME NEW i \in 1 .. m + 1 PROVE g[i] = Link(f, seqs, i) /\ g[i] \in Seq(S)
    <3>1. CASE i <= m
      BY <2>1, <3>1 DEF Flattens
    <3>2. CASE i = m + 1
      <4>1. seqs[i] \in Seq(S) /\ (i # 1 => f[i - 1] \in Seq(S))
        <5>1. i \in 1 .. Len(seqs)
          BY <3>2, LenProperties
        <5>2. i # 1 => i - 1 \in 1 .. m
          BY <3>2
        <5> QED
          BY <2>1, <5>1, <5>2, ElementOfSeq DEF Flattens
      <4> QED
        BY <3>2, <4>1, ConcatProperties DEF Link
    <3> QED
      BY <3>1, <3>2
  <2>3. ASSUME NEW i \in 1 .. m + 1 PROVE Link(g, seqs, i) = Link(f, seqs, i)
    BY DEF Link
  <2> QED
    BY <2>2, <2>3 DEF Flattens
<1> HIDE DEF T
<1>3. Nat \subseteq T
  BY <1>1, <1>2, Induction
<1>4. Len(seqs) \in Nat
  BY LenProperties
<1> QED
  BY <1>3, <1>4 DEF T

LEMMA FlattensUnique ==
  ASSUME NEW S, NEW f, NEW g, NEW seqs, NEW n \in Nat,
         Flattens(f, seqs, n, S), Flattens(g, seqs, n, S)
  PROVE  f = g
<1> DEFINE T == {i \in Nat : i \in 1 .. n => f[i] = g[i]}
<1>1. 0 \in T
  OBVIOUS
<1>2. ASSUME NEW i \in Nat, i \in T PROVE i + 1 \in T
  <2> SUFFICES ASSUME i + 1 \in 1 .. n PROVE f[i + 1] = g[i + 1]
    OBVIOUS
  <2>1. f[i + 1] = Link(f, seqs, i + 1) /\ g[i + 1] = Link(g, seqs, i + 1)
    BY DEF Flattens
  <2>2. i # 0 => f[i] = g[i]
    BY <1>2
  <2>3. i + 1 - 1 = i /\ (i + 1 = 1 <=> i = 0)
    OBVIOUS
  <2> QED
    BY <2>1, <2>2, <2>3 DEF Link
<1>3. Nat \subseteq T
  <2> HIDE DEF T
  <2> QED
    BY <1>1, <1>2, Induction
<1>4. \A i \in 1 .. n : f[i] = g[i]
  BY <1>3
<1> QED
  BY <1>4 DEF Flattens

(* FlattenSeq's function is the one that there is.                         *)
LEMMA Flattened ==
  ASSUME NEW S, NEW seqs \in Seq(Seq(S)), seqs # <<>>, NEW f, Flattens(f, seqs, Len(seqs), S)
  PROVE  FlattenSeq(seqs) = f[Len(seqs)]
<1> DEFINE c == CHOOSE g : Recurs(g, seqs, Len(seqs))
<1>1. FlattenSeq(seqs) = c[Len(seqs)]
  <2>1. Len(seqs) # 0
    OBVIOUS
  <2> QED
    BY <2>1, Zenon DEF FlattenSeq, Recurs, Link
<1>2. Recurs(f, seqs, Len(seqs))
  BY FlattensRecurs
<1>3. Recurs(c, seqs, Len(seqs))
  BY <1>2, Zenon
<1>4. c = f
  <2> HIDE DEF c
  <2>1. Flattens(c, seqs, Len(seqs), S)
    BY <1>3, RecursFlattens
  <2> QED
    BY <2>1, FlattensUnique
<1> QED
  BY <1>1, <1>4

LEMMA FlattenEmpty == FlattenSeq(<<>>) = <<>>
BY DEF FlattenSeq

LEMMA FlattenType ==
  ASSUME NEW S, NEW seqs \in Seq(Seq(S))
  PROVE  FlattenSeq(seqs) \in Seq(S)
<1>1. CASE seqs = <<>>
  <2>1. <<>> \in Seq(S)
    OBVIOUS
  <2> QED
    BY <1>1, <2>1, FlattenEmpty, Zenon
<1>2. CASE seqs # <<>>
  <2>1. PICK f : Flattens(f, seqs, Len(seqs), S)
    BY FlattensExists
  <2>2. f[Len(seqs)] \in Seq(S)
    <3>1. Len(seqs) \in 1 .. Len(seqs)
      BY <1>2, EmptySeq, LenProperties
    <3> QED
      BY <2>1, <3>1 DEF Flattens
  <2>3. FlattenSeq(seqs) = f[Len(seqs)]
    BY <1>2, <2>1, Flattened
  <2> QED
    BY <2>2, <2>3
<1> QED
  BY <1>1, <1>2

LEMMA FlattenAppend ==
  ASSUME NEW S, NEW seqs \in Seq(Seq(S)), NEW s \in Seq(S)
  PROVE  FlattenSeq(Append(seqs, s)) = FlattenSeq(seqs) \o s
<1>1. PICK n : n = Len(seqs)
  OBVIOUS
<1>2. PICK more : more = Append(seqs, s)
  OBVIOUS
<1>3. /\ n \in Nat /\ n \in 0 .. n + 1 /\ more \in Seq(Seq(S))
      /\ Len(more) = n + 1 /\ more[n + 1] = s /\ more # <<>>
      /\ \A i \in 1 .. n : more[i] = seqs[i]
  BY <1>1, <1>2, AppendProperties, LenProperties
<1>4. PICK f : Flattens(f, more, n + 1, S)
  BY <1>3, FlattensExists
<1>5. FlattenSeq(more) = f[n + 1]
  BY <1>3, <1>4, Flattened
<1>6. f[n + 1] = IF n = 0 THEN s ELSE f[n] \o s
  <2>1. f[n + 1] = Link(f, more, n + 1)
    BY <1>3, <1>4 DEF Flattens
  <2>2. n + 1 - 1 = n /\ (n + 1 = 1 <=> n = 0)
    BY <1>3
  <2> QED
    BY <1>3, <2>1, <2>2 DEF Link
<1>7. CASE n = 0
  <2>1. seqs = <<>>
    BY <1>1, <1>7, EmptySeq
  <2>2. <<>> \o s = s
    BY ConcatEmptySeq
  <2>3. FlattenSeq(seqs) = <<>>
    BY <2>1, FlattenEmpty
  <2> QED
    BY <1>2, <1>5, <1>6, <1>7, <2>2, <2>3, Zenon
<1>8. CASE n # 0
  <2> DEFINE g == [i \in 1 .. n |-> f[i]]
  <2>1. Flattens(g, seqs, n, S)
    <3>1. ASSUME NEW i \in 1 .. n
          PROVE  g[i] = Link(g, seqs, i) /\ g[i] \in Seq(S)
      <4>1. f[i] = Link(f, more, i) /\ f[i] \in Seq(S)
        BY <1>3, <1>4 DEF Flattens
      <4>2. i # 1 => i - 1 \in 1 .. n
        BY <1>3
      <4> QED
        BY <1>3, <4>1, <4>2 DEF Link
    <3> QED
      BY <3>1 DEF Flattens
  <2>2. FlattenSeq(seqs) = g[n]
    <3> HIDE DEF g
    <3> QED
      BY <1>1, <1>8, <2>1, Flattened
  <2>3. g[n] = f[n]
    BY <1>3, <1>8
  <2> HIDE DEF g
  <2> QED
    BY <1>2, <1>5, <1>6, <1>8, <2>2, <2>3, Zenon
<1> QED
  BY <1>7, <1>8
-----------------------------------------------------------------------------
Unit == Nat \X Nat

TypeInv ==
  /\ plan \in [1 .. MaxCalls -> 0 .. MaxLine]
  /\ call \in 0 .. MaxCalls /\ busy \in BOOLEAN /\ col \in Nat
  /\ process \in {"new", "runs", "ended", "failed"} /\ closed \in BOOLEAN
  /\ pipe \in Seq(Unit) /\ buf \in Seq(Unit)
  /\ reader \in {"scan", "stopped"} /\ logged \in Seq(Seq(Unit))

(* Nothing is written before a call, nor more than its line, and a call    *)
(* that has returned has written it all.                                   *)
StageInv ==
  /\ process \in {"new", "failed"} => call = 0 /\ buf = <<>> /\ pipe = <<>>
  /\ closed => process = "failed"
  /\ call = 0 => col = 0 /\ ~busy
  /\ call # 0 => col <= plan[call]
  /\ process = "runs" /\ ~busy /\ call # 0 => col = plan[call]

(* What the scanner has not passed on yet, and which unit is next to it.   *)
Text == buf \o pipe

Follows(u, v) == IF IsNewline(u) THEN v[2] = 1 ELSE v = <<u[1], u[2] + 1>>

(* It begins with a line, is gapless, and ends where the function is.      *)
TextInv ==
  reader = "scan" =>
    /\ \A j \in DOMAIN Text : Text[j][1] \in 1 .. call /\ Text[j][2] \in 1 .. plan[Text[j][1]]
    /\ \A j \in 1 .. Len(Text) - 1 : Follows(Text[j], Text[j + 1])
    /\ Text # <<>> => Text[1][2] = 1
    /\ process = "runs" =>
         IF Text = <<>> THEN col = 0 \/ col = plan[call]
         ELSE IF col = 0 THEN IsNewline(Text[Len(Text)])
         ELSE Text[Len(Text)] = <<call, col>>

LEMMA Bounds == /\ MaxCalls \in Nat /\ MaxCalls > 0 /\ MaxLine \in Nat
                /\ \A n \in 0 .. MaxCalls : n \in Nat /\ (n # 0 => n \in 1 .. MaxCalls)
                /\ \A n \in 0 .. MaxLine : n \in Nat
BY StdErrAssumption

LEMMA TypeInit == Init => TypeInv
<1>1. 0 \in 0 .. MaxCalls
  BY Bounds
<1>2. <<>> \in Seq(Unit) /\ <<>> \in Seq(Seq(Unit))
  BY EmptySeq
<1>3. 0 \in Nat
  OBVIOUS
<1> QED
  BY <1>1, <1>2, <1>3, Zenon DEF Init, TypeInv

LEMMA TypeStep == TypeInv /\ [Next]_vars => TypeInv'
<1> SUFFICES ASSUME TypeInv, [Next]_vars PROVE TypeInv'
  OBVIOUS
<1> USE DEF TypeInv, writer, stream
<1>1. CASE Start \/ StartFailed \/ Return \/ Exit \/ TooLong
  BY <1>1 DEF Start, StartFailed, Return, Exit, TooLong
<1>7. CASE Send
  <2>1. call' \in 0 .. MaxCalls /\ col' \in Nat
    BY <1>7, Bounds DEF Send
  <2> QED
    BY <1>7, <2>1 DEF Send
<1>2. CASE Write
  <2>1. <<call, col + 1>> \in Unit
    BY DEF Unit
  <2>2. pipe' \in Seq(Unit)
    BY <1>2, <2>1, AppendProperties DEF Write
  <2> QED
    BY <1>2, <2>2 DEF Write
<1>3. CASE Token
  <2>1. PICK k \in Newlines :
          logged' = Append(logged, SubSeq(buf, 1, k)) /\ buf' = SubSeq(buf, k + 1, Len(buf))
    BY <1>3 DEF Token, FirstLine
  <2>2. SubSeq(buf, 1, k) \in Seq(Unit) /\ buf' \in Seq(Unit)
    BY <2>1, SubSeqProperties, ElementOfSeq, LenProperties DEF Newlines
  <2>3. logged' \in Seq(Seq(Unit))
    BY <2>1, <2>2, AppendProperties
  <2> QED
    BY <1>3, <2>2, <2>3 DEF Token
<1>4. CASE Read
  <2>1. PICK n \in 1 .. Len(pipe) :
          buf' = buf \o SubSeq(pipe, 1, n) /\ pipe' = SubSeq(pipe, n + 1, Len(pipe))
    BY <1>4 DEF Read
  <2>2. SubSeq(pipe, 1, n) \in Seq(Unit) /\ pipe' \in Seq(Unit)
    BY <2>1, SubSeqProperties, ElementOfSeq, LenProperties
  <2>3. buf' \in Seq(Unit)
    BY <2>1, <2>2, ConcatProperties
  <2> QED
    BY <1>4, <2>2, <2>3 DEF Read
<1>5. CASE Eof
  <2>1. logged' \in Seq(Seq(Unit)) /\ buf' \in Seq(Unit)
    BY <1>5, AppendProperties, EmptySeq DEF Eof
  <2> QED
    BY <1>5, <2>1 DEF Eof
<1>6. CASE UNCHANGED vars
  BY <1>6 DEF vars
<1> QED
  BY <1>1, <1>2, <1>3, <1>4, <1>5, <1>6, <1>7 DEF Next, Scan, Over

LEMMA StageInit == Init => StageInv
BY DEF Init, StageInv

LEMMA StageStep == TypeInv /\ StageInv /\ [Next]_vars => StageInv'
<1> SUFFICES ASSUME TypeInv, StageInv, [Next]_vars PROVE StageInv'
  OBVIOUS
<1> USE DEF StageInv, writer, stream
<1>1. CASE Start \/ StartFailed \/ Return \/ Exit \/ TooLong
  BY <1>1 DEF Start, StartFailed, Return, Exit, TooLong
<1>2. CASE Send
  <2>1. call' \in 1 .. MaxCalls /\ plan'[call'] \in Nat /\ col' = 0
    BY <1>2, Bounds DEF Send, TypeInv
  <2> QED
    BY <1>2, <2>1 DEF Send
<1>3. CASE Write
  <2>1. call \in 1 .. MaxCalls /\ plan[call] \in Nat /\ col < plan[call] /\ col' = col + 1
    BY <1>3, Bounds DEF Write, TypeInv
  <2> QED
    BY <1>3, <2>1 DEF Write, TypeInv
<1>4. CASE Token
  <2>1. DOMAIN buf # {}
    BY <1>4 DEF Token, FirstLine, Newlines
  <2>2. buf # <<>>
    BY <2>1
  <2> QED
    BY <1>4, <2>2 DEF Token
<1>5. CASE Read
  <2>1. pipe # <<>>
    BY <1>5 DEF Read
  <2> QED
    BY <1>5, <2>1 DEF Read
<1>6. CASE Eof
  BY <1>6 DEF Eof
<1>7. CASE UNCHANGED vars
  BY <1>7 DEF vars
<1> QED
  BY <1>1, <1>2, <1>3, <1>4, <1>5, <1>6, <1>7 DEF Next, Scan, Over

-----------------------------------------------------------------------------
(* Reading cuts a sequence in two.                                         *)
LEMMA Cut ==
  ASSUME NEW S, NEW s \in Seq(S), NEW n \in 0 .. Len(s)
  PROVE  /\ SubSeq(s, 1, n) \in Seq(S) /\ SubSeq(s, n + 1, Len(s)) \in Seq(S)
         /\ SubSeq(s, 1, n) \o SubSeq(s, n + 1, Len(s)) = s
<1>1. Len(s) \in Nat /\ \A i \in 1 .. Len(s) : s[i] \in S
  BY LenProperties, ElementOfSeq
<1>2. SubSeq(s, 1, n) \in Seq(S) /\ SubSeq(s, n + 1, Len(s)) \in Seq(S)
  BY <1>1, SubSeqProperties
<1>3. SubSeq(s, 1, n) \o SubSeq(s, n + 1, Len(s)) = SubSeq(s, 1, Len(s))
  <2>1. /\ 1 \in 1 .. Len(s) + 1 /\ n \in 1 - 1 .. Len(s) /\ Len(s) \in n .. Len(s)
    BY <1>1
  <2> QED
    BY <2>1, ConcatAdjacentSubSeq
<1> QED
  BY <1>2, <1>3, SubSeqFull

(* What is left of a sequence when its beginning is gone.                  *)
LEMMA Remains ==
  ASSUME NEW S, NEW s \in Seq(S), NEW t \in Seq(S), NEW u, u = s \o t
  PROVE  /\ Len(t) = Len(u) - Len(s) /\ Len(t) \in Nat /\ DOMAIN t = 1 .. Len(t)
         /\ t = <<>> <=> Len(t) = 0
         /\ \A j \in 1 .. Len(t) : t[j] = u[j + Len(s)] /\ j + Len(s) \in 1 .. Len(u)
<1>1. /\ Len(s) \in Nat /\ Len(t) \in Nat /\ DOMAIN t = 1 .. Len(t)
      /\ (t = <<>> <=> Len(t) = 0)
  BY LenProperties, EmptySeq
<1>2. Len(u) = Len(s) + Len(t)
  BY ConcatProperties
<1>3. ASSUME NEW j \in 1 .. Len(t)
      PROVE  t[j] = u[j + Len(s)] /\ j + Len(s) \in 1 .. Len(u)
  <2>1. j + Len(s) \in 1 .. Len(s) + Len(t) /\ ~(j + Len(s) <= Len(s)) /\ (j + Len(s)) - Len(s) = j
    BY <1>1
  <2> QED
    BY <1>2, <2>1, ConcatProperties
<1> QED
  BY <1>1, <1>2, <1>3

LEMMA TextType ==
  ASSUME TypeInv
  PROVE  /\ Text \in Seq(Unit) /\ Len(Text) = Len(buf) + Len(pipe)
         /\ Len(Text) \in Nat /\ DOMAIN Text = 1 .. Len(Text) /\ DOMAIN buf = 1 .. Len(buf)
         /\ Len(buf) \in Nat /\ Len(pipe) \in Nat
         /\ \A j \in 1 .. Len(buf) : Text[j] = buf[j]
         /\ Text = <<>> <=> Len(Text) = 0
BY ConcatProperties, LenProperties, EmptySeq DEF TypeInv, Text

(* The first line of the buffer is the whole line of a call.               *)
LEMMA FirstIsLine ==
  ASSUME TypeInv, TextInv, reader = "scan", NEW k \in Newlines, \A l \in Newlines : k <= l
  PROVE  \E i \in 1 .. call : SubSeq(buf, 1, k) = Line(i, plan[i])
<1> DEFINE i == buf[1][1]
           T == {j \in Nat : j \in 1 .. k => buf[j] = <<i, j>>}
<1>1. k \in 1 .. Len(buf) /\ IsNewline(buf[k]) /\ Len(buf) \in Nat
  BY TextType DEF Newlines
<1>2. \A j \in 1 .. k : buf[j] \in Unit /\ Text[j] = buf[j] /\ j \in DOMAIN Text
  <2>1. \A j \in 1 .. k : j \in 1 .. Len(buf) /\ j \in 1 .. Len(Text)
    BY <1>1, TextType
  <2> QED
    BY <2>1, TextType, ElementOfSeq DEF TypeInv
<1>3. buf[1] = <<i, 1>> /\ i \in 1 .. call
  <2>1. Text[1][2] = 1 /\ 1 \in 1 .. k
    BY <1>1, TextType DEF TextInv
  <2> QED
    BY <1>2, <2>1 DEF TextInv, Unit
<1>4. ASSUME NEW j \in Nat, j \in T PROVE j + 1 \in T
  <2> SUFFICES ASSUME j + 1 \in 1 .. k, j # 0 PROVE buf[j + 1] = <<i, j + 1>>
    BY <1>3
  <2>1. buf[j] = <<i, j>>
    BY <1>1, <1>4
  <2>2. ~IsNewline(buf[j])
    <3>1. j \in DOMAIN buf /\ ~(k <= j)
      BY <1>1, TextType
    <3> QED
      BY <3>1 DEF Newlines
  <2>3. Follows(buf[j], buf[j + 1])
    <3>1. j \in 1 .. k /\ j + 1 \in 1 .. k /\ j \in 1 .. Len(Text) - 1
      BY <1>1, TextType
    <3> QED
      BY <1>2, <3>1 DEF TextInv
  <2> QED
    BY <2>1, <2>2, <2>3 DEF Follows
<1>5. \A j \in 1 .. k : buf[j] = <<i, j>>
  <2>1. 0 \in T
    OBVIOUS
  <2>2. Nat \subseteq T
    <3> HIDE DEF T
    <3> QED
      BY <1>4, <2>1, Induction
  <2> QED
    BY <2>2
<1> HIDE DEF T
<1>6. k = plan[i]
  <2>1. buf[k] = <<i, k>>
    BY <1>1, <1>5
  <2> HIDE DEF i
  <2> QED
    BY <1>1, <2>1 DEF IsNewline
<1>7. SubSeq(buf, 1, k) = [j \in 1 .. k |-> buf[j]]
  BY <1>1
<1> HIDE DEF i
<1>8. SubSeq(buf, 1, k) = Line(i, k)
  BY <1>5, <1>7 DEF Line
<1> QED
  BY <1>3, <1>6, <1>8

LEMMA TextInit == Init => TextInv
<1> SUFFICES ASSUME Init PROVE TextInv
  OBVIOUS
<1>1. Text = <<>> /\ col = 0
  BY DEF Init, Text
<1>2. Len(Text) = 0 /\ DOMAIN Text = {}
  BY <1>1
<1>3. 1 .. Len(Text) - 1 = {}
  BY <1>2
<1> QED
  BY <1>1, <1>2, <1>3 DEF TextInv

(* Where the text and what is known of its end stays as it is.             *)
LEMMA TextFrame ==
  ASSUME TextInv, Text' = Text, UNCHANGED <<plan, call, col>>,
         reader' = "scan" => reader = "scan",
         reader' = "scan" /\ process' = "runs" =>
           process = "runs" \/ (Text = <<>> /\ col = 0)
  PROVE  TextInv'
BY DEF TextInv, Follows, IsNewline

LEMMA TextStep == TypeInv /\ StageInv /\ TextInv /\ [Next]_vars => TextInv'
<1> SUFFICES ASSUME TypeInv, StageInv, TextInv, [Next]_vars PROVE TextInv'
  OBVIOUS
<1> USE DEF writer, stream
<1>1. CASE Start \/ StartFailed \/ Return \/ Exit
  <2>1. Text' = Text /\ UNCHANGED <<plan, call, col, reader>>
    BY <1>1 DEF Start, StartFailed, Return, Exit, Text
  <2>2. process' = "runs" => process = "runs" \/ (Text = <<>> /\ col = 0)
    <3>1. process = "new" => Text = <<>> /\ col = 0
      BY DEF StageInv, Text
    <3> QED
      BY <1>1, <3>1 DEF Start, StartFailed, Return, Exit
  <2> QED
    BY <2>1, <2>2, TextFrame
<1>2. CASE TooLong \/ Eof
  BY <1>2 DEF TooLong, Eof, TextInv
<1>3. CASE Read
  <2>1. PICK n \in 1 .. Len(pipe) :
          buf' = buf \o SubSeq(pipe, 1, n) /\ pipe' = SubSeq(pipe, n + 1, Len(pipe))
    BY <1>3 DEF Read
  <2>2. /\ SubSeq(pipe, 1, n) \in Seq(Unit) /\ pipe' \in Seq(Unit) /\ buf \in Seq(Unit)
        /\ SubSeq(pipe, 1, n) \o pipe' = pipe
    BY <2>1, Cut DEF TypeInv
  <2>3. Text' = Text
    <3>1. (buf \o SubSeq(pipe, 1, n)) \o pipe' = buf \o (SubSeq(pipe, 1, n) \o pipe')
      BY <2>2, ConcatAssociative
    <3> QED
      BY <2>1, <2>2, <3>1 DEF Text
  <2> QED
    BY <1>3, <2>3, TextFrame DEF Read
<1>4. CASE Send
  <2> SUFFICES ASSUME reader = "scan" PROVE TextInv'
    BY <1>4 DEF Send, TextInv
  <2>1. /\ Text' = Text /\ UNCHANGED plan /\ call' = call + 1 /\ col' = 0 /\ call \in Nat
        /\ process = "runs" /\ (call = 0 \/ col = plan[call])
    BY <1>4, Bounds DEF Send, Text, StageInv, TypeInv
  <2>2. Text # <<>> => IsNewline(Text[Len(Text)])
    <3> SUFFICES ASSUME Text # <<>>, col # 0 PROVE IsNewline(Text[Len(Text)])
      BY <2>1 DEF TextInv
    <3>1. Text[Len(Text)] = <<call, col>> /\ col = plan[call]
      BY <2>1 DEF TextInv, StageInv
    <3> QED
      BY <3>1 DEF IsNewline
  <2>3. \A i \in 1 .. call : i \in 1 .. call'
    BY <2>1
  <2> QED
    BY <2>1, <2>2, <2>3 DEF TextInv, Follows, IsNewline
<1>5. CASE Write
  <2> SUFFICES ASSUME reader = "scan" PROVE TextInv'
    BY <1>5 DEF Write, TextInv
  <2> DEFINE u == <<call, col + 1>>
             n == Len(Text)
  <2>1. /\ UNCHANGED <<plan, call, process, reader, buf>> /\ col' = col + 1 /\ process = "runs"
        /\ pipe' = Append(pipe, u) /\ col \in Nat
        /\ call \in 1 .. call /\ plan[call] \in Nat /\ col + 1 \in 1 .. plan[call] /\ col # plan[call]
    BY <1>5, Bounds DEF Write, StageInv, TypeInv
  <2>2. Text' = Append(Text, u) /\ u \in Unit
    <3>1. u \in Unit
      BY <2>1 DEF Unit
    <3> HIDE DEF u
    <3>2. pipe' = pipe \o <<u>> /\ Append(Text, u) = Text \o <<u>>
      BY <2>1, <3>1, TextType, AppendIsConcat DEF TypeInv
    <3>3. <<u>> \in Seq(Unit)
      BY <3>1
    <3>4. buf \o (pipe \o <<u>>) = (buf \o pipe) \o <<u>>
      BY <3>3, ConcatAssociative DEF TypeInv
    <3> QED
      BY <2>1, <3>1, <3>2, <3>4 DEF Text
  <2>3. /\ Len(Text') = n + 1 /\ Text'[n + 1] = u /\ Text' # <<>>
        /\ \A j \in 1 .. n : Text'[j] = Text[j]
        /\ n \in Nat /\ DOMAIN Text = 1 .. n /\ DOMAIN Text' = 1 .. n + 1
        /\ (Text = <<>> <=> n = 0)
    BY <2>2, TextType, AppendProperties, LenProperties
  <2> HIDE DEF n
  <2>4. u[1] \in 1 .. call /\ u[2] \in 1 .. plan[u[1]]
    BY <2>1
  <2>5. n = 0 => u[2] = 1
    BY <2>1, <2>3 DEF TextInv
  <2>6. n # 0 => Follows(Text[n], u)
    <3>1. CASE col = 0
      BY <2>1, <2>3, <3>1 DEF TextInv, Follows, n
    <3>2. CASE col # 0
      <4>1. n # 0 => Text[n] = <<call, col>>
        BY <2>1, <2>3, <3>2 DEF TextInv, n
      <4>2. ~IsNewline(<<call, col>>)
        BY <2>1 DEF IsNewline
      <4> QED
        BY <4>1, <4>2 DEF Follows
    <3> QED
      BY <3>1, <3>2
  <2>7. ASSUME NEW j \in 1 .. n + 1
        PROVE  Text'[j][1] \in 1 .. call' /\ Text'[j][2] \in 1 .. plan'[Text'[j][1]]
    <3>1. CASE j \in 1 .. n
      BY <2>1, <2>3, <3>1 DEF TextInv
    <3>2. CASE j = n + 1
      BY <2>1, <2>3, <2>4, <3>2
    <3> QED
      BY <2>3, <3>1, <3>2
  <2>8. ASSUME NEW j \in 1 .. (n + 1) - 1 PROVE Follows(Text'[j], Text'[j + 1])
    <3>1. CASE j \in 1 .. n - 1
      <4>1. j \in 1 .. n /\ j + 1 \in 1 .. n
        BY <2>3, <3>1
      <4> QED
        BY <2>3, <3>1, <4>1 DEF TextInv, n
    <3>2. CASE j = n
      BY <2>3, <2>6, <3>2
    <3> QED
      BY <2>3, <3>1, <3>2
  <2>9. Text'[1][2] = 1
    <3>1. CASE n = 0
      BY <2>3, <2>5, <3>1
    <3>2. CASE n # 0
      <4>1. 1 \in 1 .. n
        BY <2>3, <3>2
      <4> QED
        BY <2>3, <3>2, <4>1 DEF TextInv
    <3> QED
      BY <3>1, <3>2
  <2>10. col' # 0 /\ Text'[Len(Text')] = <<call', col'>>
    BY <2>1, <2>3
  <2>11. \A p, q : Follows(p, q) => Follows(p, q)'
    BY <2>1 DEF Follows, IsNewline
  <2> QED
    BY <2>3, <2>7, <2>8, <2>9, <2>10, <2>11 DEF TextInv
<1>6. CASE Token
  <2> DEFINE n == Len(Text)
  <2>1. PICK k \in Newlines : buf' = SubSeq(buf, k + 1, Len(buf))
    BY <1>6 DEF Token, FirstLine
  <2>2. reader = "scan" /\ UNCHANGED <<plan, call, col, process, pipe, reader>>
    BY <1>6 DEF Token
  <2>3. k \in 1 .. Len(buf) /\ k \in 1 .. n /\ n \in Nat /\ IsNewline(Text[k])
    BY TextType DEF Newlines
  <2>4. PICK line \in Seq(Unit) : Len(line) = k /\ Text = line \o Text' /\ Text' \in Seq(Unit)
    <3> DEFINE line == SubSeq(buf, 1, k)
    <3>1. k \in 0 .. Len(buf) /\ k - 1 + 1 = k
      BY <2>3, TextType
    <3>2. line \in Seq(Unit) /\ buf' \in Seq(Unit) /\ buf = line \o buf'
      BY <2>1, <3>1, Cut DEF TypeInv
    <3>3. Len(line) = k
      <4>1. \A j \in 1 .. k : buf[j] \in Unit
        BY <2>3, TextType, ElementOfSeq DEF TypeInv
      <4> QED
        BY <2>3, <4>1, SubSeqProperties
    <3> HIDE DEF line
    <3>4. pipe \in Seq(Unit)
      BY DEF TypeInv
    <3>5. (line \o buf') \o pipe = line \o (buf' \o pipe)
      BY <3>2, <3>4, ConcatAssociative
    <3>6. buf' \o pipe \in Seq(Unit)
      BY <3>2, <3>4, ConcatProperties
    <3> QED
      BY <2>2, <3>2, <3>3, <3>5, <3>6 DEF Text
  <2>5. PICK m \in Nat :
          /\ m = n - k /\ Len(Text') = m /\ DOMAIN Text' = 1 .. m /\ (Text' = <<>> <=> m = 0)
          /\ \A j \in 1 .. m : Text'[j] = Text[j + k] /\ j + k \in 1 .. n
    <3>1. /\ Len(Text') = n - k /\ Len(Text') \in Nat /\ DOMAIN Text' = 1 .. Len(Text')
          /\ Text' = <<>> <=> Len(Text') = 0
          /\ \A j \in 1 .. Len(Text') : Text'[j] = Text[j + k] /\ j + k \in 1 .. n
      BY <2>4, Remains
    <3> QED
      BY <3>1
  <2> HIDE DEF n
  <2>6. /\ n = m + k /\ k \in Nat /\ k # 0 /\ n # 0
        /\ \A j \in 1 .. m - 1 : j \in 1 .. m /\ j + 1 \in 1 .. m /\ j + k \in 1 .. n - 1
                                  /\ (j + 1) + k = (j + k) + 1
    BY <2>3, <2>5
  <2>7. ASSUME NEW j \in 1 .. m
        PROVE  Text'[j][1] \in 1 .. call' /\ Text'[j][2] \in 1 .. plan'[Text'[j][1]]
    <3>1. j + k \in DOMAIN Text /\ Text'[j] = Text[j + k]
      BY <2>5, TextType DEF n
    <3> QED
      BY <2>2, <3>1 DEF TextInv
  <2>8. ASSUME NEW j \in 1 .. m - 1 PROVE Follows(Text'[j], Text'[j + 1])
    <3>1. Text'[j] = Text[j + k] /\ Text'[j + 1] = Text[(j + k) + 1] /\ j + k \in 1 .. n - 1
      BY <2>5, <2>6
    <3> QED
      BY <2>2, <3>1 DEF TextInv, n
  <2>9. m # 0 => Text'[1][2] = 1
    <3> SUFFICES ASSUME m # 0 PROVE Text'[1][2] = 1
      OBVIOUS
    <3>1. 1 \in 1 .. m /\ 1 + k = k + 1 /\ k \in 1 .. n - 1
      BY <2>6
    <3>2. Text'[1] = Text[k + 1] /\ Follows(Text[k], Text[k + 1])
      BY <2>2, <2>5, <3>1 DEF TextInv, n
    <3> QED
      BY <2>3, <3>2 DEF Follows
  <2>10. ASSUME process' = "runs"
         PROVE  IF m = 0 THEN col = 0 \/ col = plan[call]
                ELSE IF col = 0 THEN IsNewline(Text'[m]) ELSE Text'[m] = <<call, col>>
    <3>1. IF col = 0 THEN IsNewline(Text[n]) ELSE Text[n] = <<call, col>>
      BY <2>2, <2>6, <2>10, TextType DEF TextInv, n
    <3>2. CASE m = 0
      <4>1. n = k
        BY <2>6, <3>2
      <4> QED
        BY <2>3, <3>1, <3>2, <4>1 DEF IsNewline
    <3>3. CASE m # 0
      <4>1. m \in 1 .. m /\ m + k = n
        BY <2>6, <3>3
      <4> QED
        BY <2>5, <3>1, <3>3, <4>1
    <3> QED
      BY <3>2, <3>3
  <2>11. \A p, q : Follows(p, q) => Follows(p, q)'
    BY <2>2 DEF Follows, IsNewline
  <2>12. \A p : IsNewline(p) => IsNewline(p)'
    BY <2>2 DEF IsNewline
  <2> QED
    BY <2>2, <2>5, <2>7, <2>8, <2>9, <2>10, <2>11, <2>12 DEF TextInv
<1>7. CASE UNCHANGED vars
  BY <1>7 DEF vars, TextInv, Text, Follows, IsNewline
<1> QED
  BY <1>1, <1>2, <1>3, <1>4, <1>5, <1>6, <1>7 DEF Next, Scan, Over

-----------------------------------------------------------------------------
(* What was written: whole lines, and col units of the last one.           *)
Whole(n) == [i \in 1 .. n |-> Line(i, plan[i])]

LEMMA IsSequence ==
  ASSUME NEW S, NEW n \in Nat, NEW f \in [1 .. n -> S]
  PROVE  f \in Seq(S) /\ Len(f) = n
OBVIOUS

LEMMA LineType ==
  ASSUME NEW i \in Nat, NEW n \in Nat
  PROVE  Line(i, n) \in Seq(Unit) /\ Len(Line(i, n)) = n
<1>1. Line(i, n) \in [1 .. n -> Unit]
  BY DEF Line, Unit
<1> QED
  BY <1>1, IsSequence

LEMMA LineGrows ==
  ASSUME NEW i \in Nat, NEW n \in Nat
  PROVE  Line(i, n + 1) = Line(i, n) \o <<<<i, n + 1>>>>
<1> DEFINE l == Line(i, n)
           u == <<i, n + 1>>
           more == Append(l, u)
<1>1. l \in Seq(Unit) /\ Len(l) = n
  BY LineType
<1>2. u \in Unit
  BY DEF Unit
<1>3. Line(i, n + 1) \in Seq(Unit) /\ Len(Line(i, n + 1)) = n + 1
  BY LineType
<1>4. \A j \in 1 .. n : l[j] = <<i, j>>
  BY DEF Line
<1>5. \A j \in 1 .. n + 1 : Line(i, n + 1)[j] = <<i, j>>
  BY DEF Line
<1> HIDE DEF l, u
<1>6. /\ more \in Seq(Unit) /\ Len(more) = n + 1 /\ more[n + 1] = u
      /\ \A j \in 1 .. n : more[j] = l[j]
  BY <1>1, <1>2, AppendProperties
<1>7. more = l \o <<u>>
  BY <1>1, <1>2, AppendIsConcat
<1> HIDE DEF more
<1>8. ASSUME NEW j \in 1 .. n + 1 PROVE more[j] = Line(i, n + 1)[j]
  <2>1. CASE j \in 1 .. n
    BY <1>4, <1>5, <1>6, <2>1
  <2>2. CASE j = n + 1
    BY <1>5, <1>6, <2>2 DEF u
  <2> QED
    BY <2>1, <2>2
<1>9. more = Line(i, n + 1)
  BY <1>3, <1>6, <1>8, SeqEqual
<1> QED
  BY <1>7, <1>9 DEF l, u

LEMMA WholeType ==
  ASSUME TypeInv, NEW n \in 0 .. MaxCalls
  PROVE  Whole(n) \in Seq(Seq(Unit)) /\ Len(Whole(n)) = n
<1>1. n \in Nat /\ \A i \in 1 .. n : plan[i] \in Nat /\ i \in Nat
  BY Bounds DEF TypeInv
<1>2. ASSUME NEW i \in 1 .. n PROVE Line(i, plan[i]) \in Seq(Unit)
  BY <1>1, LineType
<1>3. Whole(n) \in [1 .. n -> Seq(Unit)]
  BY <1>2 DEF Whole
<1> QED
  BY <1>1, <1>3, IsSequence

LEMMA WrittenSplit ==
  ASSUME TypeInv, NEW n \in Nat, n + 1 \in 1 .. MaxCalls, NEW c \in Nat
  PROVE  /\ Line(n + 1, c) \in Seq(Unit) /\ FlattenSeq(Whole(n)) \in Seq(Unit)
         /\ FlattenSeq([i \in 1 .. n + 1 |-> Line(i, IF i = n + 1 THEN c ELSE plan[i])])
              = FlattenSeq(Whole(n)) \o Line(n + 1, c)
<1> DEFINE all == [i \in 1 .. n + 1 |-> Line(i, IF i = n + 1 THEN c ELSE plan[i])]
<1>1. n \in 0 .. MaxCalls
  BY Bounds
<1>2. Line(n + 1, c) \in Seq(Unit)
  BY LineType
<1>3. Whole(n) \in Seq(Seq(Unit)) /\ Len(Whole(n)) = n
  BY <1>1, WholeType
<1>4. all = Append(Whole(n), Line(n + 1, c))
  <2> DEFINE more == Append(Whole(n), Line(n + 1, c))
  <2>1. all \in Seq(Seq(Unit)) /\ Len(all) = n + 1
    <3>1. ASSUME NEW i \in 1 .. n + 1 PROVE all[i] \in Seq(Unit)
      <4>1. i # n + 1 => plan[i] \in Nat
        BY <1>1, Bounds DEF TypeInv
      <4> QED
        BY <4>1, LineType
    <3>2. all \in [1 .. n + 1 -> Seq(Unit)]
      BY <3>1
    <3> HIDE DEF all
    <3> QED
      BY <3>2, IsSequence
  <2>2. /\ more \in Seq(Seq(Unit)) /\ Len(more) = n + 1 /\ more[n + 1] = Line(n + 1, c)
        /\ \A i \in 1 .. n : more[i] = Whole(n)[i]
    BY <1>2, <1>3, AppendProperties
  <2>3. ASSUME NEW i \in 1 .. n + 1 PROVE all[i] = more[i]
    BY <2>2 DEF Whole
  <2> HIDE DEF all, more
  <2>4. all = more
    BY <2>1, <2>2, <2>3, SeqEqual
  <2> QED
    BY <2>4 DEF more
<1> HIDE DEF all
<1> QED
  BY <1>2, <1>3, <1>4, FlattenType, FlattenAppend DEF all

LEMMA WrittenWrite ==
  ASSUME TypeInv, StageInv, Write
  PROVE  Written' = Append(Written, <<call, col + 1>>) /\ Written \in Seq(Unit)
<1>1. PICK n \in Nat : n + 1 = call /\ n + 1 \in 1 .. MaxCalls
  <2>1. call \in Nat /\ call # 0 /\ call \in 1 .. MaxCalls
    BY Bounds DEF TypeInv, StageInv, Write
  <2>2. call - 1 \in Nat /\ (call - 1) + 1 = call
    BY <2>1
  <2> QED
    BY <2>1, <2>2
<1>2. UNCHANGED <<plan, call>> /\ col' = col + 1 /\ col \in Nat
  BY DEF Write, TypeInv
<1>3. Written = FlattenSeq(Whole(n)) \o Line(n + 1, col)
  BY <1>1, <1>2, WrittenSplit DEF Written
<1>4. Written' = FlattenSeq(Whole(n)) \o Line(n + 1, col + 1)
  <2>1. Written' = FlattenSeq([i \in 1 .. n + 1 |-> Line(i, IF i = n + 1 THEN col + 1 ELSE plan[i])])
    BY <1>1, <1>2 DEF Written, Line
  <2>2. col + 1 \in Nat
    BY <1>2
  <2> QED
    BY <1>1, <2>1, <2>2, WrittenSplit
<1>5. Line(n + 1, col + 1) = Line(n + 1, col) \o <<<<call, col + 1>>>>
  <2>1. n + 1 \in Nat
    OBVIOUS
  <2> QED
    BY <1>1, <1>2, <2>1, LineGrows
<1>6. PICK p \in Seq(Unit), l \in Seq(Unit) :
        /\ Written = p \o l
        /\ Written' = p \o (l \o <<<<call, col + 1>>>>)
  <2>1. FlattenSeq(Whole(n)) \in Seq(Unit) /\ Line(n + 1, col) \in Seq(Unit)
    BY <1>1, <1>2, WrittenSplit
  <2> QED
    BY <1>3, <1>4, <1>5, <2>1
<1>7. <<call, col + 1>> \in Unit
  BY <1>1, <1>2 DEF Unit
<1>8. Written' = Append(Written, <<call, col + 1>>) /\ Written \in Seq(Unit)
  <2> DEFINE u == <<call, col + 1>>
  <2>1. u \in Unit /\ <<u>> \in Seq(Unit)
    BY <1>7
  <2> HIDE DEF u
  <2>2. (p \o l) \o <<u>> = p \o (l \o <<u>>)
    BY <2>1, ConcatAssociative
  <2>3. p \o l \in Seq(Unit)
    BY ConcatProperties
  <2>4. Append(p \o l, u) = (p \o l) \o <<u>>
    BY <2>1, <2>3, AppendIsConcat
  <2> QED
    BY <1>6, <2>2, <2>3, <2>4 DEF u
<1> QED
  BY <1>8

LEMMA WrittenSend ==
  ASSUME TypeInv, StageInv, Send
  PROVE  Written' = Written
<1>1. /\ call \in Nat /\ call \in 0 .. MaxCalls /\ call' = call + 1 /\ call + 1 \in 1 .. MaxCalls
      /\ col' = 0 /\ UNCHANGED plan /\ (call = 0 \/ col = plan[call])
  BY Bounds DEF TypeInv, StageInv, Send
<1>2. Written' = FlattenSeq(Whole(call)) \o Line(call + 1, 0) /\ FlattenSeq(Whole(call)) \in Seq(Unit)
  <2>1. Written' = FlattenSeq([i \in 1 .. call + 1 |-> Line(i, IF i = call + 1 THEN 0 ELSE plan[i])])
    BY <1>1 DEF Written, Line
  <2> QED
    BY <1>1, <2>1, WrittenSplit
<1>3. Line(call + 1, 0) = <<>>
  BY <1>1, LineType, EmptySeq
<1>4. Written = FlattenSeq(Whole(call))
  BY <1>1 DEF Written, Whole
<1> QED
  BY <1>2, <1>3, <1>4, ConcatEmptySeq

-----------------------------------------------------------------------------
(* The two parts of LinesInOrder.                                          *)
LogInv == FlattenSeq(logged) \o buf \o pipe = Written

LineInv ==
  \A k \in DOMAIN logged :
    \/ \E i \in 1 .. call : logged[k] = Line(i, plan[i])
    \/ k = Len(logged) /\ process = "ended" /\ reader = "stopped"

LEMMA LogFrame ==
  ASSUME LogInv, LineInv, UNCHANGED <<plan, logged, buf, pipe>>, Written' = Written,
         call' \in Nat, call \in Nat, call <= call', process = "ended" => process' = "ended",
         reader = "stopped" => reader' = "stopped"
  PROVE  LogInv' /\ LineInv'
<1>1. \A i \in 1 .. call : i \in 1 .. call'
  OBVIOUS
<1> QED
  BY <1>1 DEF LogInv, LineInv, Line

(* Concatenation under a name that the provers leave as it is, and its laws. *)
Cat(s, t) == s \o t

LEMMA CatType ==
  ASSUME NEW S, NEW s \in Seq(S), NEW t \in Seq(S)
  PROVE  Cat(s, t) \in Seq(S)
BY ConcatProperties DEF Cat

LEMMA CatAssociative ==
  ASSUME NEW S, NEW s \in Seq(S), NEW t \in Seq(S), NEW u \in Seq(S)
  PROVE  Cat(Cat(s, t), u) = Cat(s, Cat(t, u))
<1>1. (s \o t) \o u = s \o (t \o u)
  BY ConcatAssociative
<1> QED
  BY <1>1, Zenon DEF Cat

LEMMA CatEmpty ==
  ASSUME NEW S, NEW s \in Seq(S)
  PROVE  Cat(s, <<>>) = s
BY ConcatEmptySeq DEF Cat

LEMMA CatAppend ==
  ASSUME NEW S, NEW s \in Seq(S), NEW x \in S
  PROVE  Append(s, x) = Cat(s, <<x>>) /\ <<x>> \in Seq(S)
<1>1. Append(s, x) = s \o <<x>>
  BY AppendIsConcat
<1> QED
  BY <1>1 DEF Cat

LEMMA LogCat ==
  /\ LogInv => Cat(Cat(FlattenSeq(logged), buf), pipe) = Written
  /\ Cat(Cat(FlattenSeq(logged'), buf'), pipe') = Written' => LogInv'
BY Zenon DEF LogInv, Cat

LEMMA LogStep ==
  TypeInv /\ StageInv /\ TextInv /\ LogInv /\ LineInv /\ [Next]_vars => LogInv' /\ LineInv'
<1> SUFFICES ASSUME TypeInv, StageInv, TextInv, LogInv, LineInv, [Next]_vars
             PROVE  LogInv' /\ LineInv'
  OBVIOUS
<1> USE DEF writer, stream
<1> DEFINE past == FlattenSeq(logged)
<1>0. /\ past \in Seq(Unit) /\ buf \in Seq(Unit) /\ pipe \in Seq(Unit) /\ logged \in Seq(Seq(Unit))
      /\ call \in Nat
  BY FlattenType, Bounds DEF TypeInv
<1>1. CASE Start \/ StartFailed \/ Return \/ Exit \/ TooLong \/ UNCHANGED vars
  <2>1. UNCHANGED <<plan, call, col, logged, buf, pipe>>
    BY <1>1 DEF Start, StartFailed, Return, Exit, TooLong, vars
  <2>2. Written' = Written
    BY <2>1 DEF Written, Line
  <2>3. /\ process = "ended" => process' = "ended"
        /\ reader = "stopped" => reader' = "stopped"
    BY <1>1 DEF Start, StartFailed, Return, Exit, TooLong, vars
  <2> QED
    BY <1>0, <2>1, <2>2, <2>3, LogFrame
<1>2. CASE Send
  BY <1>0, <1>2, WrittenSend, LogFrame DEF Send
<1>3. CASE Write
  <2> DEFINE u == <<call, col + 1>>
  <2>1. Written' = Append(Written, u) /\ Written \in Seq(Unit) /\ UNCHANGED <<plan, call, logged, buf, process, reader>>
    BY <1>3, WrittenWrite DEF Write
  <2>2. pipe' = Append(pipe, u) /\ u \in Unit
    BY <1>0, <1>3 DEF Write, TypeInv, Unit
  <2> HIDE DEF u, past
  <2>3. pipe' = Cat(pipe, <<u>>) /\ Written' = Cat(Written, <<u>>) /\ <<u>> \in Seq(Unit)
    BY <1>0, <2>1, <2>2, CatAppend
  <2>4. Cat(Cat(past, buf), Cat(pipe, <<u>>)) = Cat(Cat(Cat(past, buf), pipe), <<u>>)
    <3>1. PICK front \in Seq(Unit) : front = Cat(past, buf)
      BY <1>0, CatType
    <3>2. PICK last \in Seq(Unit) : last = <<u>>
      BY <2>3
    <3>3. Cat(Cat(front, pipe), last) = Cat(front, Cat(pipe, last))
      BY <1>0, CatAssociative
    <3> QED
      BY <3>1, <3>2, <3>3
  <2>5. LogInv'
    BY <2>1, <2>3, <2>4, LogCat DEF past
  <2>6. LineInv'
    BY <2>1 DEF LineInv, Line
  <2> QED
    BY <2>5, <2>6
<1>4. CASE Read
  <2>1. PICK n \in 1 .. Len(pipe) :
          buf' = buf \o SubSeq(pipe, 1, n) /\ pipe' = SubSeq(pipe, n + 1, Len(pipe))
    BY <1>4 DEF Read
  <2>2. UNCHANGED <<plan, call, col, logged, process, reader>>
    BY <1>4 DEF Read
  <2>3. PICK p \in Seq(Unit), rest \in Seq(Unit) :
          buf' = buf \o p /\ pipe = p \o rest /\ pipe' = rest
    <3>1. n \in 0 .. Len(pipe)
      OBVIOUS
    <3> QED
      BY <1>0, <2>1, <3>1, Cut
  <2> HIDE DEF past
  <2>4. buf' = Cat(buf, p) /\ pipe = Cat(p, rest)
    BY <2>3, Zenon DEF Cat
  <2>5. Cat(Cat(past, Cat(buf, p)), rest) = Cat(Cat(past, buf), Cat(p, rest))
    BY <1>0, CatType, CatAssociative
  <2>6. LogInv'
    <3>1. Written' = Written
      BY <2>2 DEF Written, Line
    <3> QED
      BY <2>2, <2>3, <2>4, <2>5, <3>1, LogCat DEF past
  <2>7. LineInv'
    BY <2>2 DEF LineInv, Line
  <2> QED
    BY <2>6, <2>7
<1>5. CASE Token
  <2>1. PICK k \in Newlines :
          /\ \A l \in Newlines : k <= l
          /\ logged' = Append(logged, SubSeq(buf, 1, k)) /\ buf' = SubSeq(buf, k + 1, Len(buf))
    BY <1>5 DEF Token, FirstLine
  <2>2. reader = "scan" /\ UNCHANGED <<plan, call, col, pipe, process, reader>>
    BY <1>5 DEF Token
  <2>3. PICK line : line = SubSeq(buf, 1, k)
    OBVIOUS
  <2>4. PICK i \in 1 .. call : line = Line(i, plan[i])
    BY <2>1, <2>2, <2>3, FirstIsLine
  <2>5. line \in Seq(Unit) /\ buf' \in Seq(Unit) /\ buf = line \o buf'
    <3>1. k \in 0 .. Len(buf)
      BY TextType DEF Newlines
    <3> QED
      BY <1>0, <2>1, <2>3, <3>1, Cut
  <2>6. logged' = Append(logged, line)
    BY <2>1, <2>3
  <2>7. FlattenSeq(logged') = past \o line
    BY <1>0, <2>5, <2>6, FlattenAppend
  <2>8. /\ DOMAIN logged' = 1 .. Len(logged) + 1 /\ DOMAIN logged = 1 .. Len(logged)
        /\ Len(logged) \in Nat /\ logged'[Len(logged) + 1] = line
        /\ \A j \in 1 .. Len(logged) : logged'[j] = logged[j]
    BY <1>0, <2>5, <2>6, AppendProperties, LenProperties
  <2> HIDE DEF past
  <2>9. FlattenSeq(logged') = Cat(past, line) /\ buf = Cat(line, buf')
    BY <2>5, <2>7, Zenon DEF Cat
  <2>10. Cat(Cat(past, line), buf') = Cat(past, Cat(line, buf'))
    BY <1>0, <2>5, CatAssociative
  <2>11. LogInv'
    <3>1. Written' = Written
      BY <2>2 DEF Written, Line
    <3> QED
      BY <2>2, <2>9, <2>10, <3>1, LogCat DEF past
  <2>12. LineInv'
    <3> SUFFICES ASSUME NEW j \in 1 .. Len(logged) + 1
                 PROVE  \E h \in 1 .. call' : logged'[j] = Line(h, plan'[h])
      BY <2>8 DEF LineInv, Line
    <3>1. CASE j = Len(logged) + 1
      BY <2>2, <2>4, <2>8, <3>1
    <3>2. CASE j \in 1 .. Len(logged)
      BY <2>2, <2>8, <3>2 DEF LineInv
    <3> QED
      BY <2>8, <3>1, <3>2
  <2> QED
    BY <2>11, <2>12
<1>6. CASE Eof
  <2>1. /\ reader = "scan" /\ buf' = <<>> /\ UNCHANGED <<plan, call, col, pipe, process>>
        /\ logged' = IF buf = <<>> THEN logged ELSE Append(logged, buf)
        /\ reader' = "stopped" /\ AtEnd
    BY <1>6 DEF Eof, CanRead
  <2>2. Written' = Written
    BY <2>1 DEF Written, Line
  <2>3. \A k \in DOMAIN logged : \E i \in 1 .. call' : logged[k] = Line(i, plan[i])'
    BY <2>1 DEF LineInv, Line
  <2>4. CASE buf = <<>>
    <3>1. LogInv'
      BY <2>1, <2>2, <2>4 DEF LogInv
    <3>2. LineInv'
      BY <2>1, <2>3, <2>4 DEF LineInv, Line
    <3> QED
      BY <3>1, <3>2
  <2>5. CASE buf # <<>>
    <3>1. FlattenSeq(logged') = past \o buf
      BY <1>0, <2>1, <2>5, FlattenAppend
    <3>2. /\ DOMAIN logged' = 1 .. Len(logged) + 1 /\ DOMAIN logged = 1 .. Len(logged)
          /\ Len(logged) \in Nat /\ Len(logged') = Len(logged) + 1
          /\ \A j \in 1 .. Len(logged) : logged'[j] = logged[j]
      BY <1>0, <2>1, <2>5, AppendProperties, LenProperties
    <3>3. process = "ended"
      BY <2>1, <2>5 DEF AtEnd, StageInv
    <3> HIDE DEF past
    <3>4. LogInv'
      <4>1. FlattenSeq(logged') = Cat(past, buf)
        BY <3>1, Zenon DEF Cat
      <4>2. Cat(Cat(past, buf), <<>>) = Cat(past, buf)
        BY <1>0, CatType, CatEmpty
      <4> QED
        BY <2>1, <2>2, <4>1, <4>2, LogCat DEF past
    <3>5. LineInv'
      <4> SUFFICES ASSUME NEW k \in 1 .. Len(logged) + 1
                   PROVE  \/ \E i \in 1 .. call' : logged'[k] = Line(i, plan[i])'
                          \/ k = Len(logged') /\ process' = "ended" /\ reader' = "stopped"
        BY <3>2 DEF LineInv
      <4>1. CASE k = Len(logged) + 1
        BY <2>1, <3>2, <3>3, <4>1
      <4>2. CASE k \in 1 .. Len(logged)
        BY <2>3, <3>2, <4>2
      <4> QED
        BY <3>2, <4>1, <4>2
    <3> QED
      BY <3>4, <3>5
  <2> QED
    BY <2>4, <2>5
<1> QED
  BY <1>1, <1>2, <1>3, <1>4, <1>5, <1>6 DEF Next, Scan, Over

LEMMA LogInit == Init => LogInv /\ LineInv
<1> SUFFICES ASSUME Init PROVE LogInv /\ LineInv
  OBVIOUS
<1>1. call = 0 /\ logged = <<>> /\ buf = <<>> /\ pipe = <<>> /\ DOMAIN logged = {}
  BY DEF Init
<1>2. Written = <<>>
  <2>1. [i \in 1 .. call |-> Line(i, IF i = call THEN col ELSE plan[i])] = <<>>
    BY <1>1
  <2> QED
    BY <2>1, FlattenEmpty DEF Written
<1>3. LogInv
  <2>1. <<>> \in Seq(Unit)
    OBVIOUS
  <2> QED
    BY <1>1, <1>2, <2>1, FlattenEmpty, ConcatEmptySeq DEF LogInv
<1>4. LineInv
  BY <1>1 DEF LineInv
<1> QED
  BY <1>3, <1>4

-----------------------------------------------------------------------------
(* StdErrCallback passes on what the container writes, in order and line   *)
(* by line, whatever the pipe holds, however Read cuts the text, and       *)
(* however long the lines are.                                             *)
THEOREM LogIsWritten == Spec => []LinesInOrder
<1> DEFINE Inv == TypeInv /\ StageInv /\ TextInv /\ LogInv /\ LineInv
<1>1. Init => Inv
  BY TypeInit, StageInit, TextInit, LogInit
<1>2. Inv /\ [Next]_vars => Inv'
  BY TypeStep, StageStep, TextStep, LogStep
<1>3. Inv => LinesInOrder
  BY DEF LogInv, LineInv, LinesInOrder
<1> QED
  BY <1>1, <1>2, <1>3, PTL DEF Spec
================================================================================
