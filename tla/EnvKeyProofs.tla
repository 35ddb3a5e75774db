------------------------------ MODULE EnvKeyProofs ------------------------------
(***************************************************************************)
(* What TLAPS proves of EnvKey: a key can be read back, and an environment *)
(* has one.  Facts about sequences come first, FlattenSeq's as in          *)
(* StdErrProofs, and then the reader, the list and the order.              *)
(***************************************************************************)
EXTENDS EnvKey, SequenceTheorems, FiniteSetTheorems, FunctionTheorems, TLAPS

LEMMA Least ==
  ASSUME NEW T \in SUBSET Nat, T # {}
  PROVE  \E x \in T : \A y \in T : x <= y
<1> DEFINE Less == OpToRel(<, Nat)
<1>1. PICK x \in T : \A y \in T : <<y, x>> \notin Less
  BY NatLessThanWellFounded, WFMin
<1>2. ASSUME NEW y \in T, y < x PROVE <<y, x>> \in Less
  BY <1>2 DEF OpToRel
<1> HIDE DEF Less
<1>3. \A y \in T : ~ (y < x)
  BY <1>1, <1>2
<1> QED
  BY <1>3

(* What holds of 0 and goes from n to n + 1 holds of all numbers: the      *)
(* least exception has a predecessor.                                      *)
LEMMA Induction ==
  ASSUME NEW T, 0 \in T, \A n \in Nat : n \in T => n + 1 \in T
  PROVE  Nat \subseteq T
<1> DEFINE Rest == Nat \ T
<1> SUFFICES ASSUME Rest # {} PROVE FALSE
  OBVIOUS
<1>1. PICK x \in Rest : \A y \in Rest : x <= y
  <2>1. Rest \in SUBSET Nat
    OBVIOUS
  <2> HIDE DEF Rest
  <2> QED
    BY <2>1, Least
<1>2. x # 0 /\ x - 1 \in Nat /\ ~ (x <= x - 1)
  OBVIOUS
<1>3. x - 1 \in T
  BY <1>1, <1>2
<1> QED
  BY <1>2, <1>3

(* f concatenates the first n of seqs, one after the other.                *)
Link(f, seqs, i) == IF i = 1 THEN seqs[i] ELSE f[i - 1] \o seqs[i]

Recurs(f, seqs, n) == f = [i \in 1 .. n |-> Link(f, seqs, i)]

Flattens(f, seqs, n, S) ==
  f \in [1 .. n -> Seq(S)] /\ \A i \in 1 .. n : f[i] = Link(f, seqs, i)

LEMMA RecursEach ==
  ASSUME NEW f, NEW seqs, NEW n, Recurs(f, seqs, n)
  PROVE  DOMAIN f = 1 .. n /\ \A i \in 1 .. n : f[i] = Link(f, seqs, i)
<1> DEFINE h == [i \in 1 .. n |-> Link(f, seqs, i)]
<1>1. DOMAIN h = 1 .. n /\ \A i \in 1 .. n : h[i] = Link(f, seqs, i)
  OBVIOUS
<1>2. f = h
  BY Zenon DEF Recurs
<1> HIDE DEF h
<1> QED
  BY <1>1, <1>2

LEMMA FlattensRecurs ==
  ASSUME NEW f, NEW seqs, NEW n \in Nat, NEW S, Flattens(f, seqs, n, S)
  PROVE  Recurs(f, seqs, n)
<1> DEFINE h == [i \in 1 .. n |-> Link(f, seqs, i)]
<1>1. DOMAIN h = 1 .. n /\ \A i \in 1 .. n : h[i] = Link(f, seqs, i)
  OBVIOUS
<1>2. h \in [1 .. n -> Seq(S)]
  BY <1>1 DEF Flattens
<1> HIDE DEF h
<1>3. f = h
  <2>1. f \in [1 .. n -> Seq(S)] /\ \A i \in 1 .. n : f[i] = h[i]
    BY <1>1 DEF Flattens
  <2> QED
    BY <1>2, <2>1
<1> QED
  BY <1>3, Zenon DEF h, Recurs

LEMMA RecursFlattens ==
  ASSUME NEW S, NEW seqs \in Seq(Seq(S)), NEW n \in 0 .. Len(seqs), NEW f, Recurs(f, seqs, n)
  PROVE  Flattens(f, seqs, n, S)
<1> DEFINE T == {i \in Nat : i \in 1 .. n => f[i] \in Seq(S)}
<1>1. 0 \in T
  OBVIOUS
<1>2. ASSUME NEW i \in Nat, i \in T PROVE i + 1 \in T
  <2> SUFFICES ASSUME i + 1 \in 1 .. n PROVE f[i + 1] \in Seq(S)
    OBVIOUS
  <2>1. f[i + 1] = Link(f, seqs, i + 1) /\ seqs[i + 1] \in Seq(S)
    BY RecursEach
  <2>2. i # 0 => f[i] \in Seq(S)
    BY <1>2
  <2> QED
    BY <2>1, <2>2 DEF Link
<1>3. Nat \subseteq T
  <2> HIDE DEF T
  <2> QED
    BY <1>1, <1>2, Induction
<1>4. \A i \in 1 .. n : f[i] \in Seq(S)
  BY <1>3
<1>5. f = [i \in 1 .. n |-> f[i]]
  BY RecursEach DEF Recurs
<1> QED
  BY <1>4, <1>5, RecursEach DEF Flattens

LEMMA FlattensExists ==
  ASSUME NEW S, NEW seqs \in Seq(Seq(S)), NEW n \in 0 .. Len(seqs)
  PROVE  \E f : Flattens(f, seqs, n, S)
<1> DEFINE T == {m \in Nat : m <= Len(seqs) => \E f : Flattens(f, seqs, m, S)}
<1>1. 0 \in T
  <2>1. Flattens([i \in 1 .. 0 |-> <<>>], seqs, 0, S)
    BY DEF Flattens
  <2> QED
    BY <2>1
<1>2. ASSUME NEW m \in Nat, m \in T PROVE m + 1 \in T
  <2> SUFFICES ASSUME m + 1 <= Len(seqs) PROVE \E f : Flattens(f, seqs, m + 1, S)
    OBVIOUS
  <2>1. PICK f : Flattens(f, seqs, m, S)
    BY <1>2
  <2> DEFINE g == [i \in 1 .. m + 1 |-> IF i <= m THEN f[i] ELSE Link(f, seqs, i)]
  <2>2. ASSUME NEW i \in 1 .. m + 1 PROVE g[i] = Link(f, seqs, i) /\ g[i] \in Seq(S)
    <3>1. CASE i <= m
      BY <2>1, <3>1 DEF Flattens
    <3>2. CASE i = m + 1
      <4>1. seqs[i] \in Seq(S) /\ (i # 1 => f[i - 1] \in Seq(S))
        <5>1. i \in 1 .. Len(seqs)
          BY <3>2, LenProperties
        <5>2. i # 1 => i - 1 \in 1 .. m
          BY <3>2
        <5> QED
          BY <2>1, <5>1, <5>2, ElementOfSeq DEF Flattens
      <4> QED
        BY <3>2, <4>1, ConcatProperties DEF Link
    <3> QED
      BY <3>1, <3>2
  <2>3. ASSUME NEW i \in 1 .. m + 1 PROVE Link(g, seqs, i) = Link(f, seqs, i)
    BY DEF Link
  <2> QED
    BY <2>2, <2>3 DEF Flattens
<1> HIDE DEF T
<1>3. Nat \subseteq T
  BY <1>1, <1>2, Induction
<1>4. Len(seqs) \in Nat
  BY LenProperties
<1> QED
  BY <1>3, <1>4 DEF T

LEMMA FlattensUnique ==
  ASSUME NEW S, NEW f, NEW g, NEW seqs, NEW n \in Nat,
         Flattens(f, seqs, n, S), Flattens(g, seqs, n, S)
  PROVE  f = g
<1> DEFINE T == {i \in Nat : i \in 1 .. n => f[i] = g[i]}
<1>1. 0 \in T
  OBVIOUS
<1>2. ASSUME NEW i \in Nat, i \in T PROVE i + 1 \in T
  <2> SUFFICES ASSUME i + 1 \in 1 .. n PROVE f[i + 1] = g[i + 1]
    OBVIOUS
  <2>1. f[i + 1] = Link(f, seqs, i + 1) /\ g[i + 1] = Link(g, seqs, i + 1)
    BY DEF Flattens
  <2>2. i # 0 => f[i] = g[i]
    BY <1>2
  <2>3. i + 1 - 1 = i /\ (i + 1 = 1 <=> i = 0)
    OBVIOUS
  <2> QED
    BY <2>1, <2>2, <2>3 DEF Link
<1>3. Nat \subseteq T
  <2> HIDE DEF T
  <2> QED
    BY <1>1, <1>2, Induction
<1>4. \A i \in 1 .. n : f[i] = g[i]
  BY <1>3
<1> QED
  BY <1>4 DEF Flattens

(* FlattenSeq's function is the one that there is.                         *)
LEMMA Flattened ==
  ASSUME NEW S, NEW seqs \in Seq(Seq(S)), seqs # <<>>, NEW f, Flattens(f, seqs, Len(seqs), S)
  PROVE  FlattenSeq(seqs) = f[Len(seqs)]
<1> DEFINE c == CHOOSE g : Recurs(g, seqs, Len(seqs))
<1>1. FlattenSeq(seqs) = c[Len(seqs)]
  <2>1. Len(seqs) # 0
    OBVIOUS
  <2> QED
    BY <2>1, Zenon DEF FlattenSeq, Recurs, Link
<1>2. Recurs(f, seqs, Len(seqs))
  BY FlattensRecurs
<1>3. Recurs(c, seqs, Len(seqs))
  BY <1>2, Zenon
<1>4. c = f
  <2> HIDE DEF c
  <2>1. Flattens(c, seqs, Len(seqs), S)
    BY <1>3, RecursFlattens
  <2> QED
    BY <2>1, FlattensUnique
<1> QED
  BY <1>1, <1>4

LEMMA FlattenEmpty == FlattenSeq(<<>>) = <<>>
BY DEF FlattenSeq

LEMMA FlattenType ==
  ASSUME NEW S, NEW seqs \in Seq(Seq(S))
  PROVE  FlattenSeq(seqs) \in Seq(S)
<1>1. CASE seqs = <<>>
  <2>1. <<>> \in Seq(S)
    OBVIOUS
  <2> QED
    BY <1>1, <2>1, FlattenEmpty, Zenon
<1>2. CASE seqs # <<>>
  <2>1. PICK f : Flattens(f, seqs, Len(seqs), S)
    BY FlattensExists
  <2>2. f[Len(seqs)] \in Seq(S)
    <3>1. Len(seqs) \in 1 .. Len(seqs)
      BY <1>2, EmptySeq, LenProperties
    <3> QED
      BY <2>1, <3>1 DEF Flattens
  <2>3. FlattenSeq(seqs) = f[Len(seqs)]
    BY <1>2, <2>1, Flattened
  <2> QED
    BY <2>2, <2>3
<1> QED
  BY <1>1, <1>2

LEMMA FlattenAppend ==
  ASSUME NEW S, NEW seqs \in Seq(Seq(S)), NEW s \in Seq(S)
  PROVE  FlattenSeq(Append(seqs, s)) = FlattenSeq(seqs) \o s
<1>1. PICK n : n = Len(seqs)
  OBVIOUS
<1>2. PICK more : more = Append(seqs, s)
  OBVIOUS
<1>3. /\ n \in Nat /\ n \in 0 .. n + 1 /\ more \in Seq(Seq(S))
      /\ Len(more) = n + 1 /\ more[n + 1] = s /\ more # <<>>
      /\ \A i \in 1 .. n : more[i] = seqs[i]
  BY <1>1, <1>2, AppendProperties, LenProperties
<1>4. PICK f : Flattens(f, more, n + 1, S)
  BY <1>3, FlattensExists
<1>5. FlattenSeq(more) = f[n + 1]
  BY <1>3, <1>4, Flattened
<1>6. f[n + 1] = IF n = 0 THEN s ELSE f[n] \o s
  <2>1. f[n + 1] = Link(f, more, n + 1)
    BY <1>3, <1>4 DEF Flattens
  <2>2. n + 1 - 1 = n /\ (n + 1 = 1 <=> n = 0)
    BY <1>3
  <2> QED
    BY <1>3, <2>1, <2>2 DEF Link
<1>7. CASE n = 0
  <2>1. seqs = <<>>
    BY <1>1, <1>7, EmptySeq
  <2>2. <<>> \o s = s
    BY ConcatEmptySeq
  <2>3. FlattenSeq(seqs) = <<>>
    BY <2>1, FlattenEmpty
  <2> QED
    BY <1>2, <1>5, <1>6, <1>7, <2>2, <2>3, Zenon
<1>8. CASE n # 0
  <2> DEFINE g == [i \in 1 .. n |-> f[i]]
  <2>1. Flattens(g, seqs, n, S)
    <3>1. ASSUME NEW i \in 1 .. n
          PROVE  g[i] = Link(g, seqs, i) /\ g[i] \in Seq(S)
      <4>1. f[i] = Link(f, more, i) /\ f[i] \in Seq(S)
        BY <1>3, <1>4 DEF Flattens
      <4>2. i # 1 => i - 1 \in 1 .. n
        BY <1>3
      <4> QED
        BY <1>3, <4>1, <4>2 DEF Link
    <3> QED
      BY <3>1 DEF Flattens
  <2>2. FlattenSeq(seqs) = g[n]
    <3> HIDE DEF g
    <3> QED
      BY <1>1, <1>8, <2>1, Flattened
  <2>3. g[n] = f[n]
    BY <1>3, <1>8
  <2> HIDE DEF g
  <2> QED
    BY <1>2, <1>5, <1>6, <1>8, <2>2, <2>3, Zenon
<1> QED
  BY <1>7, <1>8
-----------------------------------------------------------------------------
(* Concatenation under a name that the provers leave as it is, and its laws. *)
Cat(s, t) == s \o t

LEMMA CatType ==
  ASSUME NEW S, NEW s \in Seq(S), NEW t \in Seq(S)
  PROVE  Cat(s, t) \in Seq(S)
BY ConcatProperties DEF Cat

LEMMA CatAssociative ==
  ASSUME NEW S, NEW s \in Seq(S), NEW t \in Seq(S), NEW u \in Seq(S)
  PROVE  Cat(Cat(s, t), u) = Cat(s, Cat(t, u))
<1>1. (s \o t) \o u = s \o (t \o u)
  BY ConcatAssociative
<1> QED
  BY <1>1, Zenon DEF Cat

LEMMA CatEmpty ==
  ASSUME NEW S, NEW s \in Seq(S)
  PROVE  Cat(s, <<>>) = s /\ Cat(<<>>, s) = s /\ <<>> \in Seq(S)
BY ConcatEmptySeq DEF Cat

LEMMA CatAppend ==
  ASSUME NEW S, NEW s \in Seq(S), NEW x \in S
  PROVE  Append(s, x) = Cat(s, <<x>>) /\ <<x>> \in Seq(S) /\ Append(s, x) \in Seq(S)
<1>1. Append(s, x) = s \o <<x>>
  BY AppendIsConcat
<1> QED
  BY <1>1, AppendProperties DEF Cat

LEMMA CatOfAppend ==
  ASSUME NEW S, NEW s \in Seq(S), NEW t \in Seq(S), NEW x \in S
  PROVE  Cat(s, Append(t, x)) = Append(Cat(s, t), x)
<1>1. PICK e \in Seq(S) : e = <<x>>
  BY CatAppend
<1>2. PICK st \in Seq(S) : st = Cat(s, t)
  BY CatType
<1>3. Append(t, x) = Cat(t, e) /\ Append(st, x) = Cat(st, e)
  BY <1>1, CatAppend
<1>4. Cat(Cat(s, t), e) = Cat(s, Cat(t, e))
  BY CatAssociative
<1> QED
  BY <1>2, <1>3, <1>4

(* What holds of <<>> and of a sequence with one more element holds of all. *)
LEMMA SeqInduction ==
  ASSUME NEW S, NEW T, <<>> \in T,
         \A s \in Seq(S), x \in S : s \in T => Append(s, x) \in T
  PROVE  Seq(S) \subseteq T
<1> DEFINE N == {n \in Nat : \A s \in Seq(S) : Len(s) = n => s \in T}
<1>1. 0 \in N
  BY EmptySeq
<1>2. ASSUME NEW n \in Nat, n \in N PROVE n + 1 \in N
  <2> SUFFICES ASSUME NEW s \in Seq(S), Len(s) = n + 1 PROVE s \in T
    OBVIOUS
  <2>1. s # <<>>
    BY EmptySeq
  <2>2. PICK t \in Seq(S), x \in S : s = Append(t, x)
    BY <2>1, SequenceEmptyOrAppend
  <2>3. Len(t) = n
    BY <2>2, AppendProperties, LenProperties
  <2> QED
    BY <1>2, <2>2, <2>3
<1> HIDE DEF N
<1>3. Nat \subseteq N
  BY <1>1, <1>2, Induction
<1> QED
  BY <1>3, LenProperties DEF N
-----------------------------------------------------------------------------
(* The strings of the program, of any length.                              *)
Text == Seq(Alphabet)

LEMMA Bytes == Special \subseteq Alphabet /\ \A b \in Alphabet : b \in Nat
BY EnvAssumption

LEMMA IsSequence ==
  ASSUME NEW S, NEW n \in Nat, NEW f \in [1 .. n -> S]
  PROVE  f \in Seq(S) /\ Len(f) = n
OBVIOUS

LEMMA EnvType ==
  ASSUME NEW e \in Envs
  PROVE  DOMAIN e \subseteq Text /\ \A k \in DOMAIN e : e[k] \in Text
<1>1. Strings \subseteq Text
  <2> SUFFICES ASSUME NEW s \in Strings PROVE s \in Text
    OBVIOUS
  <2>1. PICK m \in 0 .. MaxLen : s \in [1 .. m -> Alphabet]
    BY DEF Strings, BoundedSeq, SeqOf
  <2>2. m \in Nat
    BY EnvAssumption
  <2> QED
    BY <2>1, <2>2, IsSequence DEF Text
<1>2. PICK names \in SUBSET Strings : e \in [names -> Strings]
  BY DEF Envs
<1> QED
  BY <1>1, <1>2

-----------------------------------------------------------------------------
(* The reader, byte by byte.                                               *)
Walks(f, s, n) == f = [i \in 0 .. n |-> IF i = 0 THEN Reader ELSE Read(f[i - 1], s[i])]

Run(s) == (CHOOSE f : Walks(f, s, Len(s)))[Len(s)]

LEMMA WalksEach ==
  ASSUME NEW f, NEW s, NEW n, Walks(f, s, n)
  PROVE  /\ DOMAIN f = 0 .. n
         /\ \A i \in 0 .. n : f[i] = IF i = 0 THEN Reader ELSE Read(f[i - 1], s[i])
<1> DEFINE h == [i \in 0 .. n |-> IF i = 0 THEN Reader ELSE Read(f[i - 1], s[i])]
<1>1. /\ DOMAIN h = 0 .. n
      /\ \A i \in 0 .. n : h[i] = IF i = 0 THEN Reader ELSE Read(f[i - 1], s[i])
  OBVIOUS
<1>2. f = h
  BY Zenon DEF Walks
<1> HIDE DEF h
<1> QED
  BY <1>1, <1>2

LEMMA WalksIf ==
  ASSUME NEW g, NEW h, NEW s, NEW n \in Nat, g = [i \in 0 .. n |-> h[i]],
         \A i \in 0 .. n : h[i] = IF i = 0 THEN Reader ELSE Read(h[i - 1], s[i])
  PROVE  Walks(g, s, n)
<1>1. \A i \in 0 .. n : i # 0 => g[i - 1] = h[i - 1]
  <2> SUFFICES ASSUME NEW i \in 0 .. n, i # 0 PROVE g[i - 1] = h[i - 1]
    OBVIOUS
  <2>1. i - 1 \in 0 .. n
    OBVIOUS
  <2> QED
    BY <2>1
<1>2. \A i \in 0 .. n : h[i] = IF i = 0 THEN Reader ELSE Read(g[i - 1], s[i])
  BY <1>1
<1> QED
  BY <1>2 DEF Walks

LEMMA WalksExists ==
  ASSUME NEW s, NEW n \in Nat
  PROVE  \E f : Walks(f, s, n)
<1> DEFINE T == {m \in Nat : \E f : Walks(f, s, m)}
<1>1. 0 \in T
  <2> DEFINE f == [i \in 0 .. 0 |-> Reader]
  <2>1. \A i \in 0 .. 0 : f[i] = IF i = 0 THEN Reader ELSE Read(f[i - 1], s[i])
    OBVIOUS
  <2>2. f = [i \in 0 .. 0 |-> f[i]]
    OBVIOUS
  <2> HIDE DEF f
  <2> QED
    BY <2>1, <2>2, WalksIf
<1>2. ASSUME NEW m \in Nat, m \in T PROVE m + 1 \in T
  <2>1. PICK f : Walks(f, s, m)
    BY <1>2
  <2> DEFINE g == [i \in 0 .. m + 1 |-> IF i <= m THEN f[i] ELSE Read(f[m], s[m + 1])]
  <2>2. \A i \in 0 .. m : f[i] = IF i = 0 THEN Reader ELSE Read(f[i - 1], s[i])
    BY <2>1, WalksEach
  <2>3. ASSUME NEW i \in 0 .. m + 1
        PROVE  g[i] = IF i = 0 THEN Reader ELSE Read(g[i - 1], s[i])
    <3>1. CASE i <= m
      <4>1. i # 0 => i - 1 \in 0 .. m + 1 /\ i - 1 <= m
        OBVIOUS
      <4>2. i # 0 => g[i - 1] = f[i - 1]
        BY <4>1
      <4>3. g[i] = f[i] /\ i \in 0 .. m
        BY <3>1
      <4> HIDE DEF g
      <4> QED
        BY <2>2, <4>2, <4>3
    <3>2. CASE i = m + 1
      <4>1. i # 0 /\ i - 1 = m /\ m \in 0 .. m + 1 /\ ~(m + 1 <= m)
        BY <3>2
      <4>2. g[m] = f[m] /\ g[i] = Read(f[m], s[i])
        BY <3>2, <4>1
      <4> HIDE DEF g
      <4> QED
        BY <4>1, <4>2
    <3> QED
      BY <3>1, <3>2
  <2>4. g = [i \in 0 .. m + 1 |-> g[i]]
    OBVIOUS
  <2> HIDE DEF g
  <2>5. Walks(g, s, m + 1)
    <3>1. m + 1 \in Nat
      OBVIOUS
    <3> QED
      BY <2>3, <2>4, <3>1, WalksIf, Zenon
  <2> QED
    BY <2>5
<1> HIDE DEF T
<1>3. Nat \subseteq T
  BY <1>1, <1>2, Induction
<1> QED
  BY <1>3 DEF T

LEMMA WalksUnique ==
  ASSUME NEW f, NEW g, NEW s, NEW n \in Nat, Walks(f, s, n), Walks(g, s, n)
  PROVE  f = g
<1> DEFINE T == {i \in Nat : i \in 0 .. n => f[i] = g[i]}
<1>0. /\ DOMAIN f = 0 .. n /\ DOMAIN g = 0 .. n
      /\ \A i \in 0 .. n : f[i] = IF i = 0 THEN Reader ELSE Read(f[i - 1], s[i])
      /\ \A i \in 0 .. n : g[i] = IF i = 0 THEN Reader ELSE Read(g[i - 1], s[i])
  BY WalksEach
<1>1. 0 \in T
  BY <1>0
<1>2. ASSUME NEW i \in Nat, i \in T PROVE i + 1 \in T
  <2> SUFFICES ASSUME i + 1 \in 0 .. n PROVE f[i + 1] = g[i + 1]
    OBVIOUS
  <2>1. i \in 0 .. n /\ i + 1 # 0 /\ i + 1 - 1 = i
    OBVIOUS
  <2>2. f[i] = g[i]
    BY <1>2, <2>1
  <2> QED
    BY <1>0, <2>1, <2>2
<1>3. Nat \subseteq T
  <2> HIDE DEF T
  <2> QED
    BY <1>1, <1>2, Induction
<1>4. \A i \in 0 .. n : f[i] = g[i]
  BY <1>3
<1>5. f = [i \in 0 .. n |-> f[i]] /\ g = [i \in 0 .. n |-> g[i]]
  BY Zenon DEF Walks
<1> QED
  BY <1>4, <1>5

LEMMA RunIs ==
  ASSUME NEW s, Len(s) \in Nat, NEW f, Walks(f, s, Len(s))
  PROVE  Run(s) = f[Len(s)]
<1> DEFINE c == CHOOSE g : Walks(g, s, Len(s))
<1>1. Walks(c, s, Len(s))
  BY Zenon
<1>2. c = f
  <2> HIDE DEF c
  <2> QED
    BY <1>1, WalksUnique
<1> QED
  BY <1>2, Zenon DEF Run

LEMMA RunEmpty == Run(<<>>) = Reader
<1>1. Len(<<>>) = 0
  OBVIOUS
<1>2. PICK f : Walks(f, <<>>, 0)
  BY WalksExists
<1>3. f[0] = Reader
  BY <1>2, WalksEach
<1>4. Run(<<>>) = f[0]
  BY <1>1, <1>2, RunIs
<1> QED
  BY <1>3, <1>4

LEMMA RunAppend ==
  ASSUME NEW s \in Text, NEW b \in Alphabet
  PROVE  Run(Append(s, b)) = Read(Run(s), b)
<1>1. PICK n \in Nat : n = Len(s)
  BY LenProperties DEF Text
<1>2. PICK t : t = Append(s, b)
  OBVIOUS
<1>3. Len(t) = n + 1 /\ t[n + 1] = b /\ \A i \in 1 .. n : t[i] = s[i]
  BY <1>1, <1>2, AppendProperties DEF Text
<1>4. PICK f : Walks(f, t, n + 1)
  BY WalksExists
<1>5. \A i \in 0 .. n + 1 : f[i] = IF i = 0 THEN Reader ELSE Read(f[i - 1], t[i])
  BY <1>4, WalksEach
<1>6. f[n + 1] = Read(f[n], b)
  <2>1. n + 1 \in 0 .. n + 1 /\ n + 1 # 0 /\ n + 1 - 1 = n
    OBVIOUS
  <2> QED
    BY <1>3, <1>5, <2>1
<1> DEFINE g == [i \in 0 .. n |-> f[i]]
<1>7. Walks(g, s, n)
  <2>1. \A i \in 0 .. n : f[i] = IF i = 0 THEN Reader ELSE Read(f[i - 1], s[i])
    BY <1>3, <1>5
  <2> QED
    BY <2>1, WalksIf
<1>8. g[n] = f[n]
  OBVIOUS
<1> HIDE DEF g
<1>9. Run(s) = g[n]
  BY <1>1, <1>7, RunIs
<1>10. Run(t) = f[n + 1]
  BY <1>3, <1>4, RunIs
<1> QED
  BY <1>2, <1>6, <1>8, <1>9, <1>10

LEMMA VariablesRun ==
  ASSUME NEW s, s # <<>>
  PROVE  Variables(s) = Run(s).done \cup {<<Run(s).name, Run(s).text>>}
BY Zenon DEF Variables, Run, Walks

LEMMA VariablesEmpty == Variables(<<>>) = {}
BY DEF Variables

-----------------------------------------------------------------------------
LEMMA Fields ==
  ASSUME NEW done, NEW name, NEW text, NEW mode, NEW r, r = At(done, name, text, mode)
  PROVE  r.done = done /\ r.name = name /\ r.text = text /\ r.mode = mode
BY DEF At

LEMMA ReadEscaped ==
  ASSUME NEW done, NEW name, NEW text, NEW b
  PROVE  Read(Read(At(done, name, text, "plain"), Backslash), b)
           = At(done, name, Append(text, b), "plain")
<1>1. PICK r : r = At(done, name, text, "plain")
  OBVIOUS
<1>2. r.done = done /\ r.name = name /\ r.text = text /\ r.mode = "plain"
  BY <1>1, Fields
<1>3. PICK q : q = Read(r, Backslash)
  OBVIOUS
<1>4. q = At(done, name, text, "escaped")
  BY <1>2, <1>3 DEF Read, Backslash, Equals, Semicolon
<1>5. q.done = done /\ q.name = name /\ q.text = text /\ q.mode = "escaped"
  BY <1>4, Fields
<1>6. Read(q, b) = At(done, name, Append(text, b), "plain")
  BY <1>5 DEF Read
<1> QED
  BY <1>1, <1>3, <1>6

LEMMA ReadPlain ==
  ASSUME NEW done, NEW name, NEW text, NEW b, b \notin Special
  PROVE  Read(At(done, name, text, "plain"), b) = At(done, name, Append(text, b), "plain")
<1>1. PICK r : r = At(done, name, text, "plain")
  OBVIOUS
<1>2. r.done = done /\ r.name = name /\ r.text = text /\ r.mode = "plain"
  BY <1>1, Fields
<1>3. Read(r, b) = At(done, name, Append(text, b), "plain")
  BY <1>2 DEF Read, Special
<1> QED
  BY <1>1, <1>3

LEMMA ReadDelimiter ==
  ASSUME NEW done, NEW name, NEW text
  PROVE  /\ Read(At(done, name, text, "plain"), Equals) = At(done, text, <<>>, "plain")
         /\ Read(At(done, name, text, "plain"), Semicolon)
              = At(done \cup {<<name, text>>}, <<>>, <<>>, "plain")
<1>1. PICK r : r = At(done, name, text, "plain")
  OBVIOUS
<1>2. r.done = done /\ r.name = name /\ r.text = text /\ r.mode = "plain"
  BY <1>1, Fields
<1>3. Read(r, Equals) = At(done, text, <<>>, "plain")
  BY <1>2 DEF Read, Equals, Backslash, Semicolon
<1>4. Read(r, Semicolon) = At(r.done \cup {<<r.name, r.text>>}, <<>>, <<>>, "plain")
  BY <1>2 DEF Read, Equals, Backslash, Semicolon
<1> QED
  BY <1>1, <1>2, <1>3, <1>4

LEMMA RunEscape ==
  ASSUME NEW s \in Text, NEW done, NEW name, NEW text, Run(s) = At(done, name, text, "plain"),
         NEW b \in Alphabet
  PROVE  Escape(b) \in Text /\ Run(Cat(s, Escape(b))) = At(done, name, Append(text, b), "plain")
<1>1. CASE b \in Special
  <2>1. Backslash \in Alphabet
    BY Bytes DEF Special
  <2>2. PICK q \in Text : q = Append(s, Backslash)
    BY <2>1, AppendProperties DEF Text
  <2>3. Run(q) = Read(At(done, name, text, "plain"), Backslash)
    BY <2>1, <2>2, RunAppend
  <2>4. Run(Append(q, b)) = At(done, name, Append(text, b), "plain")
    <3>1. Run(Append(q, b)) = Read(Run(q), b)
      BY RunAppend
    <3> QED
      BY <2>3, <3>1, ReadEscaped
  <2>5. PICK e : e = <<Backslash, b>>
    OBVIOUS
  <2>6. PICK f \in Text : f = <<Backslash>>
    BY <2>1, CatAppend, CatEmpty DEF Text
  <2>7. e \in Text /\ e = Append(f, b)
    BY <2>1, <2>5, <2>6 DEF Text
  <2>9. Append(q, b) = Cat(s, e)
    <3>1. q = Cat(s, f)
      BY <2>1, <2>2, <2>6, CatAppend DEF Text
    <3>2. Cat(s, Append(f, b)) = Append(Cat(s, f), b)
      BY CatOfAppend DEF Text
    <3> QED
      BY <2>7, <3>1, <3>2
  <2>8. Escape(b) = e
    BY <1>1, <2>5 DEF Escape
  <2> QED
    BY <2>4, <2>7, <2>8, <2>9
<1>2. CASE b \notin Special
  <2>1. Append(s, b) = Cat(s, <<b>>) /\ <<b>> \in Text
    BY CatAppend DEF Text
  <2>2. Escape(b) = <<b>>
    BY <1>2 DEF Escape
  <2> QED
    <3>1. Run(Append(s, b)) = Read(Run(s), b)
      BY RunAppend
    <3>2. Read(Run(s), b) = At(done, name, Append(text, b), "plain")
      BY <1>2, ReadPlain
    <3> QED
      BY <2>1, <2>2, <3>1, <3>2
<1> QED
  BY <1>1, <1>2

LEMMA ReplaceEmpty == Replace(<<>>) = <<>>
<1>1. [i \in DOMAIN <<>> |-> Escape(<<>>[i])] = <<>>
  OBVIOUS
<1> QED
  BY <1>1, FlattenEmpty DEF Replace

LEMMA EscapeType == \A b \in Alphabet : Escape(b) \in Text
BY Bytes DEF Escape, Text, Special

LEMMA ReplaceAppend ==
  ASSUME NEW s \in Text, NEW b \in Alphabet
  PROVE  Replace(s) \in Text /\ Replace(Append(s, b)) = Cat(Replace(s), Escape(b))
<1> DEFINE old == [i \in DOMAIN s |-> Escape(s[i])]
           t == Append(s, b)
           new == [i \in DOMAIN t |-> Escape(t[i])]
<1>1. PICK n \in Nat : n = Len(s) /\ DOMAIN s = 1 .. n
  BY LenProperties DEF Text
<1>2. \A i \in 1 .. n : s[i] \in Alphabet
  BY <1>1, ElementOfSeq DEF Text
<1>3. old \in Seq(Text) /\ Len(old) = n
  <2>1. old \in [1 .. n -> Text]
    BY <1>1, <1>2, EscapeType
  <2> HIDE DEF old
  <2> QED
    BY <2>1, IsSequence
<1>4. /\ t \in Text /\ Len(t) = n + 1 /\ DOMAIN t = 1 .. n + 1 /\ t[n + 1] = b
      /\ \A i \in 1 .. n : t[i] = s[i]
  BY <1>1, AppendProperties, LenProperties DEF Text
<1>5. \A i \in 1 .. n + 1 : t[i] \in Alphabet
  BY <1>2, <1>4
<1> HIDE DEF t
<1>6. new \in Seq(Text) /\ Len(new) = n + 1
  <2>1. new \in [1 .. n + 1 -> Text]
    BY <1>4, <1>5, EscapeType
  <2> HIDE DEF new
  <2>2. n + 1 \in Nat
    OBVIOUS
  <2> QED
    BY <2>1, <2>2, IsSequence
<1>7. PICK e \in Text : e = Escape(b)
  BY EscapeType
<1>8. PICK more : more = Append(old, e)
  OBVIOUS
<1>9. /\ more \in Seq(Text) /\ Len(more) = n + 1 /\ more[n + 1] = e
      /\ \A i \in 1 .. n : more[i] = old[i]
  BY <1>3, <1>7, <1>8, AppendProperties
<1>10. \A i \in 1 .. n + 1 : more[i] = new[i]
  <2> SUFFICES ASSUME NEW i \in 1 .. n + 1 PROVE more[i] = new[i]
    OBVIOUS
  <2>1. new[i] = Escape(t[i])
    BY <1>4
  <2>2. CASE i \in 1 .. n
    <3>1. old[i] = Escape(s[i])
      BY <1>1, <2>2
    <3> QED
      BY <1>4, <1>9, <2>1, <2>2, <3>1
  <2>3. CASE i = n + 1
    BY <1>4, <1>7, <1>9, <2>1, <2>3
  <2> QED
    BY <2>2, <2>3
<1> HIDE DEF old, new
<1>11. new = more
  BY <1>6, <1>9, <1>10, SeqEqual
<1>12. FlattenSeq(old) \in Text
  BY <1>3, FlattenType DEF Text
<1>13. FlattenSeq(Append(old, e)) = FlattenSeq(old) \o e
  BY <1>3, <1>7, FlattenAppend DEF Text
<1>14. Replace(s) = FlattenSeq(old) /\ Replace(Append(s, b)) = FlattenSeq(new)
  BY Zenon DEF Replace, old, new, t
<1> QED
  BY <1>7, <1>8, <1>11, <1>12, <1>13, <1>14, Zenon DEF Cat

LEMMA ReplaceType ==
  ASSUME NEW s \in Text
  PROVE  Replace(s) \in Text
<1>1. CASE s = <<>>
  BY <1>1, ReplaceEmpty
<1>2. CASE s # <<>>
  <2>1. PICK t \in Text, b \in Alphabet : s = Append(t, b)
    BY <1>2, SequenceEmptyOrAppend DEF Text
  <2> QED
    BY <2>1, ReplaceAppend
<1> QED
  BY <1>1, <1>2

(* The reader takes a string as it was before Replace.                     *)
LEMMA RunReplace ==
  ASSUME NEW s \in Text, NEW done, NEW name, Run(s) = At(done, name, <<>>, "plain"), NEW t \in Text
  PROVE  Run(Cat(s, Replace(t))) = At(done, name, t, "plain")
<1> DEFINE T == {q \in Text : Run(Cat(s, Replace(q))) = At(done, name, q, "plain")}
<1>1. <<>> \in T
  <2>1. Cat(s, <<>>) = s /\ <<>> \in Text
    BY CatEmpty DEF Text
  <2> QED
    BY <2>1, ReplaceEmpty
<1>2. ASSUME NEW q \in Text, NEW b \in Alphabet, q \in T
      PROVE  Append(q, b) \in T
  <2>1. PICK front \in Text : front = Cat(s, Replace(q))
    BY ReplaceType, CatType DEF Text
  <2>2. Run(front) = At(done, name, q, "plain")
    BY <1>2, <2>1
  <2>3. Escape(b) \in Text /\ Run(Cat(front, Escape(b))) = At(done, name, Append(q, b), "plain")
    BY <2>2, RunEscape
  <2>4. Cat(front, Escape(b)) = Cat(s, Cat(Replace(q), Escape(b)))
    BY <2>1, <2>3, ReplaceType, CatAssociative DEF Text
  <2>5. Append(q, b) \in Text
    BY AppendProperties DEF Text
  <2> QED
    BY <2>3, <2>4, <2>5, ReplaceAppend
<1> HIDE DEF T
<1>3. Text \subseteq T
  BY <1>1, <1>2, SeqInduction DEF Text
<1> QED
  BY <1>3 DEF T

-----------------------------------------------------------------------------
(* A variable, and the list of the variables of an environment.            *)
LEMMA Delimiters == Equals \in Alphabet /\ Semicolon \in Alphabet
BY Bytes DEF Special

LEMMA ItemRun ==
  ASSUME NEW e \in Envs, NEW k \in DOMAIN e, env = e
  PROVE  /\ Item(k) \in Text /\ Item(k) # <<>>
         /\ \A s \in Text : \A done, name :
              Run(s) = At(done, name, <<>>, "plain") =>
                Run(Cat(s, Item(k))) = At(done, k, e[k], "plain")
<1>1. PICK v \in Text : v = e[k] /\ k \in Text
  BY EnvType
<1>2. PICK p \in Text, q \in Text, d \in Text :
        p = Replace(k) /\ q = Replace(v) /\ d = <<Equals>>
  <2>1. <<Equals>> \in Text
    BY Delimiters DEF Text
  <2> QED
    BY <1>1, <2>1, ReplaceType
<1>3. PICK pd \in Text : pd = Cat(p, d) /\ pd = Append(p, Equals) /\ pd # <<>>
  <2>1. Append(p, Equals) \in Text /\ Append(p, Equals) = Cat(p, <<Equals>>)
    BY Delimiters, CatAppend DEF Text
  <2>2. Append(p, Equals) # <<>>
    BY Delimiters, AppendProperties DEF Text
  <2> QED
    BY <1>2, <2>1, <2>2
<1>4. Item(k) = Cat(pd, q)
  BY <1>1, <1>2, <1>3, Zenon DEF Item, Cat
<1>5. Item(k) \in Text
  BY <1>4, CatType DEF Text
<1>6. Item(k) # <<>>
  <2>1. pd \o q # <<>>
    BY <1>3, ConcatEqualIffEmpty DEF Text
  <2> QED
    BY <1>4, <2>1 DEF Cat
<1>7. ASSUME NEW s \in Text, NEW done, NEW name, Run(s) = At(done, name, <<>>, "plain")
      PROVE  Run(Cat(s, Item(k))) = At(done, k, e[k], "plain")
  <2>1. PICK sp \in Text : sp = Cat(s, p)
    BY CatType DEF Text
  <2>2. Run(sp) = At(done, name, k, "plain")
    BY <1>1, <1>2, <1>7, <2>1, RunReplace
  <2>3. PICK spd \in Text : spd = Append(sp, Equals) /\ spd = Cat(s, pd)
    <3>1. Append(sp, Equals) \in Text
      BY Delimiters, AppendProperties DEF Text
    <3>2. Cat(s, Append(p, Equals)) = Append(Cat(s, p), Equals)
      BY Delimiters, CatOfAppend DEF Text
    <3> QED
      BY <1>3, <2>1, <3>1, <3>2
  <2>4. Run(spd) = At(done, k, <<>>, "plain")
    <3>1. Run(spd) = Read(Run(sp), Equals)
      BY <2>3, Delimiters, RunAppend
    <3>2. Read(At(done, name, k, "plain"), Equals) = At(done, k, <<>>, "plain")
      BY ReadDelimiter
    <3> QED
      BY <2>2, <3>1, <3>2
  <2>5. Run(Cat(spd, q)) = At(done, k, v, "plain")
    BY <1>1, <1>2, <2>4, RunReplace
  <2>6. Cat(spd, q) = Cat(s, Cat(pd, q))
    BY <2>3, CatAssociative DEF Text
  <2> QED
    BY <1>1, <1>4, <2>5, <2>6
<1> QED
  BY <1>5, <1>6, <1>7

LEMMA JoinEmpty == Join(<<>>) = <<>>
<1>1. [i \in DOMAIN <<>> |-> IF i = 1 THEN <<>>[i] ELSE <<Semicolon>> \o <<>>[i]] = <<>>
  OBVIOUS
<1> QED
  BY <1>1, FlattenEmpty DEF Join

LEMMA JoinAppend ==
  ASSUME NEW items \in Seq(Text), NEW x \in Text
  PROVE  /\ Join(items) \in Text
         /\ items = <<>> => Join(Append(items, x)) = x
         /\ items # <<>> => Join(Append(items, x)) = Cat(Join(items), Cat(<<Semicolon>>, x))
<1> DEFINE glue(i, item) == IF i = 1 THEN item ELSE <<Semicolon>> \o item
           old == [i \in DOMAIN items |-> glue(i, items[i])]
           t == Append(items, x)
           new == [i \in DOMAIN t |-> glue(i, t[i])]
<1>1. PICK n \in Nat : n = Len(items) /\ DOMAIN items = 1 .. n /\ (items = <<>> <=> n = 0)
  BY LenProperties, EmptySeq
<1>2. ASSUME NEW i, NEW item \in Text PROVE glue(i, item) \in Text
  <2>1. <<Semicolon>> \in Text
    BY Delimiters DEF Text
  <2>2. <<Semicolon>> \o item \in Text
    BY <2>1, ConcatProperties DEF Text
  <2> QED
    BY <2>2
<1> HIDE DEF glue
<1>3. \A i \in 1 .. n : items[i] \in Text
  BY <1>1, ElementOfSeq
<1>4. old \in Seq(Text) /\ Len(old) = n
  <2>1. old \in [1 .. n -> Text]
    BY <1>1, <1>2, <1>3
  <2> HIDE DEF old
  <2> QED
    BY <2>1, IsSequence
<1>5. /\ t \in Seq(Text) /\ DOMAIN t = 1 .. n + 1 /\ t[n + 1] = x
      /\ \A i \in 1 .. n : t[i] = items[i]
  BY <1>1, AppendProperties, LenProperties
<1>6. \A i \in 1 .. n + 1 : t[i] \in Text
  BY <1>3, <1>5
<1> HIDE DEF t
<1>7. new \in Seq(Text) /\ Len(new) = n + 1
  <2>1. new \in [1 .. n + 1 -> Text]
    BY <1>2, <1>5, <1>6
  <2> HIDE DEF new
  <2>2. n + 1 \in Nat
    OBVIOUS
  <2> QED
    BY <2>1, <2>2, IsSequence
<1>8. PICK e \in Text : e = glue(n + 1, x)
  BY <1>2
<1>9. PICK more : more = Append(old, e)
  OBVIOUS
<1>10. /\ more \in Seq(Text) /\ Len(more) = n + 1 /\ more[n + 1] = e
       /\ \A i \in 1 .. n : more[i] = old[i]
  BY <1>4, <1>8, <1>9, AppendProperties
<1>11. \A i \in 1 .. n + 1 : more[i] = new[i]
  <2> SUFFICES ASSUME NEW i \in 1 .. n + 1 PROVE more[i] = new[i]
    OBVIOUS
  <2>1. new[i] = glue(i, t[i])
    BY <1>5
  <2>2. CASE i \in 1 .. n
    <3>1. old[i] = glue(i, items[i])
      BY <1>1, <2>2
    <3> QED
      BY <1>5, <1>10, <2>1, <2>2, <3>1
  <2>3. CASE i = n + 1
    BY <1>5, <1>8, <1>10, <2>1, <2>3
  <2> QED
    BY <2>2, <2>3
<1> HIDE DEF old, new
<1>12. new = more
  BY <1>7, <1>10, <1>11, SeqEqual
<1>13. FlattenSeq(old) \in Text
  BY <1>4, FlattenType DEF Text
<1>14. FlattenSeq(Append(old, e)) = FlattenSeq(old) \o e
  BY <1>4, <1>8, FlattenAppend DEF Text
<1>15. Join(items) = FlattenSeq(old) /\ Join(Append(items, x)) = FlattenSeq(new)
  BY Zenon DEF Join, old, new, t, glue
<1>16. Join(Append(items, x)) = Cat(Join(items), e)
  BY <1>9, <1>12, <1>14, <1>15, Zenon DEF Cat
<1>17. CASE items = <<>>
  <2>1. e = x
    BY <1>1, <1>8, <1>17 DEF glue
  <2>2. Cat(<<>>, x) = x
    BY CatEmpty DEF Text
  <2> QED
    BY <1>13, <1>15, <1>16, <1>17, <2>1, <2>2, JoinEmpty
<1>18. CASE items # <<>>
  <2>1. n + 1 # 1
    BY <1>1, <1>18
  <2>2. e = Cat(<<Semicolon>>, x)
    BY <1>8, <2>1, Zenon DEF glue, Cat
  <2> QED
    BY <1>13, <1>15, <1>16, <1>18, <2>2
<1> QED
  BY <1>17, <1>18

LEMMA JoinType ==
  ASSUME NEW items \in Seq(Text)
  PROVE  Join(items) \in Text
<1>1. <<>> \in Text
  BY DEF Text
<1> QED
  BY <1>1, JoinAppend

-----------------------------------------------------------------------------
(* The items of a list of names, and the variables it stands for.          *)
Listed(names) == [i \in DOMAIN names |-> Item(names[i])]
Pairs(names)  == {<<names[i], env[names[i]]>> : i \in DOMAIN names}
Names         == Seq(DOMAIN env)

LEMMA ListedType ==
  ASSUME env \in Envs, NEW names \in Names
  PROVE  Listed(names) \in Seq(Text) /\ Len(Listed(names)) = Len(names)
<1>1. PICK n \in Nat : n = Len(names) /\ DOMAIN names = 1 .. n
  BY LenProperties DEF Names
<1>2. \A i \in 1 .. n : names[i] \in DOMAIN env
  BY <1>1, ElementOfSeq DEF Names
<1>3. \A k \in DOMAIN env : Item(k) \in Text
  BY ItemRun
<1>4. Listed(names) \in [1 .. n -> Text]
  BY <1>1, <1>2, <1>3 DEF Listed
<1> QED
  BY <1>1, <1>4, IsSequence

LEMMA ListedEmpty == Listed(<<>>) = <<>> /\ Pairs(<<>>) = {}
BY DEF Listed, Pairs

LEMMA ListedAppend ==
  ASSUME env \in Envs, NEW names \in Names, NEW k \in DOMAIN env
  PROVE  /\ Append(names, k) \in Names
         /\ Listed(Append(names, k)) = Append(Listed(names), Item(k))
         /\ Pairs(Append(names, k)) = Pairs(names) \cup {<<k, env[k]>>}
<1>1. PICK n \in Nat : n = Len(names) /\ DOMAIN names = 1 .. n
  BY LenProperties DEF Names
<1>2. PICK more \in Names : more = Append(names, k)
  BY AppendProperties DEF Names
<1>3. /\ Len(more) = n + 1 /\ DOMAIN more = 1 .. n + 1 /\ more[n + 1] = k
      /\ \A i \in 1 .. n : more[i] = names[i]
  BY <1>1, <1>2, AppendProperties, LenProperties DEF Names
<1>4. PICK old \in Seq(Text) : old = Listed(names) /\ Len(old) = n
  BY <1>1, ListedType
<1>5. PICK new \in Seq(Text) : new = Listed(more) /\ Len(new) = n + 1
  BY <1>3, ListedType
<1>6. PICK x \in Text : x = Item(k)
  BY ItemRun
<1>7. PICK other \in Seq(Text) : other = Append(old, x)
  BY AppendProperties
<1>8. Len(other) = n + 1 /\ other[n + 1] = x /\ \A i \in 1 .. n : other[i] = old[i]
  BY <1>4, <1>7, AppendProperties
<1>9. \A i \in 1 .. n + 1 : new[i] = other[i]
  <2> SUFFICES ASSUME NEW i \in 1 .. n + 1 PROVE new[i] = other[i]
    OBVIOUS
  <2>1. new[i] = Item(more[i])
    BY <1>3, <1>5 DEF Listed
  <2>2. CASE i \in 1 .. n
    <3>1. old[i] = Item(names[i])
      BY <1>1, <1>4, <2>2 DEF Listed
    <3>2. more[i] = names[i] /\ other[i] = old[i]
      BY <1>3, <1>8, <2>2
    <3> QED
      BY <2>1, <3>1, <3>2
  <2>3. CASE i = n + 1
    BY <1>3, <1>6, <1>8, <2>1, <2>3
  <2> QED
    BY <2>2, <2>3
<1>10. new = other
  BY <1>5, <1>8, <1>9, SeqEqual
<1>11. Pairs(more) = Pairs(names) \cup {<<k, env[k]>>}
  <2> DEFINE P(j) == <<j, env[j]>>
  <2>1. Pairs(more) = {P(more[i]) : i \in 1 .. n + 1} /\ Pairs(names) = {P(names[i]) : i \in 1 .. n}
    BY <1>1, <1>3 DEF Pairs
  <2> HIDE DEF P
  <2>2. {P(more[i]) : i \in 1 .. n + 1} = {P(names[i]) : i \in 1 .. n} \cup {P(k)}
    <3>1. \A i \in 1 .. n + 1 : i \in 1 .. n \/ i = n + 1
      OBVIOUS
    <3>2. n + 1 \in 1 .. n + 1 /\ \A i \in 1 .. n : i \in 1 .. n + 1
      OBVIOUS
    <3> QED
      BY <1>3, <3>1, <3>2, Zenon
  <2> QED
    BY <2>1, <2>2 DEF P
<1> QED
  BY <1>2, <1>4, <1>5, <1>6, <1>7, <1>10, <1>11

LEMMA CatNotEmpty ==
  ASSUME NEW S, NEW s \in Seq(S), NEW t \in Seq(S), t # <<>>
  PROVE  Cat(s, t) # <<>>
<1>1. Len(s \o t) = Len(s) + Len(t) /\ Len(s) \in Nat /\ Len(t) \in Nat /\ Len(t) # 0
  BY ConcatProperties, LenProperties, EmptySeq
<1>2. Len(s \o t) # 0
  BY <1>1
<1>3. s \o t # <<>>
  BY <1>2, EmptySeq
<1> QED
  BY <1>3 DEF Cat

(* The reader at the end of a joined list: it has all its variables.       *)
Reads(names) ==
  \E done, name, text :
    /\ Run(Join(Listed(names))) = At(done, name, text, "plain")
    /\ done \cup {<<name, text>>} = Pairs(names)

LEMMA RunJoin ==
  ASSUME env \in Envs, NEW names \in Names, names # <<>>
  PROVE  Join(Listed(names)) # <<>> /\ Reads(names)
<1> DEFINE T == {q \in Names : q # <<>> => Join(Listed(q)) # <<>> /\ Reads(q)}
<1>1. <<>> \in T
  BY DEF Names
<1>2. ASSUME NEW q \in Names, NEW k \in DOMAIN env, q \in T
      PROVE  Append(q, k) \in T
  <2>1. PICK more \in Names : more = Append(q, k)
    BY ListedAppend
  <2>2. PICK x \in Text : x = Item(k) /\ x # <<>>
    BY ItemRun
  <2>3. PICK old \in Seq(Text) : old = Listed(q) /\ (old = <<>> <=> q = <<>>)
    BY ListedType, EmptySeq DEF Names
  <2>4. Listed(more) = Append(old, x) /\ Pairs(more) = Pairs(q) \cup {<<k, env[k]>>}
    BY <2>1, <2>2, <2>3, ListedAppend
  <2>5. CASE q = <<>>
    <3>1. Join(Listed(more)) = x
      BY <2>2, <2>3, <2>4, <2>5, JoinAppend
    <3>2. Run(x) = At({}, k, env[k], "plain")
      <4>1. Run(<<>>) = At({}, <<>>, <<>>, "plain")
        BY RunEmpty DEF Reader
      <4>2. Cat(<<>>, x) = x /\ <<>> \in Text
        BY CatEmpty DEF Text
      <4>3. Run(Cat(<<>>, Item(k))) = At({}, k, env[k], "plain")
        BY <4>1, <4>2, ItemRun
      <4> QED
        BY <2>2, <4>2, <4>3
    <3>3. Pairs(q) = {}
      BY <2>5, ListedEmpty
    <3>4. {} \cup {<<k, env[k]>>} = Pairs(more)
      BY <2>4, <3>3
    <3>5. Reads(more)
      BY <3>1, <3>2, <3>4 DEF Reads
    <3> QED
      BY <2>1, <2>2, <3>1, <3>5
  <2>6. CASE q # <<>>
    <3>1. PICK j \in Text : j = Join(old)
      BY <2>3, JoinType
    <3>2. PICK done, name, text :
            Run(j) = At(done, name, text, "plain") /\ done \cup {<<name, text>>} = Pairs(q)
      BY <1>2, <2>3, <2>6, <3>1 DEF Reads
    <3>3. PICK js \in Text : js = Append(j, Semicolon) /\ js = Cat(j, <<Semicolon>>)
      BY Delimiters, CatAppend DEF Text
    <3>4. Run(js) = At(Pairs(q), <<>>, <<>>, "plain")
      <4>1. Run(js) = Read(Run(j), Semicolon)
        BY <3>3, Delimiters, RunAppend
      <4>2. Read(At(done, name, text, "plain"), Semicolon)
              = At(done \cup {<<name, text>>}, <<>>, <<>>, "plain")
        BY ReadDelimiter
      <4> QED
        BY <3>2, <4>1, <4>2
    <3>5. Run(Cat(js, x)) = At(Pairs(q), k, env[k], "plain")
      BY <2>2, <3>4, ItemRun
    <3>6. Join(Listed(more)) = Cat(js, x)
      <4>1. Join(Append(old, x)) = Cat(Join(old), Cat(<<Semicolon>>, x))
        BY <2>3, <2>6, JoinAppend
      <4>2. PICK d \in Text : d = <<Semicolon>>
        BY Delimiters, CatAppend, CatEmpty DEF Text
      <4>3. Cat(Cat(j, d), x) = Cat(j, Cat(d, x))
        BY CatAssociative DEF Text
      <4> QED
        BY <2>4, <3>1, <3>3, <4>1, <4>2, <4>3
    <3>7. Cat(js, x) # <<>>
      BY <2>2, CatNotEmpty DEF Text
    <3>8. Reads(more)
      BY <2>4, <3>5, <3>6 DEF Reads
    <3> QED
      BY <2>1, <3>6, <3>7, <3>8
  <2> QED
    BY <2>5, <2>6
<1> HIDE DEF T
<1>3. Names \subseteq T
  BY <1>1, <1>2, SeqInduction DEF Names
<1> QED
  BY <1>3 DEF T

(* A joined list can be read back.                                         *)
LEMMA JoinReadBack ==
  ASSUME env \in Envs, NEW names \in Names
  PROVE  Variables(Join(Listed(names))) = Pairs(names)
<1>1. CASE names = <<>>
  BY <1>1, ListedEmpty, JoinEmpty, VariablesEmpty
<1>2. CASE names # <<>>
  <2>1. PICK s : s = Join(Listed(names))
    OBVIOUS
  <2>2. s # <<>> /\ Reads(names)
    BY <1>2, <2>1, RunJoin
  <2>3. PICK done, name, text :
          Run(s) = At(done, name, text, "plain") /\ done \cup {<<name, text>>} = Pairs(names)
    BY <2>1, <2>2 DEF Reads
  <2>4. PICK r : r = Run(s)
    OBVIOUS
  <2>5. r.done = done /\ r.name = name /\ r.text = text
    BY <2>3, <2>4, Fields
  <2>6. Variables(s) = r.done \cup {<<r.name, r.text>>}
    BY <2>2, <2>4, VariablesRun
  <2> QED
    BY <2>1, <2>3, <2>5, <2>6
<1> QED
  BY <1>1, <1>2

(* Two names have two items: the reader takes the name from the item.      *)
LEMMA ItemInjective ==
  ASSUME env \in Envs, NEW k \in DOMAIN env, NEW l \in DOMAIN env, Item(k) = Item(l)
  PROVE  k = l
<1>1. Run(<<>>) = At({}, <<>>, <<>>, "plain") /\ <<>> \in Text
  BY RunEmpty, CatEmpty DEF Reader, Text
<1>2. PICK r : r = Run(Cat(<<>>, Item(k)))
  OBVIOUS
<1>3. r = At({}, k, env[k], "plain")
  BY <1>1, <1>2, ItemRun
<1>4. r = At({}, l, env[l], "plain")
  BY <1>1, <1>2, ItemRun
<1>5. r.name = k
  BY <1>3, Fields
<1>6. r.name = l
  BY <1>4, Fields
<1> QED
  BY <1>5, <1>6

-----------------------------------------------------------------------------
(* Of two strings one comes first.                                         *)
LEMMA Agree ==
  ASSUME NEW s \in Text, NEW t \in Text, Len(s) <= Len(t), \A i \in 1 .. Len(s) : s[i] = t[i],
         s # t
  PROVE  Before(s, t)
<1>1. SubSeq(s, 1, Len(s)) = SubSeq(t, 1, Len(s))
  BY DEF Text
<1> QED
  BY <1>1 DEF Before, IsStrictPrefix, IsPrefix

LEMMA Differ ==
  ASSUME NEW s \in Text, NEW t \in Text, NEW i \in DOMAIN s \cap DOMAIN t,
         \A j \in 1 .. i - 1 : s[j] = t[j], s[i] # t[i]
  PROVE  Before(s, t) \/ Before(t, s)
<1>1. s[i] \in Nat /\ t[i] \in Nat
  BY Bytes, ElementOfSeq DEF Text
<1>2. s[i] < t[i] \/ t[i] < s[i]
  BY <1>1
<1> QED
  BY <1>2 DEF Before

LEMMA Total ==
  ASSUME NEW s \in Text, NEW t \in Text, s # t
  PROVE  Before(s, t) \/ Before(t, s)
<1>1. PICK m \in Nat, n \in Nat :
        m = Len(s) /\ DOMAIN s = 1 .. m /\ n = Len(t) /\ DOMAIN t = 1 .. n
  BY LenProperties DEF Text
<1> DEFINE D == {i \in DOMAIN s \cap DOMAIN t : s[i] # t[i]}
<1>2. CASE D = {}
  <2>1. CASE m <= n
    <3>1. \A i \in 1 .. m : s[i] = t[i]
      BY <1>1, <1>2, <2>1
    <3> QED
      BY <1>1, <2>1, <3>1, Agree
  <2>2. CASE n <= m
    <3>1. \A i \in 1 .. n : t[i] = s[i]
      BY <1>1, <1>2, <2>2
    <3> QED
      BY <1>1, <2>2, <3>1, Agree
  <2> QED
    BY <2>1, <2>2
<1>3. CASE D # {}
  <2>1. D \in SUBSET Nat
    BY <1>1
  <2>2. PICK i \in D : \A j \in D : i <= j
    <3> HIDE DEF D
    <3> QED
      BY <1>3, <2>1, Least
  <2>3. \A j \in 1 .. i - 1 : s[j] = t[j]
    BY <1>1, <2>2
  <2> QED
    BY <2>2, <2>3, Differ
<1> QED
  BY <1>2, <1>3

(* So there is one sorted listing of a set of strings.                     *)
Lists(t, n, items) ==
  /\ t \in [1 .. n -> items] /\ IsInjective(t) /\ Sorted(t)
  /\ \A x \in items : \E i \in 1 .. n : t[i] = x

LEMMA ListsEach ==
  ASSUME NEW n, NEW items, NEW t, Lists(t, n, items)
  PROVE  /\ t = [i \in 1 .. n |-> t[i]]
         /\ \A i \in 1 .. n : t[i] \in items
         /\ \A i, j \in 1 .. n : t[i] = t[j] => i = j
         /\ \A i, j \in 1 .. n : i < j => ~ Before(t[j], t[i])
         /\ \A x \in items : \E i \in 1 .. n : t[i] = x
<1>1. t \in [1 .. n -> items] /\ DOMAIN t = 1 .. n
  BY DEF Lists
<1>2. t = [i \in 1 .. n |-> t[i]] /\ \A i \in 1 .. n : t[i] \in items
  BY <1>1
<1> QED
  BY <1>1, <1>2, Zenon DEF Lists, IsInjective, Sorted

LEMMA SortedUnique ==
  ASSUME NEW n \in Nat, NEW items \in SUBSET Text,
         NEW a, Lists(a, n, items), NEW b, Lists(b, n, items)
  PROVE  a = b
<1>1. /\ \A i, j \in 1 .. n : a[i] = a[j] => i = j
      /\ \A i, j \in 1 .. n : i < j => ~ Before(a[j], a[i])
      /\ \A i \in 1 .. n : a[i] \in items
      /\ \A x \in items : \E i \in 1 .. n : a[i] = x
  BY ListsEach
<1>2. /\ \A i, j \in 1 .. n : b[i] = b[j] => i = j
      /\ \A i, j \in 1 .. n : i < j => ~ Before(b[j], b[i])
      /\ \A i \in 1 .. n : b[i] \in items
      /\ \A x \in items : \E i \in 1 .. n : b[i] = x
  BY ListsEach
<1> DEFINE D == {i \in 1 .. n : a[i] # b[i]}
<1>3. D = {}
  <2> SUFFICES ASSUME D # {} PROVE FALSE
    OBVIOUS
  <2>1. PICK i \in D : \A j \in D : i <= j
    <3>1. D \in SUBSET Nat
      OBVIOUS
    <3> HIDE DEF D
    <3> QED
      BY <3>1, Least
  <2>2. i \in 1 .. n /\ a[i] # b[i]
    BY <2>1
  <2>3. \A j \in 1 .. n : a[j] # b[j] => i <= j
    BY <2>1
  <2> HIDE DEF D
  <2>4. PICK j \in 1 .. n : b[j] = a[i]
    BY <1>1, <1>2, <2>2, Zenon
  <2>5. PICK l \in 1 .. n : a[l] = b[i]
    BY <1>1, <1>2, <2>2, Zenon
  <2>6. i < j
    <3>1. ASSUME a[j] = b[j] PROVE FALSE
      BY <1>1, <2>2, <2>4, <3>1, Zenon
    <3>2. i # j
      BY <2>2, <2>4, Zenon
    <3>3. i <= j
      BY <2>3, <3>1
    <3> QED
      BY <2>2, <3>2, <3>3
  <2>7. i < l
    <3>1. ASSUME a[l] = b[l] PROVE FALSE
      BY <1>2, <2>2, <2>5, <3>1, Zenon
    <3>2. i # l
      BY <2>2, <2>5, Zenon
    <3>3. i <= l
      BY <2>3, <3>1
    <3> QED
      BY <2>2, <3>2, <3>3
  <2>8. ~ Before(a[i], b[i])
    BY <1>2, <2>2, <2>4, <2>6, Zenon
  <2>9. ~ Before(b[i], a[i])
    BY <1>1, <2>2, <2>5, <2>7, Zenon
  <2>10. a[i] \in Text /\ b[i] \in Text
    BY <1>1, <1>2, <2>2
  <2> QED
    BY <2>2, <2>8, <2>9, <2>10, Total, Zenon
<1>4. \A i \in 1 .. n : a[i] = b[i]
  BY <1>3
<1> HIDE DEF D
<1>5. a = [i \in 1 .. n |-> a[i]] /\ b = [i \in 1 .. n |-> b[i]]
  BY ListsEach
<1> QED
  BY <1>4, <1>5

(* A listing without repetition of a set has its cardinality, and one that *)
(* has its cardinality leaves nothing out.                                 *)
LEMMA Interval ==
  ASSUME NEW n \in Nat
  PROVE  IsFiniteSet(1 .. n) /\ Cardinality(1 .. n) = n
<1>1. IsFiniteSet(1 .. n) /\ Cardinality(1 .. n) = IF 1 > n THEN 0 ELSE n - 1 + 1
  BY FS_Interval
<1> QED
  BY <1>1

LEMMA ListsCount ==
  ASSUME NEW n \in Nat, NEW items, NEW t, Lists(t, n, items)
  PROVE  IsFiniteSet(items) /\ Cardinality(items) = n
<1>1. t \in Surjection(1 .. n, items) /\ t \in Injection(1 .. n, items)
  BY DEF Lists, Surjection, Injection
<1>2. IsFiniteSet(1 .. n) /\ Cardinality(1 .. n) = n
  BY Interval
<1> QED
  BY <1>1, <1>2, FS_Surjection

LEMMA ListingsAll ==
  ASSUME NEW n \in Nat, NEW items, IsFiniteSet(items), Cardinality(items) = n,
         NEW t \in Listings(items)
  PROVE  Lists(t, n, items)
<1>1. t \in [1 .. n -> items] /\ IsInjective(t) /\ Sorted(t)
  BY DEF Listings
<1>2. t \in Injection(1 .. n, items)
  BY <1>1 DEF Injection
<1>3. t \in Surjection(1 .. n, items)
  BY <1>2, Interval, FS_Injection
<1> QED
  BY <1>1, <1>3 DEF Lists, Surjection

-----------------------------------------------------------------------------
(* The loop has listed the items of the variables it has come to, each     *)
(* once.                                                                   *)
Collected(names) ==
  /\ list = Listed(names)
  /\ \A i, j \in DOMAIN names : names[i] = names[j] => i = j
  /\ \A k \in DOMAIN env : k \in left <=> \A i \in DOMAIN names : names[i] # k

ListInv ==
  /\ env \in Envs /\ left \subseteq DOMAIN env
  /\ \E names \in Names : Collected(names)

ResultInv ==
  result # NotYet =>
    /\ left = {}
    /\ \E p \in Bijection(DOMAIN list, DOMAIN list) :
         Sorted(Arranged(p)) /\ result = Join(Arranged(p))

LEMMA Same ==
  ASSUME env' = env
  PROVE  Names' = Names /\ \A names : Listed(names)' = Listed(names)
<1>1. \A names : Listed(names)' = Listed(names)
  BY Zenon DEF Listed, Item
<1>2. Names' = Names
  BY Zenon DEF Names
<1> QED
  BY <1>1, <1>2, Zenon

LEMMA ListInit == Init => ListInv
<1> SUFFICES ASSUME Init PROVE ListInv
  OBVIOUS
<1>1. env \in Envs /\ left \subseteq DOMAIN env
  BY DEF Init
<1>2. <<>> \in Names /\ DOMAIN <<>> = {}
  BY DEF Names
<1>3. Collected(<<>>)
  BY <1>2, ListedEmpty DEF Collected, Init
<1> QED
  BY <1>1, <1>2, <1>3 DEF ListInv

LEMMA ListStep == ListInv /\ [Next]_vars => ListInv'
<1> SUFFICES ASSUME ListInv, [Next]_vars PROVE ListInv'
  OBVIOUS
<1>1. PICK names \in Names : Collected(names)
  BY DEF ListInv
<1>2. ASSUME UNCHANGED <<env, left, list>> PROVE ListInv'
  <2>1. Collected(names)'
    BY <1>1, <1>2, Same DEF Collected
  <2>2. (env \in Envs /\ left \subseteq DOMAIN env)'
    BY <1>2 DEF ListInv
  <2> QED
    BY <1>1, <1>2, <2>1, <2>2, Same DEF ListInv
<1>3. CASE Visit
  <2>1. PICK k \in left : list' = Append(list, Item(k)) /\ left' = left \ {k}
    BY <1>3 DEF Visit
  <2>2. env' = env /\ env \in Envs /\ k \in DOMAIN env /\ left' \subseteq DOMAIN env
    BY <1>3, <2>1 DEF Visit, ListInv
  <2>3. PICK n \in Nat : n = Len(names) /\ DOMAIN names = 1 .. n
    BY LenProperties DEF Names
  <2>4. PICK more \in Names : more = Append(names, k) /\ list' = Listed(more)
    BY <1>1, <2>1, <2>2, ListedAppend DEF Collected
  <2>5. /\ DOMAIN more = 1 .. n + 1 /\ more[n + 1] = k
        /\ \A i \in 1 .. n : more[i] = names[i]
    BY <2>3, <2>4, AppendProperties, LenProperties DEF Names
  <2>6. \A i \in 1 .. n : names[i] # k
    BY <1>1, <2>1, <2>2, <2>3 DEF Collected
  <2>7. \A i, j \in 1 .. n + 1 : more[i] = more[j] => i = j
    <3>1. \A i, j \in 1 .. n : names[i] = names[j] => i = j
      BY <1>1, <2>3 DEF Collected
    <3>2. \A i \in 1 .. n + 1 : i \in 1 .. n \/ i = n + 1
      OBVIOUS
    <3> QED
      BY <2>5, <2>6, <3>1, <3>2, Zenon
  <2>8. \A x \in DOMAIN env : x \in left' <=> \A i \in 1 .. n + 1 : more[i] # x
    <3>1. \A x \in DOMAIN env : x \in left <=> \A i \in 1 .. n : names[i] # x
      BY <1>1, <2>3 DEF Collected
    <3>2. \A i \in 1 .. n + 1 : i \in 1 .. n \/ i = n + 1
      OBVIOUS
    <3>3. n + 1 \in 1 .. n + 1 /\ \A i \in 1 .. n : i \in 1 .. n + 1
      OBVIOUS
    <3>4. \A x : x \in left' <=> x \in left /\ x # k
      BY <2>1
    <3> QED
      BY <2>5, <3>1, <3>2, <3>3, <3>4, Zenon
  <2>9. Collected(more)'
    BY <2>2, <2>4, <2>5, <2>7, <2>8, Same DEF Collected
  <2> QED
    BY <2>2, <2>9, Same DEF ListInv
<1>4. CASE Return
  BY <1>2, <1>4 DEF Return
<1>5. CASE UNCHANGED vars
  BY <1>2, <1>5 DEF vars
<1> QED
  BY <1>3, <1>4, <1>5 DEF Next

LEMMA ResultStep == ResultInv /\ [Next]_vars => ResultInv'
<1> SUFFICES ASSUME ResultInv, [Next]_vars PROVE ResultInv'
  OBVIOUS
<1>1. CASE Visit
  <2>1. result = NotYet
    BY <1>1 DEF Visit, ResultInv
  <2> QED
    BY <1>1, <2>1 DEF Visit, ResultInv
<1>2. CASE Return
  <2>1. PICK p \in Bijection(DOMAIN list, DOMAIN list) :
          Sorted(Arranged(p)) /\ result' = Join(Arranged(p))
    BY <1>2 DEF Return
  <2>2. list' = list /\ left' = {}
    BY <1>2 DEF Return
  <2>3. Arranged(p)' = Arranged(p)
    BY <2>2, Zenon DEF Arranged
  <2> QED
    BY <2>1, <2>2, <2>3, Zenon DEF ResultInv
<1>3. CASE UNCHANGED vars
  <2>1. list' = list /\ left' = left /\ result' = result
    BY <1>3 DEF vars
  <2>2. \A p : Arranged(p)' = Arranged(p)
    BY <2>1, Zenon DEF Arranged
  <2> QED
    BY <2>1, <2>2, Zenon DEF ResultInv
<1> QED
  BY <1>1, <1>2, <1>3 DEF Next

LEMMA Invariants == Spec => [](ListInv /\ ResultInv)
<1>1. Init => ListInv /\ ResultInv
  BY ListInit DEF Init, ResultInv
<1>2. ListInv /\ ResultInv /\ [Next]_vars => (ListInv /\ ResultInv)'
  BY ListStep, ResultStep
<1> QED
  BY <1>1, <1>2, PTL DEF Spec

(* The result is the join of a sorted list of all the variables.           *)
Complete(names) ==
  /\ \A i, j \in DOMAIN names : names[i] = names[j] => i = j
  /\ \A k \in DOMAIN env : \E i \in DOMAIN names : names[i] = k
  /\ Sorted(Listed(names))
  /\ result = Join(Listed(names))

LEMMA Returned ==
  ASSUME ListInv, ResultInv, result # NotYet
  PROVE  \E names \in Names : Complete(names)
<1>1. PICK names \in Names : Collected(names)
  BY DEF ListInv
<1>2. left = {}
  BY DEF ResultInv
<1>3. PICK p \in Bijection(DOMAIN list, DOMAIN list) :
        Sorted(Arranged(p)) /\ result = Join(Arranged(p))
  BY DEF ResultInv
<1>4. PICK n \in Nat : n = Len(names) /\ DOMAIN names = 1 .. n
  BY LenProperties DEF Names
<1>5. list = Listed(names) /\ DOMAIN list = 1 .. n
  BY <1>1, <1>4 DEF Collected, Listed
<1>6. /\ p \in [1 .. n -> 1 .. n]
      /\ \A i, j \in 1 .. n : p[i] = p[j] => i = j
      /\ \A j \in 1 .. n : \E i \in 1 .. n : p[i] = j
  <2>1. p \in Bijection(1 .. n, 1 .. n)
    BY <1>3, <1>5
  <2>2. p \in [1 .. n -> 1 .. n] /\ IsInjective(p) /\ DOMAIN p = 1 .. n
    BY <2>1 DEF Bijection, Injection
  <2>3. \A j \in 1 .. n : \E i \in 1 .. n : p[i] = j
    BY <2>1 DEF Bijection, Surjection
  <2> QED
    BY <2>2, <2>3 DEF IsInjective
<1>7. \A i \in 1 .. n : p[i] \in 1 .. n
  BY <1>6
<1>8. \A i \in 1 .. n : names[i] \in DOMAIN env
  BY <1>4, ElementOfSeq DEF Names
<1> DEFINE q == [i \in 1 .. n |-> names[p[i]]]
<1>9. q \in Names /\ DOMAIN q = 1 .. n /\ \A i \in 1 .. n : q[i] = names[p[i]]
  <2>1. q \in [1 .. n -> DOMAIN env] /\ DOMAIN q = 1 .. n /\ \A i \in 1 .. n : q[i] = names[p[i]]
    BY <1>7, <1>8
  <2> HIDE DEF q
  <2> QED
    BY <2>1, IsSequence DEF Names
<1> HIDE DEF q
<1>10. Arranged(p) = Listed(q)
  <2>1. ASSUME NEW i \in 1 .. n PROVE list[p[i]] = Item(q[i])
    BY <1>4, <1>5, <1>7, <1>9 DEF Listed
  <2> QED
    BY <1>5, <1>9, <2>1 DEF Arranged, Listed
<1>11. \A i, j \in 1 .. n : q[i] = q[j] => i = j
  <2>1. \A i, j \in 1 .. n : names[i] = names[j] => i = j
    BY <1>1, <1>4 DEF Collected
  <2> SUFFICES ASSUME NEW i \in 1 .. n, NEW j \in 1 .. n, q[i] = q[j] PROVE i = j
    OBVIOUS
  <2>2. names[p[i]] = names[p[j]]
    BY <1>9
  <2>3. p[i] = p[j]
    BY <1>7, <2>1, <2>2
  <2> QED
    BY <1>6, <2>3
<1>12. \A k \in DOMAIN env : \E i \in 1 .. n : q[i] = k
  <2>1. \A k \in DOMAIN env : \E i \in 1 .. n : names[i] = k
    BY <1>1, <1>2, <1>4 DEF Collected
  <2> SUFFICES ASSUME NEW k \in DOMAIN env PROVE \E i \in 1 .. n : q[i] = k
    OBVIOUS
  <2>2. PICK j \in 1 .. n : names[j] = k
    BY <2>1
  <2>3. PICK i \in 1 .. n : p[i] = j
    BY <1>6
  <2> QED
    BY <1>9, <2>2, <2>3
<1> QED
  BY <1>3, <1>9, <1>10, <1>11, <1>12 DEF Complete

(* Whatever the bytes of the names and the values, the environment can be  *)
(* read back from the key that Encode returns.                             *)
THEOREM ReadBack == Spec => []Unambiguous
<1>1. ListInv /\ ResultInv => Unambiguous
  <2> SUFFICES ASSUME ListInv, ResultInv, result # NotYet
               PROVE  Variables(result) = {<<k, env[k]>> : k \in DOMAIN env}
    BY DEF Unambiguous
  <2>1. PICK names \in Names : Complete(names)
    BY Returned
  <2>2. Variables(result) = Pairs(names)
    <3>1. env \in Envs
      BY DEF ListInv
    <3>2. Variables(Join(Listed(names))) = Pairs(names)
      BY <3>1, JoinReadBack
    <3> QED
      BY <2>1, <3>2 DEF Complete
  <2>3. Pairs(names) = {<<k, env[k]>> : k \in DOMAIN env}
    <3> DEFINE P(k) == <<k, env[k]>>
    <3>1. \A i \in DOMAIN names : names[i] \in DOMAIN env
      BY ElementOfSeq, LenProperties DEF Names
    <3>2. \A k \in DOMAIN env : \E i \in DOMAIN names : names[i] = k
      BY <2>1 DEF Complete
    <3>3. Pairs(names) = {P(names[i]) : i \in DOMAIN names}
      BY DEF Pairs
    <3> HIDE DEF P
    <3>4. {P(names[i]) : i \in DOMAIN names} = {P(k) : k \in DOMAIN env}
      BY <3>1, <3>2, Zenon
    <3> QED
      BY <3>3, <3>4 DEF P
  <2> QED
    BY <2>2, <2>3
<1> QED
  BY <1>1, Invariants, PTL

(* An environment has one key, in whatever order the loop comes to its     *)
(* variables and however the sort arranges them.                           *)
THEOREM OneKey == Spec => []Canonical
<1>1. ListInv /\ ResultInv => Canonical
  <2> SUFFICES ASSUME ListInv, ResultInv, result # NotYet
               PROVE  {result} = {Join(t) : t \in Listings({Item(k) : k \in DOMAIN env})}
    BY DEF Canonical
  <2>1. PICK names \in Names : Complete(names)
    BY Returned
  <2>2. PICK n \in Nat : n = Len(names) /\ DOMAIN names = 1 .. n
    BY LenProperties DEF Names
  <2>3. env \in Envs
    BY DEF ListInv
  <2>4. PICK items : items = {Item(k) : k \in DOMAIN env}
    OBVIOUS
  <2>5. items \in SUBSET Text
    BY <2>3, <2>4, ItemRun
  <2>6. PICK a : a = Listed(names)
    OBVIOUS
  <2>7. \A i \in 1 .. n : names[i] \in DOMAIN env
    BY <2>2, ElementOfSeq DEF Names
  <2>8. Lists(a, n, items)
    <3>1. DOMAIN a = 1 .. n /\ \A i \in 1 .. n : a[i] = Item(names[i])
      BY <2>2, <2>6 DEF Listed
    <3>2. a \in [1 .. n -> items]
      <4>1. a = [i \in 1 .. n |-> a[i]]
        BY <2>2, <2>6, <3>1 DEF Listed
      <4>2. \A i \in 1 .. n : a[i] \in items
        BY <2>4, <2>7, <3>1
      <4> QED
        BY <4>1, <4>2
    <3>3. IsInjective(a)
      <4> SUFFICES ASSUME NEW i \in 1 .. n, NEW j \in 1 .. n, a[i] = a[j] PROVE i = j
        BY <3>1 DEF IsInjective
      <4>1. Item(names[i]) = Item(names[j])
        BY <3>1
      <4>2. names[i] = names[j]
        BY <2>3, <2>7, <4>1, ItemInjective
      <4> QED
        BY <2>1, <2>2, <4>2 DEF Complete
    <3>4. Sorted(a)
      BY <2>1, <2>6 DEF Complete
    <3>5. \A x \in items : \E i \in 1 .. n : a[i] = x
      <4>1. \A k \in DOMAIN env : \E i \in 1 .. n : names[i] = k
        BY <2>1, <2>2 DEF Complete
      <4> QED
        BY <2>4, <3>1, <4>1
    <3> QED
      BY <3>2, <3>3, <3>4, <3>5 DEF Lists
  <2>9. IsFiniteSet(items) /\ Cardinality(items) = n
    BY <2>8, ListsCount
  <2>10. Listings(items) = {a}
    <3>1. a \in Listings(items)
      BY <2>8, <2>9 DEF Listings, Lists
    <3>2. ASSUME NEW t \in Listings(items) PROVE t = a
      <4>1. Lists(t, n, items)
        BY <2>9, ListingsAll
      <4> QED
        BY <2>5, <2>8, <4>1, SortedUnique
    <3> QED
      BY <3>1, <3>2
  <2>11. result = Join(a)
    BY <2>1, <2>6 DEF Complete
  <2>12. {Join(t) : t \in Listings(items)} = {result}
    BY <2>10, <2>11
  <2> QED
    BY <2>4, <2>12
<1> QED
  BY <1>1, Invariants, PTL
================================================================================
