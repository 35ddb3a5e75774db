--------------------------------- MODULE EnvKey ---------------------------------
(***************************************************************************)
(* util/envstr: the environment of a request as the string that runnerKey  *)
(* compares.  Encode ranges over a map, in an order that Go leaves open,   *)
(* and a string here is the sequence of its bytes.                         *)
(***************************************************************************)
EXTENDS Naturals, Sequences, SequencesExt

CONSTANTS
  Alphabet, \* the bytes that names and values are made of
  MaxLen,   \* bound: the length of a name or a value
  MaxVars   \* bound: the variables of an environment

Semicolon == 59
Equals    == 61
Backslash == 92
Special   == {Semicolon, Equals, Backslash}

ASSUME EnvAssumption ==
  /\ Special \subseteq Alphabet /\ Alphabet \subseteq 0 .. 255
  /\ MaxLen \in Nat /\ MaxVars \in Nat

VARIABLES
  env,   \* the argument
  left,  \* the variables the loop has not come to
  list,  \* what it has built
  result \* what Encode returned

vars == <<env, left, list, result>>

Strings == BoundedSeq(Alphabet, MaxLen)
Envs    == UNION {[names -> Strings] : names \in {n \in SUBSET Strings : Cardinality(n) <= MaxVars}}

NotYet == <<0>>

-----------------------------------------------------------------------------
Escape(b) == IF b \in Special THEN <<Backslash, b>> ELSE <<b>>

(* Mutant: the backslash itself is not escaped.                            *)
ReplaceSome(s) ==
  FlattenSeq([i \in DOMAIN s |-> IF s[i] = Backslash THEN <<s[i]>> ELSE Escape(s[i])])

(* replacer.Replace                                                        *)
Replace(s) == FlattenSeq([i \in DOMAIN s |-> Escape(s[i])])

Item(k) == Replace(k) \o <<Equals>> \o Replace(env[k])

(* The order of Go's strings: bytewise, a prefix first.                    *)
Before(s, t) ==
  \/ IsStrictPrefix(s, t)
  \/ \E i \in DOMAIN s \cap DOMAIN t :
       s[i] < t[i] /\ \A j \in 1 .. i - 1 : s[j] = t[j]

(* sort.Strings leaves an order of the list in which no string comes       *)
(* before an earlier one.                                                  *)
Sorted(items) == \A i, j \in DOMAIN items : i < j => ~Before(items[j], items[i])
Arranged(p)   == [i \in DOMAIN list |-> list[p[i]]]

(* strings.Join(list, ";")                                                 *)
Join(items) ==
  FlattenSeq([i \in DOMAIN items |-> IF i = 1 THEN items[i] ELSE <<Semicolon>> \o items[i]])

-----------------------------------------------------------------------------
Init ==
  /\ env \in Envs
  /\ left = DOMAIN env
  /\ list = <<>>
  /\ result = NotYet

Visit ==
  /\ \E k \in left : list' = Append(list, Item(k)) /\ left' = left \ {k}
  /\ UNCHANGED <<env, result>>

(* Mutant: the list is not sorted.                                         *)
ReturnUnsorted ==
  /\ left = {} /\ result = NotYet
  /\ result' = Join(list)
  /\ UNCHANGED <<env, left, list>>

Return ==
  /\ left = {} /\ result = NotYet
  /\ \E p \in Bijection(DOMAIN list, DOMAIN list) :
       Sorted(Arranged(p)) /\ result' = Join(Arranged(p))
  /\ UNCHANGED <<env, left, list>>

Next == Visit \/ Return \/ (result # NotYet /\ UNCHANGED vars)

Spec == Init /\ [][Next]_vars

-----------------------------------------------------------------------------
(* How a string is read back: a byte after a backslash stands for itself,  *)
(* else "=" ends a name and ";" a variable.                                *)
At(done, name, text, mode) ==
  [done |-> done, name |-> name, text |-> text, mode |-> mode]

Reader == At({}, <<>>, <<>>, "plain")

Read(r, b) ==
  IF r.mode = "escaped" THEN At(r.done, r.name, Append(r.text, b), "plain")
  ELSE CASE b = Backslash -> At(r.done, r.name, r.text, "escaped")
         [] b = Equals    -> At(r.done, r.text, <<>>, "plain")
         [] b = Semicolon -> At(r.done \cup {<<r.name, r.text>>}, <<>>, <<>>, "plain")
         [] OTHER         -> At(r.done, r.name, Append(r.text, b), "plain")

Variables(s) ==
  LET read[i \in 0 .. Len(s)] == IF i = 0 THEN Reader ELSE Read(read[i - 1], s[i])
      last == read[Len(s)]
  IN  IF s = <<>> THEN {} ELSE last.done \cup {<<last.name, last.text>>}

(* envstr.go: "in a way that is safe to compare, to know if the            *)
(* environemnt is the same or not" - the environment can be read back, so  *)
(* that two environments with one key are the same.                        *)
Unambiguous ==
  result # NotYet => Variables(result) = {<<k, env[k]>> : k \in DOMAIN env}

(* The same environment has one key, whatever the order of the loop and    *)
(* however sort.Strings arranges the list: there is one sorted listing.    *)
Listings(items) ==
  {t \in [1 .. Cardinality(items) -> items] : IsInjective(t) /\ Sorted(t)}

Canonical ==
  result # NotYet =>
    {result} = {Join(t) : t \in Listings({Item(k) : k \in DOMAIN env})}
================================================================================
