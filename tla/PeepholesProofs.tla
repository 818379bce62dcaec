-------------------------- MODULE PeepholesProofs --------------------------
(* Inputs, users and the walk of Peepholes agree on any program that         *)
(* satisfies ProgramAssumption, for any number of instructions and blocks.   *)
EXTENDS Peepholes, FiniteSetTheorems, SequenceTheorems, WellFoundedInduction, TLAPS

-----------------------------------------------------------------------------
(* How often a sequence has an entry.                                        *)

PlacesOf(s, e) == {i \in DOMAIN s : s[i] = e}

\* The number is that of a finite set of places.
LEMMA OccurrencesParts ==
  ASSUME NEW S, NEW s \in Seq(S), NEW e
  PROVE  /\ PlacesOf(s, e) \in SUBSET (1..Len(s)) /\ IsFiniteSet(PlacesOf(s, e))
         /\ Occurrences(s, e) = Cardinality(PlacesOf(s, e))
         /\ Occurrences(s, e) \in Nat
         /\ Occurrences(s, e) = 0 <=> e \notin ToSet(s)
<1>1. Len(s) \in Nat /\ DOMAIN s = 1..Len(s)
  BY LenProperties
<1>2. PlacesOf(s, e) \in SUBSET (1..Len(s)) /\ IsFiniteSet(PlacesOf(s, e))
  <2>1. PlacesOf(s, e) \in SUBSET (1..Len(s))
    BY <1>1 DEF PlacesOf
  <2>2. IsFiniteSet(1..Len(s))
    BY <1>1, FS_Interval
  <2> QED
    BY <2>1, <2>2, FS_Subset
<1>3. Occurrences(s, e) = Cardinality(PlacesOf(s, e))
  BY DEF Occurrences, PlacesOf
<1>4. Occurrences(s, e) \in Nat
  BY <1>2, <1>3, FS_CardinalityType
<1>5. Occurrences(s, e) = 0 <=> PlacesOf(s, e) = {}
  BY <1>2, <1>3, FS_EmptySet
<1> QED
  BY <1>2, <1>3, <1>4, <1>5 DEF PlacesOf, ToSet

LEMMA OccurrencesEmpty ==
  ASSUME NEW e
  PROVE  Occurrences(<<>>, e) = 0
<1>1. {i \in DOMAIN <<>> : <<>>[i] = e} = {}
  OBVIOUS
<1> QED
  BY <1>1, FS_EmptySet DEF Occurrences

LEMMA OccurrencesOne ==
  ASSUME NEW S, NEW d \in S, NEW e
  PROVE  /\ <<d>> \in Seq(S)
         /\ Occurrences(<<d>>, e) = IF d = e THEN 1 ELSE 0
<1>1. <<d>> \in Seq(S) /\ DOMAIN <<d>> = {1} /\ <<d>>[1] = d
  OBVIOUS
<1>2. PlacesOf(<<d>>, e) = IF d = e THEN {1} ELSE {}
  BY <1>1 DEF PlacesOf
<1>3. Cardinality({1}) = 1 /\ Cardinality({}) = 0
  BY FS_Singleton, FS_EmptySet
<1>4. Occurrences(<<d>>, e) = Cardinality(PlacesOf(<<d>>, e))
  BY DEF Occurrences, PlacesOf
<1> QED
  BY <1>1, <1>2, <1>3, <1>4

LEMMA OccurrencesConcat ==
  ASSUME NEW S, NEW s \in Seq(S), NEW t \in Seq(S), NEW e
  PROVE  /\ s \o t \in Seq(S)
         /\ Occurrences(s \o t, e) = Occurrences(s, e) + Occurrences(t, e)
<1> DEFINE m == Len(s)
           n == Len(t)
           r == s \o t
           A == PlacesOf(s, e)
           B == PlacesOf(t, e)
           C == {i \in m + 1..m + n : r[i] = e}
           f == [i \in B |-> i + m]
<1>1. /\ m \in Nat /\ DOMAIN s = 1..m
      /\ n \in Nat /\ DOMAIN t = 1..n
  BY LenProperties
<1>2. /\ r \in Seq(S) /\ Len(r) = m + n
      /\ \A i \in 1..m + n : r[i] = IF i <= m THEN s[i] ELSE t[i - m]
  BY <1>1, ConcatProperties
<1>3. DOMAIN r = 1..m + n
  BY <1>2, LenProperties
<1> HIDE DEF m, n, r
<1>4. PlacesOf(r, e) = A \cup C /\ A \cap C = {}
  BY <1>1, <1>2, <1>3 DEF PlacesOf
<1>5. f \in Bijection(B, C)
  <2>1. \A i \in B : i \in 1..n /\ t[i] = e
    BY <1>1 DEF PlacesOf
  <2>2. \A i \in B : i + m \in C
    BY <1>1, <1>2, <2>1
  <2>3. ASSUME NEW k \in C
        PROVE  k - m \in B /\ (k - m) + m = k
    <3>1. k \in 1..m + n /\ ~(k <= m) /\ k - m \in 1..n /\ (k - m) + m = k
      BY <1>1
    <3>2. t[k - m] = e
      BY <1>2, <3>1
    <3> QED
      BY <1>1, <3>1, <3>2 DEF PlacesOf
  <2>4. \A i, j \in B : i + m = j + m => i = j
    BY <1>1, <2>1
  <2> HIDE DEF B, C
  <2>5. f \in [B -> C]
    BY <2>2
  <2>6. \A i, j \in B : f[i] = f[j] => i = j
    BY <2>4
  <2>7. \A k \in C : \E i \in B : f[i] = k
    BY <2>3
  <2> QED
    BY <2>5, <2>6, <2>7 DEF Bijection, Injection, Surjection, IsInjective
<1>6. IsFiniteSet(A) /\ IsFiniteSet(B)
  BY OccurrencesParts
<1>7. IsFiniteSet(C) /\ Cardinality(C) = Cardinality(B)
  <2>1. ExistsBijection(B, C)
    BY <1>5, Zenon DEF ExistsBijection
  <2> HIDE DEF B, C
  <2> QED
    BY <1>6, <2>1, FS_Bijection
<1>8. Cardinality(A \cup C) = Cardinality(A) + Cardinality(C) - Cardinality(A \cap C)
  BY <1>6, <1>7, FS_Union
<1>9. Cardinality(A) \in Nat /\ Cardinality(C) \in Nat /\ Cardinality(A \cap C) = 0
  BY <1>4, <1>6, <1>7, FS_CardinalityType, FS_EmptySet
<1>10. /\ Occurrences(r, e) = Cardinality(PlacesOf(r, e))
       /\ Occurrences(s, e) = Cardinality(A) /\ Occurrences(t, e) = Cardinality(B)
  BY <1>2, OccurrencesParts
<1> HIDE DEF A, B, C
<1>11. Occurrences(r, e) = Occurrences(s, e) + Occurrences(t, e)
  BY <1>4, <1>7, <1>8, <1>9, <1>10
<1> QED
  BY <1>2, <1>11 DEF r

-----------------------------------------------------------------------------
(* Taking out and replacing entries.                                         *)

\* A set of numbers has a least one.
LEMMA LeastNumber ==
  ASSUME NEW S \in SUBSET Nat, S # {}
  PROVE  \E m \in S : \A k \in S : m <= k
<1> DEFINE R == OpToRel(<, Nat)
<1>1. PICK m \in S : \A k \in S : <<k, m>> \notin R
  <2>1. IsWellFoundedOn(R, Nat)
    BY NatLessThanWellFounded
  <2> HIDE DEF R
  <2> QED
    BY <2>1, WFMin
<1>2. \A k \in S : ~(k < m)
  BY <1>1 DEF OpToRel
<1> QED
  BY <1>2

\* PlaceOf finds the first of the places.
LEMMA PlaceOfParts ==
  ASSUME NEW S, NEW s \in Seq(S), NEW e \in ToSet(s)
  PROVE  /\ PlaceOf(s, e) \in 1..Len(s) /\ s[PlaceOf(s, e)] = e
         /\ \A i \in 1..Len(s) : s[i] = e => PlaceOf(s, e) <= i
<1> DEFINE I == {i \in 1..Len(s) : s[i] = e}
<1>1. Len(s) \in Nat /\ DOMAIN s = 1..Len(s)
  BY LenProperties
<1>2. I # {} /\ I \in SUBSET Nat
  BY <1>1 DEF ToSet
<1>3. PlaceOf(s, e) = IF I # {} THEN Min(I) ELSE 0
  BY Zenon DEF PlaceOf, SelectInSeq
<1>4. Min(I) = CHOOSE x \in I : \A y \in I : x <= y
  BY Zenon DEF Min
<1>5. \E m \in I : \A k \in I : m <= k
  <2> HIDE DEF I
  <2> QED
    BY <1>2, LeastNumber
<1>6. Min(I) \in I /\ \A k \in I : Min(I) <= k
  BY <1>4, <1>5
<1> QED
  BY <1>2, <1>3, <1>6

\* RemoveFirst closes the gap.
LEMMA RemoveFirstParts ==
  ASSUME NEW S, NEW s \in Seq(S), NEW e \in ToSet(s)
  PROVE  LET k == PlaceOf(s, e)
             r == RemoveFirst(s, e)
         IN /\ r = SubSeq(s, 1, k - 1) \o SubSeq(s, k + 1, Len(s))
            /\ r \in Seq(S) /\ Len(r) = Len(s) - 1
            /\ \A i \in 1..Len(s) - 1 : r[i] = IF i < k THEN s[i] ELSE s[i + 1]
<1> DEFINE n == Len(s)
           k == PlaceOf(s, e)
           p == SubSeq(s, 1, k - 1)
           q == SubSeq(s, k + 1, n)
<1>1. n \in Nat /\ DOMAIN s = 1..n /\ \A i \in 1..n : s[i] \in S
  BY LenProperties, ElementOfSeq
<1>2. k \in 1..n
  BY PlaceOfParts
<1>3. RemoveFirst(s, e) = p \o q
  <2>1. \E i \in 1..Len(s) : s[i] = e
    BY <1>1 DEF ToSet
  <2>2. RemoveFirst(s, e) = IF \E i \in 1..Len(s) : s[i] = e
                            THEN RemoveAt(s, PlaceOf(s, e)) ELSE s
    BY Zenon DEF RemoveFirst, PlaceOf
  <2> QED
    BY <2>1, <2>2 DEF RemoveAt
<1> HIDE DEF n, k
<1>4. /\ p \in Seq(S) /\ Len(p) = k - 1
      /\ \A i \in 1..k - 1 : p[i] = s[i]
  <2>1. \A i \in 1..k - 1 : s[i] \in S
    BY <1>1, <1>2
  <2>2. /\ p \in Seq(S) /\ Len(p) = IF 1 <= k - 1 THEN (k - 1) - 1 + 1 ELSE 0
        /\ \A i \in 1..(k - 1) - 1 + 1 : p[i] = s[1 + i - 1]
    BY <1>1, <1>2, <2>1, SubSeqProperties
  <2> QED
    BY <1>1, <1>2, <2>2
<1>5. /\ q \in Seq(S) /\ Len(q) = n - k
      /\ \A i \in 1..n - k : q[i] = s[k + i]
  <2>1. \A i \in k + 1..n : s[i] \in S
    BY <1>1, <1>2
  <2>2. /\ q \in Seq(S) /\ Len(q) = IF k + 1 <= n THEN n - (k + 1) + 1 ELSE 0
        /\ \A i \in 1..n - (k + 1) + 1 : q[i] = s[(k + 1) + i - 1]
    BY <1>1, <1>2, <2>1, SubSeqProperties
  <2> QED
    BY <1>1, <1>2, <2>2
<1> HIDE DEF p, q
<1>6. /\ p \o q \in Seq(S) /\ Len(p \o q) = (k - 1) + (n - k)
      /\ \A i \in 1..(k - 1) + (n - k) : (p \o q)[i] = IF i <= k - 1 THEN p[i] ELSE q[i - (k - 1)]
  <2>1. /\ p \o q \in Seq(S) /\ Len(p \o q) = Len(p) + Len(q)
        /\ \A i \in 1..Len(p) + Len(q) : (p \o q)[i] = IF i <= Len(p) THEN p[i] ELSE q[i - Len(p)]
    BY <1>4, <1>5, ConcatProperties
  <2> QED
    BY <1>4, <1>5, <2>1
<1>7. \A i \in 1..n - 1 : (p \o q)[i] = IF i < k THEN s[i] ELSE s[i + 1]
  <2> TAKE i \in 1..n - 1
  <2>1. (p \o q)[i] = IF i <= k - 1 THEN p[i] ELSE q[i - (k - 1)]
    BY <1>1, <1>2, <1>6
  <2>2. CASE i < k
    BY <1>1, <1>2, <1>4, <2>1, <2>2
  <2>3. CASE i >= k
    <3>1. i - (k - 1) \in 1..n - k /\ k + (i - (k - 1)) = i + 1
      BY <1>1, <1>2, <2>3
    <3> QED
      BY <1>1, <1>2, <1>5, <2>1, <2>3, <3>1
  <2>4. i < k \/ i >= k
    BY <1>1, <1>2
  <2> QED
    BY <1>1, <1>2, <2>2, <2>3, <2>4
<1>8. Len(p \o q) = n - 1
  BY <1>1, <1>2, <1>6
<1> QED
  BY <1>3, <1>6, <1>7, <1>8 DEF p, q, n, k

\* A sequence cut at one of its places.
LEMMA OccurrencesCut ==
  ASSUME NEW S, NEW s \in Seq(S), NEW k \in 1..Len(s), NEW e
  PROVE  /\ SubSeq(s, 1, k - 1) \in Seq(S) /\ SubSeq(s, k + 1, Len(s)) \in Seq(S)
         /\ SubSeq(s, 1, k) \in Seq(S)
         /\ Occurrences(SubSeq(s, 1, k), e) =
              Occurrences(SubSeq(s, 1, k - 1), e) + (IF s[k] = e THEN 1 ELSE 0)
         /\ Occurrences(s, e) =
              Occurrences(SubSeq(s, 1, k), e) + Occurrences(SubSeq(s, k + 1, Len(s)), e)
<1> DEFINE n == Len(s)
           p == SubSeq(s, 1, k - 1)
           q == SubSeq(s, k + 1, n)
<1>1. n \in Nat /\ \A i \in 1..n : s[i] \in S
  BY LenProperties, ElementOfSeq
<1>2. p \in Seq(S) /\ q \in Seq(S) /\ SubSeq(s, 1, k) \in Seq(S)
  <2>1. \A i \in 1..k : s[i] \in S
    BY <1>1
  <2>2. \A i \in 1..k - 1 : s[i] \in S
    BY <1>1
  <2>3. \A i \in k + 1..n : s[i] \in S
    BY <1>1
  <2> QED
    BY <1>1, <2>1, <2>2, <2>3, SubSeqProperties
<1>3. SubSeq(s, 1, k) = p \o <<s[k]>>
  BY <1>1, SubSeqRecursiveSecond
<1>4. s = SubSeq(s, 1, k) \o q
  <2>1. SubSeq(s, 1, k) \o SubSeq(s, k + 1, n) = SubSeq(s, 1, n)
    BY <1>1, ConcatAdjacentSubSeq
  <2> QED
    BY <2>1, SubSeqFull
<1>5. <<s[k]>> \in Seq(S) /\ Occurrences(<<s[k]>>, e) = IF s[k] = e THEN 1 ELSE 0
  <2>1. s[k] \in S
    BY <1>1
  <2> QED
    BY <2>1, OccurrencesOne
<1>6. Occurrences(SubSeq(s, 1, k), e) = Occurrences(p, e) + (IF s[k] = e THEN 1 ELSE 0)
  <2> DEFINE u == <<s[k]>>
  <2>1. p \in Seq(S) /\ u \in Seq(S) /\ SubSeq(s, 1, k) = p \o u
    BY <1>2, <1>3, <1>5
  <2> HIDE DEF p, u
  <2>2. Occurrences(p \o u, e) = Occurrences(p, e) + Occurrences(u, e)
    BY <2>1, OccurrencesConcat
  <2> QED
    BY <1>5, <2>1, <2>2 DEF u
<1>7. Occurrences(SubSeq(s, 1, k) \o q, e) = Occurrences(SubSeq(s, 1, k), e) + Occurrences(q, e)
  <2> DEFINE r == SubSeq(s, 1, k)
  <2> HIDE DEF q, r
  <2>1. q \in Seq(S) /\ r \in Seq(S)
    BY <1>2 DEF r
  <2>2. Occurrences(r \o q, e) = Occurrences(r, e) + Occurrences(q, e)
    BY <2>1, OccurrencesConcat
  <2> QED
    BY <2>2 DEF r
<1>8. Occurrences(s, e) = Occurrences(SubSeq(s, 1, k), e) + Occurrences(q, e)
  BY <1>4, <1>7
<1> QED
  BY <1>2, <1>6, <1>8

LEMMA OccurrencesRemoved ==
  ASSUME NEW S, NEW s \in Seq(S), NEW e \in ToSet(s), NEW d
  PROVE  Occurrences(RemoveFirst(s, e), d) = Occurrences(s, d) - (IF d = e THEN 1 ELSE 0)
<1> DEFINE k == PlaceOf(s, e)
           p == SubSeq(s, 1, k - 1)
           q == SubSeq(s, k + 1, Len(s))
<1>1. k \in 1..Len(s) /\ s[k] = e
  BY PlaceOfParts
<1>2. RemoveFirst(s, e) = p \o q
  BY RemoveFirstParts
<1> HIDE DEF k
<1>3. /\ p \in Seq(S) /\ q \in Seq(S)
      /\ Occurrences(SubSeq(s, 1, k), d) = Occurrences(p, d) + (IF s[k] = d THEN 1 ELSE 0)
      /\ Occurrences(s, d) = Occurrences(SubSeq(s, 1, k), d) + Occurrences(q, d)
  BY <1>1, OccurrencesCut
<1>4. Occurrences(p \o q, d) = Occurrences(p, d) + Occurrences(q, d)
  <2> HIDE DEF p, q
  <2> QED
    BY <1>3, OccurrencesConcat
<1>5. Occurrences(p, d) \in Nat /\ Occurrences(q, d) \in Nat
  BY <1>3, OccurrencesParts
<1> HIDE DEF p, q
<1>6. CASE d = e
  BY <1>1, <1>2, <1>3, <1>4, <1>5, <1>6
<1>7. CASE d # e
  BY <1>1, <1>2, <1>3, <1>4, <1>5, <1>7
<1> QED
  BY <1>6, <1>7

\* Replacing an entry as often as it occurs replaces it everywhere.
LEMMA ReplacedInput ==
  ASSUME NEW S, NEW s \in Seq(S), NEW old, NEW new \in S, new # old
  PROVE  LET t == ReplaceInput(s, Occurrences(s, old), old, new)
         IN /\ t \in Seq(S) /\ Len(t) = Len(s)
            /\ \A i \in 1..Len(s) : t[i] = IF s[i] = old THEN new ELSE s[i]
            /\ Occurrences(t, old) = 0
            /\ Occurrences(t, new) = Occurrences(s, new) + Occurrences(s, old)
            /\ \A e : e \notin {old, new} => Occurrences(t, e) = Occurrences(s, e)
<1> DEFINE t == ReplaceInput(s, Occurrences(s, old), old, new)
<1>1. Len(s) \in Nat /\ DOMAIN s = 1..Len(s) /\ \A i \in 1..Len(s) : s[i] \in S
  BY LenProperties, ElementOfSeq
<1>2. \A i \in 1..Len(s) : Occurrences(SubSeq(s, 1, i), old) <= Occurrences(s, old)
  <2> TAKE i \in 1..Len(s)
  <2>1. /\ SubSeq(s, 1, i) \in Seq(S) /\ SubSeq(s, i + 1, Len(s)) \in Seq(S)
        /\ Occurrences(s, old) = Occurrences(SubSeq(s, 1, i), old)
                                   + Occurrences(SubSeq(s, i + 1, Len(s)), old)
    BY OccurrencesCut
  <2>2. /\ Occurrences(SubSeq(s, 1, i), old) \in Nat
        /\ Occurrences(SubSeq(s, i + 1, Len(s)), old) \in Nat
    BY <2>1, OccurrencesParts
  <2> QED
    BY <2>1, <2>2
<1>3. t = [i \in DOMAIN s |-> IF s[i] = old THEN new ELSE s[i]]
  BY <1>1, <1>2 DEF ReplaceInput
<1>4. t \in [1..Len(s) -> S]
  BY <1>1, <1>3
<1>5. t \in Seq(S)
  BY <1>1, <1>4, SeqDef
<1>6. Len(t) = Len(s) /\ DOMAIN t = 1..Len(s)
  BY <1>1, <1>4, <1>5, LenProperties
<1>7. \A i \in 1..Len(s) : t[i] = IF s[i] = old THEN new ELSE s[i]
  BY <1>1, <1>3
<1> HIDE DEF t
<1>8. Occurrences(t, old) = 0
  BY <1>5, <1>6, <1>7, OccurrencesParts DEF ToSet
<1>9. Occurrences(t, new) = Occurrences(s, new) + Occurrences(s, old)
  <2> DEFINE A == PlacesOf(s, new)
             B == PlacesOf(s, old)
  <2>1. PlacesOf(t, new) = A \cup B /\ A \cap B = {}
    BY <1>1, <1>6, <1>7 DEF PlacesOf
  <2>2. /\ IsFiniteSet(A) /\ Cardinality(A) = Occurrences(s, new)
        /\ IsFiniteSet(B) /\ Cardinality(B) = Occurrences(s, old)
        /\ Cardinality(PlacesOf(t, new)) = Occurrences(t, new)
        /\ Occurrences(s, new) \in Nat /\ Occurrences(s, old) \in Nat
    BY <1>5, OccurrencesParts
  <2> HIDE DEF A, B
  <2>3. Cardinality(A \cup B) = Cardinality(A) + Cardinality(B) - Cardinality(A \cap B)
    BY <2>2, FS_Union
  <2>4. Cardinality(A \cap B) = 0
    BY <2>1, FS_EmptySet
  <2> QED
    BY <2>1, <2>2, <2>3, <2>4
<1>10. ASSUME NEW e, e \notin {old, new}
       PROVE  Occurrences(t, e) = Occurrences(s, e)
  <2>1. PlacesOf(t, e) = PlacesOf(s, e)
    BY <1>1, <1>6, <1>7, <1>10 DEF PlacesOf
  <2> QED
    BY <1>5, <2>1, OccurrencesParts
<1> QED
  BY <1>5, <1>6, <1>7, <1>8, <1>9, <1>10 DEF t

-----------------------------------------------------------------------------
(***************************************************************************)
(* Instructions and the two calls that change the data flow.  A rewrite    *)
(* leaves the opcodes and immediates, and what it makes of the users of a  *)
(* value is a matter of how often each is listed.                          *)
(***************************************************************************)

Typed(ins) == ins \in Seq(InstructionsOver(DOMAIN ins))

Listed(ins, v, u) == Occurrences(ins[v].users, u)
Reads(ins, u, v) == Occurrences(ins[u].in, v)

LEMMA TypedParts ==
  ASSUME NEW ins, Typed(ins)
  PROVE  /\ Len(ins) \in Nat /\ DOMAIN ins = 1..Len(ins)
         /\ \A x \in DOMAIN ins :
              /\ ins[x] \in InstructionsOver(DOMAIN ins)
              /\ ins[x].op \in Operations \cup {"ARG", "CONST", "RET"}
              /\ ins[x].in \in Seq(DOMAIN ins) /\ ins[x].users \in Seq(DOMAIN ins)
              /\ ins[x].imm \in Nat
<1>1. Len(ins) \in Nat /\ DOMAIN ins = 1..Len(ins)
  BY LenProperties DEF Typed
<1>2. \A x \in DOMAIN ins : ins[x] \in InstructionsOver(DOMAIN ins)
  BY <1>1, ElementOfSeq DEF Typed
<1> QED
  BY <1>1, <1>2 DEF InstructionsOver

\* Instructions put together place by place.
LEMMA TypedBuilt ==
  ASSUME NEW ins, Typed(ins), NEW out, DOMAIN out = DOMAIN ins,
         out = [x \in DOMAIN out |-> out[x]],
         \A x \in DOMAIN ins : out[x] \in InstructionsOver(DOMAIN ins)
  PROVE  Typed(out) /\ Len(out) = Len(ins)
<1>1. Len(ins) \in Nat /\ DOMAIN ins = 1..Len(ins)
  BY TypedParts
<1>2. out \in [1..Len(ins) -> InstructionsOver(DOMAIN ins)]
  BY <1>1
<1>3. out \in Seq(InstructionsOver(DOMAIN ins))
  BY <1>1, <1>2, SeqDef
<1>4. Len(out) = Len(ins)
  BY <1>1, <1>2, <1>3, LenProperties
<1> QED
  BY <1>3, <1>4 DEF Typed

LEMMA BuildConstParts ==
  ASSUME NEW ins, Typed(ins), NEW v \in Nat
  PROVE  LET out == BuildConst(ins, v)
             new == Len(ins) + 1
         IN /\ Typed(out) /\ Len(out) = new /\ DOMAIN out = 1..new
            /\ \A x \in DOMAIN ins : x \in DOMAIN out /\ out[x] = ins[x]
            /\ new \in DOMAIN out /\ new \notin DOMAIN ins
            /\ out[new].op = "CONST" /\ out[new].in = <<>> /\ out[new].imm = v
            /\ out[new].users = <<>>
<1> DEFINE n == Len(ins)
           c == [op |-> "CONST", in |-> <<>>, imm |-> v, users |-> <<>>]
           out == Append(ins, c)
           T == InstructionsOver(1..n + 1)
<1>1. n \in Nat /\ DOMAIN ins = 1..n
  BY TypedParts
<1>2. \A x \in 1..n : ins[x] \in T
  <2> TAKE x \in 1..n
  <2>1. ins[x] \in InstructionsOver(1..n)
    BY <1>1, TypedParts
  <2>2. \A s \in Seq(1..n) : s \in Seq(1..n + 1)
    <3>1. 1..n \subseteq 1..n + 1
      BY <1>1
    <3> QED
      BY <3>1, SeqMonotonic
  <2> QED
    BY <2>1, <2>2 DEF InstructionsOver
<1>3. c \in T
  <2>1. <<>> \in Seq(1..n + 1)
    BY EmptySeq
  <2> QED
    BY <2>1 DEF InstructionsOver
<1>4. ins \in Seq(T)
  <2>1. ins \in [1..n -> T]
    BY <1>1, <1>2, LenProperties DEF Typed
  <2> QED
    BY <1>1, <2>1, SeqDef
<1> HIDE DEF c, T, n
<1>5. /\ out \in Seq(T) /\ Len(out) = n + 1
      /\ \A x \in 1..n : out[x] = ins[x]
      /\ out[n + 1] = c
  BY <1>1, <1>3, <1>4, AppendProperties DEF n
<1>6. DOMAIN out = 1..n + 1
  BY <1>5, LenProperties
<1>7. Typed(out)
  BY <1>5, <1>6 DEF Typed, T
<1>8. out = BuildConst(ins, v)
  BY DEF BuildConst, c
<1> HIDE DEF out
<1> QED
  BY <1>1, <1>5, <1>6, <1>7, <1>8 DEF n, c

\* RemoveUser, for a user that is listed.
LEMMA RemoveUserParts ==
  ASSUME NEW ins, Typed(ins), NEW x \in DOMAIN ins, NEW user \in ToSet(ins[x].users)
  PROVE  LET out == RemoveUser(ins, x, user)
         IN /\ Typed(out) /\ Len(out) = Len(ins) /\ DOMAIN out = DOMAIN ins
            /\ \A z \in DOMAIN ins :
                 /\ out[z].op = ins[z].op /\ out[z].imm = ins[z].imm /\ out[z].in = ins[z].in
                 /\ \A u : Listed(out, z, u)
                             = Listed(ins, z, u) - (IF z = x /\ u = user THEN 1 ELSE 0)
<1> DEFINE out == RemoveUser(ins, x, user)
           new == RemoveFirst(ins[x].users, user)
<1>1. \A z \in DOMAIN ins : ins[z] \in InstructionsOver(DOMAIN ins)
  BY TypedParts
<1>2. ins[x].users \in Seq(DOMAIN ins)
  BY TypedParts
<1>3. new \in Seq(DOMAIN ins)
  BY <1>2, RemoveFirstParts
<1>4. \A u : Occurrences(new, u) = Occurrences(ins[x].users, u) - (IF u = user THEN 1 ELSE 0)
  BY <1>2, OccurrencesRemoved
<1>5. out = [ins EXCEPT ![x].users = new]
  BY DEF RemoveUser
<1> HIDE DEF new
<1>6. DOMAIN out = DOMAIN ins /\ out = [z \in DOMAIN out |-> out[z]]
  BY <1>5
<1>7. \A z \in DOMAIN ins :
        out[z] = IF z = x THEN [ins[x] EXCEPT !.users = new] ELSE ins[z]
  BY <1>5
<1>8. [ins[x] EXCEPT !.users = new] \in InstructionsOver(DOMAIN ins)
  BY <1>1, <1>3 DEF InstructionsOver
<1>9. /\ [ins[x] EXCEPT !.users = new].op = ins[x].op
      /\ [ins[x] EXCEPT !.users = new].imm = ins[x].imm
      /\ [ins[x] EXCEPT !.users = new].in = ins[x].in
      /\ [ins[x] EXCEPT !.users = new].users = new
  BY <1>1 DEF InstructionsOver
<1> HIDE DEF out
<1>10. \A z \in DOMAIN ins : out[z] \in InstructionsOver(DOMAIN ins)
  BY <1>1, <1>7, <1>8
<1>11. Typed(out) /\ Len(out) = Len(ins)
  BY <1>6, <1>10, TypedBuilt
<1>12. \A z \in DOMAIN ins : out[z].op = ins[z].op /\ out[z].imm = ins[z].imm /\ out[z].in = ins[z].in
  BY <1>7, <1>9
<1>13. \A z \in DOMAIN ins : out[z].users = IF z = x THEN new ELSE ins[z].users
  BY <1>7, <1>9
<1>14. ASSUME NEW z \in DOMAIN ins, NEW u
       PROVE  Listed(out, z, u) = Listed(ins, z, u) - (IF z = x /\ u = user THEN 1 ELSE 0)
  <2>1. CASE z = x
    BY <1>4, <1>13, <2>1 DEF Listed
  <2>2. CASE z # x
    <3>1. Listed(ins, z, u) \in Nat
      BY TypedParts, OccurrencesParts DEF Listed
    <3> QED
      BY <1>13, <2>2, <3>1 DEF Listed
  <2> QED
    BY <2>1, <2>2
<1> QED
  BY <1>6, <1>11, <1>12, <1>14 DEF out

\* ReplaceInputInUsers, for users that read old as often as they are listed.
Moves(ins, out, old, new) ==
  /\ Typed(out) /\ Len(out) = Len(ins) /\ DOMAIN out = DOMAIN ins
  /\ \A z \in DOMAIN ins :
       /\ out[z].op = ins[z].op /\ out[z].imm = ins[z].imm
       /\ \A u : Listed(out, z, u)
                   = Listed(ins, z, u) + (IF z = new THEN Listed(ins, old, u) ELSE 0)
       /\ Len(out[z].in) = Len(ins[z].in)
       /\ Listed(ins, old, z) = Reads(ins, z, old) =>
            /\ \A i \in 1..Len(ins[z].in) :
                 out[z].in[i] = IF ins[z].in[i] = old THEN new ELSE ins[z].in[i]
            /\ \A v : Reads(out, z, v) =
                 IF v = old THEN 0
                 ELSE Reads(ins, z, v) + (IF v = new THEN Reads(ins, z, old) ELSE 0)

LEMMA ReplaceInputInUsersParts ==
  ASSUME NEW ins, Typed(ins), NEW old \in DOMAIN ins, NEW new \in DOMAIN ins, new # old
  PROVE  Moves(ins, ReplaceInputInUsers(ins, old, new), old, new)
<1> DEFINE out == ReplaceInputInUsers(ins, old, new)
           D == DOMAIN ins
           In(z) == ReplaceInput(ins[z].in, Occurrences(ins[old].users, z), old, new)
           Users(z) == IF z = new THEN ins[z].users \o ins[old].users ELSE ins[z].users
<1>1. \A z \in D : /\ ins[z] \in InstructionsOver(D)
                   /\ ins[z].in \in Seq(D) /\ ins[z].users \in Seq(D)
  BY TypedParts
<1>2. ASSUME NEW z \in D
      PROVE  In(z) \in Seq(D) /\ Len(In(z)) = Len(ins[z].in)
  <2> DEFINE s == ins[z].in
             m == Occurrences(ins[old].users, z)
             t == ReplaceInput(s, m, old, new)
  <2>1. s \in Seq(D) /\ Len(s) \in Nat /\ DOMAIN s = 1..Len(s) /\ \A i \in 1..Len(s) : s[i] \in D
    BY <1>1, LenProperties, ElementOfSeq
  <2> HIDE DEF s, m
  <2>2. t \in [1..Len(s) -> D]
    BY <2>1 DEF ReplaceInput
  <2>3. t \in Seq(D)
    BY <2>1, <2>2, SeqDef
  <2>4. Len(t) = Len(s)
    BY <2>1, <2>2, <2>3, LenProperties
  <2> QED
    BY <2>3, <2>4 DEF s, m
<1>3. ASSUME NEW z \in D
      PROVE  /\ Users(z) \in Seq(D)
             /\ \A u : Occurrences(Users(z), u)
                         = Listed(ins, z, u) + (IF z = new THEN Listed(ins, old, u) ELSE 0)
  <2>1. \A u : Listed(ins, z, u) \in Nat
    BY <1>1, OccurrencesParts DEF Listed
  <2>2. CASE z = new
    <3> DEFINE s == ins[z].users
               t == ins[old].users
    <3>1. s \in Seq(D) /\ t \in Seq(D)
      BY <1>1
    <3> HIDE DEF s, t
    <3>2. s \o t \in Seq(D) /\ \A u : Occurrences(s \o t, u) = Occurrences(s, u) + Occurrences(t, u)
      BY <3>1, OccurrencesConcat, EmptySeq
    <3> QED
      BY <2>2, <3>2 DEF s, t, Listed
  <2>3. CASE z # new
    BY <1>1, <2>1, <2>3 DEF Listed
  <2> QED
    BY <2>2, <2>3
<1>4. \A z \in D : out[z] = [ins[z] EXCEPT !.in = In(z), !.users = Users(z)]
  BY DEF ReplaceInputInUsers
<1>5. DOMAIN out = D /\ out = [z \in DOMAIN out |-> out[z]]
  BY DEF ReplaceInputInUsers
<1> HIDE DEF out
<1>6. ASSUME NEW z \in D
      PROVE  /\ out[z] \in InstructionsOver(D)
             /\ out[z].op = ins[z].op /\ out[z].imm = ins[z].imm
             /\ out[z].in = In(z) /\ out[z].users = Users(z)
  <2> HIDE DEF In, Users
  <2>1. /\ ins[z] \in InstructionsOver(D) /\ In(z) \in Seq(D) /\ Users(z) \in Seq(D)
        /\ out[z] = [ins[z] EXCEPT !.in = In(z), !.users = Users(z)]
    BY <1>1, <1>2, <1>3, <1>4
  <2> QED
    BY <2>1 DEF InstructionsOver
<1>7. Typed(out) /\ Len(out) = Len(ins)
  BY <1>5, <1>6, TypedBuilt
<1>8. ASSUME NEW z \in D, Listed(ins, old, z) = Reads(ins, z, old)
      PROVE  /\ \A i \in 1..Len(ins[z].in) :
                  out[z].in[i] = IF ins[z].in[i] = old THEN new ELSE ins[z].in[i]
             /\ \A v : Reads(out, z, v) =
                         IF v = old THEN 0
                         ELSE Reads(ins, z, v) + (IF v = new THEN Reads(ins, z, old) ELSE 0)
  <2> DEFINE s == ins[z].in
             t == ReplaceInput(s, Occurrences(s, old), old, new)
  <2>1. s \in Seq(D)
    BY <1>1
  <2>2. out[z].in = t
    BY <1>6, <1>8 DEF Listed, Reads
  <2> HIDE DEF s
  <2>3. /\ \A i \in 1..Len(s) : t[i] = IF s[i] = old THEN new ELSE s[i]
        /\ Occurrences(t, old) = 0
        /\ Occurrences(t, new) = Occurrences(s, new) + Occurrences(s, old)
        /\ \A e : e \notin {old, new} => Occurrences(t, e) = Occurrences(s, e)
    BY <2>1, ReplacedInput
  <2>4. \A v : Occurrences(s, v) \in Nat
    BY <2>1, OccurrencesParts
  <2> HIDE DEF t
  <2>5. \A v : Occurrences(t, v) = IF v = old THEN 0
                ELSE Occurrences(s, v) + (IF v = new THEN Occurrences(s, old) ELSE 0)
    BY <2>3, <2>4
  <2> QED
    BY <2>2, <2>3, <2>5 DEF s, Reads
<1>9. \A z \in D : Len(out[z].in) = Len(ins[z].in)
  BY <1>2, <1>6
<1>10. \A z \in D : \A u : Listed(out, z, u)
            = Listed(ins, z, u) + (IF z = new THEN Listed(ins, old, u) ELSE 0)
  <2> SUFFICES ASSUME NEW z \in D, NEW u
               PROVE  Listed(out, z, u)
                        = Listed(ins, z, u) + (IF z = new THEN Listed(ins, old, u) ELSE 0)
    OBVIOUS
  <2>1. Listed(out, z, u) = Occurrences(Users(z), u)
    BY <1>6 DEF Listed
  <2> QED
    BY <1>3, <2>1
<1>11. Moves(ins, out, old, new)
  BY <1>5, <1>6, <1>7, <1>8, <1>9, <1>10 DEF Moves
<1> QED
  BY <1>11 DEF out

LEMMA OccurrencesPair ==
  ASSUME NEW S, NEW s \in Seq(S), Len(s) = 2, NEW e
  PROVE  /\ s[1] \in S /\ s[2] \in S
         /\ ToSet(s) = {s[1], s[2]}
         /\ Occurrences(s, e) = (IF s[1] = e THEN 1 ELSE 0) + (IF s[2] = e THEN 1 ELSE 0)
<1>1. 1 \in 1..Len(s) /\ 2 \in 1..Len(s) /\ DOMAIN s = 1..2 /\ 2 - 1 = 1
  BY LenProperties
<1>2. s[1] \in S /\ s[2] \in S
  BY <1>1, ElementOfSeq
<1>3. ToSet(s) = {s[1], s[2]}
  <2>1. 1..2 = {1, 2}
    OBVIOUS
  <2> QED
    BY <1>1, <2>1 DEF ToSet
<1>4. ASSUME NEW k \in 1..Len(s)
      PROVE  /\ Occurrences(SubSeq(s, 1, k), e) =
                  Occurrences(SubSeq(s, 1, k - 1), e) + (IF s[k] = e THEN 1 ELSE 0)
             /\ Occurrences(s, e) =
                  Occurrences(SubSeq(s, 1, k), e) + Occurrences(SubSeq(s, k + 1, Len(s)), e)
  BY ONLY OccurrencesCut
<1>5. /\ Occurrences(SubSeq(s, 1, 2), e)
           = Occurrences(SubSeq(s, 1, 2 - 1), e) + (IF s[2] = e THEN 1 ELSE 0)
      /\ Occurrences(s, e) = Occurrences(SubSeq(s, 1, 2), e) + Occurrences(SubSeq(s, 2 + 1, Len(s)), e)
      /\ Occurrences(SubSeq(s, 1, 1), e)
           = Occurrences(SubSeq(s, 1, 1 - 1), e) + (IF s[1] = e THEN 1 ELSE 0)
  BY <1>1, <1>4, Zenon
<1>6. SubSeq(s, 2 + 1, Len(s)) = <<>> /\ SubSeq(s, 1, 1 - 1) = <<>>
  BY SubSeqEmpty
<1>7. Occurrences(<<>>, e) = 0
  BY OccurrencesEmpty
<1>8. /\ Occurrences(SubSeq(s, 1, 2), e)
           = Occurrences(SubSeq(s, 1, 1), e) + (IF s[2] = e THEN 1 ELSE 0)
      /\ Occurrences(s, e) = Occurrences(SubSeq(s, 1, 2), e) + 0
      /\ Occurrences(SubSeq(s, 1, 1), e) = 0 + (IF s[1] = e THEN 1 ELSE 0)
  BY <1>1, <1>5, <1>6, <1>7, Zenon
<1> QED
  BY <1>2, <1>3, <1>8

\* x stops being a user of its two inputs a and b.
Leaves(ins, out, x, a, b) ==
  /\ Typed(out) /\ Len(out) = Len(ins) /\ DOMAIN out = DOMAIN ins
  /\ \A z \in DOMAIN ins :
       /\ out[z].op = ins[z].op /\ out[z].imm = ins[z].imm /\ out[z].in = ins[z].in
       /\ \A u : u # x => Listed(out, z, u) = Listed(ins, z, u)
       /\ Listed(out, z, x) = Listed(ins, z, x)
            - (IF z = a THEN 1 ELSE 0) - (IF z = b THEN 1 ELSE 0)

LEMMA NoLongerUser ==
  ASSUME NEW ins, Typed(ins), NEW x, NEW a \in DOMAIN ins, NEW b \in DOMAIN ins,
         Listed(ins, a, x) = (IF a = b THEN 2 ELSE 1),
         Listed(ins, b, x) = (IF a = b THEN 2 ELSE 1)
  PROVE  Leaves(ins, RemoveUser(RemoveUser(ins, a, x), b, x), x, a, b)
<1> DEFINE one == RemoveUser(ins, a, x)
           out == RemoveUser(one, b, x)
<1>1. \A z \in DOMAIN ins : \A u : Listed(ins, z, u) \in Nat
  BY TypedParts, OccurrencesParts DEF Listed
<1>2. x \in ToSet(ins[a].users)
  <2>1. ins[a].users \in Seq(DOMAIN ins)
    BY TypedParts
  <2> QED
    BY <2>1, OccurrencesParts DEF Listed
<1>3. /\ Typed(one) /\ Len(one) = Len(ins) /\ DOMAIN one = DOMAIN ins
      /\ \A z \in DOMAIN ins :
           /\ one[z].op = ins[z].op /\ one[z].imm = ins[z].imm /\ one[z].in = ins[z].in
           /\ \A u : Listed(one, z, u)
                       = Listed(ins, z, u) - (IF z = a /\ u = x THEN 1 ELSE 0)
  BY <1>2, RemoveUserParts
<1> HIDE DEF one
<1>4. Listed(one, b, x) = 1
  BY <1>1, <1>3
<1>5. x \in ToSet(one[b].users)
  <2>1. one[b].users \in Seq(DOMAIN one)
    BY <1>3, TypedParts
  <2> QED
    BY <1>4, <2>1, OccurrencesParts DEF Listed
<1>6. /\ Typed(out) /\ Len(out) = Len(one) /\ DOMAIN out = DOMAIN one
      /\ \A z \in DOMAIN one :
           /\ out[z].op = one[z].op /\ out[z].imm = one[z].imm /\ out[z].in = one[z].in
           /\ \A u : Listed(out, z, u)
                       = Listed(one, z, u) - (IF z = b /\ u = x THEN 1 ELSE 0)
  BY <1>3, <1>5, RemoveUserParts
<1> HIDE DEF out
<1>7. \A z \in DOMAIN ins : out[z].op = ins[z].op /\ out[z].imm = ins[z].imm /\ out[z].in = ins[z].in
  BY <1>3, <1>6
<1>8. \A z \in DOMAIN ins : \A u : u # x => Listed(out, z, u) = Listed(ins, z, u)
  BY <1>1, <1>3, <1>6
<1>9. ASSUME NEW z \in DOMAIN ins
      PROVE  Listed(out, z, x) = Listed(ins, z, x)
                      - (IF z = a THEN 1 ELSE 0) - (IF z = b THEN 1 ELSE 0)
  <2>1. /\ Listed(one, z, x) = Listed(ins, z, x) - (IF z = a /\ x = x THEN 1 ELSE 0)
        /\ Listed(out, z, x) = Listed(one, z, x) - (IF z = b /\ x = x THEN 1 ELSE 0)
        /\ Listed(ins, z, x) \in Nat
    BY <1>1, <1>3, <1>6, Zenon
  <2> QED
    BY <2>1
<1>10. Leaves(ins, out, x, a, b)
  BY <1>3, <1>6, <1>7, <1>8, <1>9 DEF Leaves
<1> QED
  BY <1>10 DEF one, out

-----------------------------------------------------------------------------
(***************************************************************************)
(* A rewrite takes x out and lets its users read y; y may be a constant    *)
(* that has just been built.  V are the values that may be read, P those   *)
(* that are in a block.                                                    *)
(***************************************************************************)

Agree(ins, P, V) ==
  /\ P \subseteq V /\ V \subseteq DOMAIN ins
  /\ \A v \in V : /\ ToSet(ins[v].users) \subseteq P
                  /\ \A u \in P : Listed(ins, v, u) = Reads(ins, u, v)

Rewires(ins, out, x, y) ==
  /\ Typed(out) /\ Len(out) = Len(ins) /\ DOMAIN out = DOMAIN ins
  /\ \A z \in DOMAIN ins :
       /\ out[z].op = ins[z].op /\ out[z].imm = ins[z].imm
       /\ Len(out[z].in) = Len(ins[z].in)
       /\ \A u : u # x => Listed(out, z, u)
                            = Listed(ins, z, u) + (IF z = y THEN Listed(ins, x, u) ELSE 0)
       /\ Listed(ins, z, x) = Reads(ins, x, z) => Listed(out, z, x) = 0
       /\ Listed(ins, x, z) = Reads(ins, z, x) =>
            /\ \A i \in 1..Len(ins[z].in) :
                 out[z].in[i] = IF ins[z].in[i] = x THEN y ELSE ins[z].in[i]
            /\ \A v : Reads(out, z, v) =
                 IF v = x THEN 0
                 ELSE Reads(ins, z, v) + (IF v = y THEN Reads(ins, z, x) ELSE 0)

\* What a rewrite needs to know of x.
Rewirable(ins, x, y) ==
  /\ Typed(ins) /\ x \in DOMAIN ins /\ y \in DOMAIN ins /\ y # x
  /\ Len(ins[x].in) = 2 /\ x \notin ToSet(ins[x].in)
  /\ Listed(ins, x, x) = Reads(ins, x, x)
  /\ \A v \in ToSet(ins[x].in) : Listed(ins, v, x) = Reads(ins, x, v)

LEMMA RewirableParts ==
  ASSUME NEW ins, NEW x, NEW y, Rewirable(ins, x, y)
  PROVE  /\ ins[x].in[1] \in DOMAIN ins \ {x} /\ ins[x].in[2] \in DOMAIN ins \ {x}
         /\ Listed(ins, x, x) = 0
         /\ \A v : Reads(ins, x, v)
              = (IF ins[x].in[1] = v THEN 1 ELSE 0) + (IF ins[x].in[2] = v THEN 1 ELSE 0)
         /\ \A z \in DOMAIN ins : \A u : Listed(ins, z, u) \in Nat
         /\ Listed(ins, ins[x].in[1], x) = (IF ins[x].in[1] = ins[x].in[2] THEN 2 ELSE 1)
         /\ Listed(ins, ins[x].in[2], x) = (IF ins[x].in[1] = ins[x].in[2] THEN 2 ELSE 1)
<1> DEFINE s == ins[x].in
<1>1. s \in Seq(DOMAIN ins) /\ Len(s) = 2
  BY TypedParts DEF Rewirable
<1>2. s[1] \in DOMAIN ins /\ s[2] \in DOMAIN ins /\ ToSet(s) = {s[1], s[2]}
  BY <1>1, OccurrencesPair
<1>3. \A v : Reads(ins, x, v) = (IF s[1] = v THEN 1 ELSE 0) + (IF s[2] = v THEN 1 ELSE 0)
  BY <1>1, OccurrencesPair DEF Reads
<1>4. s[1] # x /\ s[2] # x
  BY <1>2 DEF Rewirable
<1>5. Listed(ins, x, x) = 0
  BY <1>3, <1>4 DEF Rewirable
<1>6. \A z \in DOMAIN ins : \A u : Listed(ins, z, u) \in Nat
  BY TypedParts, OccurrencesParts DEF Listed, Rewirable
<1>7. Listed(ins, s[1], x) = Reads(ins, x, s[1]) /\ Listed(ins, s[2], x) = Reads(ins, x, s[2])
  BY <1>2 DEF Rewirable
<1> HIDE DEF s
<1>8. /\ Listed(ins, s[1], x) = (IF s[1] = s[2] THEN 2 ELSE 1)
      /\ Listed(ins, s[2], x) = (IF s[1] = s[2] THEN 2 ELSE 1)
  BY <1>3, <1>7
<1> QED
  BY <1>2, <1>3, <1>4, <1>5, <1>6, <1>8 DEF s

\* ReplaceWithoutNewInstr: the users first.
LEMMA ReplacedRewires ==
  ASSUME NEW ins, NEW x, NEW y, Rewirable(ins, x, y),
         NEW a, a = ins[x].in[1], NEW b, b = ins[x].in[2]
  PROVE  Rewires(ins, RemoveUser(RemoveUser(ReplaceInputInUsers(ins, x, y), a, x), b, x), x, y)
<1> DEFINE one == ReplaceInputInUsers(ins, x, y)
           out == RemoveUser(RemoveUser(one, a, x), b, x)
           Two == IF a = b THEN 2 ELSE 1
<1>1. Typed(ins) /\ x \in DOMAIN ins /\ y \in DOMAIN ins /\ y # x
  BY DEF Rewirable
<1>2. a \in DOMAIN ins /\ b \in DOMAIN ins
  BY RewirableParts
<1>3. \A v : Reads(ins, x, v) = (IF a = v THEN 1 ELSE 0) + (IF b = v THEN 1 ELSE 0)
  BY RewirableParts
<1>4. \A z \in DOMAIN ins : \A u : Listed(ins, z, u) \in Nat
  BY RewirableParts
<1>5. Listed(ins, x, x) = 0 /\ Listed(ins, a, x) = Two /\ Listed(ins, b, x) = Two
  BY RewirableParts
<1>6. Moves(ins, one, x, y)
  BY <1>1, ReplaceInputInUsersParts
<1> HIDE DEF one
<1>7. Typed(one) /\ Len(one) = Len(ins) /\ DOMAIN one = DOMAIN ins
  BY <1>6 DEF Moves
<1>8. \A z \in DOMAIN ins : Listed(one, z, x) = Listed(ins, z, x)
  BY <1>4, <1>5, <1>6 DEF Moves
<1>9. Leaves(one, out, x, a, b)
  <2>1. Listed(one, a, x) = Two /\ Listed(one, b, x) = Two
    BY <1>2, <1>5, <1>8
  <2>2. a \in DOMAIN one /\ b \in DOMAIN one
    BY <1>2, <1>7
  <2> QED
    BY <1>7, <2>1, <2>2, NoLongerUser
<1> HIDE DEF out
<1>10. ASSUME NEW z \in DOMAIN ins
       PROVE  /\ out[z].op = ins[z].op /\ out[z].imm = ins[z].imm
              /\ Len(out[z].in) = Len(ins[z].in) /\ out[z].in = one[z].in
              /\ \A u : u # x => Listed(out, z, u)
                            = Listed(ins, z, u) + (IF z = y THEN Listed(ins, x, u) ELSE 0)
  BY <1>6, <1>7, <1>9 DEF Moves, Leaves
<1>11. ASSUME NEW z \in DOMAIN ins, Listed(ins, z, x) = Reads(ins, x, z)
       PROVE  Listed(out, z, x) = 0
  <2>1. Listed(out, z, x) = Listed(one, z, x) - (IF z = a THEN 1 ELSE 0) - (IF z = b THEN 1 ELSE 0)
    BY <1>7, <1>9 DEF Leaves
  <2>2. Listed(one, z, x) = (IF a = z THEN 1 ELSE 0) + (IF b = z THEN 1 ELSE 0)
    BY <1>3, <1>8, <1>11
  <2> QED
    BY <2>1, <2>2
<1>12. ASSUME NEW z \in DOMAIN ins, Listed(ins, x, z) = Reads(ins, z, x)
       PROVE  /\ \A i \in 1..Len(ins[z].in) :
                   out[z].in[i] = IF ins[z].in[i] = x THEN y ELSE ins[z].in[i]
              /\ \A v : Reads(out, z, v) =
                   IF v = x THEN 0
                   ELSE Reads(ins, z, v) + (IF v = y THEN Reads(ins, z, x) ELSE 0)
  <2>1. \A v : Reads(out, z, v) = Reads(one, z, v)
    BY <1>10 DEF Reads
  <2> QED
    BY <1>6, <1>10, <1>12, <2>1 DEF Moves
<1>13. Rewires(ins, out, x, y)
  <2>1. Typed(out) /\ Len(out) = Len(ins) /\ DOMAIN out = DOMAIN ins
    BY <1>7, <1>9 DEF Leaves
  <2> QED
    BY <1>10, <1>11, <1>12, <2>1 DEF Rewires
<1> QED
  BY <1>13 DEF one, out

\* ProcessMUL and ProcessSHR: the users last.
LEMMA FoldedRewires ==
  ASSUME NEW ins, NEW x, NEW y, Rewirable(ins, x, y),
         NEW a, a = ins[x].in[1], NEW b, b = ins[x].in[2]
  PROVE  Rewires(ins, ReplaceInputInUsers(RemoveUser(RemoveUser(ins, a, x), b, x), x, y), x, y)
<1> DEFINE one == RemoveUser(RemoveUser(ins, a, x), b, x)
           out == ReplaceInputInUsers(one, x, y)
           Two == IF a = b THEN 2 ELSE 1
<1>1. Typed(ins) /\ x \in DOMAIN ins /\ y \in DOMAIN ins /\ y # x
  BY DEF Rewirable
<1>2. a \in DOMAIN ins \ {x} /\ b \in DOMAIN ins \ {x}
  BY RewirableParts
<1>3. \A v : Reads(ins, x, v) = (IF a = v THEN 1 ELSE 0) + (IF b = v THEN 1 ELSE 0)
  BY RewirableParts
<1>4. \A z \in DOMAIN ins : \A u : Listed(ins, z, u) \in Nat
  BY RewirableParts
<1>5. Listed(ins, x, x) = 0 /\ Listed(ins, a, x) = Two /\ Listed(ins, b, x) = Two
  BY RewirableParts
<1>6. Leaves(ins, one, x, a, b)
  BY <1>1, <1>2, <1>5, NoLongerUser
<1> HIDE DEF one
<1>7. Typed(one) /\ Len(one) = Len(ins) /\ DOMAIN one = DOMAIN ins
  BY <1>6 DEF Leaves
<1>8. Moves(one, out, x, y)
  BY <1>1, <1>7, ReplaceInputInUsersParts
<1> HIDE DEF out
<1>9. \A u : Listed(one, x, u) = Listed(ins, x, u)
  <2>1. Listed(one, x, x) = 0
    <3>1. Listed(one, x, x) = Listed(ins, x, x) - (IF x = a THEN 1 ELSE 0) - (IF x = b THEN 1 ELSE 0)
      BY <1>1, <1>6 DEF Leaves
    <3> QED
      BY <1>2, <1>5, <3>1
  <2> QED
    BY <1>1, <1>5, <1>6, <2>1 DEF Leaves
<1>10. ASSUME NEW z \in DOMAIN ins
       PROVE  /\ out[z].op = ins[z].op /\ out[z].imm = ins[z].imm
              /\ Len(out[z].in) = Len(ins[z].in)
              /\ one[z].in = ins[z].in
              /\ \A u : Listed(out, z, u)
                          = Listed(one, z, u) + (IF z = y THEN Listed(ins, x, u) ELSE 0)
              /\ \A u : u # x => Listed(one, z, u) = Listed(ins, z, u)
  BY <1>6, <1>7, <1>8, <1>9 DEF Moves, Leaves
<1>11. ASSUME NEW z \in DOMAIN ins, Listed(ins, z, x) = Reads(ins, x, z)
       PROVE  Listed(out, z, x) = 0
  <2>1. Listed(one, z, x) = Listed(ins, z, x) - (IF z = a THEN 1 ELSE 0) - (IF z = b THEN 1 ELSE 0)
    BY <1>6 DEF Leaves
  <2>2. Listed(ins, z, x) = (IF a = z THEN 1 ELSE 0) + (IF b = z THEN 1 ELSE 0)
    BY <1>3, <1>11
  <2>3. Listed(one, z, x) = 0
    BY <2>1, <2>2
  <2>4. Listed(out, z, x) = Listed(one, z, x) + (IF z = y THEN Listed(ins, x, x) ELSE 0)
    BY <1>10
  <2> QED
    BY <1>5, <2>3, <2>4
<1>12. ASSUME NEW z \in DOMAIN ins, Listed(ins, x, z) = Reads(ins, z, x)
       PROVE  /\ \A i \in 1..Len(ins[z].in) :
                   out[z].in[i] = IF ins[z].in[i] = x THEN y ELSE ins[z].in[i]
              /\ \A v : Reads(out, z, v) =
                   IF v = x THEN 0
                   ELSE Reads(ins, z, v) + (IF v = y THEN Reads(ins, z, x) ELSE 0)
  <2>1. \A v : Reads(one, z, v) = Reads(ins, z, v)
    BY <1>10 DEF Reads
  <2>2. Listed(one, x, z) = Reads(one, z, x)
    BY <1>9, <1>12, <2>1
  <2> QED
    BY <1>7, <1>8, <1>10, <2>1, <2>2 DEF Moves
<1>13. Rewires(ins, out, x, y)
  <2>1. Typed(out) /\ Len(out) = Len(ins) /\ DOMAIN out = DOMAIN ins
    BY <1>7, <1>8 DEF Moves
  <2> QED
    BY <1>10, <1>11, <1>12, <2>1 DEF Rewires
<1> QED
  BY <1>13 DEF one, out

\* Users and inputs agree on what is left.
LEMMA RewiresAgree ==
  ASSUME NEW ins, NEW out, NEW x, NEW y, NEW P, NEW V, Rewirable(ins, x, y),
         Rewires(ins, out, x, y), Agree(ins, P, V), x \in P, y \in V
  PROVE  Agree(out, P \ {x}, V \ {x})
<1>1. /\ Typed(ins) /\ Typed(out) /\ DOMAIN out = DOMAIN ins
      /\ P \subseteq V /\ V \subseteq DOMAIN ins
  BY DEF Rewirable, Rewires, Agree
<1>2. \A z \in DOMAIN ins : \A u : Listed(ins, z, u) \in Nat
  BY RewirableParts
<1>3. \A v \in V : \A u : u \notin P => Listed(ins, v, u) = 0
  <2> SUFFICES ASSUME NEW v \in V, NEW u, u \notin P
               PROVE  Listed(ins, v, u) = 0
    OBVIOUS
  <2>1. ins[v].users \in Seq(DOMAIN ins)
    BY <1>1, TypedParts
  <2>2. u \notin ToSet(ins[v].users)
    BY DEF Agree
  <2> QED
    BY <2>1, <2>2, OccurrencesParts DEF Listed
<1>4. ASSUME NEW v \in V \ {x}
      PROVE  ToSet(out[v].users) \subseteq P \ {x}
  <2> SUFFICES ASSUME NEW u \in ToSet(out[v].users)
               PROVE  u \in P \ {x}
    OBVIOUS
  <2>1. out[v].users \in Seq(DOMAIN ins)
    BY <1>1, TypedParts
  <2>2. Listed(out, v, u) # 0
    BY <2>1, OccurrencesParts DEF Listed
  <2>3. u # x
    <3>1. Listed(ins, v, x) = Reads(ins, x, v)
      BY DEF Agree
    <3> QED
      BY <1>1, <2>2, <3>1 DEF Rewires
  <2>4. Listed(out, v, u) = Listed(ins, v, u) + (IF v = y THEN Listed(ins, x, u) ELSE 0)
    BY <1>1, <2>3 DEF Rewires
  <2>5. u \in P
    BY <1>1, <1>3, <2>2, <2>4
  <2> QED
    BY <2>3, <2>5
<1>5. ASSUME NEW v \in V \ {x}, NEW u \in P \ {x}
      PROVE  Listed(out, v, u) = Reads(out, u, v)
  <2>1. Listed(ins, v, u) = Reads(ins, u, v) /\ Listed(ins, x, u) = Reads(ins, u, x)
    BY <1>1 DEF Agree
  <2>2. Listed(out, v, u) = Listed(ins, v, u) + (IF v = y THEN Listed(ins, x, u) ELSE 0)
    BY <1>1 DEF Rewires
  <2>3. Reads(out, u, v) = Reads(ins, u, v) + (IF v = y THEN Reads(ins, u, x) ELSE 0)
    BY <1>1, <2>1 DEF Rewires
  <2> QED
    BY <2>1, <2>2, <2>3
<1> QED
  BY <1>1, <1>4, <1>5 DEF Agree

-----------------------------------------------------------------------------
(***************************************************************************)
(* Blocks: what taking an instruction out of its block, or putting a       *)
(* constant in its place, does to the order of the others.                 *)
(***************************************************************************)

PlacedIn(L) == UNION {ToSet(L[b]) : b \in DOMAIN L}

IsAt(L, x, b, i) == b \in DOMAIN L /\ i \in DOMAIN L[b] /\ L[b][i] = x

Once(L) ==
  \A a, b \in DOMAIN L : \A i \in DOMAIN L[a], j \in DOMAIN L[b] :
    L[a][i] = L[b][j] => a = b /\ i = j

LEMMA ListsParts ==
  ASSUME NEW D, NEW L \in Seq(Seq(D))
  PROVE  /\ Len(L) \in Nat /\ DOMAIN L = 1..Len(L)
         /\ \A b \in DOMAIN L : /\ L[b] \in Seq(D) /\ Len(L[b]) \in Nat
                                /\ DOMAIN L[b] = 1..Len(L[b])
                                /\ \A i \in DOMAIN L[b] : L[b][i] \in D
<1>1. Len(L) \in Nat /\ DOMAIN L = 1..Len(L)
  BY LenProperties
<1>2. \A b \in DOMAIN L : L[b] \in Seq(D)
  BY <1>1, ElementOfSeq
<1>3. \A b \in DOMAIN L : Len(L[b]) \in Nat /\ DOMAIN L[b] = 1..Len(L[b])
  BY <1>2, LenProperties
<1>4. \A b \in DOMAIN L : \A i \in DOMAIN L[b] : L[b][i] \in D
  BY <1>2, <1>3, ElementOfSeq
<1> QED
  BY <1>1, <1>2, <1>3, <1>4

LEMMA SeqOfSeqs ==
  ASSUME NEW D, NEW E, D \subseteq E, NEW L \in Seq(Seq(D))
  PROVE  L \in Seq(Seq(E))
<1>1. /\ Len(L) \in Nat /\ DOMAIN L = 1..Len(L)
      /\ \A c \in DOMAIN L : /\ L[c] \in Seq(D) /\ Len(L[c]) \in Nat
                             /\ DOMAIN L[c] = 1..Len(L[c])
                             /\ \A i \in DOMAIN L[c] : L[c][i] \in D
  BY ListsParts
<1>2. ASSUME NEW c \in 1..Len(L)
      PROVE  L[c] \in Seq(E)
  <2>1. /\ L[c] \in Seq(D) /\ Len(L[c]) \in Nat /\ DOMAIN L[c] = 1..Len(L[c])
        /\ \A i \in DOMAIN L[c] : L[c][i] \in E
    BY <1>1
  <2>2. L[c] \in [1..Len(L[c]) -> E]
    BY <2>1, LenProperties
  <2> QED
    BY <2>1, <2>2, SeqDef
<1>3. L \in [1..Len(L) -> Seq(E)]
  BY <1>1, <1>2, LenProperties
<1> QED
  BY <1>1, <1>3, SeqDef

LEMMA PlacedParts ==
  ASSUME NEW L, NEW x
  PROVE  x \in PlacedIn(L) <=> \E b, i : IsAt(L, x, b, i)
BY DEF PlacedIn, ToSet, IsAt

LEMMA PrecedesParts ==
  ASSUME NEW L, NEW x, NEW y
  PROVE  Precedes(L, x, y) <=>
           \E a, b, i, j : /\ IsAt(L, x, a, i) /\ IsAt(L, y, b, j)
                           /\ a < b \/ (a = b /\ i < j)
BY DEF Precedes, IsAt

LEMMA OnceParts ==
  ASSUME NEW L
  PROVE  Once(L) <=> \A x, a, b, i, j : IsAt(L, x, a, i) /\ IsAt(L, x, b, j) => a = b /\ i = j
BY DEF Once, IsAt

\* An order: transitive, and nothing comes before itself.
LEMMA PrecedesOrder ==
  ASSUME NEW D, NEW L \in Seq(Seq(D)), Once(L)
  PROVE  /\ \A x : ~Precedes(L, x, x)
         /\ \A x, y, z : Precedes(L, x, y) /\ Precedes(L, y, z) => Precedes(L, x, z)
<1>1. \A x, b, i : IsAt(L, x, b, i) => b \in Nat /\ i \in Nat
  BY ListsParts DEF IsAt
<1>2. \A x, a, b, i, j : IsAt(L, x, a, i) /\ IsAt(L, x, b, j) => a = b /\ i = j
  BY OnceParts
<1>3. ASSUME NEW x, Precedes(L, x, x)
      PROVE  FALSE
  <2>1. PICK a, b, i, j : /\ IsAt(L, x, a, i) /\ IsAt(L, x, b, j)
                          /\ a < b \/ (a = b /\ i < j)
    BY <1>3, PrecedesParts
  <2> QED
    BY <1>1, <1>2, <2>1
<1>4. ASSUME NEW x, NEW y, NEW z, Precedes(L, x, y), Precedes(L, y, z)
      PROVE  Precedes(L, x, z)
  <2>1. PICK a, b, i, j : /\ IsAt(L, x, a, i) /\ IsAt(L, y, b, j)
                          /\ a < b \/ (a = b /\ i < j)
    BY <1>4, PrecedesParts
  <2>2. PICK b2, c, j2, k : /\ IsAt(L, y, b2, j2) /\ IsAt(L, z, c, k)
                            /\ b2 < c \/ (b2 = c /\ j2 < k)
    BY <1>4, PrecedesParts
  <2>3. b = b2 /\ j = j2
    BY <1>2, <2>1, <2>2
  <2>4. a < c \/ (a = c /\ i < k)
    BY <1>1, <2>1, <2>2, <2>3
  <2> QED
    BY <2>1, <2>2, <2>4, PrecedesParts
<1> QED
  BY <1>3, <1>4

\* RemoveFirst in the block x is in.
Removes(D, L, M, b, x) ==
  /\ M \in Seq(Seq(D)) /\ DOMAIN M = DOMAIN L /\ Once(M)
  /\ PlacedIn(M) = PlacedIn(L) \ {x}
  /\ \A c \in DOMAIN L \ {b} : M[c] = L[c]
  /\ \A u, v : u # x /\ v # x /\ Precedes(L, u, v) => Precedes(M, u, v)

LEMMA RemovedFromList ==
  ASSUME NEW D, NEW L \in Seq(Seq(D)), Once(L), NEW b \in DOMAIN L, NEW x \in ToSet(L[b])
  PROVE  Removes(D, L, [L EXCEPT ![b] = RemoveFirst(@, x)], b, x)
<1> DEFINE r == RemoveFirst(L[b], x)
           k == PlaceOf(L[b], x)
           M == [L EXCEPT ![b] = r]
           New(c, i) == IF c = b /\ k < i THEN i - 1 ELSE i
           Old(c, i) == IF c = b /\ k <= i THEN i + 1 ELSE i
<1>1. /\ Len(L) \in Nat /\ DOMAIN L = 1..Len(L)
      /\ \A c \in DOMAIN L : /\ L[c] \in Seq(D) /\ Len(L[c]) \in Nat
                             /\ DOMAIN L[c] = 1..Len(L[c])
  BY ListsParts
<1>2. L[b] \in Seq(D)
  BY <1>1
<1>3. k \in 1..Len(L[b]) /\ L[b][k] = x
  BY <1>2, PlaceOfParts
<1>4. /\ r \in Seq(D) /\ Len(r) = Len(L[b]) - 1
      /\ \A i \in 1..Len(L[b]) - 1 : r[i] = IF i < k THEN L[b][i] ELSE L[b][i + 1]
  BY <1>2, RemoveFirstParts
<1>5. DOMAIN r = 1..Len(L[b]) - 1
  BY <1>4, LenProperties
<1> HIDE DEF r, k
<1>6. M \in Seq(Seq(D)) /\ DOMAIN M = DOMAIN L /\ M[b] = r /\ \A c \in DOMAIN L \ {b} : M[c] = L[c]
  BY <1>4, ExceptSeq
<1> HIDE DEF M
<1>7. \A y, c, d, i, j : IsAt(L, y, c, i) /\ IsAt(L, y, d, j) => c = d /\ i = j
  BY OnceParts
<1>8. IsAt(L, x, b, k)
  BY <1>1, <1>3 DEF IsAt
<1>9. ASSUME NEW y, NEW c, NEW i, IsAt(M, y, c, i)
      PROVE  y # x /\ i \in Nat /\ IsAt(L, y, c, Old(c, i))
  <2>1. c \in DOMAIN L
    BY <1>6, <1>9 DEF IsAt
  <2>2. CASE c # b
    <3>1. IsAt(L, y, c, i)
      BY <1>6, <1>9, <2>1, <2>2 DEF IsAt
    <3>2. i \in Nat
      BY <1>1, <2>1, <3>1 DEF IsAt
    <3> QED
      BY <1>7, <1>8, <2>2, <3>1, <3>2
  <2>3. CASE c = b
    <3>1. i \in 1..Len(L[b]) - 1 /\ y = IF i < k THEN L[b][i] ELSE L[b][i + 1]
      BY <1>4, <1>5, <1>6, <1>9, <2>3 DEF IsAt
    <3>2. Len(L[b]) \in Nat /\ DOMAIN L[b] = 1..Len(L[b])
      BY <1>1
    <3>3. Old(c, i) \in DOMAIN L[b] /\ L[b][Old(c, i)] = y /\ Old(c, i) # k
      BY <1>3, <2>3, <3>1, <3>2
    <3>4. IsAt(L, y, c, Old(c, i))
      BY <2>3, <3>3 DEF IsAt
    <3> QED
      BY <1>7, <1>8, <3>1, <3>3, <3>4
  <2> QED
    BY <2>2, <2>3
<1>10. ASSUME NEW y, y # x, NEW c, NEW i, IsAt(L, y, c, i)
       PROVE  IsAt(M, y, c, New(c, i)) /\ i \in Nat
  <2>1. c \in DOMAIN L /\ i \in 1..Len(L[c]) /\ L[c][i] = y /\ Len(L[c]) \in Nat
    BY <1>1, <1>10 DEF IsAt
  <2>2. CASE c # b
    BY <1>1, <1>6, <2>1, <2>2 DEF IsAt
  <2>3. CASE c = b
    <3>1. i # k
      BY <1>3, <1>10, <2>1, <2>3
    <3>2. New(c, i) \in 1..Len(L[b]) - 1 /\ r[New(c, i)] = y
      BY <1>3, <1>4, <2>1, <2>3, <3>1
    <3> QED
      BY <1>5, <1>6, <2>1, <2>3, <3>2 DEF IsAt
  <2> QED
    BY <2>2, <2>3
<1>11. k \in Nat
  BY <1>1, <1>3
<1>12. Once(M)
  <2> SUFFICES ASSUME NEW y, NEW c, NEW d, NEW i, NEW j, IsAt(M, y, c, i), IsAt(M, y, d, j)
               PROVE  c = d /\ i = j
    BY OnceParts
  <2>1. /\ IsAt(L, y, c, Old(c, i)) /\ IsAt(L, y, d, Old(d, j))
        /\ i \in Nat /\ j \in Nat
    BY <1>9
  <2>2. c = d /\ Old(c, i) = Old(d, j)
    BY <1>7, <2>1
  <2> QED
    BY <1>11, <2>1, <2>2
<1>13. PlacedIn(M) = PlacedIn(L) \ {x}
  <2>1. ASSUME NEW y \in PlacedIn(M)
        PROVE  y \in PlacedIn(L) \ {x}
    BY <1>9, <2>1, PlacedParts
  <2>2. ASSUME NEW y \in PlacedIn(L) \ {x}
        PROVE  y \in PlacedIn(M)
    BY <1>10, <2>2, PlacedParts
  <2> QED
    BY <2>1, <2>2
<1>14. ASSUME NEW u, NEW v, u # x, v # x, Precedes(L, u, v)
       PROVE  Precedes(M, u, v)
  <2>1. PICK c, d, i, j : /\ IsAt(L, u, c, i) /\ IsAt(L, v, d, j)
                          /\ c < d \/ (c = d /\ i < j)
    BY <1>14, PrecedesParts
  <2>2. /\ IsAt(M, u, c, New(c, i)) /\ IsAt(M, v, d, New(d, j))
        /\ i \in Nat /\ j \in Nat
    BY <1>10, <1>14, <2>1
  <2>3. c < d \/ (c = d /\ New(c, i) < New(d, j))
    <3>1. c = d /\ i < j => New(c, i) <= New(d, j)
      BY <1>11, <2>2
    <3>2. c = d /\ i < j => New(c, i) # New(d, j)
      <4>1. c = b /\ i = k => FALSE
        BY <1>7, <1>8, <1>14, <2>1 DEF IsAt
      <4>2. c = d /\ d = b /\ j = k => FALSE
        BY <1>7, <1>8, <1>14, <2>1 DEF IsAt
      <4> QED
        BY <1>11, <2>2, <4>1, <4>2
    <3> QED
      BY <1>11, <2>1, <2>2, <3>1, <3>2
  <2> QED
    BY <2>2, <2>3, PrecedesParts
<1>15. Removes(D, L, M, b, x)
  BY <1>6, <1>12, <1>13, <1>14 DEF Removes
<1> QED
  BY <1>15 DEF M, r

\* Fold: new in the place of x, which is alone in its block.
Puts(D, L, M, b, x, new) ==
  /\ M \in Seq(Seq(D)) /\ DOMAIN M = DOMAIN L /\ Once(M)
  /\ PlacedIn(M) = (PlacedIn(L) \ {x}) \cup {new}
  /\ \A c \in DOMAIN L \ {b} : M[c] = L[c]
  /\ \A u, v : u # x /\ v # x /\ Precedes(L, u, v) => Precedes(M, u, v)
  /\ \A v : v # x /\ Precedes(L, x, v) => Precedes(M, new, v)

LEMMA PutInList ==
  ASSUME NEW D, NEW L \in Seq(Seq(D)), Once(L), NEW b \in DOMAIN L, NEW x, L[b] = <<x>>,
         NEW E, D \subseteq E, NEW new \in E \ D
  PROVE  Puts(E, L, [L EXCEPT ![b] = <<new>>], b, x, new)
<1> DEFINE M == [L EXCEPT ![b] = <<new>>]
           Old(y) == IF y = new THEN x ELSE y
           New(y) == IF y = x THEN new ELSE y
<1>1. /\ Len(L) \in Nat /\ DOMAIN L = 1..Len(L)
      /\ \A c \in DOMAIN L : /\ L[c] \in Seq(D) /\ Len(L[c]) \in Nat
                             /\ DOMAIN L[c] = 1..Len(L[c])
                             /\ \A i \in DOMAIN L[c] : L[c][i] \in D
  BY ListsParts
<1>2. L \in Seq(Seq(E))
  BY SeqOfSeqs
<1>3. <<new>> \in Seq(E) /\ DOMAIN <<new>> = {1} /\ <<new>>[1] = new
  OBVIOUS
<1>4. DOMAIN L[b] = {1} /\ L[b][1] = x
  OBVIOUS
<1>5. /\ M \in Seq(Seq(E)) /\ DOMAIN M = DOMAIN L /\ M[b] = <<new>>
      /\ \A c \in DOMAIN L \ {b} : M[c] = L[c]
  BY <1>2, <1>3, ExceptSeq
<1> HIDE DEF M
<1>6. \A y, c, d, i, j : IsAt(L, y, c, i) /\ IsAt(L, y, d, j) => c = d /\ i = j
  BY OnceParts
<1>7. IsAt(L, x, b, 1) /\ IsAt(M, new, b, 1)
  BY <1>3, <1>4, <1>5 DEF IsAt
<1>8. ASSUME NEW y, NEW c, NEW i, IsAt(M, y, c, i)
      PROVE  y # x /\ IsAt(L, Old(y), c, i)
  <2>1. CASE c = b
    <3>1. y = new /\ i = 1
      BY <1>3, <1>5, <1>8, <2>1 DEF IsAt
    <3>2. x \in D
      BY <1>1, <1>4
    <3> QED
      BY <1>7, <2>1, <3>1, <3>2
  <2>2. CASE c # b
    <3>1. IsAt(L, y, c, i)
      BY <1>5, <1>8, <2>2 DEF IsAt
    <3>2. y # new
      BY <1>1, <3>1 DEF IsAt
    <3>3. y # x
      BY <1>6, <1>7, <2>2, <3>1
    <3> QED
      BY <3>1, <3>2, <3>3
  <2> QED
    BY <2>1, <2>2
<1>9. ASSUME NEW y, NEW c, NEW i, IsAt(L, y, c, i)
      PROVE  IsAt(M, New(y), c, i) /\ y # new
  <2>1. CASE c = b
    <3>1. y = x /\ i = 1
      BY <1>4, <1>9, <2>1 DEF IsAt
    <3>2. x \in D
      BY <1>1, <1>4
    <3> QED
      BY <1>7, <2>1, <3>1, <3>2
  <2>2. CASE c # b
    <3>1. IsAt(M, y, c, i) /\ y \in D
      BY <1>1, <1>5, <1>9, <2>2 DEF IsAt
    <3>2. y # x
      BY <1>6, <1>7, <1>9, <2>2
    <3> QED
      BY <3>1, <3>2
  <2> QED
    BY <2>1, <2>2
<1>10. Once(M)
  <2> SUFFICES ASSUME NEW y, NEW c, NEW d, NEW i, NEW j, IsAt(M, y, c, i), IsAt(M, y, d, j)
               PROVE  c = d /\ i = j
    BY OnceParts
  <2>1. IsAt(L, Old(y), c, i) /\ IsAt(L, Old(y), d, j)
    BY <1>8
  <2> HIDE DEF Old
  <2> QED
    BY <1>6, <2>1
<1>11. PlacedIn(M) = (PlacedIn(L) \ {x}) \cup {new}
  <2>1. ASSUME NEW y \in PlacedIn(M), y # new
        PROVE  y \in PlacedIn(L) \ {x}
    <3>1. PICK c, i : IsAt(M, y, c, i)
      BY <2>1, PlacedParts
    <3>2. IsAt(L, y, c, i) /\ y # x
      BY <1>8, <2>1, <3>1
    <3> QED
      BY <3>2, PlacedParts
  <2>2. ASSUME NEW y \in PlacedIn(L) \ {x}
        PROVE  y \in PlacedIn(M)
    <3>1. PICK c, i : IsAt(L, y, c, i)
      BY <2>2, PlacedParts
    <3>2. IsAt(M, y, c, i)
      BY <1>9, <2>2, <3>1
    <3> QED
      BY <3>2, PlacedParts
  <2>3. new \in PlacedIn(M)
    BY <1>7, PlacedParts
  <2> QED
    BY <2>1, <2>2, <2>3
<1>12. ASSUME NEW u, NEW v, Precedes(L, u, v)
       PROVE  Precedes(M, New(u), New(v))
  <2>1. PICK c, d, i, j : /\ IsAt(L, u, c, i) /\ IsAt(L, v, d, j)
                          /\ c < d \/ (c = d /\ i < j)
    BY <1>12, PrecedesParts
  <2>2. IsAt(M, New(u), c, i) /\ IsAt(M, New(v), d, j)
    BY <1>9, <2>1
  <2> HIDE DEF New
  <2> QED
    BY <2>1, <2>2, PrecedesParts
<1>13. \A u, v : u # x /\ v # x /\ Precedes(L, u, v) => Precedes(M, u, v)
  BY <1>12
<1>14. \A v : v # x /\ Precedes(L, x, v) => Precedes(M, new, v)
  BY <1>12
<1>15. Puts(E, L, M, b, x, new)
  BY <1>5, <1>10, <1>11, <1>13, <1>14 DEF Puts
<1> QED
  BY <1>15 DEF M

-----------------------------------------------------------------------------
(***************************************************************************)
(* The inductive invariant.  Live values are those in a block and the      *)
(* zeros in none.                                                          *)
(***************************************************************************)

Live == {x \in DOMAIN instrs : x \in Placed \/ Loose(x)}

\* What the walk has left behind in the blocks it removed nothing from.
WalkedClean ==
  \A b \in DOMAIN lists \ rewritten :
    /\ status = "done" \/ b < block \/ (b = block /\ current = NoInst) =>
         \A x \in ToSet(lists[b]) : ~Applicable(x)
    /\ b = block => \A i, j \in DOMAIN lists[b] :
         i < j /\ lists[b][j] = current => ~Applicable(lists[b][i])

IInv ==
  /\ TypeOK
  /\ Len(source) \in Nat /\ Len(source) <= Len(instrs)
  /\ \A x \in DOMAIN instrs : HasArity(instrs[x])
  /\ Once(lists) /\ UsersAgree /\ InputsPlaced
  /\ status # "aborted" => WalkedClean

LEMMA InvParts ==
  ASSUME IInv
  PROVE  /\ Typed(instrs) /\ DOMAIN instrs = 1..Len(instrs) /\ Len(instrs) \in Nat
         /\ lists \in Seq(Seq(DOMAIN instrs)) /\ Once(lists) /\ Placed = PlacedIn(lists)
         /\ Agree(instrs, Placed, Live)
<1>1. Typed(instrs) /\ lists \in Seq(Seq(DOMAIN instrs)) /\ Once(lists)
  BY DEF IInv, TypeOK, Typed
<1>2. DOMAIN instrs = 1..Len(instrs) /\ Len(instrs) \in Nat
  BY <1>1, TypedParts
<1>3. Placed = PlacedIn(lists)
  BY DEF Placed, PlacedIn
<1>4. Placed \subseteq DOMAIN instrs
  BY <1>1, <1>3, ListsParts, PlacedParts DEF IsAt
<1>5. Placed \subseteq Live /\ Live \subseteq DOMAIN instrs
  BY <1>4 DEF Live
<1>6. \A v \in Live : /\ ToSet(instrs[v].users) \subseteq Placed
                      /\ \A u \in Placed : Listed(instrs, v, u) = Reads(instrs, u, v)
  BY DEF IInv, UsersAgree, Live, Listed, Reads
<1> QED
  BY <1>1, <1>2, <1>3, <1>5, <1>6 DEF Agree

\* The instruction the walk may rewrite.
LEMMA LookedAt ==
  ASSUME IInv, NEW x, At(x), instrs[x].op \in Operations
  PROVE  /\ x \in DOMAIN instrs /\ x \in Placed /\ x \in ToSet(lists[block])
         /\ block \in DOMAIN lists
         /\ Len(instrs[x].in) = 2 /\ ToSet(instrs[x].in) = {Input(x, 1), Input(x, 2)}
         /\ {Input(x, 1), Input(x, 2)} \subseteq Live \ {x}
<1>1. x \in ToSet(lists[block]) /\ block \in DOMAIN lists
  BY DEF IInv, TypeOK, At
<1>2. x \in Placed
  BY <1>1 DEF Placed
<1>3. x \in DOMAIN instrs
  BY <1>2, InvParts DEF Agree
<1>4. Len(instrs[x].in) = 2
  <2>1. HasArity(instrs[x])
    BY <1>3 DEF IInv
  <2> QED
    BY <2>1 DEF HasArity, Operations, Binary
<1>5. instrs[x].in \in Seq(DOMAIN instrs)
  BY <1>3, InvParts, TypedParts
<1>6. ToSet(instrs[x].in) = {Input(x, 1), Input(x, 2)} /\ {Input(x, 1), Input(x, 2)} \subseteq DOMAIN instrs
  BY <1>4, <1>5, OccurrencesPair DEF Input
<1>7. ASSUME NEW v \in ToSet(instrs[x].in)
      PROVE  v \in Live \ {x}
  <2>1. Loose(v) \/ Precedes(lists, v, x)
    BY <1>2 DEF IInv, InputsPlaced
  <2>2. v \in DOMAIN instrs
    BY <1>6
  <2>3. CASE Loose(v)
    BY <1>2, <2>2, <2>3 DEF Loose, Live
  <2>4. CASE Precedes(lists, v, x)
    <3>1. v # x
      BY <2>4, InvParts, PrecedesOrder
    <3>2. v \in PlacedIn(lists)
      BY <2>4, PrecedesParts, PlacedParts
    <3> QED
      BY <2>2, <3>1, <3>2, InvParts DEF Live
  <2> QED
    BY <2>1, <2>3, <2>4
<1> QED
  BY <1>1, <1>2, <1>3, <1>4, <1>6, <1>7

-----------------------------------------------------------------------------
(* A rewrite starts with instrs, or with instrs and a new constant.          *)

Grown(ins) ==
  /\ Typed(ins) /\ DOMAIN instrs \subseteq DOMAIN ins
  /\ Len(ins) \in Nat /\ Len(instrs) <= Len(ins)
  /\ \A z \in DOMAIN instrs : ins[z] = instrs[z]
  /\ \A z \in DOMAIN ins \ DOMAIN instrs :
       ins[z].op = "CONST" /\ ins[z].in = <<>> /\ ins[z].users = <<>>

LEMMA GrownAgree ==
  ASSUME IInv, NEW ins, Grown(ins), NEW Q, Q \subseteq DOMAIN ins \ DOMAIN instrs,
         NEW R, R \subseteq Q
  PROVE  Agree(ins, Placed \cup R, Live \cup Q)
<1>1. Typed(instrs) /\ Placed \subseteq Live /\ Live \subseteq DOMAIN instrs
  BY InvParts DEF Agree
<1>2. \A v \in Live : /\ ToSet(instrs[v].users) \subseteq Placed
                      /\ \A u \in Placed : Listed(instrs, v, u) = Reads(instrs, u, v)
  BY InvParts DEF Agree
<1>3. \A z \in DOMAIN instrs : ins[z] = instrs[z]
  BY DEF Grown
<1>4. \A z \in Q : ins[z].in = <<>> /\ ins[z].users = <<>>
  BY DEF Grown
<1>5. ToSet(<<>>) = {}
  BY DEF ToSet
<1>6. \A z \in DOMAIN instrs :
        \A q \in Q : Occurrences(instrs[z].in, q) = 0 /\ Occurrences(instrs[z].users, q) = 0
  <2> SUFFICES ASSUME NEW z \in DOMAIN instrs, NEW q \in Q
               PROVE  Occurrences(instrs[z].in, q) = 0 /\ Occurrences(instrs[z].users, q) = 0
    OBVIOUS
  <2>1. instrs[z].in \in Seq(DOMAIN instrs) /\ instrs[z].users \in Seq(DOMAIN instrs)
    BY <1>1, TypedParts
  <2>2. q \notin ToSet(instrs[z].in) /\ q \notin ToSet(instrs[z].users)
    <3>1. \A s \in Seq(DOMAIN instrs) : ToSet(s) \subseteq DOMAIN instrs
      BY LenProperties, ElementOfSeq DEF ToSet
    <3> QED
      BY <2>1, <3>1
  <2> QED
    BY <2>1, <2>2, OccurrencesParts
<1>7. ASSUME NEW v \in Live \cup Q
      PROVE  ToSet(ins[v].users) \subseteq Placed
  BY <1>1, <1>2, <1>3, <1>4, <1>5
<1>8. ASSUME NEW v \in Live \cup Q, NEW u \in Placed \cup R
      PROVE  Listed(ins, v, u) = Reads(ins, u, v)
  <2>1. CASE v \in Live /\ u \in Placed
    BY <1>1, <1>2, <1>3, <2>1 DEF Listed, Reads
  <2>2. CASE v \in Live /\ u \in R
    BY <1>1, <1>3, <1>4, <1>6, <2>2, OccurrencesEmpty DEF Listed, Reads
  <2>3. CASE v \in Q
    <3>1. Listed(ins, v, u) = 0
      BY <1>4, <2>3, OccurrencesEmpty DEF Listed
    <3>2. Reads(ins, u, v) = 0
      BY <1>1, <1>3, <1>4, <1>6, <2>3, OccurrencesEmpty DEF Reads
    <3> QED
      BY <3>1, <3>2
  <2> QED
    BY <2>1, <2>2, <2>3
<1> QED
  BY <1>1, <1>7, <1>8 DEF Agree, Grown

LEMMA RewirableHere ==
  ASSUME IInv, NEW x, At(x), instrs[x].op \in Operations, NEW ins, Grown(ins),
         NEW y \in DOMAIN ins \ {x}
  PROVE  Rewirable(ins, x, y)
<1>1. /\ x \in DOMAIN instrs /\ x \in Placed /\ Len(instrs[x].in) = 2
      /\ ToSet(instrs[x].in) \subseteq Live \ {x}
  BY LookedAt
<1>2. Agree(ins, Placed \cup {}, Live \cup {})
  BY GrownAgree
<1>3. Typed(ins) /\ x \in DOMAIN ins /\ ins[x] = instrs[x]
  BY <1>1 DEF Grown
<1>4. \A v \in Live : Listed(ins, v, x) = Reads(ins, x, v)
  BY <1>1, <1>2 DEF Agree
<1>5. x \in Live
  BY <1>1 DEF Live
<1> QED
  BY <1>1, <1>3, <1>4, <1>5 DEF Rewirable

\* Whether there is something to do at z is a matter of its opcode and of the
\* opcodes and immediates of its inputs.
LEMMA SameRules ==
  ASSUME NEW z, instrs'[z].op = instrs[z].op,
         instrs[z].op \in Operations =>
           \A n \in {1, 2} : /\ instrs'[z].in[n] = instrs[z].in[n]
                             /\ instrs'[instrs[z].in[n]].op = instrs[instrs[z].in[n]].op
                             /\ instrs'[instrs[z].in[n]].imm = instrs[instrs[z].in[n]].imm
  PROVE  Applicable(z)' <=> Applicable(z)
<1>1. CASE instrs[z].op \notin Operations
  BY <1>1 DEF Applicable, Foldable, Replacements, ShiftedOut, Operations
<1>2. CASE instrs[z].op \in Operations
  <2>1. \A n \in {1, 2} : /\ instrs'[z].in[n] = instrs[z].in[n]
                          /\ instrs'[instrs[z].in[n]].op = instrs[instrs[z].in[n]].op
                          /\ instrs'[instrs[z].in[n]].imm = instrs[instrs[z].in[n]].imm
    BY <1>2
  <2>2. 3 - 1 = 2 /\ 3 - 2 = 1
    OBVIOUS
  <2>3. Foldable(z)' <=> Foldable(z)
    BY <2>1 DEF Foldable, IsConst, Input
  <2>4. MulRules(z)' = MulRules(z)
    <3> DEFINE One == {m \in {1, 2} : IsImm(Input(z, m), 1)}
               Zero == {m \in {1, 2} : IsImm(Input(z, m), 0)}
    <3>1. One' = One /\ Zero' = Zero
      BY <2>1 DEF IsImm, IsConst, Imm, Input
    <3>2. \A n \in {1, 2} : Input(z, n)' = Input(z, n) /\ Input(z, 3 - n)' = Input(z, 3 - n)
      BY <2>1, <2>2 DEF Input
    <3>3. MulRules(z) = {Input(z, 3 - n) : n \in One} \cup {Input(z, n) : n \in Zero}
      BY DEF MulRules
    <3>4. MulRules(z)' = {Input(z, 3 - n)' : n \in One'} \cup {Input(z, n)' : n \in Zero'}
      BY DEF MulRules
    <3>5. One \subseteq {1, 2} /\ Zero \subseteq {1, 2}
      OBVIOUS
    <3> HIDE DEF One, Zero
    <3> QED
      BY <3>1, <3>2, <3>3, <3>4, <3>5
  <2>5. ShrRules(z)' = ShrRules(z)
    <3> DEFINE Zero == {m \in {1, 2} : IsImm(Input(z, m), 0)}
    <3>1. Zero' = Zero
      BY <2>1 DEF IsImm, IsConst, Imm, Input
    <3>2. ShrRules(z) = {Input(z, 1) : n \in Zero} /\ Input(z, 1)' = Input(z, 1)
      BY <2>1 DEF ShrRules, Input
    <3>3. ShrRules(z)' = {Input(z, 1)' : n \in Zero'}
      BY DEF ShrRules
    <3> HIDE DEF Zero
    <3> QED
      BY <3>1, <3>2, <3>3
  <2>6. XorRules(z)' = XorRules(z)
    BY <2>1 DEF XorRules, IsImm, IsConst, Imm, Input
  <2>7. Replacements(z)' = Replacements(z)
    BY <2>4, <2>5, <2>6 DEF Replacements
  <2>8. ShiftedOut(z)' <=> ShiftedOut(z)
    BY <2>1, <2>7 DEF ShiftedOut, IsConst, Imm, Input
  <2> QED
    BY <2>3, <2>7, <2>8 DEF Applicable
<1> QED
  BY <1>1, <1>2

LEMMA ReplacementsParts ==
  ASSUME NEW x, NEW y \in Replacements(x)
  PROVE  instrs[x].op \in Operations /\ y \in {Input(x, 1), Input(x, 2)}
<1>1. instrs[x].op \in Operations
  BY DEF Replacements, Operations
<1>2. MulRules(x) \subseteq {Input(x, 1), Input(x, 2)}
  <2>1. \A n \in {1, 2} : 3 - n \in {1, 2}
    OBVIOUS
  <2> QED
    BY <2>1 DEF MulRules
<1>3. ShrRules(x) \subseteq {Input(x, 1), Input(x, 2)}
  BY DEF ShrRules
<1>4. XorRules(x) \subseteq {Input(x, 1), Input(x, 2)}
  BY DEF XorRules
<1> QED
  BY <1>1, <1>2, <1>3, <1>4 DEF Replacements, Operations

-----------------------------------------------------------------------------
(***************************************************************************)
(* Every rewrite keeps the invariant: x leaves, its users read y, and what *)
(* is left of the blocks is in the order it was in.  R is the constant     *)
(* that took the place of x, if one did.                                   *)
(***************************************************************************)

Rearranges(D, x, R) ==
  /\ lists' \in Seq(Seq(D)) /\ DOMAIN lists' = DOMAIN lists /\ Once(lists')
  /\ PlacedIn(lists') = (PlacedIn(lists) \ {x}) \cup R
  /\ \A c \in DOMAIN lists \ {block} : lists'[c] = lists[c]
  /\ \A u, v : u # x /\ v # x /\ Precedes(lists, u, v) => Precedes(lists', u, v)

LEMMA RewriteKeeps ==
  ASSUME IInv, NEW x, At(x), instrs[x].op \in Operations, NEW ins, Grown(ins),
         NEW R, R \subseteq DOMAIN ins \ DOMAIN instrs,
         NEW y \in DOMAIN ins \ {x},
         \/ y \in ToSet(instrs[x].in)
         \/ y \in R /\ \A v : v # x /\ Precedes(lists, x, v) => Precedes(lists', y, v)
         \/ y \notin DOMAIN instrs /\ Loose(y)',
         Rewires(ins, instrs', x, y), Rearranges(DOMAIN ins, x, R),
         current' = NoInst, rewritten' = rewritten \cup {block},
         UNCHANGED <<source, block, status>>
  PROVE  IInv'
<1> DEFINE D == DOMAIN instrs
           Q == DOMAIN ins \ D
<1>1. /\ Typed(instrs) /\ D = 1..Len(instrs) /\ Len(instrs) \in Nat
      /\ lists \in Seq(Seq(D)) /\ Once(lists) /\ Placed = PlacedIn(lists)
      /\ Placed \subseteq Live /\ Live \subseteq D
  BY InvParts DEF Agree
<1>2. /\ x \in D /\ x \in Placed /\ block \in DOMAIN lists /\ x \in ToSet(lists[block])
      /\ ToSet(instrs[x].in) \subseteq Live \ {x}
  BY LookedAt
<1>3. /\ Typed(ins) /\ D \subseteq DOMAIN ins /\ Len(ins) \in Nat /\ Len(instrs) <= Len(ins)
      /\ \A z \in D : ins[z] = instrs[z]
      /\ \A z \in Q : ins[z].op = "CONST" /\ ins[z].in = <<>> /\ ins[z].users = <<>>
  BY DEF Grown
<1>4. /\ Typed(instrs') /\ Len(instrs') = Len(ins) /\ DOMAIN instrs' = DOMAIN ins
      /\ \A z \in DOMAIN ins : /\ instrs'[z].op = ins[z].op /\ instrs'[z].imm = ins[z].imm
                               /\ Len(instrs'[z].in) = Len(ins[z].in)
  BY DEF Rewires
<1>5. Agree(ins, Placed \cup R, Live \cup Q)
  BY GrownAgree
<1>6. Rewirable(ins, x, y)
  BY RewirableHere
<1>7. Placed' = (Placed \ {x}) \cup R
  BY <1>1 DEF Rearranges, Placed, PlacedIn
<1>8. status' = status /\ status = "running" /\ block' = block
  BY DEF At
<1>9. TypeOK'
  <2>1. instrs' \in Seq(InstructionsOver(DOMAIN instrs'))
    BY <1>4 DEF Typed
  <2>2. lists' \in Seq(Seq(DOMAIN instrs')) /\ DOMAIN lists' = DOMAIN lists
    BY <1>4 DEF Rearranges
  <2> QED
    BY <1>8, <2>1, <2>2 DEF TypeOK, IInv
<1>10. Len(source') \in Nat /\ Len(source') <= Len(instrs')
  BY <1>1, <1>3, <1>4 DEF IInv
<1>11. \A z \in DOMAIN instrs' : HasArity(instrs'[z])
  <2> SUFFICES ASSUME NEW z \in DOMAIN ins
               PROVE  HasArity(instrs'[z])
    BY <1>4
  <2>1. instrs'[z].op = ins[z].op /\ Len(instrs'[z].in) = Len(ins[z].in)
    BY <1>4
  <2>2. HasArity(ins[z])
    <3>1. CASE z \in D
      BY <1>3, <3>1 DEF IInv
    <3>2. CASE z \in Q
      <4>1. ins[z].op = "CONST" /\ Len(ins[z].in) = 0
        BY <1>3, <3>2
      <4> QED
        BY <4>1 DEF HasArity, Nullary, Unary, Binary, Ternary
    <3> QED
      BY <3>1, <3>2
  <2> QED
    BY <2>1, <2>2 DEF HasArity
<1>12. \A v \in D \ {x} : Loose(v) => Loose(v)'
  <2> SUFFICES ASSUME NEW v \in D \ {x}, Loose(v)
               PROVE  Loose(v)'
    OBVIOUS
  <2>1. v \notin Placed'
    BY <1>7 DEF Loose
  <2>2. instrs'[v].op = instrs[v].op /\ instrs'[v].imm = instrs[v].imm
    BY <1>3, <1>4
  <2> QED
    BY <2>1, <2>2 DEF Loose, IsImm, IsConst, Imm
<1>13. Live' \subseteq (Live \cup Q) \ {x}
  <2> SUFFICES ASSUME NEW v \in DOMAIN ins, v \in Placed' \/ Loose(v)'
               PROVE  v \in (Live \cup Q) \ {x}
    BY <1>4 DEF Live
  <2>1. CASE v \in Placed'
    BY <1>1, <1>2, <1>7, <2>1
  <2>2. CASE Loose(v)' /\ v \notin Placed'
    <3>1. v # x
      <4>1. instrs'[x].op = instrs[x].op
        BY <1>2, <1>3, <1>4
      <4> QED
        BY <2>2, <4>1 DEF Loose, IsImm, IsConst, Operations
    <3>2. CASE v \in D
      <4>1. v \notin Placed
        BY <1>7, <2>2, <3>1
      <4>2. instrs'[v].op = instrs[v].op /\ instrs'[v].imm = instrs[v].imm
        BY <1>3, <1>4, <3>2
      <4> QED
        BY <2>2, <3>1, <3>2, <4>1, <4>2 DEF Loose, IsImm, IsConst, Imm, Live
    <3> QED
      BY <3>1, <3>2
  <2> QED
    BY <2>1, <2>2
<1>14. Agree(instrs', Placed', Live')
  <2>1. y \in Live \cup Q
    BY <1>2
  <2>2. Agree(instrs', (Placed \cup R) \ {x}, (Live \cup Q) \ {x})
    BY <1>2, <1>5, <1>6, <2>1, RewiresAgree
  <2>3. Placed' = (Placed \cup R) \ {x}
    BY <1>2, <1>7
  <2>4. Placed' \subseteq Live'
    <3>1. Placed' \subseteq DOMAIN instrs'
      BY <1>1, <1>3, <1>4, <1>7
    <3> QED
      BY <3>1 DEF Live
  <2> QED
    BY <1>13, <2>2, <2>3, <2>4 DEF Agree
<1>15. UsersAgree'
  BY <1>9, <1>14 DEF UsersAgree, Agree, Live, Listed, Reads
<1>16. ASSUME NEW u \in Placed \ {x}
       PROVE  /\ u \in D /\ Len(instrs'[u].in) = Len(instrs[u].in)
              /\ \A i \in 1..Len(instrs[u].in) :
                   instrs'[u].in[i] = IF instrs[u].in[i] = x THEN y ELSE instrs[u].in[i]
  <2>1. u \in D /\ ins[u] = instrs[u] /\ u \in DOMAIN ins
    BY <1>1, <1>3
  <2>2. Listed(ins, x, u) = Reads(ins, u, x)
    BY <1>1, <1>2, <1>5 DEF Agree
  <2> QED
    BY <2>1, <2>2, <1>4 DEF Rewires
<1>17. ASSUME NEW u \in Placed', NEW v \in ToSet(instrs'[u].in)
       PROVE  Loose(v)' \/ Precedes(lists', v, u)
  <2>1. u \in DOMAIN instrs'
    BY <1>1, <1>3, <1>4, <1>7
  <2>2. Len(instrs'[u].in) \in Nat /\ DOMAIN instrs'[u].in = 1..Len(instrs'[u].in)
    BY <1>4, <2>1, TypedParts, LenProperties
  <2>3. PICK i \in 1..Len(instrs'[u].in) : v = instrs'[u].in[i]
    BY <2>2 DEF ToSet
  <2>4. u \notin R
    <3>1. u \in R => Len(ins[u].in) = 0
      BY <1>3
    <3>2. Len(instrs'[u].in) = Len(ins[u].in)
      BY <1>4, <2>1
    <3> QED
      BY <2>2, <2>3, <3>1, <3>2
  <2>5. u \in Placed \ {x}
    BY <1>7, <2>4
  <2> DEFINE w == instrs[u].in[i]
  <2>6. v = (IF w = x THEN y ELSE w) /\ i \in 1..Len(instrs[u].in) /\ u \in D
    BY <1>16, <2>3, <2>5
  <2>7. w \in ToSet(instrs[u].in) /\ w \in D
    <3>1. instrs[u].in \in Seq(D)
      BY <1>1, <2>6, TypedParts
    <3> QED
      BY <2>6, <3>1, LenProperties, ElementOfSeq DEF ToSet
  <2>8. Loose(w) \/ Precedes(lists, w, u)
    BY <2>5, <2>7 DEF IInv, InputsPlaced
  <2> HIDE DEF w
  <2>9. CASE w # x
    <3>1. CASE Loose(w)
      BY <1>12, <2>6, <2>7, <2>9, <3>1
    <3>2. CASE Precedes(lists, w, u)
      BY <2>5, <2>6, <2>9, <3>2 DEF Rearranges
    <3> QED
      BY <2>8, <3>1, <3>2
  <2>10. CASE w = x
    <3>1. Precedes(lists, x, u) /\ v = y
      BY <1>2, <2>6, <2>8, <2>10 DEF Loose
    <3>2. CASE y \in ToSet(instrs[x].in)
      <4>1. Loose(y) \/ Precedes(lists, y, x)
        BY <1>2, <3>2 DEF IInv, InputsPlaced
      <4>2. y \in D \ {x}
        BY <1>1, <1>2, <3>2
      <4>3. CASE Loose(y)
        BY <1>12, <3>1, <4>2, <4>3
      <4>4. CASE Precedes(lists, y, x)
        <5>1. Precedes(lists, y, u)
          BY <1>1, <3>1, <4>4, PrecedesOrder
        <5> QED
          BY <2>5, <3>1, <4>2, <5>1 DEF Rearranges
      <4> QED
        BY <4>1, <4>3, <4>4
    <3>3. CASE y \in R /\ \A t : t # x /\ Precedes(lists, x, t) => Precedes(lists', y, t)
      BY <2>5, <3>1, <3>3
    <3>4. CASE Loose(y)'
      BY <3>1, <3>4
    <3> QED
      BY <3>2, <3>3, <3>4
  <2> QED
    BY <2>9, <2>10
<1>18. InputsPlaced'
  BY <1>17 DEF InputsPlaced
<1>19. ASSUME NEW b \in DOMAIN lists, b < block, NEW z \in ToSet(lists[b]), ~Applicable(z)
       PROVE  ~Applicable(z)'
  <2>1. PICK k \in DOMAIN lists[b] : lists[b][k] = z
    BY DEF ToSet
  <2>2. PICK j \in DOMAIN lists[block] : lists[block][j] = x
    BY <1>2 DEF ToSet
  <2>3. b \in Nat /\ block \in Nat
    <3>1. DOMAIN lists = 1..Len(lists) /\ Len(lists) \in Nat
      BY <1>1, ListsParts
    <3> QED
      BY <1>2, <3>1
  <2>4. z # x
    BY <1>1, <1>2, <1>19, <2>1, <2>2, <2>3 DEF Once
  <2>5. z \in Placed \ {x}
    BY <2>4 DEF Placed
  <2>6. x \notin ToSet(instrs[z].in)
    <3> SUFFICES ASSUME x \in ToSet(instrs[z].in)
                 PROVE  FALSE
      OBVIOUS
    <3>1. Precedes(lists, x, z)
      BY <1>2, <2>5 DEF IInv, InputsPlaced, Loose
    <3>2. Precedes(lists, z, x)
      BY <1>2, <1>19, <2>1, <2>2 DEF Precedes
    <3> QED
      BY <1>1, <3>1, <3>2, PrecedesOrder
  <2>7. z \in D /\ \A i \in 1..Len(instrs[z].in) : instrs'[z].in[i] = instrs[z].in[i]
    <3>1. z \in D /\ instrs[z].in \in Seq(D)
      BY <1>1, <2>5, TypedParts
    <3>2. \A i \in 1..Len(instrs[z].in) : instrs[z].in[i] \in ToSet(instrs[z].in)
      BY <3>1, LenProperties DEF ToSet
    <3> QED
      BY <1>16, <2>5, <2>6, <3>1, <3>2
  <2>8. \A v \in D : instrs'[v].op = instrs[v].op /\ instrs'[v].imm = instrs[v].imm
    BY <1>3, <1>4
  <2>9. ASSUME instrs[z].op \in Operations, NEW n \in {1, 2}
        PROVE  instrs'[z].in[n] = instrs[z].in[n] /\ instrs[z].in[n] \in D
    <3>1. HasArity(instrs[z])
      BY <2>7 DEF IInv
    <3>2. Len(instrs[z].in) = 2
      BY <2>9, <3>1 DEF HasArity, Operations, Binary
    <3>3. n \in 1..Len(instrs[z].in)
      BY <3>2
    <3>4. instrs[z].in \in Seq(D)
      BY <1>1, <2>7, TypedParts
    <3> QED
      BY <2>7, <3>3, <3>4, ElementOfSeq
  <2> QED
    BY <1>19, <2>7, <2>8, <2>9, SameRules
<1>20. WalkedClean'
  <2> SUFFICES ASSUME NEW b \in DOMAIN lists \ (rewritten \cup {block})
               PROVE  b < block => \A z \in ToSet(lists'[b]) : ~Applicable(z)'
    BY <1>8, <1>9 DEF WalkedClean, Rearranges
  <2>1. lists'[b] = lists[b]
    BY DEF Rearranges
  <2>2. b < block => \A z \in ToSet(lists[b]) : ~Applicable(z)
    BY <1>8 DEF IInv, WalkedClean
  <2> QED
    BY <1>19, <2>1, <2>2
<1> QED
  BY <1>9, <1>10, <1>11, <1>15, <1>18, <1>20 DEF IInv, Rearranges

-----------------------------------------------------------------------------
(* Init and the actions.                                                     *)

\* At the first instruction of a block nothing is behind the walk.
LEMMA FirstClean ==
  ASSUME Typed(instrs), lists \in Seq(Seq(DOMAIN instrs)), Once(lists), NEW b \in DOMAIN lists
  PROVE  /\ FirstOf(b) \in {NoInst} \cup ToSet(lists[b])
         /\ FirstOf(b) = NoInst => ToSet(lists[b]) = {}
         /\ \A i, j \in DOMAIN lists[b] : i < j => lists[b][j] # FirstOf(b)
<1>1. /\ Len(lists[b]) \in Nat /\ DOMAIN lists[b] = 1..Len(lists[b])
      /\ \A i \in DOMAIN lists[b] : lists[b][i] \in DOMAIN instrs
      /\ lists[b] \in Seq(DOMAIN instrs)
  BY ListsParts
<1>2. NoInst \notin DOMAIN instrs
  BY TypedParts DEF NoInst
<1>3. CASE lists[b] = <<>>
  BY <1>3 DEF FirstOf, ToSet
<1>4. CASE lists[b] # <<>>
  <2>1. 1 \in DOMAIN lists[b]
    BY <1>1, <1>4, EmptySeq
  <2>2. FirstOf(b) = lists[b][1]
    BY <1>4 DEF FirstOf
  <2>3. FirstOf(b) # NoInst /\ FirstOf(b) \in ToSet(lists[b])
    BY <1>1, <1>2, <2>1, <2>2 DEF ToSet
  <2>4. ASSUME NEW i \in DOMAIN lists[b], NEW j \in DOMAIN lists[b], i < j
        PROVE  lists[b][j] # FirstOf(b)
    <3>1. j # 1
      BY <1>1, <2>4
    <3> QED
      BY <2>1, <2>2, <3>1 DEF Once
  <2> QED
    BY <2>3, <2>4
<1> QED
  BY <1>3, <1>4

LEMMA InitKeeps == Init => IInv
<1> SUFFICES ASSUME Init PROVE IInv
  OBVIOUS
<1>1. PICK p \in Programs :
        /\ instrs = p.instrs /\ source = p.instrs /\ lists = p.lists
        /\ block = 1 /\ current = FirstOf(1)
        /\ rewritten = {} /\ status = "running"
  BY DEF Init
<1> DEFINE D == DOMAIN instrs
<1>2. /\ Typed(instrs) /\ lists \in Seq(Seq(D)) /\ lists # <<>> /\ Once(lists)
      /\ \A x \in D : \E b \in DOMAIN lists : x \in ToSet(lists[b])
      /\ \A y \in D :
           /\ HasArity(instrs[y])
           /\ \A x \in ToSet(instrs[y].in) : Precedes(lists, x, y)
           /\ \A x \in D : Listed(instrs, x, y) = Reads(instrs, y, x)
  <2> DEFINE all == DOMAIN p.instrs
  <2>1. /\ p.instrs \in Seq(InstructionsOver(all))
        /\ p.lists \in Seq(Seq(all)) \ {<<>>}
        /\ \A x \in all : \E b \in DOMAIN p.lists : x \in ToSet(p.lists[b])
        /\ \A a, b \in DOMAIN p.lists : \A i \in DOMAIN p.lists[a], j \in DOMAIN p.lists[b] :
             p.lists[a][i] = p.lists[b][j] => a = b /\ i = j
        /\ \A y \in all :
             /\ HasArity(p.instrs[y])
             /\ \A x \in ToSet(p.instrs[y].in) : Precedes(p.lists, x, y)
             /\ \A x \in all : Occurrences(p.instrs[x].users, y) = Occurrences(p.instrs[y].in, x)
    BY ProgramAssumption, Zenon DEF ProgramAssumption
  <2>2. p.instrs = instrs /\ p.lists = lists /\ all = D
    BY <1>1
  <2> HIDE DEF all
  <2> QED
    BY <2>1, <2>2 DEF Typed, Once, Listed, Reads
<1>3. Len(instrs) \in Nat /\ Len(source) = Len(instrs)
  BY <1>1, <1>2, TypedParts
<1>4. 1 \in DOMAIN lists
  <2>1. Len(lists) \in Nat /\ DOMAIN lists = 1..Len(lists) /\ Len(lists) # 0
    BY <1>2, LenProperties, EmptySeq
  <2> QED
    BY <2>1
<1>5. lists[1] \in Seq(D)
  BY <1>2, <1>4, ListsParts
<1>6. current = NoInst \/ (lists[1] # <<>> /\ current = lists[1][1])
  BY <1>1 DEF FirstOf
<1>7. lists[1] # <<>> => lists[1][1] \in ToSet(lists[1])
  BY <1>5, LenProperties, EmptySeq DEF ToSet
<1>8. TypeOK
  BY <1>1, <1>2, <1>4, <1>6, <1>7 DEF TypeOK, Typed
<1>9. Placed = D
  <2>1. Placed \subseteq D
    BY <1>2, ListsParts, PlacedParts DEF IsAt, Placed, PlacedIn
  <2> QED
    BY <1>2, <2>1 DEF Placed
<1>10. UsersAgree
  <2>1. \A s \in Seq(D) : ToSet(s) \subseteq D
    BY LenProperties, ElementOfSeq DEF ToSet
  <2>2. \A x \in D : ToSet(instrs[x].users) \subseteq Placed
    BY <1>2, <1>9, <2>1, TypedParts
  <2> QED
    BY <1>2, <1>8, <1>9, <2>2 DEF UsersAgree, Listed, Reads
<1>11. InputsPlaced
  BY <1>2, <1>9 DEF InputsPlaced
<1>12. WalkedClean
  <2>1. DOMAIN lists = 1..Len(lists) /\ Len(lists) \in Nat
    BY <1>2, LenProperties
  <2>2. /\ current = NoInst => ToSet(lists[1]) = {}
        /\ \A i, j \in DOMAIN lists[1] : i < j => lists[1][j] # current
    BY <1>1, <1>2, <1>4, FirstClean
  <2>3. \A b \in DOMAIN lists : ~(b < 1)
    BY <2>1
  <2> QED
    BY <1>1, <2>2, <2>3 DEF WalkedClean
<1> QED
  BY <1>2, <1>3, <1>8, <1>10, <1>11, <1>12 DEF IInv

\* Nothing happens to the program: the walk alone moves on.
LEMMA WalkKeeps ==
  ASSUME IInv, UNCHANGED <<instrs, lists, source>>,
         block' \in DOMAIN lists, current' \in {NoInst} \cup ToSet(lists[block']),
         rewritten' \subseteq DOMAIN lists, status' \in {"running", "done", "aborted"},
         status' # "aborted" => WalkedClean'
  PROVE  IInv'
<1>1. TypeOK'
  BY DEF IInv, TypeOK
<1>2. Placed' = Placed
  BY DEF Placed
<1>3. \A v : Loose(v)' <=> Loose(v)
  BY <1>2 DEF Loose, IsImm, IsConst, Imm
<1>4. UsersAgree'
  BY <1>1, <1>2, <1>3 DEF IInv, UsersAgree
<1>5. InputsPlaced'
  BY <1>2, <1>3 DEF IInv, InputsPlaced
<1> QED
  BY <1>1, <1>4, <1>5 DEF IInv

LEMMA SameApplicable ==
  ASSUME UNCHANGED instrs, NEW z
  PROVE  Applicable(z)' <=> Applicable(z)
BY SameRules

LEMMA StepKeeps ==
  ASSUME IInv, NEW x, Step(x)
  PROVE  IInv'
<1> DEFINE s == lists[block]
           i == PlaceOf(s, x)
<1>1. /\ Typed(instrs) /\ lists \in Seq(Seq(DOMAIN instrs)) /\ Once(lists)
  BY InvParts
<1>2. /\ status = "running" /\ x = current /\ x # NoInst /\ ~Applicable(x)
      /\ UNCHANGED <<instrs, lists, source, block, rewritten, status>>
      /\ current' = IF i = Len(s) THEN NoInst ELSE s[i + 1]
  BY DEF Step, At, NextOf, PlaceOf
<1>3. block \in DOMAIN lists /\ x \in ToSet(s) /\ rewritten \subseteq DOMAIN lists
  BY <1>2 DEF IInv, TypeOK
<1>4. /\ s \in Seq(DOMAIN instrs) /\ Len(s) \in Nat /\ DOMAIN s = 1..Len(s)
      /\ \A j \in DOMAIN s : s[j] \in DOMAIN instrs
  BY <1>1, <1>3, ListsParts
<1>5. i \in 1..Len(s) /\ s[i] = x
  BY <1>3, <1>4, PlaceOfParts
<1>6. \A j, k \in DOMAIN s : s[j] = s[k] => j = k
  BY <1>1, <1>3 DEF Once
<1>7. NoInst \notin DOMAIN instrs
  BY <1>1, TypedParts DEF NoInst
<1> HIDE DEF i
<1>8. ASSUME block \notin rewritten, NEW j \in DOMAIN s, j <= i
      PROVE  ~Applicable(s[j])
  <2>1. CASE j = i
    BY <1>2, <1>5, <2>1
  <2>2. CASE j < i
    <3>1. \A m, n \in DOMAIN s : m < n /\ s[n] = current => ~Applicable(s[m])
      BY <1>2, <1>3, <1>8 DEF IInv, WalkedClean
    <3> QED
      BY <1>2, <1>4, <1>5, <1>8, <2>2, <3>1
  <2> QED
    BY <1>4, <1>5, <1>8, <2>1, <2>2
<1>9. current' \in {NoInst} \cup ToSet(s)
  <2>1. CASE i = Len(s)
    BY <1>2, <2>1
  <2>2. CASE i # Len(s)
    <3>1. i + 1 \in DOMAIN s
      BY <1>4, <1>5, <2>2
    <3> QED
      BY <1>2, <2>2, <3>1 DEF ToSet
  <2> QED
    BY <2>1, <2>2
<1>10. \A z : Applicable(z)' <=> Applicable(z)
  BY <1>2, SameApplicable
<1>11. ASSUME block \notin rewritten, current' = NoInst, NEW z \in ToSet(s)
       PROVE  ~Applicable(z)
  <2>1. i = Len(s)
    <3> SUFFICES ASSUME i # Len(s) PROVE FALSE
      OBVIOUS
    <3>1. i + 1 \in DOMAIN s
      BY <1>4, <1>5
    <3> QED
      BY <1>2, <1>4, <1>7, <1>11, <3>1
  <2>2. PICK j \in DOMAIN s : z = s[j]
    BY DEF ToSet
  <2> QED
    BY <1>4, <1>8, <1>11, <2>1, <2>2
<1>12. ASSUME block \notin rewritten, NEW j \in DOMAIN s, NEW k \in DOMAIN s,
              j < k, s[k] = current'
       PROVE  ~Applicable(s[j])
  <2>1. i # Len(s)
    BY <1>2, <1>4, <1>7, <1>12
  <2>2. i + 1 \in DOMAIN s
    BY <1>4, <1>5, <2>1
  <2>3. k = i + 1
    BY <1>2, <1>6, <1>12, <2>1, <2>2
  <2>4. j <= i
    BY <1>4, <1>5, <1>12, <2>3
  <2> QED
    BY <1>8, <1>12, <2>4
<1>13. WalkedClean'
  <2> SUFFICES ASSUME NEW b \in DOMAIN lists \ rewritten
               PROVE  /\ b < block \/ (b = block /\ current' = NoInst) =>
                           \A z \in ToSet(lists[b]) : ~Applicable(z)
                      /\ b = block => \A j, k \in DOMAIN lists[b] :
                           j < k /\ lists[b][k] = current' => ~Applicable(lists[b][j])
    BY <1>2, <1>10 DEF WalkedClean
  <2>1. b < block => \A z \in ToSet(lists[b]) : ~Applicable(z)
    BY <1>2 DEF IInv, WalkedClean
  <2> QED
    BY <1>11, <1>12, <2>1
<1> QED
  BY <1>2, <1>3, <1>9, <1>13, WalkKeeps

LEMMA NextBlockKeeps ==
  ASSUME IInv, NextBlock
  PROVE  IInv'
<1>1. /\ Typed(instrs) /\ lists \in Seq(Seq(DOMAIN instrs)) /\ Once(lists)
      /\ DOMAIN lists = 1..Len(lists) /\ Len(lists) \in Nat
  BY InvParts, ListsParts
<1>2. block \in DOMAIN lists /\ rewritten \subseteq DOMAIN lists
  BY DEF IInv, TypeOK
<1>3. /\ status = "running" /\ current = NoInst
      /\ UNCHANGED <<instrs, lists, source, rewritten>>
  BY DEF NextBlock
<1>4. \A z : Applicable(z)' <=> Applicable(z)
  BY <1>3, SameApplicable
<1>5. \A b \in DOMAIN lists \ rewritten : b <= block =>
        \A z \in ToSet(lists[b]) : ~Applicable(z)
  <2>1. WalkedClean
    BY <1>3 DEF IInv
  <2>2. \A b \in DOMAIN lists : b <= block => b < block \/ b = block
    BY <1>1, <1>2
  <2> QED
    BY <1>3, <2>1, <2>2 DEF WalkedClean
<1>6. CASE block < Len(lists)
  <2>1. /\ block' = block + 1 /\ current' = FirstOf(block') /\ status' = status
        /\ block' \in DOMAIN lists
    BY <1>1, <1>2, <1>6 DEF NextBlock
  <2>2. /\ current' \in {NoInst} \cup ToSet(lists[block'])
        /\ current' = NoInst => ToSet(lists[block']) = {}
        /\ \A i, j \in DOMAIN lists[block'] : i < j => lists[block'][j] # current'
    BY <1>1, <2>1, FirstClean
  <2>3. \A b \in DOMAIN lists : b < block' => b <= block
    BY <1>1, <1>2, <2>1
  <2>4. WalkedClean'
    <3> SUFFICES ASSUME NEW b \in DOMAIN lists \ rewritten
                 PROVE  /\ b < block' \/ (b = block' /\ current' = NoInst) =>
                             \A z \in ToSet(lists[b]) : ~Applicable(z)
                        /\ b = block' => \A i, j \in DOMAIN lists[b] :
                             i < j /\ lists[b][j] = current' => ~Applicable(lists[b][i])
      BY <1>3, <1>4, <2>1 DEF WalkedClean
    <3> QED
      BY <1>5, <2>2, <2>3
  <2> QED
    BY <1>2, <1>3, <2>1, <2>2, <2>4, WalkKeeps
<1>7. CASE ~(block < Len(lists))
  <2>1. status' = "done" /\ UNCHANGED <<block, current>>
    BY <1>7 DEF NextBlock
  <2>2. \A b \in DOMAIN lists : b <= block
    BY <1>1, <1>2, <1>7
  <2>3. \A i \in DOMAIN lists[block] : lists[block][i] # NoInst
    BY <1>1, <1>2, ListsParts, TypedParts DEF NoInst
  <2>4. WalkedClean'
    BY <1>3, <1>4, <1>5, <2>1, <2>2, <2>3 DEF WalkedClean
  <2> QED
    BY <1>2, <1>3, <2>1, <2>4, WalkKeeps
<1> QED
  BY <1>6, <1>7

LEMMA RunAgainKeeps ==
  ASSUME IInv, RunAgain
  PROVE  IInv'
<1>1. /\ Typed(instrs) /\ lists \in Seq(Seq(DOMAIN instrs)) /\ Once(lists)
      /\ DOMAIN lists = 1..Len(lists) /\ Len(lists) \in Nat
  BY InvParts, ListsParts
<1>2. 1 \in DOMAIN lists
  BY <1>1 DEF IInv, TypeOK
<1>3. /\ status' = "running" /\ block' = 1 /\ current' = FirstOf(1) /\ rewritten' = {}
      /\ UNCHANGED <<instrs, lists, source>>
  BY DEF RunAgain
<1>4. /\ current' \in {NoInst} \cup ToSet(lists[1])
      /\ current' = NoInst => ToSet(lists[1]) = {}
      /\ \A i, j \in DOMAIN lists[1] : i < j => lists[1][j] # current'
  BY <1>1, <1>2, <1>3, FirstClean
<1>5. \A b \in DOMAIN lists : ~(b < 1)
  BY <1>1
<1>6. WalkedClean'
  BY <1>3, <1>4, <1>5 DEF WalkedClean
<1> QED
  BY <1>2, <1>3, <1>4, <1>6, WalkKeeps

LEMMA FoldAbortsKeeps ==
  ASSUME IInv, NEW x, FoldAborts(x)
  PROVE  IInv'
<1>1. /\ status' = "aborted"
      /\ UNCHANGED <<instrs, lists, source, block, current, rewritten>>
  BY DEF FoldAborts
<1>2. block \in DOMAIN lists /\ current \in {NoInst} \cup ToSet(lists[block])
      /\ rewritten \subseteq DOMAIN lists
  BY DEF IInv, TypeOK
<1> QED
  BY <1>1, <1>2, WalkKeeps

LEMMA BuiltGrown ==
  ASSUME IInv, NEW v \in Nat
  PROVE  LET ins == BuildConst(instrs, v)
             new == Len(instrs) + 1
         IN /\ Grown(ins) /\ new \in DOMAIN ins \ DOMAIN instrs
            /\ DOMAIN ins = DOMAIN instrs \cup {new}
            /\ ins[new].imm = v /\ ins[new].op = "CONST"
<1> DEFINE ins == BuildConst(instrs, v)
           new == Len(instrs) + 1
<1>1. Typed(instrs) /\ DOMAIN instrs = 1..Len(instrs) /\ Len(instrs) \in Nat
  BY InvParts
<1>2. /\ Typed(ins) /\ Len(ins) = new /\ DOMAIN ins = 1..new
      /\ \A x \in DOMAIN instrs : x \in DOMAIN ins /\ ins[x] = instrs[x]
      /\ new \in DOMAIN ins /\ new \notin DOMAIN instrs
      /\ ins[new].op = "CONST" /\ ins[new].in = <<>> /\ ins[new].imm = v
      /\ ins[new].users = <<>>
  BY <1>1, BuildConstParts
<1> HIDE DEF ins
<1>3. DOMAIN ins = DOMAIN instrs \cup {new}
  BY <1>1, <1>2
<1>4. Grown(ins)
  BY <1>1, <1>2, <1>3 DEF Grown
<1> QED
  BY <1>2, <1>3, <1>4 DEF ins

\* ReplaceWithoutNewInstr and the walk's loss of its place.
LEMMA ReplacedKeeps ==
  ASSUME IInv, NEW x, At(x), instrs[x].op \in Operations, NEW ins, Grown(ins),
         NEW y \in DOMAIN ins \ {x}, instrs' = Replaced(ins, x, y), Gone(x),
         y \in ToSet(instrs[x].in) \/ (y \notin DOMAIN instrs /\ IsImm(y, 0)')
  PROVE  IInv'
<1>1. /\ Typed(instrs) /\ DOMAIN instrs = 1..Len(instrs) /\ Len(instrs) \in Nat
      /\ lists \in Seq(Seq(DOMAIN instrs)) /\ Once(lists) /\ Placed = PlacedIn(lists)
  BY InvParts
<1>2. /\ x \in DOMAIN instrs /\ block \in DOMAIN lists /\ x \in ToSet(lists[block])
  BY LookedAt
<1>3. Typed(ins) /\ DOMAIN instrs \subseteq DOMAIN ins /\ ins[x] = instrs[x]
  BY <1>2 DEF Grown
<1>4. Rewires(ins, instrs', x, y)
  <2>1. Rewirable(ins, x, y)
    BY RewirableHere
  <2>2. instrs' = RemoveUser(RemoveUser(ReplaceInputInUsers(ins, x, y), Input(x, 1), x), Input(x, 2), x)
    BY DEF Replaced
  <2>3. Input(x, 1) = ins[x].in[1] /\ Input(x, 2) = ins[x].in[2]
    BY <1>3 DEF Input
  <2> QED
    BY <2>1, <2>2, <2>3, ReplacedRewires
<1>5. Removes(DOMAIN instrs, lists, lists', block, x)
  BY <1>1, <1>2, RemovedFromList DEF Gone
<1>6. Removes(DOMAIN ins, lists, lists', block, x)
  <2>1. lists' \in Seq(Seq(DOMAIN instrs))
    BY <1>5 DEF Removes
  <2>2. lists' \in Seq(Seq(DOMAIN ins))
    BY <1>3, <2>1, SeqOfSeqs
  <2> QED
    BY <1>5, <2>2 DEF Removes
<1>7. Rearranges(DOMAIN ins, x, {})
  BY <1>6 DEF Removes, Rearranges
<1>8. /\ current' = NoInst /\ rewritten' = rewritten \cup {block}
      /\ UNCHANGED <<source, block, status>>
  BY DEF Gone
<1>9. y \notin DOMAIN instrs /\ IsImm(y, 0)' => y \notin DOMAIN instrs /\ Loose(y)'
  <2> SUFFICES ASSUME y \notin DOMAIN instrs, IsImm(y, 0)'
               PROVE  Loose(y)'
    OBVIOUS
  <2>1. y \in Nat /\ y > Len(instrs)
    <3>1. DOMAIN ins = 1..Len(ins) /\ Len(ins) \in Nat
      BY <1>3, TypedParts
    <3> QED
      BY <1>1, <3>1
  <2>2. Len(source') <= Len(instrs) /\ Len(source') \in Nat
    BY <1>8 DEF IInv
  <2>3. PlacedIn(lists') \subseteq DOMAIN instrs
    <3>1. PlacedIn(lists') \subseteq PlacedIn(lists)
      BY <1>5 DEF Removes
    <3> QED
      BY <1>1, <3>1, InvParts DEF Agree
  <2>4. y \notin Placed'
    BY <2>3 DEF Placed, PlacedIn
  <2> QED
    BY <1>1, <2>1, <2>2, <2>4 DEF Loose
<1> QED
  BY <1>4, <1>7, <1>8, <1>9, RewriteKeeps

LEMMA ReplaceWithInputKeeps ==
  ASSUME IInv, NEW x, ReplaceWithInput(x)
  PROVE  IInv'
<1>1. PICK y \in Replacements(x) : instrs' = Replaced(instrs, x, y)
  BY DEF ReplaceWithInput
<1>2. At(x) /\ Gone(x)
  BY DEF ReplaceWithInput
<1>3. instrs[x].op \in Operations /\ y \in {Input(x, 1), Input(x, 2)}
  BY ReplacementsParts
<1>4. /\ ToSet(instrs[x].in) = {Input(x, 1), Input(x, 2)}
      /\ {Input(x, 1), Input(x, 2)} \subseteq Live \ {x}
  BY <1>2, <1>3, LookedAt
<1>5. y \in DOMAIN instrs \ {x}
  BY <1>3, <1>4 DEF Live
<1>6. Grown(instrs)
  BY InvParts DEF Grown
<1> QED
  BY <1>1, <1>2, <1>3, <1>4, <1>5, <1>6, ReplacedKeeps

LEMMA ReplaceWithZeroKeeps ==
  ASSUME IInv, NEW x, ReplaceWithZero(x)
  PROVE  IInv'
<1> DEFINE ins == BuildConst(instrs, 0)
<1>1. PICK new : new = Len(instrs) + 1
  OBVIOUS
<1>2. At(x) /\ Gone(x) /\ instrs' = Replaced(ins, x, new) /\ instrs[x].op \in Operations
  BY <1>1 DEF ReplaceWithZero, ShiftedOut, Operations
<1>3. /\ Grown(ins) /\ new \in DOMAIN ins \ DOMAIN instrs
      /\ ins[new].imm = 0 /\ ins[new].op = "CONST"
  BY <1>1, BuiltGrown
<1> HIDE DEF ins
<1>4. x \in DOMAIN instrs
  BY <1>2, LookedAt
<1>5. ins[x] = instrs[x]
  BY <1>3, <1>4 DEF Grown
<1>6. Rewires(ins, instrs', x, new)
  <2>1. Rewirable(ins, x, new)
    BY <1>2, <1>3, <1>4, RewirableHere
  <2>2. instrs' = RemoveUser(RemoveUser(ReplaceInputInUsers(ins, x, new), Input(x, 1), x), Input(x, 2), x)
    BY <1>2 DEF Replaced
  <2>3. Input(x, 1) = ins[x].in[1] /\ Input(x, 2) = ins[x].in[2]
    BY <1>5 DEF Input
  <2> QED
    BY <2>1, <2>2, <2>3, ReplacedRewires
<1>7. IsImm(new, 0)'
  <2>1. instrs'[new].op = ins[new].op /\ instrs'[new].imm = ins[new].imm
    BY <1>3, <1>6 DEF Rewires
  <2> QED
    BY <1>3, <2>1 DEF IsImm, IsConst, Imm
<1> QED
  BY <1>2, <1>3, <1>4, <1>7, ReplacedKeeps

LEMMA FoldKeeps ==
  ASSUME IInv, NEW x, Fold(x)
  PROVE  IInv'
<1>1. /\ At(x) /\ instrs[x].op \in Operations /\ lists[block] = <<x>>
      /\ current' = NoInst /\ rewritten' = rewritten \cup {block}
      /\ UNCHANGED <<source, block, status>>
  BY DEF Fold, Foldable, Operations
<1>2. PICK new : new = Len(instrs) + 1
  OBVIOUS
<1>3. PICK v \in Folded(x) :
        /\ instrs' = ReplaceInputInUsers(
                       RemoveUser(RemoveUser(BuildConst(instrs, v), Input(x, 1), x), Input(x, 2), x),
                       x, new)
        /\ lists' = [lists EXCEPT ![block] = <<new>>]
  BY <1>2 DEF Fold
<1>4. v \in Nat
  BY DEF Folded, Words
<1> DEFINE ins == BuildConst(instrs, v)
           E == DOMAIN ins
<1>5. Grown(ins) /\ new \in E \ DOMAIN instrs
  BY <1>2, <1>4, BuiltGrown
<1> HIDE DEF ins
<1>6. /\ Typed(instrs) /\ lists \in Seq(Seq(DOMAIN instrs)) /\ Once(lists)
  BY InvParts
<1>7. x \in DOMAIN instrs /\ block \in DOMAIN lists
  BY <1>1, LookedAt
<1>8. ins[x] = instrs[x] /\ DOMAIN instrs \subseteq E
  BY <1>5, <1>7 DEF Grown
<1>9. Rewires(ins, instrs', x, new)
  <2>1. Rewirable(ins, x, new)
    BY <1>1, <1>5, <1>7, RewirableHere
  <2>2. instrs' = ReplaceInputInUsers(
                    RemoveUser(RemoveUser(ins, Input(x, 1), x), Input(x, 2), x), x, new)
    BY <1>3 DEF ins
  <2>3. Input(x, 1) = ins[x].in[1] /\ Input(x, 2) = ins[x].in[2]
    BY <1>8 DEF Input
  <2> QED
    BY <2>1, <2>2, <2>3, FoldedRewires
<1>10. Puts(E, lists, lists', block, x, new)
  BY <1>1, <1>3, <1>5, <1>6, <1>7, <1>8, PutInList
<1> HIDE DEF E
<1>11. Rearranges(E, x, {new})
  BY <1>10 DEF Puts, Rearranges
<1>12. \A u : u # x /\ Precedes(lists, x, u) => Precedes(lists', new, u)
  BY <1>10 DEF Puts
<1> QED
  BY <1>1, <1>5, <1>7, <1>9, <1>11, <1>12, RewriteKeeps DEF E

LEMMA NextKeeps == IInv /\ [Next]_vars => IInv'
<1> SUFFICES ASSUME IInv, [Next]_vars PROVE IInv'
  OBVIOUS
<1>1. ASSUME NEW x \in DOMAIN instrs,
             Fold(x) \/ FoldAborts(x) \/ ReplaceWithInput(x) \/ ReplaceWithZero(x) \/ Step(x)
      PROVE  IInv'
  BY <1>1, FoldKeeps, FoldAbortsKeeps, ReplaceWithInputKeeps, ReplaceWithZeroKeeps, StepKeeps
<1>2. CASE NextBlock
  BY <1>2, NextBlockKeeps
<1>3. CASE RunAgain
  BY <1>3, RunAgainKeeps
<1>4. CASE UNCHANGED vars
  <2>1. UNCHANGED <<instrs, lists, source, block, current, rewritten, status>>
    BY <1>4 DEF vars
  <2>2. /\ block \in DOMAIN lists /\ current \in {NoInst} \cup ToSet(lists[block])
        /\ rewritten \subseteq DOMAIN lists /\ status \in {"running", "done", "aborted"}
    BY DEF IInv, TypeOK
  <2>3. \A z : Applicable(z)' <=> Applicable(z)
    BY <2>1, SameApplicable
  <2>4. status # "aborted" => WalkedClean'
    BY <2>1, <2>3 DEF IInv, WalkedClean
  <2> QED
    BY <2>1, <2>2, <2>4, WalkKeeps
<1> QED
  BY <1>1, <1>2, <1>3, <1>4 DEF Next

\* The invariant of Peepholes::Run.
THEOREM PeepholesInvariance == Spec => []IInv
BY InitKeeps, NextKeeps, PTL DEF Spec

\* Instructions and users agree in both directions after every fold and rewrite
\* (src/optimizations/peepholes.cpp, constFolding.cpp): the asserts of
\* RemoveUser and ReplaceInput never fail, and no removed instruction is a user.
THEOREM PeepholesUsersAgree == Spec => []UsersAgree
<1>1. IInv => UsersAgree
  BY DEF IInv
<1> QED
  BY <1>1, PeepholesInvariance, PTL

\* No rewrite leaves an instruction that reads a removed value, or one that is
\* computed after it, apart from the zeros that are in no block.
THEOREM PeepholesInputsPlaced == Spec => []InputsPlaced
<1>1. IInv => InputsPlaced
  BY DEF IInv
<1> QED
  BY <1>1, PeepholesInvariance, PTL

\* A Run that comes to its end has rewritten all there was to rewrite in the
\* blocks it removed nothing from, even where later blocks were rewritten.
THEOREM PeepholesMissesOnlyBehindRewrite == Spec => []MissesOnlyBehindRewrite
<1>1. IInv => MissesOnlyBehindRewrite
  BY DEF IInv, WalkedClean, MissesOnlyBehindRewrite
<1> QED
  BY <1>1, PeepholesInvariance, PTL
=============================================================================
