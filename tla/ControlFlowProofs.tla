-------------------------- MODULE ControlFlowProofs --------------------------
(* Both ends of every edge agree after any sequence of calls on a graph, for *)
(* any number of blocks and edges, and paths change as they are meant to.    *)
EXTENDS ControlFlow, FlowGraphProofs, FiniteSetTheorems, SequenceTheorems

(***************************************************************************)
(* How often a list has an entry.                                          *)
(***************************************************************************)

PlacesOf(s, b) == {i \in DOMAIN s : s[i] = b}

\* The count is that of a finite set of places.
LEMMA CountParts ==
  ASSUME NEW S, NEW s \in Seq(S), NEW b
  PROVE  /\ PlacesOf(s, b) \in SUBSET (1..Len(s)) /\ IsFiniteSet(PlacesOf(s, b))
         /\ Count(s, b) = Cardinality(PlacesOf(s, b))
         /\ Count(s, b) \in Nat
         /\ Count(s, b) = 0 <=> \A i \in DOMAIN s : s[i] # b
<1>1. Len(s) \in Nat /\ DOMAIN s = 1..Len(s)
  BY LenProperties
<1>2. PlacesOf(s, b) \in SUBSET (1..Len(s)) /\ IsFiniteSet(PlacesOf(s, b))
  <2>1. PlacesOf(s, b) \in SUBSET (1..Len(s))
    BY <1>1 DEF PlacesOf
  <2>2. IsFiniteSet(1..Len(s))
    BY <1>1, FS_Interval
  <2> QED
    BY <2>1, <2>2, FS_Subset
<1>3. Count(s, b) = Cardinality(PlacesOf(s, b))
  BY DEF Count, PlacesOf
<1>4. Count(s, b) \in Nat
  BY <1>2, <1>3, FS_CardinalityType
<1>5. Count(s, b) = 0 <=> PlacesOf(s, b) = {}
  BY <1>2, <1>3, FS_EmptySet
<1> QED
  BY <1>2, <1>3, <1>4, <1>5 DEF PlacesOf

LEMMA CountEmpty ==
  ASSUME NEW b
  PROVE  Count(<<>>, b) = 0
<1>1. {i \in DOMAIN <<>> : <<>>[i] = b} = {}
  OBVIOUS
<1> QED
  BY <1>1, FS_EmptySet DEF Count

LEMMA CountAppend ==
  ASSUME NEW S, NEW s \in Seq(S), NEW e \in S, NEW b
  PROVE  Count(Append(s, e), b) = Count(s, b) + (IF e = b THEN 1 ELSE 0)
<1> DEFINE n == Len(s)
           t == Append(s, e)
<1>1. /\ n \in Nat /\ DOMAIN s = 1..n
      /\ t \in Seq(S) /\ DOMAIN t = 1..n + 1
      /\ \A i \in 1..n : t[i] = s[i]
      /\ t[n + 1] = e
  <2>1. n \in Nat /\ DOMAIN s = 1..n
    BY LenProperties
  <2>2. t \in Seq(S) /\ Len(t) = n + 1
    OBVIOUS
  <2>3. DOMAIN t = 1..n + 1
    BY <2>2, LenProperties
  <2> QED
    BY <2>1, <2>2, <2>3
<1>2. 1..n + 1 = (1..n) \cup {n + 1} /\ n + 1 \notin 1..n
  BY <1>1
<1> HIDE DEF t, n
<1>3. CASE e = b
  <2>1. PlacesOf(t, b) = PlacesOf(s, b) \cup {n + 1}
    BY <1>1, <1>2, <1>3 DEF PlacesOf
  <2>2. n + 1 \notin PlacesOf(s, b)
    BY <1>1, <1>2 DEF PlacesOf
  <2>3. Cardinality(PlacesOf(t, b)) = Cardinality(PlacesOf(s, b)) + 1
    <3>1. IsFiniteSet(PlacesOf(s, b))
      BY CountParts
    <3> QED
      BY <2>1, <2>2, <3>1, FS_AddElement
  <2>4. Count(t, b) = Count(s, b) + 1
    BY <1>1, <2>3, CountParts
  <2> QED
    BY <1>3, <2>4 DEF t
<1>4. CASE e # b
  <2>1. PlacesOf(t, b) = PlacesOf(s, b)
    BY <1>1, <1>2, <1>4 DEF PlacesOf
  <2>2. Count(t, b) = Count(s, b) /\ Count(s, b) \in Nat
    BY <1>1, <2>1, CountParts
  <2> QED
    BY <1>4, <2>2 DEF t
<1> QED
  BY <1>3, <1>4

LEMMA CountOne ==
  ASSUME NEW S, NEW e \in S, NEW b
  PROVE  /\ <<e>> \in Seq(S)
         /\ Count(<<e>>, b) = IF e = b THEN 1 ELSE 0
<1>1. <<e>> \in Seq(S) /\ DOMAIN <<e>> = {1} /\ <<e>>[1] = e
  OBVIOUS
<1>2. PlacesOf(<<e>>, b) = IF e = b THEN {1} ELSE {}
  BY <1>1 DEF PlacesOf
<1>3. Cardinality({1}) = 1 /\ Cardinality({}) = 0
  BY FS_Singleton, FS_EmptySet
<1>4. Count(<<e>>, b) = Cardinality(PlacesOf(<<e>>, b))
  BY DEF Count, PlacesOf
<1> QED
  BY <1>1, <1>2, <1>3, <1>4

\* An entry n times more.
Filled(s, n, e) == s \o [i \in 1..n |-> e]

LEMMA CountFilled ==
  ASSUME NEW S, NEW s \in Seq(S), NEW n \in Nat, NEW e \in S, NEW b
  PROVE  /\ Filled(s, n, e) \in Seq(S)
         /\ Count(Filled(s, n, e), b) = Count(s, b) + (IF e = b THEN n ELSE 0)
<1> DEFINE l == Len(s)
           f == [i \in 1..n |-> e]
           t == s \o f
<1>1. l \in Nat /\ DOMAIN s = 1..l
  BY LenProperties
<1>2. f \in Seq(S) /\ Len(f) = n
  <2>1. f \in [1..n -> S]
    OBVIOUS
  <2>2. f \in Seq(S)
    BY <2>1, SeqDef
  <2> QED
    BY <2>2, LenProperties
<1>3. /\ t \in Seq(S) /\ Len(t) = l + n
      /\ \A i \in 1..l + n : t[i] = IF i <= l THEN s[i] ELSE f[i - l]
  BY <1>1, <1>2, ConcatProperties
<1>4. /\ DOMAIN t = 1..l + n
      /\ \A i \in 1..l : t[i] = s[i]
      /\ \A i \in l + 1..l + n : t[i] = e
  BY <1>1, <1>3, LenProperties
<1>5. 1..l + n = (1..l) \cup (l + 1..l + n) /\ (1..l) \cap (l + 1..l + n) = {}
  BY <1>1
<1> HIDE DEF t, f, l
<1>6. t = Filled(s, n, e)
  BY DEF t, f, Filled
<1>7. CASE e = b
  <2>1. PlacesOf(t, b) = PlacesOf(s, b) \cup (l + 1..l + n)
    BY <1>1, <1>4, <1>5, <1>7 DEF PlacesOf
  <2>2. PlacesOf(s, b) \cap (l + 1..l + n) = {}
    BY <1>1, <1>5 DEF PlacesOf
  <2>3. IsFiniteSet(l + 1..l + n) /\ Cardinality(l + 1..l + n) = n
    BY <1>1, FS_Interval
  <2>4. IsFiniteSet(PlacesOf(s, b)) /\ Count(s, b) = Cardinality(PlacesOf(s, b)) /\ Count(s, b) \in Nat
    BY CountParts
  <2>5. Cardinality(PlacesOf(t, b))
          = Cardinality(PlacesOf(s, b)) + Cardinality(l + 1..l + n) - Cardinality({})
    BY <2>1, <2>2, <2>3, <2>4, FS_Union
  <2>6. Count(t, b) = Cardinality(PlacesOf(t, b))
    BY <1>3, CountParts
  <2>7. Count(t, b) = Count(s, b) + n
    BY <2>3, <2>4, <2>5, <2>6, FS_EmptySet
  <2> QED
    BY <1>3, <1>7, <1>6, <2>7
<1>8. CASE e # b
  <2>1. PlacesOf(t, b) = PlacesOf(s, b)
    BY <1>1, <1>4, <1>5, <1>8 DEF PlacesOf
  <2>2. Count(t, b) = Count(s, b)
    BY <1>3, <2>1, CountParts
  <2> QED
    BY <1>3, <1>8, <1>6, <2>2, CountParts
<1> QED
  BY <1>7, <1>8

(***************************************************************************)
(* A list without the entries e.  The recursive function WithoutEntry is   *)
(* defined by exists, and what it yields is shown for one place after the  *)
(* other, each time by the least place where the claim would not hold.     *)
(***************************************************************************)

Kept(K, s, e, n) ==
  IF n = 0 THEN <<>> ELSE IF s[n] = e THEN K[n - 1] ELSE Append(K[n - 1], s[n])

IsKept(K, s, e, m) == K = [n \in 0..m |-> Kept(K, s, e, n)]

LEMMA KeptExists ==
  ASSUME NEW S, NEW s \in Seq(S), NEW e
  PROVE  \E K : IsKept(K, s, e, Len(s))
<1>1. Len(s) \in Nat
  BY LenProperties
<1> DEFINE Bad == {m \in 0..Len(s) : ~\E K : IsKept(K, s, e, m)}
<1> SUFFICES ASSUME Bad # {}
             PROVE  FALSE
  BY <1>1
<1>2. PICK m \in Bad : \A k \in Bad : m <= k
  <2>1. Bad \in SUBSET Nat
    BY <1>1
  <2> HIDE DEF Bad
  <2> QED
    BY <2>1, LeastNumber
<1>3. m \in 0..Len(s) /\ ~\E K : IsKept(K, s, e, m)
  BY <1>2
<1>4. CASE m = 0
  <2> DEFINE K == [n \in 0..0 |-> <<>>]
  <2>1. K = [n \in 0..0 |-> Kept(K, s, e, n)]
    BY DEF Kept
  <2> QED
    BY <1>3, <1>4, <2>1 DEF IsKept
<1>5. CASE m # 0
  <2>1. m - 1 \in 0..Len(s) /\ m - 1 \notin Bad
    BY <1>1, <1>2, <1>3, <1>5
  <2>2. PICK K : IsKept(K, s, e, m - 1)
    BY <2>1
  <2> DEFINE L == [n \in 0..m |-> IF n < m THEN K[n] ELSE Kept(K, s, e, m)]
  <2>3. L[m] = Kept(K, s, e, m) /\ m \in Nat /\ m # 0
    BY <1>1, <1>3, <1>5
  <2>4. \A n \in 0..m - 1 : n \in 0..m /\ n < m
    BY <2>3
  <2>5. \A n \in 0..m - 1 : L[n] = K[n]
    BY <2>4
  <2>6. \A n \in 0..m - 1 : K[n] = Kept(K, s, e, n)
    BY <2>2, Zenon DEF IsKept
  <2>7. \A n \in 0..m - 1 : L[n] = K[n] /\ K[n] = Kept(K, s, e, n)
    BY <2>5, <2>6
  <2>8. DOMAIN L = 0..m /\ L = [n \in 0..m |-> L[n]]
    OBVIOUS
  <2> HIDE DEF L
  <2>9. \A n \in 0..m : L[n] = Kept(L, s, e, n)
    <3> TAKE n \in 0..m
    <3>1. CASE n < m
      <4>1. n = 0 \/ n - 1 \in 0..m - 1
        BY <2>3
      <4> QED
        BY <2>7, <2>3, <3>1, <4>1 DEF Kept
    <3>2. CASE n = m
      <4>1. m - 1 \in 0..m - 1
        BY <2>3
      <4> QED
        BY <2>7, <2>3, <3>2, <4>1 DEF Kept
    <3> QED
      BY <2>3, <3>1, <3>2
  <2>10. IsKept(L, s, e, m)
    BY <2>8, <2>9 DEF IsKept
  <2> QED
    BY <1>3, <2>10
<1> QED
  BY <1>4, <1>5

LEMMA WithoutKept ==
  ASSUME NEW S, NEW s \in Seq(S), NEW e
  PROVE  \E K : IsKept(K, s, e, Len(s)) /\ WithoutEntry(s, e) = K[Len(s)]
<1> DEFINE K == CHOOSE F : F = [n \in 0..Len(s) |->
                  IF n = 0 THEN <<>>
                  ELSE IF s[n] = e THEN F[n - 1] ELSE Append(F[n - 1], s[n])]
<1>1. \E F : F = [n \in 0..Len(s) |->
                IF n = 0 THEN <<>>
                ELSE IF s[n] = e THEN F[n - 1] ELSE Append(F[n - 1], s[n])]
  <2>1. PICK F : IsKept(F, s, e, Len(s))
    BY KeptExists
  <2>2. F = [n \in 0..Len(s) |->
              IF n = 0 THEN <<>>
              ELSE IF s[n] = e THEN F[n - 1] ELSE Append(F[n - 1], s[n])]
    BY <2>1 DEF IsKept, Kept
  <2> QED
    BY <2>2, Zenon
<1>2. K = [n \in 0..Len(s) |->
             IF n = 0 THEN <<>>
             ELSE IF s[n] = e THEN K[n - 1] ELSE Append(K[n - 1], s[n])]
  BY <1>1, Zenon
<1>3. WithoutEntry(s, e) = K[Len(s)]
  BY Zenon DEF WithoutEntry
<1> HIDE DEF K
<1>4. IsKept(K, s, e, Len(s))
  BY <1>2, Zenon DEF IsKept, Kept
<1> QED
  BY <1>3, <1>4

UpTo(s, b, n) == {i \in 1..n : s[i] = b}

LEMMA WithoutParts ==
  ASSUME NEW S, NEW s \in Seq(S), NEW e
  PROVE  /\ WithoutEntry(s, e) \in Seq(S)
         /\ Count(WithoutEntry(s, e), e) = 0
         /\ \A b : b # e => Count(WithoutEntry(s, e), b) = Count(s, b)
<1>1. Len(s) \in Nat /\ DOMAIN s = 1..Len(s)
  BY LenProperties
<1>2. PICK K : IsKept(K, s, e, Len(s)) /\ WithoutEntry(s, e) = K[Len(s)]
  BY WithoutKept
<1>3. \A n \in 0..Len(s) : K[n] = Kept(K, s, e, n)
  BY <1>2 DEF IsKept
<1> DEFINE Right(n) == /\ K[n] \in Seq(S)
                       /\ Count(K[n], e) = 0
                       /\ \A b : b # e => Count(K[n], b) = Cardinality(UpTo(s, b, n))
           Bad == {n \in 0..Len(s) : ~Right(n)}
<1>4. ASSUME Bad # {}
      PROVE  FALSE
  <2>1. PICK m \in Bad : \A k \in Bad : m <= k
    <3>1. Bad \in SUBSET Nat
      BY <1>1
    <3> HIDE DEF Bad
    <3> QED
      BY <1>4, <3>1, LeastNumber
  <2>2. m \in 0..Len(s) /\ ~Right(m)
    BY <2>1
  <2>3. CASE m = 0
    <3>1. K[0] = <<>>
      BY <1>3, <2>2, <2>3 DEF Kept
    <3>2. \A b : UpTo(s, b, 0) = {}
      BY DEF UpTo
    <3> QED
      BY <2>2, <2>3, <3>1, <3>2, CountEmpty, FS_EmptySet, EmptySeq
  <2>4. CASE m # 0
    <3>1. /\ m \in 1..Len(s) /\ m \in Nat /\ m - 1 \in 0..Len(s) /\ m - 1 \notin Bad
      BY <1>1, <2>1, <2>2, <2>4
    <3>2. Right(m - 1)
      BY <3>1
    <3>3. s[m] \in S
      BY <3>1, ElementOfSeq
    <3>4. K[m] = IF s[m] = e THEN K[m - 1] ELSE Append(K[m - 1], s[m])
      BY <1>3, <2>4, <3>1 DEF Kept
    <3>5. 1..m = (1..m - 1) \cup {m} /\ m \notin 1..m - 1
      BY <3>1
    <3>6. \A b : s[m] # b => UpTo(s, b, m) = UpTo(s, b, m - 1)
      BY <3>5 DEF UpTo
    <3>7. \A b : s[m] = b => UpTo(s, b, m) = UpTo(s, b, m - 1) \cup {m}
      BY <3>5 DEF UpTo
    <3>8. \A b : IsFiniteSet(UpTo(s, b, m - 1)) /\ m \notin UpTo(s, b, m - 1)
      <4>1. IsFiniteSet(1..m - 1)
        BY <3>1, FS_Interval
      <4>2. \A b : UpTo(s, b, m - 1) \in SUBSET (1..m - 1)
        BY DEF UpTo
      <4> QED
        BY <3>5, <4>1, <4>2, FS_Subset
    <3>9. \A b : s[m] = b =>
            Cardinality(UpTo(s, b, m)) = Cardinality(UpTo(s, b, m - 1)) + 1
      BY <3>7, <3>8, FS_AddElement
    <3> HIDE DEF Bad
    <3>10. CASE s[m] = e
      BY <2>2, <3>2, <3>4, <3>6, <3>10
    <3>11. CASE s[m] # e
      <4>1. K[m] = Append(K[m - 1], s[m]) /\ K[m - 1] \in Seq(S)
        BY <3>2, <3>4, <3>11
      <4>2. K[m] \in Seq(S)
        BY <3>3, <4>1
      <4>3. \A b : Count(K[m], b) = Count(K[m - 1], b) + (IF s[m] = b THEN 1 ELSE 0)
        BY <3>3, <4>1, CountAppend
      <4>4. Count(K[m], e) = 0
        BY <3>2, <3>11, <4>3
      <4>5. ASSUME NEW b, b # e
            PROVE  Count(K[m], b) = Cardinality(UpTo(s, b, m))
        <5>1. Count(K[m - 1], b) = Cardinality(UpTo(s, b, m - 1)) /\ Count(K[m - 1], b) \in Nat
          BY <3>2, <4>1, <4>5, CountParts
        <5> QED
          BY <3>6, <3>9, <4>3, <5>1
      <4> QED
        BY <2>2, <4>2, <4>4, <4>5
    <3> QED
      BY <3>10, <3>11
  <2> QED
    BY <2>3, <2>4
<1>5. Right(Len(s))
  BY <1>1, <1>4
<1>6. \A b : Cardinality(UpTo(s, b, Len(s))) = Count(s, b)
  BY <1>1 DEF UpTo, Count
<1> QED
  BY <1>2, <1>5, <1>6

(***************************************************************************)
(* The invariant.                                                          *)
(***************************************************************************)

\* A successor list as a row of numbers: only these matter to the edges.
ListsOf(s) == [a \in Blocks |-> [b \in Blocks |-> Count(s[a], b)]]
Lists == ListsOf(succs)

LastCreated == lastBB \in 0..created

\* EdgesAgree in terms of the rows.
RowsAgree == \A a, b \in alive : preds[b][a] = Lists[a][b]

\* Block d lists no block and is listed by none of S.
Quiet(d, S) ==
  /\ \A x \in Blocks : Lists[d][x] = 0 /\ preds[d][x] = 0
  /\ \A b \in S : preds[b][d] = 0 /\ Lists[b][d] = 0

\* A number not yet given to a block is listed nowhere.
FreshQuiet == \A d \in Blocks : d > created => Quiet(d, Blocks)

RemovedQuiet ==
  ~LastBBKilled => status # "no such edge" /\ \A d \in Blocks \ alive : Quiet(d, alive)

IInv == TypeOK /\ LastCreated /\ RowsAgree /\ FreshQuiet /\ RemovedQuiet

LEMMA ListsParts ==
  ASSUME NEW s \in [Blocks -> Seq(Blocks)], NEW a \in Blocks, NEW b \in Blocks
  PROVE  ListsOf(s)[a][b] = Count(s[a], b) /\ ListsOf(s)[a][b] \in Nat
<1>1. s[a] \in Seq(Blocks)
  OBVIOUS
<1>2. Count(s[a], b) \in Nat
  BY <1>1, CountParts
<1> QED
  BY <1>2 DEF ListsOf

LEMMA BlocksParts ==
  /\ MaxBBs \in Nat
  /\ \A b : b \in Blocks <=> b \in Nat /\ 1 <= b /\ b <= MaxBBs
BY BoundAssumption DEF Blocks

\* The number of blocks follows alive.
LEMMA AliveCounted ==
  ASSUME TypeOK
  PROVE  /\ created \in Nat /\ created <= MaxBBs /\ alive \subseteq Blocks
         /\ IsFiniteSet(alive) /\ Cardinality(alive) \in Nat
         /\ \A b : b \notin alive => /\ IsFiniteSet(alive \cup {b})
                                     /\ Cardinality(alive \cup {b}) = Cardinality(alive) + 1
         /\ \A b \in alive : Cardinality(alive \ {b}) = Cardinality(alive) - 1
<1>1. created \in 0..MaxBBs /\ alive \in SUBSET (1..created)
  BY DEF TypeOK
<1>2. created \in Nat /\ created <= MaxBBs /\ alive \subseteq Blocks
  BY <1>1, BoundAssumption DEF Blocks
<1>3. IsFiniteSet(alive)
  <2>1. IsFiniteSet(1..created)
    BY <1>2, FS_Interval
  <2> QED
    BY <1>1, <2>1, FS_Subset
<1> QED
  BY <1>1, <1>2, <1>3, FS_CardinalityType, FS_AddElement, FS_RemoveElement

\* The two conjuncts of OnlyLastBBDangles that speak of lists and bags.
LEMMA QuietMeansEmpty ==
  ASSUME TypeOK, NEW d \in Blocks
  PROVE  (\A x \in Blocks : Lists[d][x] = 0 /\ preds[d][x] = 0)
           <=> succs[d] = <<>> /\ preds[d] = Empty
<1>1. succs \in [Blocks -> Seq(Blocks)] /\ succs[d] \in Seq(Blocks) /\ preds[d] \in [Blocks -> Nat]
  BY DEF TypeOK
<1>2. \A x \in Blocks : Lists[d][x] = Count(succs[d], x)
  BY <1>1, ListsParts DEF Lists
<1>3. preds[d] = Empty <=> \A x \in Blocks : preds[d][x] = 0
  BY <1>1 DEF Empty
<1>4. ASSUME \A x \in Blocks : Count(succs[d], x) = 0
      PROVE  succs[d] = <<>>
  <2>1. \A x \in Blocks : \A i \in DOMAIN succs[d] : succs[d][i] # x
    BY <1>1, <1>4, CountParts
  <2>2. \A i \in 1..Len(succs[d]) : i \in DOMAIN succs[d] /\ succs[d][i] \in Blocks
    BY <1>1, ElementOfSeq, LenProperties
  <2>3. Len(succs[d]) \in Nat /\ (1 \in 1..Len(succs[d]) \/ Len(succs[d]) = 0)
    BY <1>1, LenProperties
  <2>4. Len(succs[d]) = 0
    BY <2>1, <2>2, <2>3
  <2> QED
    BY <1>1, <2>4, EmptySeq
<1>5. succs[d] = <<>> => \A x \in Blocks : Count(succs[d], x) = 0
  BY CountEmpty
<1> QED
  BY <1>2, <1>3, <1>4, <1>5

LEMMA InvImplies ==
  ASSUME IInv
  PROVE  EdgesAgree /\ OnlyLastBBDangles
<1>1. TypeOK /\ alive \subseteq Blocks
  BY AliveCounted DEF IInv
<1>2. \A a, b \in Blocks : Lists[a][b] = Count(succs[a], b)
  BY <1>1, ListsParts DEF TypeOK, Lists
<1>3. EdgesAgree
  BY <1>1, <1>2 DEF IInv, RowsAgree, EdgesAgree
<1>4. ASSUME ~LastBBKilled, NEW d \in Blocks \ alive
      PROVE  /\ succs[d] = <<>> /\ preds[d] = Empty
             /\ \A b \in alive : preds[b][d] = 0 /\ Count(succs[b], d) = 0
  <2>1. Quiet(d, alive)
    BY <1>4 DEF IInv, RemovedQuiet
  <2> QED
    BY <1>1, <1>2, <2>1, QuietMeansEmpty DEF Quiet
<1>5. ~LastBBKilled => status # "no such edge"
  BY DEF IInv, RemovedQuiet
<1> QED
  BY <1>3, <1>4, <1>5 DEF OnlyLastBBDangles

LEMMA InitHolds == Init => IInv
<1> SUFFICES ASSUME Init PROVE IInv
  OBVIOUS
<1>1. \A d \in Blocks : succs[d] = <<>> /\ preds[d] = Empty
  BY DEF Init
<1>2. TypeOK
  <2>1. created = 0 /\ 0 \in 0..MaxBBs /\ alive = {}
    BY BlocksParts DEF Init
  <2>2. succs \in [Blocks -> Seq(Blocks)] /\ preds \in [Blocks -> [Blocks -> Nat]]
    BY DEF Init, Empty
  <2>3. BBCount = Cardinality(alive)
    BY <2>1, FS_EmptySet DEF Init, BBCount
  <2> QED
    BY <2>1, <2>2, <2>3 DEF Init, TypeOK
<1>3. \A d, x \in Blocks : Lists[d][x] = 0 /\ preds[d][x] = 0
  BY <1>1, <1>2, QuietMeansEmpty
<1>4. \A d \in Blocks : Quiet(d, Blocks) /\ Quiet(d, {})
  BY <1>3 DEF Quiet
<1>5. alive = {} /\ created = 0 /\ lastBB = 0 /\ status = "running"
  BY DEF Init, NoBB
<1>6. LastCreated /\ RowsAgree /\ FreshQuiet /\ RemovedQuiet
  BY <1>4, <1>5 DEF LastCreated, RowsAgree, FreshQuiet, RemovedQuiet
<1> QED
  BY <1>2, <1>6 DEF IInv

(***************************************************************************)
(* One lemma per operation.  Each shows what becomes of the rows and of    *)
(* the bags, pair by pair, and the invariant follows from these numbers.   *)
(***************************************************************************)

LEMMA TypeParts ==
  ASSUME TypeOK
  PROVE  /\ created \in Nat /\ created <= MaxBBs /\ MaxBBs \in Nat
         /\ alive \subseteq Blocks /\ \A b \in alive : b \in Nat /\ 1 <= b /\ b <= created
         /\ succs \in [Blocks -> Seq(Blocks)] /\ preds \in [Blocks -> [Blocks -> Nat]]
         /\ deadInstrCounter \in Nat /\ created - deadInstrCounter = Cardinality(alive)
<1>1. created \in Nat /\ created <= MaxBBs /\ alive \subseteq Blocks
  BY AliveCounted
<1>2. \A b \in alive : b \in Nat /\ 1 <= b /\ b <= created
  <2>1. alive \subseteq 1..created
    BY DEF TypeOK
  <2> QED
    BY <1>1, <2>1
<1> QED
  BY <1>1, <1>2, BlocksParts DEF TypeOK, BBCount

\* A new block, alive, counts in BBCount.
LEMMA OneMoreBlock ==
  ASSUME TypeOK, created < MaxBBs,
         created' = created + 1, alive' = alive \cup {created'},
         UNCHANGED <<firstBB, lastBB, deadInstrCounter, status>>,
         succs' \in [Blocks -> Seq(Blocks)], preds' \in [Blocks -> [Blocks -> Nat]]
  PROVE  TypeOK' /\ created' \in Blocks /\ created' \notin alive
<1>1. /\ created \in Nat /\ MaxBBs \in Nat
      /\ \A b \in alive : b \in Nat /\ 1 <= b /\ b <= created
      /\ deadInstrCounter \in Nat /\ created - deadInstrCounter = Cardinality(alive)
  BY TypeParts
<1>2. created' \in 0..MaxBBs /\ created' \in Blocks /\ created' \notin alive
  BY <1>1 DEF Blocks
<1>3. alive' \subseteq 1..created'
  BY <1>1
<1>4. Cardinality(alive') = Cardinality(alive) + 1
  BY <1>2, AliveCounted
<1>5. BBCount' = Cardinality(alive')
  BY <1>1, <1>4 DEF BBCount
<1>6. /\ firstBB' \in Blocks \cup {NoBB} /\ lastBB' \in Blocks \cup {NoBB}
      /\ status' \in {"running", "too many successors", "no such edge",
                      "dead block", "no allocator"}
      /\ deadInstrCounter' \in Nat
  BY DEF TypeOK
<1> QED
  BY <1>2, <1>3, <1>5, <1>6 DEF TypeOK

LEMMA Unlisted ==
  ASSUME IInv, NEW d \in Blocks, d > created, NEW x \in Blocks
  PROVE  /\ Lists[d][x] = 0 /\ preds[d][x] = 0
         /\ Lists[x][d] = 0 /\ preds[x][d] = 0
BY DEF IInv, FreshQuiet, Quiet

LEMMA AppendCounts ==
  ASSUME NEW e \in Blocks
  PROVE  \A s \in Seq(Blocks), x \in Blocks :
           Count(Append(s, e), x) = Count(s, x) + (IF e = x THEN 1 ELSE 0)
BY CountAppend

LEMMA NumbersTyped ==
  ASSUME IInv, NEW a \in Blocks, NEW b \in Blocks
  PROVE  Lists[a][b] = Count(succs[a], b) /\ Lists[a][b] \in Nat /\ preds[b][a] \in Nat
<1>1. succs \in [Blocks -> Seq(Blocks)] /\ preds \in [Blocks -> [Blocks -> Nat]]
  BY DEF IInv, TypeOK
<1>2. Lists[a][b] = Count(succs[a], b) /\ Lists[a][b] \in Nat
  BY <1>1, ListsParts DEF Lists
<1> QED
  BY <1>1, <1>2

LEMMA RemovedUnlisted ==
  ASSUME IInv, ~LastBBKilled, NEW d \in Blocks \ alive
  PROVE  /\ \A x \in Blocks : Lists[d][x] = 0 /\ preds[d][x] = 0
         /\ \A b \in alive : Lists[b][d] = 0 /\ preds[b][d] = 0
BY DEF IInv, RemovedQuiet, Quiet

\* Nothing of the edges changes.
LEMMA SameEdges ==
  ASSUME IInv, TypeOK',
         UNCHANGED <<created, alive, succs, preds, lastBB>>,
         status' = "no such edge" => LastBBKilled \/ status = "no such edge"
  PROVE  IInv'
<1>1. Lists' = Lists /\ LastBBKilled' = LastBBKilled
  BY DEF Lists, LastBBKilled
<1>2. LastCreated' /\ RowsAgree'
  BY <1>1 DEF IInv, LastCreated, RowsAgree
<1>3. \A d, S : Quiet(d, S)' <=> Quiet(d, S)
  BY <1>1 DEF Quiet
<1>4. FreshQuiet' /\ RemovedQuiet'
  BY <1>1 DEF IInv, FreshQuiet, RemovedQuiet, Quiet
<1> QED
  BY <1>2, <1>4 DEF IInv

LEMMA CreateEmptySteps ==
  ASSUME IInv, CreateEmptyBB
  PROVE  IInv'
<1> DEFINE new == created + 1
<1>1. /\ created' = new /\ alive' = alive \cup {new} /\ created < MaxBBs
      /\ UNCHANGED <<succs, preds, firstBB, lastBB, deadInstrCounter, status>>
      /\ TypeOK
  BY DEF IInv, CreateEmptyBB
<1>2. /\ created \in Nat /\ alive \subseteq Blocks
      /\ \A b \in alive : b \in Nat /\ 1 <= b /\ b <= created
      /\ succs \in [Blocks -> Seq(Blocks)] /\ preds \in [Blocks -> [Blocks -> Nat]]
  BY <1>1, TypeParts
<1>3. TypeOK' /\ new \in Blocks /\ new \notin alive
  BY <1>1, <1>2, OneMoreBlock
<1>4. new > created /\ \A d \in Blocks : d > new => d > created
  BY <1>2, BlocksParts
<1> HIDE DEF new
<1>5. Lists' = Lists
  BY <1>1 DEF Lists
<1>6. LastCreated'
  BY <1>1, <1>2 DEF IInv, LastCreated, new
<1>7. \A x \in Blocks : /\ Lists[new][x] = 0 /\ preds[new][x] = 0
                       /\ Lists[x][new] = 0 /\ preds[x][new] = 0
  BY <1>3, <1>4, Unlisted
<1>8. RowsAgree'
  BY <1>1, <1>2, <1>3, <1>5, <1>7 DEF IInv, RowsAgree
<1>9. FreshQuiet'
  BY <1>1, <1>5, <1>4 DEF IInv, FreshQuiet, Quiet
<1>10. RemovedQuiet'
  <2>1. LastBBKilled => LastBBKilled'
    BY <1>1, <1>2 DEF LastBBKilled, IInv, LastCreated, new
  <2>2. ASSUME ~LastBBKilled, NEW d \in Blocks \ alive'
        PROVE  /\ \A x \in Blocks : Lists'[d][x] = 0 /\ preds'[d][x] = 0
               /\ \A b \in alive' : preds'[b][d] = 0 /\ Lists'[b][d] = 0
    <3>1. d \in Blocks \ alive
      BY <1>1, <2>2
    <3>2. /\ \A x \in Blocks : Lists[d][x] = 0 /\ preds[d][x] = 0
          /\ \A b \in alive : preds[b][d] = 0 /\ Lists[b][d] = 0
      BY <2>2, <3>1, RemovedUnlisted
    <3> QED
      BY <1>1, <1>5, <1>7, <3>1, <3>2
  <2>3. status # "no such edge"
    BY DEF CreateEmptyBB, Running
  <2> QED
    BY <1>1, <2>1, <2>2, <2>3 DEF RemovedQuiet, Quiet
<1> QED
  BY <1>3, <1>6, <1>8, <1>9, <1>10 DEF IInv

\* An edge from lhs to rhs is added, whatever blocks are created with it.
LEMMA EdgeAdded ==
  ASSUME IInv, TypeOK', LastCreated', Running, status' = status,
         created' >= created, alive' = alive \cup (created + 1..created'),
         NEW lhs \in alive', NEW rhs \in 1..created',
         rhs \in alive' \/ LastBBKilled',
         LastBBKilled => LastBBKilled',
         \A a, b \in Blocks :
           LET more == IF a = lhs /\ b = rhs THEN 1 ELSE 0
           IN  Lists'[a][b] = Lists[a][b] + more /\ preds'[b][a] = preds[b][a] + more
  PROVE  IInv'
<1>1. /\ created \in Nat /\ created' \in Nat /\ alive \subseteq Blocks /\ alive' \subseteq Blocks
      /\ alive \subseteq 1..created /\ alive' \subseteq 1..created' /\ rhs \in Blocks
  <2>1. created \in 0..MaxBBs /\ created' \in 0..MaxBBs /\ MaxBBs \in Nat
        /\ alive \subseteq 1..created /\ alive' \subseteq 1..created'
    BY BoundAssumption DEF IInv, TypeOK
  <2> QED
    BY <2>1 DEF Blocks
<1>2. \A a, b \in Blocks : a # lhs \/ b # rhs =>
        Lists'[a][b] = Lists[a][b] + 0 /\ preds'[b][a] = preds[b][a] + 0
  OBVIOUS
<1>3. \A d, x \in Blocks : d > created =>
        /\ Lists[d][x] = 0 /\ preds[d][x] = 0 /\ Lists[x][d] = 0 /\ preds[x][d] = 0
  BY Unlisted
<1>4. RowsAgree'
  <2> SUFFICES ASSUME NEW a \in alive', NEW b \in alive'
               PROVE  preds'[b][a] = Lists'[a][b]
    BY DEF RowsAgree
  <2>1. preds[b][a] = Lists[a][b]
    <3>1. CASE a \in alive /\ b \in alive
      BY <3>1 DEF IInv, RowsAgree
    <3>2. CASE a > created \/ b > created
      BY <1>1, <1>3, <3>2
    <3> QED
      BY <1>1, <3>1, <3>2
  <2> DEFINE more == IF a = lhs /\ b = rhs THEN 1 ELSE 0
  <2>2. Lists'[a][b] = Lists[a][b] + more /\ preds'[b][a] = preds[b][a] + more
    <3>1. a \in Blocks /\ b \in Blocks
      BY <1>1
    <3> QED
      BY <3>1
  <2> HIDE DEF more
  <2> QED
    BY <2>1, <2>2
<1>5. FreshQuiet'
  <2> SUFFICES ASSUME NEW d \in Blocks, d > created', NEW x \in Blocks
               PROVE  /\ Lists'[d][x] = 0 /\ preds'[d][x] = 0
                      /\ Lists'[x][d] = 0 /\ preds'[x][d] = 0
    BY DEF FreshQuiet, Quiet
  <2>1. d > created /\ d # lhs /\ d # rhs
    BY <1>1, BlocksParts
  <2> QED
    BY <1>2, <1>3, <2>1
<1>6. RemovedQuiet'
  <2> SUFFICES ASSUME ~LastBBKilled', NEW d \in Blocks \ alive'
               PROVE  /\ \A x \in Blocks : Lists'[d][x] = 0 /\ preds'[d][x] = 0
                      /\ \A b \in alive' : Lists'[b][d] = 0 /\ preds'[b][d] = 0
    BY DEF RemovedQuiet, Quiet, Running
  <2>1. d \in Blocks \ alive /\ d # lhs /\ d # rhs
    OBVIOUS
  <2>2. /\ \A x \in Blocks : Lists[d][x] = 0 /\ preds[d][x] = 0
        /\ \A b \in alive : Lists[b][d] = 0 /\ preds[b][d] = 0
    BY <2>1, RemovedUnlisted
  <2>3. \A b \in alive' : Lists[b][d] = 0 /\ preds[b][d] = 0
    BY <1>1, <1>3, <2>2
  <2> QED
    BY <1>1, <1>2, <2>1, <2>2, <2>3
<1> QED
  BY <1>4, <1>5, <1>6 DEF IInv

LEMMA ConnectSteps ==
  ASSUME IInv, NEW lhs \in alive, NEW rhs \in alive, ConnectBBs(lhs, rhs)
  PROVE  IInv'
<1>1. /\ lhs \in Blocks /\ rhs \in Blocks /\ created \in Nat
      /\ succs \in [Blocks -> Seq(Blocks)] /\ preds \in [Blocks -> [Blocks -> Nat]]
      /\ alive \subseteq 1..created
  BY AliveCounted DEF IInv, TypeOK
<1>2. /\ succs' = [succs EXCEPT ![lhs] = Append(@, rhs)]
      /\ preds' = [preds EXCEPT ![rhs][lhs] = @ + 1]
      /\ UNCHANGED <<created, alive, firstBB, lastBB, deadInstrCounter, status>>
      /\ Running
  BY DEF ConnectBBs
<1>3. succs' \in [Blocks -> Seq(Blocks)] /\ preds' \in [Blocks -> [Blocks -> Nat]]
  BY <1>1, <1>2
<1>4. TypeOK'
  BY <1>2, <1>3 DEF IInv, TypeOK, BBCount
<1>5. ASSUME NEW a \in Blocks, NEW b \in Blocks
      PROVE  LET more == IF a = lhs /\ b = rhs THEN 1 ELSE 0
             IN  Lists'[a][b] = Lists[a][b] + more /\ preds'[b][a] = preds[b][a] + more
  <2>1. Count(Append(succs[lhs], rhs), b) = Count(succs[lhs], b) + (IF rhs = b THEN 1 ELSE 0)
    <3>1. succs[lhs] \in Seq(Blocks) /\ rhs \in Blocks
      BY <1>1
    <3>2. \A s \in Seq(Blocks) :
            Count(Append(s, rhs), b) = Count(s, b) + (IF rhs = b THEN 1 ELSE 0)
      BY <3>1, AppendCounts, Zenon
    <3> DEFINE row == succs[lhs]
    <3>3. row \in Seq(Blocks)
      BY <3>1
    <3> HIDE DEF row
    <3>4. Count(Append(row, rhs), b) = Count(row, b) + (IF rhs = b THEN 1 ELSE 0)
      BY <3>2, <3>3, Zenon
    <3> QED
      BY <3>4 DEF row
  <2>2. Lists'[a][b] = Count(succs'[a], b) /\ Lists[a][b] = Count(succs[a], b)
        /\ Lists[a][b] \in Nat
    BY <1>1, <1>3, ListsParts DEF Lists
  <2>3. preds'[b][a] = IF a = lhs /\ b = rhs THEN preds[b][a] + 1 ELSE preds[b][a]
    BY <1>1, <1>2
  <2>4. succs'[a] = IF a = lhs THEN Append(succs[lhs], rhs) ELSE succs[a]
    BY <1>1, <1>2
  <2>5. preds[b][a] \in Nat
    BY <1>1
  <2>6. Lists'[a][b] = IF a = lhs /\ b = rhs THEN Lists[a][b] + 1 ELSE Lists[a][b]
    BY <2>1, <2>2, <2>4
  <2> QED
    BY <2>2, <2>3, <2>5, <2>6
<1>6. LastCreated' /\ LastBBKilled' = LastBBKilled
  BY <1>2 DEF IInv, LastCreated, LastBBKilled
<1>7. created + 1..created' = {} /\ created' >= created /\ rhs \in 1..created'
  BY <1>1, <1>2
<1>8. alive' = alive \cup (created + 1..created') /\ lhs \in alive' /\ rhs \in alive' /\ status' = status
  BY <1>2, <1>7
<1> QED
  BY <1>2, <1>4, <1>5, <1>6, <1>7, <1>8, EdgeAdded

LEMMA CreateTerminalSteps ==
  ASSUME IInv, CreateTerminalBB
  PROVE  IInv'
<1> DEFINE new == created + 1
           last == IF lastBB = NoBB THEN created + 2 ELSE lastBB
<1>1. /\ created \in Nat /\ MaxBBs \in Nat /\ alive \subseteq Blocks
      /\ \A b \in alive : b \in Nat /\ 1 <= b /\ b <= created
      /\ succs \in [Blocks -> Seq(Blocks)] /\ preds \in [Blocks -> [Blocks -> Nat]]
      /\ deadInstrCounter \in Nat /\ created - deadInstrCounter = Cardinality(alive)
      /\ lastBB \in 0..created /\ NoBB = 0
  BY TypeParts DEF IInv, LastCreated, NoBB
<1>2. /\ created' = (IF lastBB = NoBB THEN created + 2 ELSE created + 1)
      /\ created' <= MaxBBs /\ alive' = alive \cup (new..created') /\ lastBB' = last
      /\ succs' = [succs EXCEPT ![new] = <<last>>]
      /\ preds' = [preds EXCEPT ![last][new] = @ + 1]
      /\ UNCHANGED <<firstBB, deadInstrCounter, status>> /\ Running
  BY DEF CreateTerminalBB
<1>3. /\ created' \in Nat /\ new \in 1..created' /\ last \in 1..created'
      /\ new \in Blocks /\ last \in Blocks /\ new > created
  <2>1. created' \in Nat /\ new \in 1..created' /\ last \in 1..created' /\ new > created
    BY <1>1, <1>2
  <2>2. \A b \in 1..created' : b \in Blocks
    BY <1>1, <1>2, <2>1 DEF Blocks
  <2> HIDE DEF new, last
  <2> QED
    BY <2>1, <2>2
<1>4. succs' \in [Blocks -> Seq(Blocks)] /\ preds' \in [Blocks -> [Blocks -> Nat]]
  <2>1. <<last>> \in Seq(Blocks)
    BY <1>3, CountOne
  <2> HIDE DEF new, last
  <2> QED
    BY <1>1, <1>2, <1>3, <2>1
<1>5. TypeOK'
  <2>1. IsFiniteSet(alive) /\ new \notin alive
    BY <1>1, AliveCounted DEF IInv
  <2>2. /\ IsFiniteSet(alive \cup {new})
        /\ Cardinality(alive \cup {new}) = Cardinality(alive) + 1
    BY <2>1, FS_AddElement
  <2>3. Cardinality(alive') - Cardinality(alive) = created' - created
    <3>1. CASE lastBB = NoBB
      <4>1. alive' = (alive \cup {new}) \cup {created + 2} /\ created + 2 \notin alive \cup {new}
        BY <1>1, <1>2, <3>1
      <4>2. Cardinality(alive') = Cardinality(alive \cup {new}) + 1
        BY <2>2, <4>1, FS_AddElement
      <4> QED
        BY <1>1, <1>2, <2>2, <3>1, <4>2
    <3>2. CASE lastBB # NoBB
      <4>1. alive' = alive \cup {new}
        BY <1>1, <1>2, <3>2
      <4> QED
        BY <1>1, <1>2, <2>2, <3>2, <4>1
    <3> QED
      BY <3>1, <3>2
  <2>4. BBCount' = Cardinality(alive')
    <3>1. Cardinality(alive) \in Int /\ Cardinality(alive') \in Int
      <4>1. IsFiniteSet(new..created')
        <5>1. new \in Int /\ created' \in Int
          BY <1>1, <1>3
        <5> HIDE DEF new
        <5> QED
          BY <5>1, FS_Interval
      <4>2. IsFiniteSet(alive \cup (new..created'))
        BY <2>1, <4>1, FS_Union
      <4>3. IsFiniteSet(alive')
        BY <1>2, <4>2
      <4> QED
        BY <2>1, <4>3, FS_CardinalityType
    <3>2. deadInstrCounter' = deadInstrCounter
      BY <1>2
    <3>3. created' - deadInstrCounter = Cardinality(alive')
      <4>1. /\ created \in Nat /\ created' \in Nat /\ deadInstrCounter \in Nat
            /\ created - deadInstrCounter = Cardinality(alive)
        BY <1>1, <1>3
      <4> QED
        BY <2>3, <3>1, <4>1
    <3> QED
      BY <3>2, <3>3 DEF BBCount
  <2>5. created' \in 0..MaxBBs /\ alive' \subseteq 1..created'
    BY <1>1, <1>2, <1>3
  <2>6. /\ firstBB' \in Blocks \cup {NoBB} /\ lastBB' \in Blocks \cup {NoBB}
        /\ status' \in {"running", "too many successors", "no such edge",
                        "dead block", "no allocator"}
        /\ deadInstrCounter' \in Nat
    BY <1>2, <1>3 DEF IInv, TypeOK
  <2> QED
    BY <1>4, <2>4, <2>5, <2>6 DEF TypeOK
<1>6. ASSUME NEW a \in Blocks, NEW b \in Blocks
      PROVE  LET more == IF a = new /\ b = last THEN 1 ELSE 0
             IN  Lists'[a][b] = Lists[a][b] + more /\ preds'[b][a] = preds[b][a] + more
  <2>1. Count(<<last>>, b) = IF last = b THEN 1 ELSE 0
    BY <1>3, CountOne
  <2>2. /\ Lists'[a][b] = Count(succs'[a], b) /\ Lists[a][b] = Count(succs[a], b)
        /\ Lists[a][b] \in Nat
    BY <1>1, <1>4, ListsParts DEF Lists
  <2>3. Lists[new][b] = 0
    BY <1>3, Unlisted
  <2> HIDE DEF new, last
  <2>4. preds'[b][a] = IF a = new /\ b = last THEN preds[b][a] + 1 ELSE preds[b][a]
    BY <1>1, <1>2, <1>3
  <2>5. succs'[a] = IF a = new THEN <<last>> ELSE succs[a]
    BY <1>1, <1>2
  <2>6. preds[b][a] \in Nat
    BY <1>1
  <2>7. Lists'[a][b] = IF a = new /\ b = last THEN Lists[a][b] + 1 ELSE Lists[a][b]
    BY <2>1, <2>2, <2>3, <2>5
  <2> QED
    BY <2>2, <2>4, <2>6, <2>7
<1>7. LastCreated' /\ (LastBBKilled => LastBBKilled') /\ (last \in alive' \/ LastBBKilled')
  BY <1>1, <1>2, <1>3 DEF LastCreated, LastBBKilled
<1>8. created' >= created /\ new \in alive' /\ status' = status
  BY <1>1, <1>2, <1>3
<1>9. alive' = alive \cup (created + 1..created') /\ Running
  BY <1>2
<1> HIDE DEF new, last
<1> QED
  BY <1>3, <1>5, <1>6, <1>7, <1>8, <1>9, EdgeAdded

\* What the successor lists become.
LEMMA RowsOfInsertion ==
  ASSUME IInv, NEW before \in alive, NEW bb \in alive, AddBBBefore(before, bb)
  PROVE  /\ succs' \in [Blocks -> Seq(Blocks)]
         /\ \A a, x \in Blocks : Lists'[a][x] =
              IF x = before THEN (IF a = bb THEN 1 ELSE 0)
              ELSE IF x = bb THEN Lists[a][bb] + preds[before][a] ELSE Lists[a][x]
<1>1. /\ before \in Blocks /\ bb \in Blocks /\ before # bb /\ alive \subseteq Blocks
      /\ created \in Nat /\ \A b \in alive : b \in Nat /\ b <= created
      /\ succs \in [Blocks -> Seq(Blocks)] /\ preds \in [Blocks -> [Blocks -> Nat]]
  BY TypeParts DEF IInv, AddBBBefore
<1>2. /\ succs' = [Redirected(before, bb) EXCEPT ![bb] = Append(@, before)]
      /\ preds' = [preds EXCEPT ![before] = [Empty EXCEPT ![bb] = 1],
                                ![bb] = [a \in Blocks |-> @[a] + preds[before][a]]]
      /\ UNCHANGED <<created, alive, firstBB, lastBB, deadInstrCounter, status>>
      /\ Running
  BY DEF AddBBBefore
<1>3. ASSUME NEW a \in Blocks
      PROVE  /\ Redirected(before, bb)[a] \in Seq(Blocks)
             /\ \A x \in Blocks : Count(Redirected(before, bb)[a], x) =
                  IF x = before THEN 0
                  ELSE IF x = bb THEN Lists[a][bb] + preds[before][a] ELSE Lists[a][x]
  <2> DEFINE row == succs[a]
             left == WithoutEntry(row, before)
             n == preds[before][a]
  <2>1. row \in Seq(Blocks) /\ n \in Nat
    BY <1>1
  <2>2. Redirected(before, bb)[a] = left \o [i \in 1..n |-> bb]
    BY DEF Redirected
  <2>3. \A x \in Blocks : Lists[a][x] = Count(row, x)
    BY <1>1, ListsParts DEF Lists
  <2> HIDE DEF row, n
  <2>4. /\ left \in Seq(Blocks) /\ Count(left, before) = 0
        /\ \A x : x # before => Count(left, x) = Count(row, x)
    BY <2>1, WithoutParts
  <2> HIDE DEF left
  <2>5. \A x \in Blocks : Count(row, x) \in Nat
    BY <2>1, CountParts
  <2> DEFINE t == Filled(left, n, bb)
  <2>6. t \in Seq(Blocks) /\ \A x : Count(t, x) = Count(left, x) + (IF bb = x THEN n ELSE 0)
    <3>1. left \in Seq(Blocks) /\ n \in Nat /\ bb \in Blocks
      BY <1>1, <2>1, <2>4
    <3>2. \A x : /\ Filled(left, n, bb) \in Seq(Blocks)
                 /\ Count(Filled(left, n, bb), x) = Count(left, x) + (IF bb = x THEN n ELSE 0)
      BY <3>1, CountFilled
    <3> QED
      BY <3>2
  <2>7. t = Redirected(before, bb)[a] /\ n = preds[before][a]
    BY <2>2 DEF Filled, n
  <2> HIDE DEF t
  <2>8. ASSUME NEW x \in Blocks
        PROVE  Count(t, x) = IF x = before THEN 0
                             ELSE IF x = bb THEN Lists[a][bb] + n ELSE Lists[a][x]
    <3>1. Count(row, x) \in Nat /\ Lists[a][x] = Count(row, x) /\ Lists[a][bb] = Count(row, bb)
      BY <1>1, <2>3, <2>5
    <3>2. Count(t, x) = Count(left, x) + (IF bb = x THEN n ELSE 0)
      BY <2>6
    <3>3. x # before => Count(left, x) = Count(row, x)
      BY <2>4
    <3>4. CASE x = before
      BY <1>1, <2>4, <3>2, <3>4
    <3>5. CASE x # before
      BY <2>1, <3>1, <3>2, <3>3, <3>5
    <3> QED
      BY <3>4, <3>5
  <2> QED
    BY <2>6, <2>7, <2>8
<1> DEFINE R == Redirected(before, bb)
<1>4. DOMAIN R = Blocks
  BY DEF Redirected
<1> HIDE DEF R
<1>5. R[bb] \in Seq(Blocks) /\ Append(R[bb], before) \in Seq(Blocks)
  <2>1. R[bb] \in Seq(Blocks)
    BY <1>1, <1>3 DEF R
  <2> QED
    BY <1>1, <2>1
<1>6. \A x \in Blocks : Count(Append(R[bb], before), x) = Count(R[bb], x) + (IF before = x THEN 1 ELSE 0)
  <2> DEFINE row == R[bb]
  <2>1. \A s \in Seq(Blocks), x \in Blocks :
          Count(Append(s, before), x) = Count(s, x) + (IF before = x THEN 1 ELSE 0)
    BY <1>1, AppendCounts, Zenon
  <2>2. row \in Seq(Blocks)
    BY <1>5
  <2> HIDE DEF row
  <2>3. \A x \in Blocks : Count(Append(row, before), x) = Count(row, x) + (IF before = x THEN 1 ELSE 0)
    BY <2>1, <2>2, Zenon
  <2> QED
    BY <2>3 DEF row
<1>7. succs' = [a \in Blocks |-> IF a = bb THEN Append(R[bb], before) ELSE R[a]]
  BY <1>1, <1>2, <1>4 DEF R
<1>8. succs' \in [Blocks -> Seq(Blocks)]
  BY <1>3, <1>5, <1>7 DEF R
<1>9. \A a, x \in Blocks : Lists'[a][x] =
         IF x = before THEN (IF a = bb THEN 1 ELSE 0)
         ELSE IF x = bb THEN Lists[a][bb] + preds[before][a] ELSE Lists[a][x]
  <2> TAKE a, x \in Blocks
  <2>1. Lists'[a][x] = Count(succs'[a], x) /\ Lists[a][x] \in Nat /\ Lists[a][bb] \in Nat
    BY <1>1, <1>8, ListsParts DEF Lists
  <2>2. Count(R[a], x) = IF x = before THEN 0
                         ELSE IF x = bb THEN Lists[a][bb] + preds[before][a] ELSE Lists[a][x]
    BY <1>3 DEF R
  <2>3. CASE a = bb
    <3>1. Count(succs'[a], x) = Count(R[a], x) + (IF before = x THEN 1 ELSE 0)
      BY <1>6, <1>7, <2>3
    <3>2. preds[before][a] \in Nat
      BY <1>1
    <3>3. Lists'[a][x] = Count(R[a], x) + (IF before = x THEN 1 ELSE 0)
      BY <2>1, <3>1
    <3>4. CASE x = before
      BY <2>2, <2>3, <3>3, <3>4
    <3>5. CASE x # before
      BY <2>1, <2>2, <3>2, <3>3, <3>5
    <3> QED
      BY <3>4, <3>5
  <2>4. CASE a # bb
    <3>1. succs'[a] = R[a]
      BY <1>7, <2>4
    <3> QED
      BY <2>1, <2>2, <2>4, <3>1
  <2> QED
    BY <2>3, <2>4
<1> QED
  BY <1>8, <1>9

LEMMA AddBBBeforeSteps ==
  ASSUME IInv, NEW before \in alive, NEW bb \in alive, AddBBBefore(before, bb)
  PROVE  IInv'
<1>1. /\ before \in Blocks /\ bb \in Blocks /\ before # bb /\ alive \subseteq Blocks
      /\ created \in Nat /\ \A b \in alive : b \in Nat /\ b <= created
      /\ succs \in [Blocks -> Seq(Blocks)] /\ preds \in [Blocks -> [Blocks -> Nat]]
  BY TypeParts DEF IInv, AddBBBefore
<1>2. /\ succs' = [Redirected(before, bb) EXCEPT ![bb] = Append(@, before)]
      /\ preds' = [preds EXCEPT ![before] = [Empty EXCEPT ![bb] = 1],
                                ![bb] = [a \in Blocks |-> @[a] + preds[before][a]]]
      /\ UNCHANGED <<created, alive, firstBB, lastBB, deadInstrCounter, status>>
      /\ Running
  BY DEF AddBBBefore
<1>3. succs' \in [Blocks -> Seq(Blocks)]
  BY RowsOfInsertion
<1>4. \A a, x \in Blocks : Lists'[a][x] =
         IF x = before THEN (IF a = bb THEN 1 ELSE 0)
         ELSE IF x = bb THEN Lists[a][bb] + preds[before][a] ELSE Lists[a][x]
  BY RowsOfInsertion
<1>5. \A a, x \in Blocks : preds'[x][a] =
         IF x = before THEN (IF a = bb THEN 1 ELSE 0)
         ELSE IF x = bb THEN preds[bb][a] + preds[before][a] ELSE preds[x][a]
  BY <1>1, <1>2 DEF Empty
<1>6. preds' \in [Blocks -> [Blocks -> Nat]]
  <2>1. /\ [Empty EXCEPT ![bb] = 1] \in [Blocks -> Nat]
        /\ [a \in Blocks |-> preds[bb][a] + preds[before][a]] \in [Blocks -> Nat]
    <3>1. preds[bb] \in [Blocks -> Nat] /\ preds[before] \in [Blocks -> Nat]
      BY <1>1
    <3>2. \A a \in Blocks : preds[bb][a] + preds[before][a] \in Nat
      BY <3>1
    <3> QED
      BY <1>1, <3>2 DEF Empty
  <2>2. preds' = [x \in Blocks |->
          IF x = before THEN [Empty EXCEPT ![bb] = 1]
          ELSE IF x = bb THEN [a \in Blocks |-> preds[bb][a] + preds[before][a]] ELSE preds[x]]
    BY <1>1, <1>2
  <2> QED
    BY <1>1, <2>1, <2>2
<1>7. TypeOK'
  BY <1>2, <1>3, <1>6 DEF IInv, TypeOK, BBCount
<1>8. LastCreated' /\ LastBBKilled' = LastBBKilled
  BY <1>2 DEF IInv, LastCreated, LastBBKilled
<1>9. RowsAgree'
  <2> SUFFICES ASSUME NEW a \in alive, NEW b \in alive
               PROVE  preds'[b][a] = Lists'[a][b]
    BY <1>2 DEF RowsAgree
  <2>1. a \in Blocks /\ b \in Blocks /\ preds[b][a] = Lists[a][b] /\ preds[bb][a] = Lists[a][bb]
    BY <1>1 DEF IInv, RowsAgree
  <2>2. Lists'[a][b] = IF b = before THEN (IF a = bb THEN 1 ELSE 0)
                       ELSE IF b = bb THEN Lists[a][bb] + preds[before][a] ELSE Lists[a][b]
    BY <1>4, <2>1
  <2>3. preds'[b][a] = IF b = before THEN (IF a = bb THEN 1 ELSE 0)
                       ELSE IF b = bb THEN preds[bb][a] + preds[before][a] ELSE preds[b][a]
    BY <1>5, <2>1
  <2> QED
    BY <2>1, <2>2, <2>3
<1>10. FreshQuiet'
  <2> SUFFICES ASSUME NEW d \in Blocks, d > created, NEW x \in Blocks
               PROVE  /\ Lists'[d][x] = 0 /\ preds'[d][x] = 0
                      /\ Lists'[x][d] = 0 /\ preds'[x][d] = 0
    BY <1>2 DEF FreshQuiet, Quiet
  <2>1. d # before /\ d # bb
    <3>1. /\ created \in Nat /\ d \in Nat /\ before \in Nat /\ bb \in Nat
          /\ before <= created /\ bb <= created
      BY <1>1, BlocksParts
    <3> QED
      BY <3>1
  <2>2. \A y \in Blocks : /\ Lists[d][y] = 0 /\ preds[d][y] = 0
                          /\ Lists[y][d] = 0 /\ preds[y][d] = 0
    BY Unlisted
  <2>3. /\ Lists'[d][x] = (IF x = before THEN 0 ELSE IF x = bb THEN 0 + 0 ELSE 0)
        /\ preds'[x][d] = (IF x = before THEN 0 ELSE IF x = bb THEN 0 + 0 ELSE 0)
    <3>1. /\ Lists[d][x] = 0 /\ Lists[d][bb] = 0 /\ preds[x][d] = 0
          /\ preds[bb][d] = 0 /\ preds[before][d] = 0
      BY <1>1, <2>2
    <3> QED
      BY <1>4, <1>5, <2>1, <3>1
  <2>4. Lists'[x][d] = 0 /\ preds'[d][x] = 0
    BY <1>4, <1>5, <2>1, <2>2
  <2> QED
    BY <2>3, <2>4
<1>11. RemovedQuiet'
  <2> SUFFICES ASSUME ~LastBBKilled, NEW d \in Blocks \ alive
               PROVE  /\ \A x \in Blocks : Lists'[d][x] = 0 /\ preds'[d][x] = 0
                      /\ \A b \in alive : Lists'[b][d] = 0 /\ preds'[b][d] = 0
    BY <1>2, <1>8 DEF RemovedQuiet, Quiet, Running
  <2>1. /\ \A x \in Blocks : Lists[d][x] = 0 /\ preds[d][x] = 0
        /\ \A b \in alive : Lists[b][d] = 0 /\ preds[b][d] = 0
    BY RemovedUnlisted
  <2>2. d # before /\ d # bb
    OBVIOUS
  <2>3. ASSUME NEW x \in Blocks
        PROVE  Lists'[d][x] = 0 /\ preds'[d][x] = 0
    <3>1. /\ Lists[d][x] = 0 /\ Lists[d][bb] = 0 /\ preds[d][x] = 0 /\ preds[before][d] = 0
      BY <1>1, <2>1
    <3> QED
      BY <1>4, <1>5, <2>2, <3>1
  <2>4. ASSUME NEW b \in alive
        PROVE  Lists'[b][d] = 0 /\ preds'[b][d] = 0
    <3>1. /\ Lists[b][d] = 0 /\ preds[b][d] = 0 /\ preds[bb][d] = 0 /\ preds[before][d] = 0
          /\ b \in Blocks
      BY <1>1, <2>1
    <3> QED
      BY <1>4, <1>5, <2>2, <3>1
  <2> QED
    BY <2>3, <2>4
<1> QED
  BY <1>7, <1>8, <1>9, <1>10, <1>11 DEF IInv

\* A removed block no longer counts in BBCount.
LEMMA OneBlockLess ==
  ASSUME TypeOK, NEW bb \in alive, SetBBAsDeadImpl(bb), Running,
         succs' \in [Blocks -> Seq(Blocks)], preds' \in [Blocks -> [Blocks -> Nat]]
  PROVE  TypeOK'
<1>1. /\ created \in Nat /\ \A b \in alive : b \in Nat /\ 1 <= b /\ b <= created
      /\ deadInstrCounter \in Nat /\ created - deadInstrCounter = Cardinality(alive)
  BY TypeParts
<1>2. /\ alive' = alive \ {bb} /\ deadInstrCounter' = deadInstrCounter + 1
      /\ UNCHANGED <<created, firstBB, lastBB, status>>
  BY DEF SetBBAsDeadImpl
<1>3. Cardinality(alive') = Cardinality(alive) - 1
  BY <1>2, AliveCounted
<1>4. BBCount' = Cardinality(alive')
  BY <1>1, <1>2, <1>3 DEF BBCount
<1>5. /\ firstBB' \in Blocks \cup {NoBB} /\ lastBB' \in Blocks \cup {NoBB}
      /\ status' \in {"running", "too many successors", "no such edge",
                      "dead block", "no allocator"}
      /\ created' \in 0..MaxBBs
  BY <1>2 DEF TypeOK
<1>6. deadInstrCounter' \in Nat
  BY <1>1, <1>2
<1>7. alive' \subseteq 1..created'
  BY <1>2 DEF TypeOK
<1> QED
  BY <1>4, <1>5, <1>7, <1>6 DEF TypeOK

\* What the successor lists become.
LEMMA RowsOfRemoval ==
  ASSUME IInv, NEW bb \in alive, SetBBAsDead(bb)
  PROVE  /\ succs' \in [Blocks -> Seq(Blocks)]
         /\ \A a, x \in Blocks : Lists'[a][x] = IF a = bb \/ x = bb THEN 0 ELSE Lists[a][x]
<1>1. /\ bb \in Blocks /\ alive \subseteq Blocks /\ created \in Nat /\ bb <= created
      /\ succs \in [Blocks -> Seq(Blocks)] /\ preds \in [Blocks -> [Blocks -> Nat]]
  BY TypeParts DEF IInv
<1>2. /\ succs' = [b \in Blocks |-> IF b = bb THEN <<>> ELSE WithoutEntry(succs[b], bb)]
      /\ preds' = [b \in Blocks |->
           IF b = bb THEN Empty ELSE [preds[b] EXCEPT ![bb] = @ - Count(succs[bb], b)]]
      /\ SetBBAsDeadImpl(bb) /\ alive' = alive \ {bb} /\ bb # lastBB
      /\ UNCHANGED <<created, firstBB, lastBB, status>> /\ Running
      /\ ~LacksEdgeFrom(bb, Blocks \ {bb})
  BY DEF SetBBAsDead, SetBBAsDeadImpl
<1>3. ASSUME NEW a \in Blocks
      PROVE  /\ succs'[a] \in Seq(Blocks)
             /\ \A x \in Blocks :
                  Count(succs'[a], x) = IF a = bb \/ x = bb THEN 0 ELSE Lists[a][x]
  <2> DEFINE row == succs[a]
  <2>1. row \in Seq(Blocks) /\ \A x \in Blocks : Lists[a][x] = Count(row, x)
    BY <1>1, ListsParts DEF Lists
  <2>2. succs'[a] = IF a = bb THEN <<>> ELSE WithoutEntry(row, bb)
    BY <1>2
  <2> HIDE DEF row
  <2>3. /\ WithoutEntry(row, bb) \in Seq(Blocks) /\ Count(WithoutEntry(row, bb), bb) = 0
        /\ \A x : x # bb => Count(WithoutEntry(row, bb), x) = Count(row, x)
    BY <2>1, WithoutParts
  <2>4. <<>> \in Seq(Blocks) /\ \A x : Count(<<>>, x) = 0
    BY CountEmpty
  <2>5. CASE a = bb
    BY <2>2, <2>4, <2>5
  <2>6. CASE a # bb
    <3>1. succs'[a] = WithoutEntry(row, bb)
      BY <2>2, <2>6
    <3> QED
      BY <2>1, <2>3, <2>6, <3>1
  <2> QED
    BY <2>5, <2>6
<1>4. succs' \in [Blocks -> Seq(Blocks)]
  <2>1. succs' = [a \in Blocks |-> succs'[a]]
    BY <1>2
  <2> QED
    BY <1>3, <2>1
<1>5. \A a, x \in Blocks : Lists'[a][x] = IF a = bb \/ x = bb THEN 0 ELSE Lists[a][x]
  BY <1>3, <1>4, ListsParts DEF Lists
<1> QED
  BY <1>4, <1>5

LEMMA SetDeadSteps ==
  ASSUME IInv, NEW bb \in alive, SetBBAsDead(bb)
  PROVE  IInv'
<1>1. /\ bb \in Blocks /\ alive \subseteq Blocks /\ created \in Nat /\ bb <= created
      /\ succs \in [Blocks -> Seq(Blocks)] /\ preds \in [Blocks -> [Blocks -> Nat]]
  BY TypeParts DEF IInv
<1>2. /\ succs' = [b \in Blocks |-> IF b = bb THEN <<>> ELSE WithoutEntry(succs[b], bb)]
      /\ preds' = [b \in Blocks |->
           IF b = bb THEN Empty ELSE [preds[b] EXCEPT ![bb] = @ - Count(succs[bb], b)]]
      /\ SetBBAsDeadImpl(bb) /\ alive' = alive \ {bb} /\ bb # lastBB
      /\ UNCHANGED <<created, firstBB, lastBB, status>> /\ Running
      /\ ~LacksEdgeFrom(bb, Blocks \ {bb})
  BY DEF SetBBAsDead, SetBBAsDeadImpl
<1>3. succs' \in [Blocks -> Seq(Blocks)]
  BY RowsOfRemoval
<1>4. \A a, x \in Blocks : Lists'[a][x] = IF a = bb \/ x = bb THEN 0 ELSE Lists[a][x]
  BY RowsOfRemoval
<1>5. \A x \in Blocks : Lists[bb][x] = Count(succs[bb], x) /\ Lists[bb][x] \in Nat
  BY <1>1, ListsParts DEF Lists
<1>6. \A x \in Blocks : x # bb => preds[x][bb] - Lists[bb][x] \in Nat
  <2> TAKE x \in Blocks
  <2>1. x # bb => ~(Count(succs[bb], x) > preds[x][bb])
    BY <1>2 DEF LacksEdgeFrom
  <2>2. preds[x][bb] \in Nat /\ Lists[bb][x] = Count(succs[bb], x) /\ Lists[bb][x] \in Nat
    BY <1>1, <1>5
  <2> QED
    BY <2>1, <2>2
<1>7. \A a, x \in Blocks : preds'[x][a] =
        IF x = bb THEN 0 ELSE IF a = bb THEN preds[x][bb] - Lists[bb][x] ELSE preds[x][a]
  BY <1>1, <1>2, <1>5 DEF Empty
<1>8. preds' \in [Blocks -> [Blocks -> Nat]]
  <2>1. \A x \in Blocks : x # bb =>
          [preds[x] EXCEPT ![bb] = @ - Count(succs[bb], x)] \in [Blocks -> Nat]
    BY <1>1, <1>5, <1>6
  <2> QED
    BY <1>2, <2>1 DEF Empty
<1>9. TypeOK'
  BY <1>2, <1>3, <1>8, OneBlockLess DEF IInv
<1>10. LastCreated' /\ LastBBKilled' = LastBBKilled
  BY <1>2 DEF IInv, LastCreated, LastBBKilled
<1>11. RowsAgree'
  <2> SUFFICES ASSUME NEW a \in alive \ {bb}, NEW b \in alive \ {bb}
               PROVE  preds'[b][a] = Lists'[a][b]
    BY <1>2 DEF RowsAgree
  <2>1. a \in Blocks /\ b \in Blocks /\ preds[b][a] = Lists[a][b]
    BY <1>1 DEF IInv, RowsAgree
  <2> QED
    BY <1>4, <1>7, <2>1
<1>12. FreshQuiet'
  <2> SUFFICES ASSUME NEW d \in Blocks, d > created, NEW x \in Blocks
               PROVE  /\ Lists'[d][x] = 0 /\ preds'[d][x] = 0
                      /\ Lists'[x][d] = 0 /\ preds'[x][d] = 0
    BY <1>2 DEF FreshQuiet, Quiet
  <2>1. /\ Lists[d][x] = 0 /\ preds[d][x] = 0 /\ Lists[x][d] = 0 /\ preds[x][d] = 0
        /\ preds[d][bb] = 0 /\ Lists[bb][d] = 0
    BY <1>1, Unlisted
  <2> QED
    BY <1>4, <1>7, <2>1
<1>13. RemovedQuiet'
  <2> SUFFICES ASSUME ~LastBBKilled, NEW d \in Blocks \ alive'
               PROVE  /\ \A x \in Blocks : Lists'[d][x] = 0 /\ preds'[d][x] = 0
                      /\ \A b \in alive' : Lists'[b][d] = 0 /\ preds'[b][d] = 0
    BY <1>2, <1>10 DEF RemovedQuiet, Quiet, Running
  <2>1. CASE d = bb
    <3>1. \A b \in alive' : b \in Blocks /\ b # bb /\ preds[b][bb] = Lists[bb][b]
      BY <1>1, <1>2 DEF IInv, RowsAgree
    <3>2. \A b \in alive' : preds[b][bb] - Lists[bb][b] = 0
      BY <1>5, <3>1
    <3> QED
      BY <1>4, <1>7, <2>1, <3>1, <3>2
  <2>2. CASE d # bb
    <3>1. d \in Blocks \ alive
      BY <1>2, <2>2
    <3>2. /\ \A x \in Blocks : Lists[d][x] = 0 /\ preds[d][x] = 0
          /\ \A b \in alive : Lists[b][d] = 0 /\ preds[b][d] = 0
      BY <3>1, RemovedUnlisted
    <3>3. ASSUME NEW x \in Blocks
          PROVE  Lists'[d][x] = 0 /\ preds'[d][x] = 0
      <4>1. Lists[d][x] = 0 /\ preds[d][x] = 0 /\ preds[d][bb] = 0 /\ Lists[bb][d] = 0
        BY <1>1, <3>2
      <4>2. preds'[d][x] = IF x = bb THEN 0 - 0 ELSE 0
        BY <1>1, <1>7, <2>2, <4>1
      <4> QED
        BY <1>4, <2>2, <4>1, <4>2
    <3>4. ASSUME NEW b \in alive'
          PROVE  Lists'[b][d] = 0 /\ preds'[b][d] = 0
      <4>1. b \in Blocks /\ b # bb /\ Lists[b][d] = 0 /\ preds[b][d] = 0
        BY <1>1, <1>2, <3>2
      <4> QED
        BY <1>4, <1>7, <2>2, <4>1
    <3> QED
      BY <3>3, <3>4
  <2> QED
    BY <2>1, <2>2
<1> QED
  BY <1>9, <1>10, <1>11, <1>12, <1>13 DEF IInv

LEMMA SetLastDeadSteps ==
  ASSUME IInv, NEW bb \in alive, SetLastBBAsDead(bb)
  PROVE  IInv'
<1>1. /\ bb \in Blocks /\ alive \subseteq Blocks /\ bb # NoBB
      /\ succs \in [Blocks -> Seq(Blocks)] /\ preds \in [Blocks -> [Blocks -> Nat]]
  BY TypeParts, BlocksParts DEF IInv, NoBB
<1>2. /\ succs' = [succs EXCEPT ![bb] = <<>>] /\ preds' = [preds EXCEPT ![bb] = Empty]
      /\ SetBBAsDeadImpl(bb) /\ alive' = alive \ {bb} /\ bb = lastBB
      /\ UNCHANGED <<created, firstBB, lastBB, status>> /\ Running
  BY DEF SetLastBBAsDead, SetBBAsDeadImpl
<1>3. succs' \in [Blocks -> Seq(Blocks)] /\ preds' \in [Blocks -> [Blocks -> Nat]]
  <2>1. Empty \in [Blocks -> Nat] /\ <<>> \in Seq(Blocks)
    BY DEF Empty
  <2> HIDE DEF Empty
  <2> QED
    BY <1>1, <1>2, <2>1
<1>4. TypeOK'
  BY <1>2, <1>3, OneBlockLess DEF IInv
<1>5. LastCreated' /\ LastBBKilled'
  BY <1>1, <1>2 DEF IInv, LastCreated, LastBBKilled
<1>6. \A a, x \in Blocks : a # bb => Lists'[a][x] = Lists[a][x]
  <2>1. \A a \in Blocks : a # bb => succs'[a] = succs[a]
    BY <1>1, <1>2
  <2>2. \A a, x \in Blocks : Lists'[a][x] = Count(succs'[a], x) /\ Lists[a][x] = Count(succs[a], x)
    BY <1>1, <1>3, ListsParts DEF Lists
  <2> QED
    BY <2>1, <2>2
<1>7. \A x \in Blocks : Lists'[bb][x] = 0
  <2>1. succs'[bb] = <<>>
    BY <1>1, <1>2
  <2>2. \A x \in Blocks : Lists'[bb][x] = Count(succs'[bb], x)
    BY <1>1, <1>3, ListsParts DEF Lists
  <2> QED
    BY <2>1, <2>2, CountEmpty
<1>8. \A a, x \in Blocks : preds'[x][a] = IF x = bb THEN 0 ELSE preds[x][a]
  BY <1>1, <1>2 DEF Empty
<1>9. RowsAgree'
  <2> SUFFICES ASSUME NEW a \in alive \ {bb}, NEW b \in alive \ {bb}
               PROVE  preds'[b][a] = Lists'[a][b]
    BY <1>2 DEF RowsAgree
  <2>1. a \in Blocks /\ b \in Blocks /\ preds[b][a] = Lists[a][b]
    BY <1>1 DEF IInv, RowsAgree
  <2> QED
    BY <1>6, <1>8, <2>1
<1>10. FreshQuiet'
  <2> SUFFICES ASSUME NEW d \in Blocks, d > created, NEW x \in Blocks
               PROVE  /\ Lists'[d][x] = 0 /\ preds'[d][x] = 0
                      /\ Lists'[x][d] = 0 /\ preds'[x][d] = 0
    BY <1>2 DEF FreshQuiet, Quiet
  <2>1. Lists[d][x] = 0 /\ preds[d][x] = 0 /\ Lists[x][d] = 0 /\ preds[x][d] = 0
    BY Unlisted
  <2> QED
    BY <1>6, <1>7, <1>8, <2>1
<1> QED
  BY <1>4, <1>5, <1>9, <1>10 DEF IInv, RemovedQuiet

\* What becomes of the rows and of the bags then.
RowsMoved(b, new, k) ==
  \A a, x \in Blocks : Lists'[a][x] =
    IF a = b THEN 0
    ELSE IF a = new THEN Lists[b][x] + (IF x = new THEN k ELSE 0) ELSE Lists[a][x]

BagsMoved(b, new, k) ==
  \A a, x \in Blocks : preds'[x][a] =
    IF a = b THEN preds[x][b] - Lists[b][x]
    ELSE IF a = new THEN preds[x][new] + Lists[b][x] + (IF x = new THEN k ELSE 0)
    ELSE preds[x][a]

\* A new block takes over all edges of b, and k edges to itself with them.
LEMMA EdgesMoved ==
  ASSUME IInv, TypeOK', LastCreated', Running, status' = status, lastBB' = lastBB,
         NEW new \in Blocks, new = created + 1, created' = new, alive' = alive \cup {new},
         NEW b \in alive, NEW k \in Nat, RowsMoved(b, new, k), BagsMoved(b, new, k)
  PROVE  IInv'
<1>1. /\ created \in Nat /\ alive \subseteq Blocks /\ b \in Blocks /\ b # new /\ new > created
      /\ \A x \in alive : x # new
      /\ \A a, x \in Blocks : Lists[a][x] \in Nat /\ preds[x][a] \in Nat
  <2>1. /\ created \in Nat /\ alive \subseteq Blocks
        /\ \A x \in alive : x \in Nat /\ x <= created
    BY TypeParts DEF IInv
  <2>2. \A a, x \in Blocks : Lists[a][x] \in Nat /\ preds[x][a] \in Nat
    BY NumbersTyped
  <2> QED
    BY <2>1, <2>2
<1>2. \A x \in Blocks : /\ Lists[new][x] = 0 /\ preds[new][x] = 0
                       /\ Lists[x][new] = 0 /\ preds[x][new] = 0
  BY <1>1, Unlisted
<1>3. ASSUME NEW a \in Blocks, NEW x \in Blocks
      PROVE  /\ a = b => Lists'[a][x] = 0 /\ preds'[x][a] = preds[x][b] - Lists[b][x]
             /\ a = new => /\ Lists'[a][x] = Lists[b][x] + (IF x = new THEN k ELSE 0)
                           /\ preds'[x][a] = Lists'[a][x]
             /\ a # b /\ a # new => Lists'[a][x] = Lists[a][x] /\ preds'[x][a] = preds[x][a]
  <2>1. CASE a = b
    BY <1>1, <2>1 DEF RowsMoved, BagsMoved
  <2>2. CASE a = new
    <3>1. preds[x][new] = 0 /\ Lists[b][x] \in Nat
      BY <1>1, <1>2
    <3>2. Lists'[a][x] = Lists[b][x] + (IF x = new THEN k ELSE 0)
      BY <1>1, <2>2 DEF RowsMoved
    <3>3. preds'[x][a] = preds[x][new] + Lists[b][x] + (IF x = new THEN k ELSE 0)
      BY <1>1, <2>2 DEF BagsMoved
    <3> QED
      BY <1>1, <2>2, <3>1, <3>2, <3>3
  <2>3. CASE a # b /\ a # new
    BY <2>3 DEF RowsMoved, BagsMoved
  <2> QED
    BY <2>1, <2>2, <2>3
<1>4. ASSUME NEW d \in Blocks, d # b, d # new, NEW c \in Blocks, Lists[d][c] = 0, preds[c][d] = 0
      PROVE  Lists'[d][c] = 0 /\ preds'[c][d] = 0
  BY <1>3, <1>4
<1>5. ASSUME NEW d \in Blocks, d # new, NEW c \in Blocks, Lists[c][d] = 0, preds[d][c] = 0,
             Lists[b][d] = 0, preds[d][b] = 0
      PROVE  Lists'[c][d] = 0 /\ preds'[d][c] = 0
  <2>1. CASE c = b
    BY <1>3, <1>5, <2>1
  <2>2. CASE c = new
    <3>1. Lists'[c][d] = Lists[b][d] + (IF d = new THEN k ELSE 0) /\ preds'[d][c] = Lists'[c][d]
      BY <1>3, <2>2
    <3> QED
      BY <1>5, <3>1
  <2>3. CASE c # b /\ c # new
    BY <1>3, <1>5, <2>3
  <2> QED
    BY <2>1, <2>2, <2>3
<1>6. RowsAgree'
  <2> SUFFICES ASSUME NEW a \in alive', NEW x \in alive'
               PROVE  preds'[x][a] = Lists'[a][x]
    BY DEF RowsAgree
  <2>1. a \in Blocks /\ x \in Blocks
    BY <1>1
  <2>2. ASSUME NEW c \in alive
        PROVE  preds[x][c] = Lists[c][x] /\ Lists[c][x] \in Nat
    <3>1. Lists[c][x] \in Nat
      BY <1>1, <2>1
    <3>2. CASE x \in alive
      BY <3>1, <3>2 DEF IInv, RowsAgree
    <3>3. CASE x = new
      BY <1>1, <1>2, <3>1, <3>3
    <3> QED
      BY <3>2, <3>3
  <2>3. CASE a = b
    BY <1>3, <2>1, <2>2, <2>3
  <2>4. CASE a = new
    BY <1>3, <2>1, <2>4
  <2>5. CASE a # b /\ a # new
    BY <1>3, <2>1, <2>2, <2>5
  <2> QED
    BY <2>3, <2>4, <2>5
<1>7. FreshQuiet'
  <2> SUFFICES ASSUME NEW d \in Blocks, d > new, NEW x \in Blocks
               PROVE  /\ Lists'[d][x] = 0 /\ preds'[d][x] = 0
                      /\ Lists'[x][d] = 0 /\ preds'[x][d] = 0
    BY DEF FreshQuiet, Quiet
  <2>1. d > created /\ d # new /\ d # b
    <3>1. d \in Nat /\ b \in Nat /\ b <= created /\ created \in Nat
      BY TypeParts, BlocksParts DEF IInv
    <3> QED
      BY <3>1
  <2>2. ASSUME NEW y \in Blocks
        PROVE  Lists[d][y] = 0 /\ preds[d][y] = 0 /\ Lists[y][d] = 0 /\ preds[y][d] = 0
    BY <2>1, Unlisted
  <2>3. Lists'[d][x] = 0 /\ preds'[x][d] = 0
    BY <1>4, <2>1, <2>2
  <2>4. Lists'[x][d] = 0 /\ preds'[d][x] = 0
    <3>1. Lists[b][d] = 0 /\ preds[d][b] = 0
      BY <1>1, <2>2
    <3> QED
      BY <1>5, <2>1, <2>2, <3>1
  <2> QED
    BY <2>3, <2>4
<1>8. LastBBKilled => LastBBKilled'
  BY <1>1 DEF LastBBKilled, IInv, LastCreated
<1>9. RemovedQuiet'
  <2> SUFFICES ASSUME ~LastBBKilled, NEW d \in Blocks \ alive'
               PROVE  /\ \A x \in Blocks : Lists'[d][x] = 0 /\ preds'[d][x] = 0
                      /\ \A c \in alive' : Lists'[c][d] = 0 /\ preds'[c][d] = 0
    BY <1>8 DEF RemovedQuiet, Quiet, Running
  <2>1. d \in Blocks \ alive /\ d # new /\ d # b
    OBVIOUS
  <2>2. /\ \A x \in Blocks : Lists[d][x] = 0 /\ preds[d][x] = 0
        /\ \A c \in alive : Lists[c][d] = 0 /\ preds[c][d] = 0
    BY <2>1, RemovedUnlisted
  <2>3. ASSUME NEW x \in Blocks
        PROVE  Lists'[d][x] = 0 /\ preds'[d][x] = 0
    <3>1. Lists[d][x] = 0 /\ Lists[b][d] = 0 /\ preds[d][b] = 0 /\ preds[d][x] = 0
      BY <1>1, <2>2
    <3>2. Lists'[d][x] = 0
      BY <1>3, <2>1, <3>1
    <3>3. preds'[d][x] = 0
      <4>1. CASE x = b
        BY <1>3, <3>1, <4>1
      <4>2. CASE x = new
        <5>1. Lists'[x][d] = Lists[b][d] + (IF d = new THEN k ELSE 0) /\ preds'[d][x] = Lists'[x][d]
          BY <1>3, <4>2
        <5> QED
          BY <2>1, <3>1, <5>1
      <4>3. CASE x # b /\ x # new
        BY <1>3, <3>1, <4>3
      <4> QED
        BY <4>1, <4>2, <4>3
    <3> QED
      BY <3>2, <3>3
  <2>4. ASSUME NEW c \in alive'
        PROVE  Lists'[c][d] = 0 /\ preds'[c][d] = 0
    <3>1. c \in Blocks /\ Lists[b][d] = 0 /\ Lists[c][d] = 0 /\ preds[c][d] = 0
      BY <1>1, <1>2, <2>2
    <3>2. preds'[c][d] = 0
      BY <1>3, <2>1, <3>1
    <3>3. Lists'[c][d] = 0
      <4>1. CASE c = b
        BY <1>3, <3>1, <4>1
      <4>2. CASE c = new
        <5>1. Lists'[c][d] = Lists[b][d] + (IF d = new THEN k ELSE 0)
          BY <1>3, <4>2
        <5> QED
          BY <2>1, <3>1, <5>1
      <4>3. CASE c # b /\ c # new
        BY <1>3, <3>1, <4>3
      <4> QED
        BY <4>1, <4>2, <4>3
    <3> QED
      BY <3>2, <3>3
  <2> QED
    BY <2>3, <2>4
<1> QED
  BY <1>6, <1>7, <1>9 DEF IInv

\* What Split and SplitAndConnect have in common: moved is what the new block
\* gets, the successors of b and maybe itself.
LEMMA BlockSplit ==
  ASSUME IInv, Running, NEW b \in alive, NEW new, new = created + 1, created < MaxBBs,
         NEW moved, moved \in Seq(Blocks),
         \A x \in Blocks : x # new => Count(moved, x) = Count(succs[b], x),
         ~LacksEdgeFrom(b, Blocks),
         created' = new, alive' = alive \cup {new},
         succs' = [succs EXCEPT ![b] = <<>>, ![new] = moved],
         preds' = [c \in Blocks |-> [preds[c] EXCEPT ![b] = @ - Count(succs[b], c),
                                                     ![new] = @ + Count(moved, c)]],
         UNCHANGED <<firstBB, lastBB, deadInstrCounter, status>>
  PROVE  IInv'
<1>1. /\ created \in Nat /\ alive \subseteq Blocks /\ b \in Blocks /\ b <= created
      /\ succs \in [Blocks -> Seq(Blocks)] /\ preds \in [Blocks -> [Blocks -> Nat]]
      /\ MaxBBs \in Nat /\ lastBB \in 0..created
  BY TypeParts DEF IInv, LastCreated
<1>2. new \in Blocks /\ b # new
  BY <1>1 DEF Blocks
<1>3. succs' \in [Blocks -> Seq(Blocks)]
  <2>1. <<>> \in Seq(Blocks)
    OBVIOUS
  <2> QED
    BY <1>1, <1>2, <2>1
<1> DEFINE k == Count(moved, new)
<1>4. \A x \in Blocks : /\ Lists[b][x] = Count(succs[b], x) /\ Lists[b][x] \in Nat
                       /\ Count(moved, x) = Lists[b][x] + (IF x = new THEN k ELSE 0)
                       /\ Count(moved, x) \in Nat
  <2>1. \A x \in Blocks : Lists[b][x] = Count(succs[b], x) /\ Lists[b][x] \in Nat
    BY <1>1, ListsParts DEF Lists
  <2>2. \A x \in Blocks : Count(moved, x) \in Nat
    BY CountParts
  <2>3. Lists[b][new] = 0
    <3>1. new > created
      BY <1>1
    <3> QED
      BY <1>1, <1>2, <3>1, Unlisted
  <2> QED
    BY <2>1, <2>2, <2>3
<1>5. k \in Nat
  BY <1>2, <1>4
<1> HIDE DEF k
<1>6. \A c \in Blocks : preds[c][b] - Lists[b][c] \in Nat
  <2> TAKE c \in Blocks
  <2>1. ~(Count(succs[b], c) > preds[c][b])
    BY DEF LacksEdgeFrom
  <2>2. preds[c][b] \in Nat /\ Lists[b][c] = Count(succs[b], c) /\ Lists[b][c] \in Nat
    BY <1>1, <1>4
  <2> QED
    BY <2>1, <2>2
<1>7. ASSUME NEW c \in Blocks
      PROVE  /\ preds'[c] \in [Blocks -> Nat]
             /\ \A a \in Blocks : preds'[c][a] =
                  IF a = b THEN preds[c][b] - Lists[b][c]
                  ELSE IF a = new THEN preds[c][new] + Count(moved, c) ELSE preds[c][a]
  <2> DEFINE bag == preds[c]
             out == Count(succs[b], c)
             inn == Count(moved, c)
  <2>1. /\ bag \in [Blocks -> Nat] /\ out = Lists[b][c] /\ inn \in Nat
        /\ bag[b] - out \in Nat
        /\ preds'[c] = [bag EXCEPT ![b] = @ - out, ![new] = @ + inn]
    BY <1>1, <1>4, <1>6
  <2> HIDE DEF bag, out, inn
  <2>2. \A a \in Blocks : preds'[c][a] =
          IF a = b THEN bag[b] - out ELSE IF a = new THEN bag[new] + inn ELSE bag[a]
    BY <1>1, <1>2, <2>1
  <2>3. preds'[c] \in [Blocks -> Nat]
    <3>1. bag[b] - out \in Nat /\ bag[new] + inn \in Nat
      BY <1>2, <2>1
    <3>2. preds'[c] = [a \in Blocks |->
            IF a = b THEN bag[b] - out ELSE IF a = new THEN bag[new] + inn ELSE bag[a]]
      BY <1>1, <1>2, <2>1
    <3> QED
      BY <2>1, <3>1, <3>2
  <2> QED
    BY <2>1, <2>2, <2>3 DEF bag, inn
<1>8. preds' \in [Blocks -> [Blocks -> Nat]]
  <2>1. preds' = [c \in Blocks |-> preds'[c]]
    OBVIOUS
  <2> QED
    BY <1>7, <2>1
<1>9. TypeOK'
  BY <1>3, <1>8, OneMoreBlock DEF IInv
<1>10. RowsMoved(b, new, k)
  <2> SUFFICES ASSUME NEW a \in Blocks, NEW x \in Blocks
               PROVE  Lists'[a][x] =
                        IF a = b THEN 0
                        ELSE IF a = new THEN Lists[b][x] + (IF x = new THEN k ELSE 0)
                        ELSE Lists[a][x]
    BY DEF RowsMoved
  <2>1. Lists'[a][x] = Count(succs'[a], x) /\ Lists[a][x] = Count(succs[a], x)
    <3>1. Lists'[a][x] = Count(succs'[a], x)
      BY <1>3, ListsParts DEF Lists
    <3>2. Lists[a][x] = Count(succs[a], x)
      BY <1>1, ListsParts DEF Lists
    <3> QED
      BY <3>1, <3>2
  <2>2. succs'[a] = IF a = b THEN <<>> ELSE IF a = new THEN moved ELSE succs[a]
    BY <1>1, <1>2
  <2>3. Count(<<>>, x) = 0
    BY CountEmpty
  <2> QED
    BY <1>2, <1>4, <2>1, <2>2, <2>3
<1>11. BagsMoved(b, new, k)
  <2> SUFFICES ASSUME NEW a \in Blocks, NEW x \in Blocks
               PROVE  preds'[x][a] =
                        IF a = b THEN preds[x][b] - Lists[b][x]
                        ELSE IF a = new
                        THEN preds[x][new] + Lists[b][x] + (IF x = new THEN k ELSE 0)
                        ELSE preds[x][a]
    BY DEF BagsMoved
  <2>1. preds[x][new] \in Nat /\ Lists[b][x] \in Nat
    BY <1>1, <1>2, <1>4
  <2>2. preds[x][new] + Count(moved, x) = preds[x][new] + Lists[b][x] + (IF x = new THEN k ELSE 0)
    <3>1. Count(moved, x) = Lists[b][x] + (IF x = new THEN k ELSE 0)
      BY <1>4
    <3>2. CASE x = new
      BY <1>5, <2>1, <3>1, <3>2
    <3>3. CASE x # new
      BY <2>1, <3>1, <3>3
    <3> QED
      BY <3>2, <3>3
  <2> QED
    BY <1>7, <2>2
<1>12. LastCreated' /\ status' = status /\ lastBB' = lastBB
  BY <1>1 DEF LastCreated
<1> QED
  BY <1>2, <1>9, <1>10, <1>11, <1>12, <1>5, EdgesMoved

LEMMA SplitSteps ==
  ASSUME IInv, NEW b \in alive, Split(b)
  PROVE  IInv'
<1> DEFINE new == created + 1
           moved == succs[b]
<1>1. /\ Running /\ created < MaxBBs /\ ~LacksEdgeFrom(b, Blocks)
      /\ created' = new /\ alive' = alive \cup {new}
      /\ succs' = [succs EXCEPT ![b] = <<>>, ![new] = moved]
      /\ preds' = [c \in Blocks |-> [preds[c] EXCEPT ![b] = @ - Count(succs[b], c),
                                                     ![new] = @ + Count(moved, c)]]
      /\ UNCHANGED <<firstBB, lastBB, deadInstrCounter, status>>
  BY DEF Split
<1>2. moved \in Seq(Blocks) /\ moved = succs[b]
  BY TypeParts DEF IInv
<1>3. new = created + 1
  OBVIOUS
<1>4. \A x \in Blocks : x # new => Count(moved, x) = Count(succs[b], x)
  OBVIOUS
<1> HIDE DEF new, moved
<1> QED
  BY <1>1, <1>2, <1>3, <1>4, BlockSplit, Zenon

LEMMA SplitAndConnectSteps ==
  ASSUME IInv, NEW b \in alive, SplitAndConnect(b)
  PROVE  IInv'
<1> DEFINE new == created + 1
           row == succs[b]
           moved == Append(row, new)
<1>1. /\ Running /\ created < MaxBBs /\ ~LacksEdgeFrom(b, Blocks)
      /\ created' = new /\ alive' = alive \cup {new}
      /\ succs' = [succs EXCEPT ![b] = <<>>, ![new] = moved]
      /\ preds' = [c \in Blocks |-> [preds[c] EXCEPT ![b] = @ - Count(succs[b], c),
                                                     ![new] = @ + Count(moved, c)]]
      /\ UNCHANGED <<firstBB, lastBB, deadInstrCounter, status>>
  BY DEF SplitAndConnect
<1>2. row \in Seq(Blocks) /\ new \in Blocks
  BY <1>1, TypeParts DEF IInv, Blocks
<1>3. new = created + 1 /\ row = succs[b]
  OBVIOUS
<1> HIDE DEF new, row
<1>4. moved \in Seq(Blocks)
  BY <1>2
<1>5. \A x \in Blocks : x # new => Count(moved, x) = Count(succs[b], x)
  <2>1. \A s \in Seq(Blocks), x \in Blocks :
          Count(Append(s, new), x) = Count(s, x) + (IF new = x THEN 1 ELSE 0)
    BY <1>2, AppendCounts, Zenon
  <2>2. \A x \in Blocks : Count(moved, x) = Count(row, x) + (IF new = x THEN 1 ELSE 0)
    BY <1>2, <2>1, Zenon
  <2>3. \A x \in Blocks : Count(row, x) \in Nat
    BY <1>2, CountParts
  <2> HIDE DEF moved
  <2> QED
    BY <1>3, <2>2, <2>3
<1> HIDE DEF moved
<1> QED
  BY <1>1, <1>3, <1>4, <1>5, BlockSplit, Zenon

\* No operation meets an edge that only one end lists, as long as the last
\* block is there.
LEMMA NoHalfEdge ==
  ASSUME IInv, ~LastBBKilled, NEW b \in alive, NEW S \in SUBSET Blocks
  PROVE  ~LacksEdgeTo(b) /\ ~LacksEdgeFrom(b, S)
<1>1. /\ alive \subseteq Blocks
      /\ \A a, x \in Blocks : Lists[a][x] = Count(succs[a], x) /\ Lists[a][x] \in Nat
      /\ \A a, x \in Blocks : preds[x][a] \in Nat
  <2>1. alive \subseteq Blocks
    BY TypeParts DEF IInv
  <2> QED
    BY <2>1, NumbersTyped
<1>2. \A a \in Blocks : preds[b][a] = Lists[a][b]
  <2> TAKE a \in Blocks
  <2>1. CASE a \in alive
    BY <2>1 DEF IInv, RowsAgree
  <2>2. CASE a \notin alive
    BY <1>1, <2>2, RemovedUnlisted
  <2> QED
    BY <2>1, <2>2
<1>3. \A x \in Blocks : preds[x][b] = Lists[b][x]
  <2> TAKE x \in Blocks
  <2>1. CASE x \in alive
    BY <2>1 DEF IInv, RowsAgree
  <2>2. CASE x \notin alive
    BY <1>1, <2>2, RemovedUnlisted
  <2> QED
    BY <2>1, <2>2
<1>4. ~LacksEdgeTo(b)
  BY <1>1, <1>2 DEF LacksEdgeTo
<1>5. ~LacksEdgeFrom(b, S)
  BY <1>1, <1>3 DEF LacksEdgeFrom
<1> QED
  BY <1>4, <1>5

LEMMA StatusSteps ==
  ASSUME IInv,
         \/ \E b \in alive : SetFirstBB(b)
         \/ SuccessorsAbort \/ EdgeAbort \/ DeadAbort \/ CleanupUnusedBlocks
         \/ UNCHANGED vars
  PROVE  IInv'
<1>1. /\ UNCHANGED <<created, alive, succs, preds, lastBB, deadInstrCounter>>
      /\ firstBB' \in alive \cup {firstBB}
      /\ status' \in {status, "too many successors", "no such edge", "dead block", "no allocator"}
  BY DEF SetFirstBB, SuccessorsAbort, EdgeAbort, DeadAbort, CleanupUnusedBlocks, Abort, vars
<1>2. TypeOK'
  <2>1. firstBB' \in Blocks \cup {NoBB}
    BY <1>1, TypeParts DEF IInv, TypeOK
  <2> QED
    BY <1>1, <2>1 DEF IInv, TypeOK, BBCount
<1>3. ASSUME ~LastBBKilled
      PROVE  ~EdgeAbort
  <2>1. \A b \in alive : /\ ~LacksEdgeTo(b) /\ ~LacksEdgeFrom(b, Blocks)
                         /\ ~LacksEdgeFrom(b, Blocks \ {b})
    BY <1>3, NoHalfEdge
  <2> QED
    BY <2>1 DEF EdgeAbort
<1>4. status' = "no such edge" => LastBBKilled \/ status = "no such edge"
  BY <1>3 DEF SetFirstBB, SuccessorsAbort, DeadAbort, CleanupUnusedBlocks, Abort, vars
<1> QED
  BY <1>1, <1>2, <1>4, SameEdges

(***************************************************************************)
(* Paths.                                                                  *)
(***************************************************************************)

\* An edge is an entry of a successor list.
EdgesListed ==
  /\ E \subseteq alive \X alive /\ alive \subseteq Blocks
  /\ \A x, y \in alive : <<x, y>> \in E <=> Lists[x][y] # 0

LEMMA EdgesParts == IInv => EdgesListed
<1> SUFFICES ASSUME IInv
             PROVE  EdgesListed
  OBVIOUS
<1>1. alive \subseteq Blocks
  BY TypeParts DEF IInv
<1>2. \A x, y \in alive : Count(succs[x], y) = Lists[x][y] /\ Lists[x][y] \in Nat
  BY <1>1, NumbersTyped
<1>3. \A x, y \in alive : <<x, y>> \in E <=> Count(succs[x], y) > 0
  BY DEF E
<1>4. E \subseteq alive \X alive
  BY DEF E
<1> QED
  BY <1>1, <1>2, <1>3, <1>4 DEF EdgesListed

LEMMA EdgesPartsNext == IInv' => EdgesListed'
BY EdgesParts, PTL

LEMMA InsertionPaths ==
  ASSUME IInv, NEW before \in alive, NEW bb \in alive
  PROVE  InsertionKeepsPaths(before, bb)
<1> SUFFICES ASSUME AddBBBefore(before, bb), succs[bb] = <<>>, preds[bb] = Empty
             PROVE  /\ \A a, b \in alive \ {bb} : b \in Paths[a] <=> b \in Paths'[a]
                    /\ \A a \in alive \ {bb} :
                         before \in ReachableFrom(a, alive, Without({bb}, E')) => a = before
  BY DEF InsertionKeepsPaths
<1>1. /\ alive \subseteq Blocks /\ alive' = alive /\ before # bb
      /\ E \subseteq alive \X alive
      /\ \A x, y \in alive : <<x, y>> \in E <=> Lists[x][y] # 0
  BY EdgesParts DEF EdgesListed, AddBBBefore
<1>2. /\ E' \subseteq alive \X alive
      /\ \A x, y \in alive : <<x, y>> \in E' <=> Lists'[x][y] # 0
  <2>1. IInv'
    BY AddBBBeforeSteps
  <2> QED
    BY <1>1, <2>1, EdgesPartsNext DEF EdgesListed
<1>3. \A x \in alive : Lists[x][bb] = 0 /\ Lists[bb][x] = 0
  <2>1. \A x \in Blocks : Lists[bb][x] = 0 /\ preds[bb][x] = 0
    BY <1>1, QuietMeansEmpty DEF IInv
  <2> QED
    BY <1>1, <2>1 DEF IInv, RowsAgree
<1>4. \A x, y \in alive : Lists'[x][y] =
        IF y = before THEN (IF x = bb THEN 1 ELSE 0)
        ELSE IF y = bb THEN Lists[x][before] ELSE Lists[x][y]
  <2> TAKE x, y \in alive
  <2>1. Lists'[x][y] =
          IF y = before THEN (IF x = bb THEN 1 ELSE 0)
          ELSE IF y = bb THEN Lists[x][bb] + preds[before][x] ELSE Lists[x][y]
    BY <1>1, RowsOfInsertion
  <2>2. Lists[x][bb] = 0 /\ preds[before][x] = Lists[x][before] /\ Lists[x][before] \in Nat
    BY <1>1, <1>3, NumbersTyped DEF IInv, RowsAgree
  <2> QED
    BY <2>1, <2>2
<1> DEFINE F == E'
<1> HIDE DEF F
<1>5. Inserted(bb, before, alive, E, F)
  <2> SUFFICES ASSUME NEW x \in alive, NEW y \in alive
               PROVE  <<x, y>> \in F <=>
                        IF x = bb THEN y = before
                        ELSE IF y = bb THEN <<x, before>> \in E
                        ELSE y # before /\ <<x, y>> \in E
    BY DEF Inserted
  <2>1. <<x, y>> \in F <=> Lists'[x][y] # 0
    BY <1>2 DEF F
  <2>2. /\ <<x, y>> \in E <=> Lists[x][y] # 0
        /\ <<x, before>> \in E <=> Lists[x][before] # 0
    BY <1>1
  <2>3. CASE x = bb
    BY <1>1, <1>3, <1>4, <2>1, <2>3
  <2>4. CASE x # bb
    BY <1>1, <1>4, <2>1, <2>2, <2>4
  <2> QED
    BY <2>3, <2>4
<1>6. F \subseteq alive \X alive /\ \A x \in alive : <<x, bb>> \notin E /\ <<bb, x>> \notin E
  BY <1>1, <1>2, <1>3 DEF F
<1>7. ASSUME NEW a \in alive \ {bb}, NEW b \in alive \ {bb}
      PROVE  b \in Paths[a] <=> b \in Paths'[a]
  <2>1. b \in ReachableFrom(a, alive, E) <=> b \in ReachableFrom(a, alive, F)
    BY <1>1, <1>5, <1>6, PathsInserted
  <2>2. Paths[a] = ReachableFrom(a, alive, E) /\ Paths'[a] = ReachableFrom(a, alive, F)
    BY <1>1 DEF Paths, F
  <2> QED
    BY <2>1, <2>2
<1>8. ASSUME NEW a \in alive \ {bb}, before \in ReachableFrom(a, alive, Without({bb}, F))
      PROVE  a = before
  BY <1>1, <1>5, <1>6, <1>8, OnlyByInserted
<1> QED
  BY <1>7, <1>8 DEF F

LEMMA RemovalPaths ==
  ASSUME IInv, NEW bb \in alive
  PROVE  RemovalKeepsOtherPaths(bb)
<1> SUFFICES ASSUME SetBBAsDead(bb) \/ SetLastBBAsDead(bb), NEW a \in alive'
             PROVE  Paths'[a] = ReachableFrom(a, alive, Without({bb}, E))
  BY DEF RemovalKeepsOtherPaths
<1>1. /\ alive \subseteq Blocks /\ alive' = alive \ {bb}
      /\ E \subseteq alive \X alive
      /\ \A x, y \in alive : <<x, y>> \in E <=> Lists[x][y] # 0
  BY EdgesParts DEF EdgesListed, SetBBAsDead, SetLastBBAsDead, SetBBAsDeadImpl
<1>2. /\ E' \subseteq alive' \X alive'
      /\ \A x, y \in alive' : <<x, y>> \in E' <=> Lists'[x][y] # 0
  <2>1. IInv'
    BY SetDeadSteps, SetLastDeadSteps
  <2> QED
    BY <2>1, EdgesPartsNext DEF EdgesListed
<1>3. \A x, y \in alive' : Lists'[x][y] = Lists[x][y]
  <2> TAKE x, y \in alive'
  <2>1. x \in Blocks /\ y \in Blocks /\ x # bb /\ y # bb
    BY <1>1
  <2>2. CASE SetBBAsDead(bb)
    BY <2>1, <2>2, RowsOfRemoval
  <2>3. CASE SetLastBBAsDead(bb)
    <3>1. succs' = [succs EXCEPT ![bb] = <<>>]
      BY <2>3 DEF SetLastBBAsDead
    <3>2. succs'[x] = succs[x]
      BY <2>1, <3>1, TypeParts DEF IInv
    <3> QED
      BY <2>1, <3>2 DEF Lists, ListsOf
  <2> QED
    BY <2>2, <2>3
<1> DEFINE F == E'
<1>4. F = Without({bb}, E)
  <2>1. ASSUME NEW e \in F
        PROVE  e \in Without({bb}, E)
    <3>1. PICK x, y \in alive' : e = <<x, y>>
      BY <1>2
    <3>2. <<x, y>> \in E /\ x # bb /\ y # bb
      BY <1>1, <1>2, <1>3, <2>1, <3>1
    <3> QED
      BY <3>1, <3>2 DEF Without
  <2>2. ASSUME NEW e \in Without({bb}, E)
        PROVE  e \in F
    <3>1. e \in E /\ e[1] # bb /\ e[2] # bb
      BY DEF Without
    <3>2. PICK x, y \in alive : e = <<x, y>>
      BY <1>1, <3>1
    <3>3. x \in alive' /\ y \in alive'
      BY <1>1, <3>1, <3>2
    <3> QED
      BY <1>1, <1>2, <1>3, <3>1, <3>2, <3>3
  <2> QED
    BY <2>1, <2>2
<1>5. Paths'[a] = ReachableFrom(a, alive', F)
  BY DEF Paths
<1> HIDE DEF F
<1>6. alive' \subseteq alive /\ F \subseteq alive' \X alive'
  BY <1>1, <1>2 DEF F
<1>7. ReachableFrom(a, alive', F) = ReachableFrom(a, alive, F)
  BY <1>6, PathsInFewerNodes
<1> QED
  BY <1>4, <1>5, <1>7

LEMMA SplitPaths ==
  ASSUME IInv, NEW b \in alive
  PROVE  SplitKeepsPaths(b)
<1> SUFFICES ASSUME Split(b), NEW a \in alive
             PROVE  ReachableFrom(a, alive', E' \cup {<<b, created'>>}) \cap alive = Paths[a]
  BY DEF SplitKeepsPaths
<1> DEFINE new == created + 1
           F == E' \cup {<<b, new>>}
<1>1. /\ alive \subseteq Blocks /\ created' = new /\ alive' = alive \cup {new}
      /\ succs' = [succs EXCEPT ![b] = <<>>, ![new] = succs[b]]
      /\ E \subseteq alive \X alive
      /\ \A x, y \in alive : <<x, y>> \in E <=> Lists[x][y] # 0
  BY EdgesParts DEF EdgesListed, Split
<1>2. /\ E' \subseteq alive' \X alive' /\ alive' \subseteq Blocks
      /\ \A x, y \in alive' : <<x, y>> \in E' <=> Lists'[x][y] # 0
  <2>1. IInv'
    BY SplitSteps
  <2> QED
    BY <2>1, EdgesPartsNext DEF EdgesListed
<1>3. new \notin alive /\ new \in Blocks /\ new > created /\ b # new
  <2>1. created \in Nat /\ \A x \in alive : x \in Nat /\ x <= created
    BY TypeParts DEF IInv
  <2> QED
    BY <1>1, <1>2, <2>1
<1>4. \A x \in Blocks : Lists[x][new] = 0
  BY <1>3, Unlisted
<1>5. ASSUME NEW x \in alive', NEW y \in alive'
      PROVE  Lists'[x][y] = IF x = b THEN 0 ELSE IF x = new THEN Lists[b][y] ELSE Lists[x][y]
  <2>1. x \in Blocks /\ y \in Blocks /\ b \in Blocks /\ succs \in [Blocks -> Seq(Blocks)]
    BY <1>1, <1>2, TypeParts DEF IInv
  <2>2. succs'[x] = IF x = b THEN <<>> ELSE IF x = new THEN succs[b] ELSE succs[x]
    BY <1>1, <1>3, <2>1
  <2>3. Lists'[x][y] = Count(succs'[x], y) /\ Lists[x][y] = Count(succs[x], y)
        /\ Lists[b][y] = Count(succs[b], y)
    BY <2>1 DEF Lists, ListsOf
  <2>4. Count(<<>>, y) = 0
    BY CountEmpty
  <2> QED
    BY <2>2, <2>3, <2>4
<1>6. \A x, y \in alive' : <<x, y>> \in F <=> Lists'[x][y] # 0 \/ (x = b /\ y = new)
  BY <1>2
<1>7. F \subseteq alive' \X alive'
  BY <1>1, <1>2
<1>8. F = E' \cup {<<b, created'>>} /\ Paths[a] = ReachableFrom(a, alive, E)
  BY <1>1 DEF Paths
<1> HIDE DEF F, new
<1>9. SplitIn(b, new, alive, E, F)
  <2> SUFFICES ASSUME NEW x \in alive', NEW y \in alive'
               PROVE  <<x, y>> \in F <=> IF x = b THEN y = new
                                          ELSE IF x = new THEN <<b, y>> \in E ELSE <<x, y>> \in E
    BY <1>1 DEF SplitIn
  <2>1. <<x, y>> \in F <=> Lists'[x][y] # 0 \/ (x = b /\ y = new)
    BY <1>6
  <2>2. \A z \in alive : <<z, y>> \in E <=> Lists[z][y] # 0
    <3> TAKE z \in alive
    <3>1. CASE y \in alive
      BY <1>1, <3>1
    <3>2. CASE y = new
      BY <1>1, <1>3, <1>4, <3>2
    <3> QED
      BY <1>1, <3>1, <3>2
  <2>3. CASE x = b
    BY <1>5, <2>1, <2>3
  <2>4. CASE x = new
    BY <1>3, <1>5, <2>1, <2>2, <2>4
  <2>5. CASE x # b /\ x # new
    <3>1. x \in alive
      BY <1>1, <2>5
    <3> QED
      BY <1>5, <2>1, <2>2, <2>5, <3>1
  <2> QED
    BY <2>3, <2>4, <2>5
<1>10. ReachableFrom(a, alive \cup {new}, F) \cap alive = ReachableFrom(a, alive, E)
  BY <1>1, <1>3, <1>7, <1>9, PathsSplit
<1> QED
  BY <1>1, <1>8, <1>10

LEMMA ConnectedSplitPaths ==
  ASSUME IInv, NEW b \in alive
  PROVE  ConnectedSplitCutsPaths(b)
<1> SUFFICES ASSUME SplitAndConnect(b)
             PROVE  /\ Paths'[b] = {b}
                    /\ \A a \in alive \ {b} :
                         Paths'[a] = ReachableFrom(a, alive, NotFrom(b, E))
                    /\ Paths'[created'] \ {b} = (Paths[b] \ {b}) \cup {created'}
  BY DEF ConnectedSplitCutsPaths
<1> DEFINE new == created + 1
           F == E'
<1>1. /\ alive \subseteq Blocks /\ created' = new /\ alive' = alive \cup {new}
      /\ succs' = [succs EXCEPT ![b] = <<>>, ![new] = Append(succs[b], new)]
      /\ E \subseteq alive \X alive
      /\ \A x, y \in alive : <<x, y>> \in E <=> Lists[x][y] # 0
  BY EdgesParts DEF EdgesListed, SplitAndConnect
<1>2. /\ F \subseteq alive' \X alive' /\ alive' \subseteq Blocks
      /\ \A x, y \in alive' : <<x, y>> \in F <=> Lists'[x][y] # 0
  <2>1. IInv'
    BY SplitAndConnectSteps
  <2> QED
    BY <2>1, EdgesPartsNext DEF EdgesListed
<1>3. new \notin alive /\ new \in Blocks /\ new > created /\ b # new
  <2>1. created \in Nat /\ \A x \in alive : x \in Nat /\ x <= created
    BY TypeParts DEF IInv
  <2> QED
    BY <1>1, <1>2, <2>1
<1>4. \A x \in Blocks : Lists[x][new] = 0
  BY <1>3, Unlisted
<1>5. ASSUME NEW x \in alive', NEW y \in alive'
      PROVE  Lists'[x][y] = IF x = b THEN 0
                            ELSE IF x = new THEN Lists[b][y] + (IF y = new THEN 1 ELSE 0)
                            ELSE Lists[x][y]
  <2>1. x \in Blocks /\ y \in Blocks /\ b \in Blocks /\ succs \in [Blocks -> Seq(Blocks)]
    BY <1>1, <1>2, TypeParts DEF IInv
  <2>2. succs'[x] = IF x = b THEN <<>> ELSE IF x = new THEN Append(succs[b], new) ELSE succs[x]
    BY <1>1, <1>3, <2>1
  <2>3. Lists'[x][y] = Count(succs'[x], y) /\ Lists[x][y] = Count(succs[x], y)
        /\ Lists[b][y] = Count(succs[b], y)
    BY <2>1 DEF Lists, ListsOf
  <2>4. /\ Count(<<>>, y) = 0
        /\ Count(Append(succs[b], new), y) = Count(succs[b], y) + (IF y = new THEN 1 ELSE 0)
    BY <1>3, <2>1, CountEmpty, CountAppend
  <2> QED
    BY <2>2, <2>3, <2>4
<1>6. F = E' /\ Paths = [x \in alive |-> ReachableFrom(x, alive, E)]
      /\ Paths' = [x \in alive' |-> ReachableFrom(x, alive', F)]
  BY DEF Paths
<1> HIDE DEF F, new
<1>7. CutIn(b, new, alive, E, F)
  <2> SUFFICES ASSUME NEW x \in alive', NEW y \in alive'
               PROVE  <<x, y>> \in F <=>
                        /\ x # b
                        /\ IF x = new THEN y = new \/ <<b, y>> \in E ELSE <<x, y>> \in E
    BY <1>1 DEF CutIn
  <2>1. <<x, y>> \in F <=> Lists'[x][y] # 0
    BY <1>2
  <2>2. \A z \in alive : <<z, y>> \in E <=> Lists[z][y] # 0
    <3> TAKE z \in alive
    <3>1. CASE y \in alive
      BY <1>1, <3>1
    <3>2. CASE y = new
      BY <1>1, <1>3, <1>4, <3>2
    <3> QED
      BY <1>1, <3>1, <3>2
  <2>3. CASE x = b
    BY <1>5, <2>1, <2>3
  <2>4. CASE x = new
    <3>1. Lists'[x][y] = Lists[b][y] + (IF y = new THEN 1 ELSE 0)
      BY <1>3, <1>5, <2>4
    <3>2. Lists[b][y] \in Nat
      BY <1>1, <1>2, NumbersTyped
    <3>3. <<b, y>> \in E <=> Lists[b][y] # 0
      BY <2>2
    <3>4. Lists'[x][y] # 0 <=> y = new \/ Lists[b][y] # 0
      BY <3>1, <3>2
    <3>5. x # b
      BY <1>3, <2>4
    <3> QED
      BY <2>1, <2>4, <3>3, <3>4, <3>5
  <2>5. CASE x # b /\ x # new
    <3>1. x \in alive
      BY <1>1, <2>5
    <3> QED
      BY <1>5, <2>1, <2>2, <2>5, <3>1
  <2> QED
    BY <2>3, <2>4, <2>5
<1>8. CutPaths(b, new, alive, E, F)
  <2>1. E \subseteq alive \X alive /\ new \notin alive
    BY <1>1, <1>3
  <2>2. F \subseteq (alive \cup {new}) \X (alive \cup {new})
    BY <1>1, <1>2
  <2> QED
    BY <1>7, <2>1, <2>2, PathsCut
<1>9. Paths'[b] = {b} /\ Paths'[new] \ {b} = (Paths[b] \ {b}) \cup {new}
  BY <1>1, <1>6, <1>8 DEF CutPaths
<1>10. \A a \in alive \ {b} : Paths'[a] = ReachableFrom(a, alive, NotFrom(b, E))
  BY <1>1, <1>6, <1>8 DEF CutPaths
<1> QED
  BY <1>1, <1>9, <1>10

(***************************************************************************)
(* The theorems.                                                           *)
(***************************************************************************)

LEMMA NextKeeps == IInv /\ [Next]_vars => IInv'
<1> SUFFICES ASSUME IInv, [Next]_vars
             PROVE  IInv'
  OBVIOUS
<1>1. CASE CreateEmptyBB
  BY <1>1, CreateEmptySteps
<1>2. CASE CreateTerminalBB
  BY <1>2, CreateTerminalSteps
<1>3. CASE \E b \in alive : SetFirstBB(b)
  BY <1>3, StatusSteps
<1>4. CASE \E b \in alive : Split(b)
  BY <1>4, SplitSteps
<1>5. CASE \E b \in alive : SplitAndConnect(b)
  BY <1>5, SplitAndConnectSteps
<1>6. CASE \E b \in alive : SetBBAsDead(b)
  BY <1>6, SetDeadSteps
<1>7. CASE \E b \in alive : SetLastBBAsDead(b)
  BY <1>7, SetLastDeadSteps
<1>8. CASE \E a, b \in alive : ConnectBBs(a, b)
  BY <1>8, ConnectSteps
<1>9. CASE \E a, b \in alive : AddBBBefore(a, b)
  BY <1>9, AddBBBeforeSteps
<1>10. CASE SuccessorsAbort \/ EdgeAbort \/ DeadAbort \/ CleanupUnusedBlocks
  BY <1>10, StatusSteps
<1>11. CASE UNCHANGED vars
  BY <1>11, StatusSteps
<1> QED
  BY <1>1, <1>2, <1>3, <1>4, <1>5, <1>6, <1>7, <1>8, <1>9, <1>10, <1>11 DEF Next

LEMMA Invariance == Spec => []IInv
BY InitHolds, NextKeeps, PTL DEF Spec

\* The numbers and lists stay of their types: in particular no bag of
\* predecessors loses more entries than it has, and GetBBCount is the number
\* of blocks that were not removed.
THEOREM BlocksTyped == Spec => []TypeOK
<1>1. IInv => TypeOK
  BY DEF IInv
<1> QED
  BY <1>1, Invariance, PTL

\* Whatever ConnectBBs, AddBBBefore, the splits and the removals are called
\* with, both ends of an edge list it equally often.
THEOREM EdgesAlwaysAgree == Spec => []EdgesAgree
<1>1. IInv => EdgesAgree
  BY InvImplies
<1> QED
  BY <1>1, Invariance, PTL

\* A removed block leaves nothing behind, and the aborts of DeleteSuccessors
\* and DeletePredecessors cannot be reached, unless SetBBAsDead removed the
\* last block.
THEOREM NothingElseDangles == Spec => []OnlyLastBBDangles
<1>1. IInv => OnlyLastBBDangles
  BY InvImplies
<1> QED
  BY <1>1, Invariance, PTL

\* What the operations that edit the lists of several blocks at once do to the
\* paths, on every graph: AddBBBefore puts its block on each path into the
\* other one and on no other, SetBBAsDead takes away the paths through its
\* block only, SplitAfterInstruction none at all when the halves are left to
\* the caller to connect, and all that led on through the block when it is
\* told to connect them itself.
THEOREM PathsAreKept == Spec => PathsKept
<1>1. ASSUME IInv
      PROVE  /\ \A before, bb \in alive : InsertionKeepsPaths(before, bb)
             /\ \A b \in alive : RemovalKeepsOtherPaths(b) /\ SplitKeepsPaths(b)
                                /\ ConnectedSplitCutsPaths(b)
  BY <1>1, InsertionPaths, RemovalPaths, SplitPaths, ConnectedSplitPaths
<1> QED
  BY <1>1, Invariance, PTL DEF PathsKept
=============================================================================
