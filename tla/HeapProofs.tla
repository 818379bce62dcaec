----------------------------- MODULE HeapProofs -----------------------------
(***************************************************************************)
(* Proofs about the memory of a graph: the instruction lists of its blocks *)
(* (BasicBlock), the marks on its blocks (Markers) and the arena all of it *)
(* lies in (Arena).  They share no state, and the theorems about one use   *)
(* nothing of the others.                                                  *)
(***************************************************************************)
EXTENDS Arena, BasicBlock, Markers, FiniteSetTheorems, SequenceTheorems, WellFoundedInduction,
        TLAPS

-----------------------------------------------------------------------------
(***************************************************************************)
(* What a chain of next pointers visits.  walk, the recursive function of  *)
(* Chain, is defined by exists; that it is the only one follows from the   *)
(* least place where another one would differ.                             *)
(***************************************************************************)

\* Entry i of s, and Null on either side of the ends.
Entry(s, i) == IF i \in 1..Len(s) THEN s[i] ELSE Null

NoRepeat(s) == \A i, j \in 1..Len(s) : s[i] = s[j] => i = j

\* A set of numbers has a least one.
LEMMA LeastPlace ==
  ASSUME NEW S \in SUBSET Nat, S # {}
  PROVE  \E m \in S : \A k \in S : m <= k
<1> DEFINE R == OpToRel(<, Nat)
<1>1. PICK m \in S : \A k \in S : <<k, m>> \notin R
  <2>1. IsWellFoundedOn(R, Nat)
    BY NatLessThanWellFounded
  <2> HIDE DEF R
  <2> QED
    BY <2>1, WFMin
<1>2. \A k \in S : ~(k < m)
  BY <1>1 DEF OpToRel
<1> QED
  BY <1>2

\* A list of different instructions is no longer than there are instructions.
LEMMA ListFits ==
  ASSUME NEW s \in Seq(Instrs), NoRepeat(s)
  PROVE  Len(s) \in Nat /\ Cardinality(Instrs) \in Nat /\ Len(s) <= Cardinality(Instrs)
<1>1. Len(s) \in Nat /\ s \in [1..Len(s) -> Instrs]
  BY LenProperties
<1>2. IsFiniteSet(Instrs) /\ Cardinality(Instrs) \in Nat
  BY InstrAssumption, FS_CardinalityType
<1>3. s \in Injection(1..Len(s), Instrs)
  BY <1>1 DEF NoRepeat, Injection, IsInjective
<1>4. Cardinality(1..Len(s)) <= Cardinality(Instrs)
  BY <1>2, <1>3, FS_Injection
<1>5. Cardinality(1..Len(s)) = Len(s)
  BY <1>1, FS_Interval
<1> QED
  BY <1>1, <1>2, <1>4, <1>5

NextOf(ins, x, walk, n) ==
  IF n = 1 THEN x
  ELSE IF walk[n - 1] = Null THEN Null ELSE ins[walk[n - 1]].next

\* The next pointers from x follow s.
Follows(ins, x, s) ==
  /\ s \in Seq(Instrs) /\ NoRepeat(s) /\ x = Entry(s, 1)
  /\ \A i \in 1..Len(s) : ins[s[i]].next = Entry(s, i + 1)

\* Stepping from the entry before place n gives the entry at n.
LEMMA EntryStep ==
  ASSUME NEW ins, NEW x, NEW s, Follows(ins, x, s), NEW walk, NEW n \in Nat \ {0},
         n # 1 => walk[n - 1] = Entry(s, n - 1)
  PROVE  NextOf(ins, x, walk, n) = Entry(s, n)
<1>1. Len(s) \in Nat /\ s \in [1..Len(s) -> Instrs] /\ Null \notin Instrs
  BY LenProperties, InstrAssumption DEF Follows
<1>2. CASE n = 1
  BY <1>2 DEF NextOf, Follows
<1>3. CASE n # 1 /\ n - 1 \in 1..Len(s)
  <2>1. walk[n - 1] = s[n - 1] /\ walk[n - 1] # Null
    BY <1>1, <1>3 DEF Entry
  <2>2. ins[s[n - 1]].next = Entry(s, n)
    <3>1. \A i \in 1..Len(s) : ins[s[i]].next = Entry(s, i + 1)
      BY DEF Follows
    <3>2. (n - 1) + 1 = n
      OBVIOUS
    <3>3. ins[s[n - 1]].next = Entry(s, (n - 1) + 1)
      BY <1>3, <3>1, Zenon
    <3> QED
      BY <3>2, <3>3, Zenon
  <2> QED
    BY <1>3, <2>1, <2>2 DEF NextOf
<1>4. CASE n # 1 /\ n - 1 \notin 1..Len(s)
  <2>1. walk[n - 1] = Null /\ n \notin 1..Len(s)
    BY <1>1, <1>4 DEF Entry
  <2> QED
    BY <1>4, <2>1 DEF NextOf, Entry
<1> QED
  BY <1>2, <1>3, <1>4

\* Following next from the first instruction of a list visits the list.
LEMMA ChainIs ==
  ASSUME NEW ins, NEW x, NEW s, Follows(ins, x, s)
  PROVE  Chain(ins, x) = s
<1> DEFINE N == Cardinality(Instrs)
           W == CHOOSE walk : walk = [n \in 1..N |->
                  IF n = 1 THEN x
                  ELSE IF walk[n - 1] = Null THEN Null ELSE ins[walk[n - 1]].next]
           E == [n \in 1..N |-> Entry(s, n)]
           V == {m \in DOMAIN W : W[m] # Null}
<1>1. /\ Len(s) \in Nat /\ N \in Nat /\ Len(s) <= N
      /\ s \in [1..Len(s) -> Instrs] /\ DOMAIN s = 1..Len(s) /\ Null \notin Instrs
  BY ListFits, LenProperties, InstrAssumption DEF Follows
<1>2. \A n \in 1..N : E[n] = NextOf(ins, x, E, n)
  <2> TAKE n \in 1..N
  <2>1. n \in Nat \ {0} /\ (n # 1 => n - 1 \in 1..N)
    BY <1>1
  <2> HIDE DEF N
  <2>2. n # 1 => E[n - 1] = Entry(s, n - 1)
    BY <2>1
  <2>3. E[n] = Entry(s, n)
    OBVIOUS
  <2> HIDE DEF E
  <2> QED
    BY <2>1, <2>2, <2>3, EntryStep
<1>3. E = [n \in 1..N |-> E[n]]
  OBVIOUS
<1>4. \E walk : walk = [n \in 1..N |->
                  IF n = 1 THEN x
                  ELSE IF walk[n - 1] = Null THEN Null ELSE ins[walk[n - 1]].next]
  <2> HIDE DEF E
  <2>1. E = [n \in 1..N |->
             IF n = 1 THEN x
             ELSE IF E[n - 1] = Null THEN Null ELSE ins[E[n - 1]].next]
    <3> HIDE DEF N
    <3> QED
      BY <1>2, <1>3 DEF NextOf
  <2> QED
    BY <2>1, Zenon
<1>5. W = [n \in 1..N |->
             IF n = 1 THEN x
             ELSE IF W[n - 1] = Null THEN Null ELSE ins[W[n - 1]].next]
  BY <1>4, Zenon
<1>6. Chain(ins, x) = [n \in 1..Cardinality(V) |-> W[n]]
  BY Zenon DEF Chain
<1> HIDE DEF W, E
<1>7. DOMAIN W = 1..N /\ \A n \in 1..N : W[n] = NextOf(ins, x, W, n)
  <2> HIDE DEF N
  <2> QED
    BY <1>5, Zenon DEF NextOf
<1>8. \A n \in 1..N : W[n] = Entry(s, n)
  <2> DEFINE Bad == {n \in 1..N : W[n] # Entry(s, n)}
  <2> SUFFICES ASSUME Bad # {}
               PROVE  FALSE
    OBVIOUS
  <2>1. PICK m \in Bad : \A k \in Bad : m <= k
    <3>1. Bad \in SUBSET Nat
      BY <1>1
    <3> HIDE DEF Bad
    <3> QED
      BY <3>1, LeastPlace
  <2>2. m \in 1..N /\ m \in Nat \ {0} /\ W[m] # Entry(s, m)
    BY <1>1, <2>1
  <2>3. m # 1 => m - 1 \in 1..N /\ m - 1 \notin Bad
    BY <1>1, <2>1, <2>2
  <2>4. m # 1 => W[m - 1] = Entry(s, m - 1)
    BY <2>3
  <2>5. NextOf(ins, x, W, m) = Entry(s, m)
    BY <2>2, <2>4, EntryStep
  <2> QED
    BY <1>7, <2>2, <2>5
<1>9. V = 1..Len(s)
  <2>1. \A m \in 1..N : W[m] # Null <=> m <= Len(s)
    BY <1>1, <1>8 DEF Entry
  <2> QED
    BY <1>1, <1>7, <2>1
<1>10. Cardinality(V) = Len(s)
  <2>1. Cardinality(1..Len(s)) = IF 1 > Len(s) THEN 0 ELSE Len(s) - 1 + 1
    <3>1. 1 \in Int /\ Len(s) \in Int
      BY <1>1
    <3> QED
      BY <3>1, FS_Interval
  <2>2. Cardinality(1..Len(s)) = Len(s)
    BY <1>1, <2>1
  <2> HIDE DEF V
  <2> QED
    BY <1>9, <2>2
<1>11. \A n \in 1..Len(s) : W[n] = s[n]
  BY <1>1, <1>8 DEF Entry
<1>12. Chain(ins, x) = [n \in 1..Len(s) |-> W[n]]
  BY <1>6, <1>10
<1>13. s = [n \in 1..Len(s) |-> s[n]]
  BY <1>1
<1> QED
  BY <1>11, <1>12, <1>13

-----------------------------------------------------------------------------
(***************************************************************************)
(* Lists after an insertion or a removal, place by place, and that they    *)
(* are the sequences of BlockLists.                                        *)
(***************************************************************************)

\* s with x before entry i, and s without entry i.
Insertion(s, i, x) ==
  [j \in 1..Len(s) + 1 |-> IF j < i THEN s[j] ELSE IF j = i THEN x ELSE s[j - 1]]
Removal(s, i) == [j \in 1..Len(s) - 1 |-> IF j < i THEN s[j] ELSE s[j + 1]]

LEMMA InsertionParts ==
  ASSUME NEW s \in Seq(Instrs), NEW i \in 1..Len(s) + 1, NEW x \in Instrs
  PROVE  /\ Len(s) \in Nat
         /\ Insertion(s, i, x) \in Seq(Instrs)
         /\ Len(Insertion(s, i, x)) = Len(s) + 1
         /\ \A j \in 1..Len(s) + 1 : Insertion(s, i, x)[j] =
              IF j < i THEN s[j] ELSE IF j = i THEN x ELSE s[j - 1]
<1>1. Len(s) \in Nat /\ s \in [1..Len(s) -> Instrs]
  BY LenProperties
<1>2. Insertion(s, i, x) \in [1..Len(s) + 1 -> Instrs]
  <2>1. ASSUME NEW j \in 1..Len(s) + 1
        PROVE  (IF j < i THEN s[j] ELSE IF j = i THEN x ELSE s[j - 1]) \in Instrs
    BY <1>1
  <2> QED
    BY <2>1 DEF Insertion
<1>3. Len(s) + 1 \in Nat
  BY <1>1
<1>4. Insertion(s, i, x) \in Seq(Instrs) /\ Len(Insertion(s, i, x)) = Len(s) + 1
  BY <1>2, <1>3
<1> QED
  BY <1>1, <1>4 DEF Insertion

LEMMA RemovalParts ==
  ASSUME NEW s \in Seq(Instrs), NEW i \in 1..Len(s)
  PROVE  /\ Len(s) \in Nat
         /\ Removal(s, i) \in Seq(Instrs)
         /\ Len(Removal(s, i)) = Len(s) - 1
         /\ \A j \in 1..Len(s) - 1 : Removal(s, i)[j] = IF j < i THEN s[j] ELSE s[j + 1]
<1>1. Len(s) \in Nat /\ s \in [1..Len(s) -> Instrs]
  BY LenProperties
<1>2. Removal(s, i) \in [1..Len(s) - 1 -> Instrs]
  <2>1. ASSUME NEW j \in 1..Len(s) - 1
        PROVE  (IF j < i THEN s[j] ELSE s[j + 1]) \in Instrs
    BY <1>1
  <2> QED
    BY <2>1 DEF Removal
<1>3. Len(s) - 1 \in Nat
  BY <1>1
<1>4. Removal(s, i) \in Seq(Instrs) /\ Len(Removal(s, i)) = Len(s) - 1
  BY <1>2, <1>3
<1> QED
  BY <1>1, <1>4 DEF Removal

\* Part of a list.
LEMMA PartOf ==
  ASSUME NEW s \in Seq(Instrs), NEW m \in Nat \ {0}, NEW n \in Nat,
         n <= Len(s), m <= n + 1
  PROVE  /\ SubSeq(s, m, n) \in Seq(Instrs)
         /\ Len(SubSeq(s, m, n)) = n - m + 1
         /\ \A i \in 1..n - m + 1 : SubSeq(s, m, n)[i] = s[m + i - 1]
<1>1. Len(s) \in Nat /\ s \in [1..Len(s) -> Instrs]
  BY LenProperties
<1>2. \A i \in m..n : s[i] \in Instrs
  BY <1>1
<1>3. m \in Int /\ n \in Int
  OBVIOUS
<1>4. /\ SubSeq(s, m, n) \in Seq(Instrs)
      /\ Len(SubSeq(s, m, n)) = IF m <= n THEN n - m + 1 ELSE 0
      /\ \A i \in 1..n - m + 1 : SubSeq(s, m, n)[i] = s[m + i - 1]
  BY <1>2, <1>3, SubSeqProperties
<1> QED
  BY <1>4

\* InsertAt and RemoveAt of the community modules are those lists.
LEMMA InsertAtIs ==
  ASSUME NEW s \in Seq(Instrs), NEW i \in 1..Len(s) + 1, NEW x \in Instrs
  PROVE  Lists!InsertAt(s, i, x) = Insertion(s, i, x)
<1> DEFINE front == SubSeq(s, 1, i - 1)
           back == SubSeq(s, i, Len(s))
           t == front \o <<x>>
           r == t \o back
<1>1. Len(s) \in Nat /\ i \in Nat \ {0} /\ i - 1 \in Nat /\ i <= Len(s) + 1
  BY LenProperties
<1>2. /\ front \in Seq(Instrs) /\ Len(front) = i - 1
      /\ \A j \in 1..i - 1 : front[j] = s[j]
  <2>1. 1 \in Nat \ {0} /\ i - 1 <= Len(s) /\ 1 <= (i - 1) + 1
    BY <1>1
  <2>2. /\ front \in Seq(Instrs) /\ Len(front) = (i - 1) - 1 + 1
        /\ \A j \in 1..(i - 1) - 1 + 1 : front[j] = s[1 + j - 1]
    BY <1>1, <2>1, PartOf
  <2> HIDE DEF front
  <2> QED
    BY <1>1, <2>2
<1>3. /\ back \in Seq(Instrs) /\ Len(back) = Len(s) - i + 1
      /\ \A j \in 1..Len(s) - i + 1 : back[j] = s[i + j - 1]
  BY <1>1, PartOf
<1>4. <<x>> \in Seq(Instrs) /\ Len(<<x>>) = 1 /\ <<x>>[1] = x
  OBVIOUS
<1> HIDE DEF front, back
<1>5. /\ t \in Seq(Instrs) /\ Len(t) = i
      /\ \A j \in 1..i : t[j] = IF j <= i - 1 THEN s[j] ELSE x
  <2> DEFINE one == <<x>>
  <2>1. /\ t \in Seq(Instrs) /\ Len(t) = (i - 1) + 1
        /\ \A j \in 1..(i - 1) + 1 : t[j] = IF j <= i - 1 THEN front[j] ELSE one[j - (i - 1)]
    <3>1. front \in Seq(Instrs) /\ one \in Seq(Instrs) /\ Len(front) = i - 1 /\ Len(one) = 1
      BY <1>2, <1>4
    <3> HIDE DEF one
    <3>2. /\ front \o one \in Seq(Instrs) /\ Len(front \o one) = Len(front) + Len(one)
          /\ \A j \in 1..Len(front) + Len(one) :
                (front \o one)[j] = IF j <= Len(front) THEN front[j] ELSE one[j - Len(front)]
      BY <3>1, ConcatProperties
    <3>3. /\ front \o one \in Seq(Instrs) /\ Len(front \o one) = (i - 1) + 1
          /\ \A j \in 1..(i - 1) + 1 :
                (front \o one)[j] = IF j <= i - 1 THEN front[j] ELSE one[j - (i - 1)]
      BY <3>1, <3>2
    <3> QED
      BY <3>3 DEF one
  <2> HIDE DEF t
  <2>2. \A j \in 1..i : j <= i - 1 \/ j - (i - 1) = 1
    BY <1>1
  <2> QED
    BY <1>1, <1>2, <1>4, <2>1, <2>2
<1> HIDE DEF t
<1>6. /\ r \in Seq(Instrs) /\ Len(r) = Len(s) + 1
      /\ \A j \in 1..Len(s) + 1 : r[j] = IF j <= i THEN t[j] ELSE back[j - i]
  <2>1. /\ r \in Seq(Instrs) /\ Len(r) = Len(t) + Len(back)
        /\ \A j \in 1..Len(t) + Len(back) :
              r[j] = IF j <= Len(t) THEN t[j] ELSE back[j - Len(t)]
    BY <1>3, <1>5, ConcatProperties
  <2>2. Len(t) = i /\ Len(t) + Len(back) = Len(s) + 1
    BY <1>1, <1>3, <1>5
  <2> HIDE DEF r
  <2> QED
    BY <2>1, <2>2
<1> HIDE DEF r
<1>7. \A j \in 1..Len(s) + 1 : r[j] = Insertion(s, i, x)[j]
  <2> TAKE j \in 1..Len(s) + 1
  <2>1. Insertion(s, i, x)[j] = IF j < i THEN s[j] ELSE IF j = i THEN x ELSE s[j - 1]
    BY InsertionParts
  <2>2. CASE j <= i
    <3>1. j \in 1..i /\ (j <= i - 1 <=> j < i)
      BY <1>1, <2>2
    <3>2. r[j] = t[j] /\ t[j] = IF j <= i - 1 THEN s[j] ELSE x
      BY <1>5, <1>6, <2>2, <3>1
    <3>3. j < i \/ j = i
      BY <1>1, <2>2
    <3> QED
      BY <2>1, <3>1, <3>2, <3>3
  <2>3. CASE j > i
    <3>1. j - i \in 1..Len(s) - i + 1 /\ i + (j - i) - 1 = j - 1
      BY <1>1, <2>3
    <3>2. back[j - i] = s[j - 1]
      BY <1>3, <3>1
    <3> QED
      BY <1>1, <1>6, <2>1, <2>3, <3>2
  <2> QED
    BY <1>1, <2>2, <2>3
<1>8. r = Insertion(s, i, x)
  <2>1. Insertion(s, i, x) \in Seq(Instrs) /\ Len(Insertion(s, i, x)) = Len(s) + 1
    BY InsertionParts
  <2> QED
    BY <1>6, <1>7, <2>1, SeqEqual
<1> QED
  BY <1>8 DEF Lists!InsertAt, r, t, front, back

LEMMA RemoveAtIs ==
  ASSUME NEW s \in Seq(Instrs), NEW i \in 1..Len(s)
  PROVE  Lists!RemoveAt(s, i) = Removal(s, i)
<1> DEFINE front == SubSeq(s, 1, i - 1)
           back == SubSeq(s, i + 1, Len(s))
           r == front \o back
<1>1. Len(s) \in Nat /\ i \in Nat \ {0} /\ i - 1 \in Nat /\ i <= Len(s)
  BY LenProperties
<1>2. /\ front \in Seq(Instrs) /\ Len(front) = i - 1
      /\ \A j \in 1..i - 1 : front[j] = s[j]
  <2>1. 1 \in Nat \ {0} /\ i - 1 <= Len(s) /\ 1 <= (i - 1) + 1
    BY <1>1
  <2>2. /\ front \in Seq(Instrs) /\ Len(front) = (i - 1) - 1 + 1
        /\ \A j \in 1..(i - 1) - 1 + 1 : front[j] = s[1 + j - 1]
    BY <1>1, <2>1, PartOf
  <2> HIDE DEF front
  <2> QED
    BY <1>1, <2>2
<1>3. /\ back \in Seq(Instrs) /\ Len(back) = Len(s) - i
      /\ \A j \in 1..Len(s) - i : back[j] = s[i + j]
  <2>1. i + 1 \in Nat \ {0} /\ i + 1 <= Len(s) + 1
    BY <1>1
  <2>2. /\ back \in Seq(Instrs) /\ Len(back) = Len(s) - (i + 1) + 1
        /\ \A j \in 1..Len(s) - (i + 1) + 1 : back[j] = s[(i + 1) + j - 1]
    BY <1>1, <2>1, PartOf
  <2> HIDE DEF back
  <2> QED
    BY <1>1, <2>2
<1> HIDE DEF front, back
<1>4. /\ r \in Seq(Instrs) /\ Len(r) = Len(s) - 1
      /\ \A j \in 1..Len(s) - 1 : r[j] = IF j <= i - 1 THEN front[j] ELSE back[j - (i - 1)]
  <2>1. /\ r \in Seq(Instrs) /\ Len(r) = Len(front) + Len(back)
        /\ \A j \in 1..Len(front) + Len(back) :
              r[j] = IF j <= Len(front) THEN front[j] ELSE back[j - Len(front)]
    BY <1>2, <1>3, ConcatProperties
  <2>2. Len(front) = i - 1 /\ Len(front) + Len(back) = Len(s) - 1
    BY <1>1, <1>2, <1>3
  <2> HIDE DEF r
  <2> QED
    BY <2>1, <2>2
<1> HIDE DEF r
<1>5. \A j \in 1..Len(s) - 1 : r[j] = Removal(s, i)[j]
  <2> TAKE j \in 1..Len(s) - 1
  <2>1. Removal(s, i)[j] = IF j < i THEN s[j] ELSE s[j + 1]
    BY RemovalParts
  <2>2. CASE j < i
    BY <1>1, <1>2, <1>4, <2>1, <2>2
  <2>3. CASE j >= i
    <3>1. j - (i - 1) \in 1..Len(s) - i /\ i + (j - (i - 1)) = j + 1
      BY <1>1, <2>3
    <3>2. back[j - (i - 1)] = s[j + 1]
      BY <1>3, <3>1
    <3> QED
      BY <1>1, <1>4, <2>1, <2>3, <3>2
  <2> QED
    BY <1>1, <2>2, <2>3
<1>6. r = Removal(s, i)
  <2>1. Removal(s, i) \in Seq(Instrs) /\ Len(Removal(s, i)) = Len(s) - 1
    BY RemovalParts
  <2> QED
    BY <1>4, <1>5, <2>1, SeqEqual
<1> QED
  BY <1>6 DEF Lists!RemoveAt, r, front, back

-----------------------------------------------------------------------------
(***************************************************************************)
(* The instructions of block b, in the order of s: instBB_ names b for     *)
(* these instructions only, and the pointers of each are its neighbours.   *)
(* What linking an instruction in, and out, does to such a list.           *)
(***************************************************************************)

IsList(ins, b, s) ==
  /\ s \in Seq(Instrs) /\ NoRepeat(s)
  /\ \A x \in Instrs : ins[x].bb = b <=> \E i \in 1..Len(s) : s[i] = x
  /\ \A i \in 1..Len(s) : ins[s[i]].prev = Entry(s, i - 1) /\ ins[s[i]].next = Entry(s, i + 1)

\* In new, x of block b is between p and n, either of them may be Null.
LinkedIn(ins, new, b, p, x, n) ==
  /\ new[x] = [prev |-> p, next |-> n, bb |-> b]
  /\ \A y \in Instrs \ {x} :
       /\ new[y].prev = IF y = n THEN x ELSE ins[y].prev
       /\ new[y].next = IF y = p THEN x ELSE ins[y].next
       /\ new[y].bb = ins[y].bb

\* In new, p and n are what they were to x to each other, and x is detached.
LinkedOut(ins, new, p, x, n) ==
  /\ new[x] = Detached
  /\ \A y \in Instrs \ {x} :
       /\ new[y].prev = IF y = n THEN p ELSE ins[y].prev
       /\ new[y].next = IF y = p THEN n ELSE ins[y].next
       /\ new[y].bb = ins[y].bb

\* An entry is at one place only.
LEMMA OnePlace ==
  ASSUME NEW s \in Seq(Instrs), NoRepeat(s), NEW j \in 1..Len(s), NEW i \in Int
  PROVE  s[j] \in Instrs /\ s[j] # Null /\ (s[j] = Entry(s, i) <=> j = i)
<1>1. Len(s) \in Nat /\ s \in [1..Len(s) -> Instrs]
  BY LenProperties
<1>2. s[j] \in Instrs /\ s[j] # Null
  BY <1>1, InstrAssumption
<1>3. CASE i \in 1..Len(s)
  BY <1>2, <1>3 DEF Entry, NoRepeat
<1>4. CASE i \notin 1..Len(s)
  BY <1>2, <1>4 DEF Entry
<1> QED
  BY <1>2, <1>3, <1>4

LEMMA ListWithOneMore ==
  ASSUME NEW ins, NEW new, NEW b \in Blocks, NEW s, IsList(ins, b, s),
         NEW x \in Instrs, ins[x].bb # b, NEW i \in 1..Len(s) + 1,
         LinkedIn(ins, new, b, Entry(s, i - 1), x, Entry(s, i))
  PROVE  IsList(new, b, Insertion(s, i, x))
<1> DEFINE t == Insertion(s, i, x)
<1>1. s \in Seq(Instrs) /\ NoRepeat(s) /\ Len(s) \in Nat /\ i \in Nat \ {0}
  BY LenProperties DEF IsList
<1>2. /\ t \in Seq(Instrs) /\ Len(t) = Len(s) + 1
      /\ \A j \in 1..Len(s) + 1 : t[j] = IF j < i THEN s[j] ELSE IF j = i THEN x ELSE s[j - 1]
  BY <1>1, InsertionParts
<1> HIDE DEF t
<1>3. \A j \in 1..Len(s) : s[j] \in Instrs /\ s[j] # Null /\ s[j] # x
  <2> TAKE j \in 1..Len(s)
  <2>1. s[j] \in Instrs /\ s[j] # Null
    BY <1>1, OnePlace
  <2>2. ins[s[j]].bb = b
    BY <2>1 DEF IsList
  <2> QED
    BY <2>1, <2>2
<1>4. \A j \in 1..Len(s), k \in Int : s[j] = Entry(s, k) <=> j = k
  BY <1>1, OnePlace
<1>5. /\ \A j \in 1..Len(s) + 1 : j < i => j \in 1..Len(s) /\ t[j] = s[j]
      /\ t[i] = x /\ i \in 1..Len(s) + 1
      /\ \A j \in 1..Len(s) + 1 : j > i => j - 1 \in 1..Len(s) /\ t[j] = s[j - 1]
  BY <1>1, <1>2
<1>6. NoRepeat(t)
  <2> SUFFICES ASSUME NEW j \in 1..Len(s) + 1, NEW k \in 1..Len(s) + 1, t[j] = t[k], j < k
               PROVE  FALSE
    BY <1>1, <1>2 DEF NoRepeat
  <2>1. CASE k < i
    BY <1>1, <1>5, <2>1 DEF NoRepeat
  <2>2. CASE k = i
    BY <1>1, <1>3, <1>5, <2>2
  <2>3. CASE k > i /\ j < i
    <3>1. j = k - 1
      BY <1>1, <1>5, <2>3 DEF NoRepeat
    <3> QED
      BY <1>1, <2>3, <3>1
  <2>4. CASE k > i /\ j = i
    BY <1>1, <1>3, <1>5, <2>4
  <2>5. CASE k > i /\ j > i
    <3>1. j - 1 = k - 1
      BY <1>1, <1>5, <2>5 DEF NoRepeat
    <3> QED
      BY <1>1, <3>1
  <2> QED
    BY <1>1, <2>1, <2>2, <2>3, <2>4, <2>5
<1>7. ASSUME NEW y \in Instrs
      PROVE  new[y].bb = b <=> \E j \in 1..Len(t) : t[j] = y
  <2>1. CASE y = x
    <3>1. new[y].bb = b
      BY <2>1 DEF LinkedIn
    <3> QED
      BY <1>2, <1>5, <2>1, <3>1
  <2>2. CASE y # x
    <3>1. new[y].bb = b <=> \E j \in 1..Len(s) : s[j] = y
      BY <2>2 DEF LinkedIn, IsList
    <3>2. ASSUME NEW j \in 1..Len(s), s[j] = y
          PROVE  \E k \in 1..Len(t) : t[k] = y
      <4>1. CASE j < i
        <5>1. j \in 1..Len(s) + 1
          BY <1>1
        <5> QED
          BY <1>2, <1>5, <3>2, <4>1, <5>1
      <4>2. CASE j >= i
        <5>1. j + 1 \in 1..Len(s) + 1 /\ j + 1 > i /\ (j + 1) - 1 = j
          BY <1>1, <4>2
        <5>2. t[j + 1] = y
          BY <1>5, <3>2, <5>1
        <5> QED
          BY <1>2, <5>1, <5>2
      <4> QED
        BY <1>1, <4>1, <4>2
    <3>3. ASSUME NEW j \in 1..Len(s) + 1, t[j] = y
          PROVE  \E k \in 1..Len(s) : s[k] = y
      BY <1>1, <1>5, <2>2, <3>3
    <3> QED
      BY <1>2, <3>1, <3>2, <3>3
  <2> QED
    BY <2>1, <2>2
<1>8. \A k \in Int :
        /\ k < i => Entry(t, k) = Entry(s, k)
        /\ k = i => Entry(t, k) = x
        /\ k > i => Entry(t, k) = Entry(s, k - 1)
  <2> TAKE k \in Int
  <2>1. k < i => (k \in 1..Len(t) <=> k \in 1..Len(s)) /\ (k \in 1..Len(t) => k \in 1..Len(s) + 1)
    BY <1>1, <1>2
  <2>2. k = i => k \in 1..Len(t)
    BY <1>1, <1>2
  <2>3. k > i => (k \in 1..Len(t) <=> k - 1 \in 1..Len(s)) /\ (k \in 1..Len(t) => k \in 1..Len(s) + 1)
    BY <1>1, <1>2
  <2> QED
    BY <1>5, <2>1, <2>2, <2>3 DEF Entry
<1>9. ASSUME NEW j \in 1..Len(t)
      PROVE  new[t[j]].prev = Entry(t, j - 1) /\ new[t[j]].next = Entry(t, j + 1)
  <2>1. j \in 1..Len(s) + 1 /\ j \in Int /\ i - 1 \in Int
    BY <1>1, <1>2
  <2>2. CASE j < i
    <3> DEFINE y == s[j]
    <3>1. j \in 1..Len(s) /\ t[j] = y
      BY <1>5, <2>1, <2>2
    <3>2. y \in Instrs \ {x}
      BY <1>3, <3>1
    <3>3. y # Entry(s, i) /\ (y = Entry(s, i - 1) <=> j = i - 1)
      BY <1>1, <1>4, <2>1, <2>2, <3>1
    <3>4. ins[y].prev = Entry(s, j - 1) /\ ins[y].next = Entry(s, j + 1)
      BY <3>1 DEF IsList
    <3>5. /\ new[y].prev = ins[y].prev
          /\ new[y].next = IF j = i - 1 THEN x ELSE ins[y].next
      BY <3>2, <3>3 DEF LinkedIn
    <3>6. Entry(t, j - 1) = Entry(s, j - 1)
      BY <1>1, <1>8, <2>1, <2>2
    <3>7. Entry(t, j + 1) = IF j = i - 1 THEN x ELSE Entry(s, j + 1)
      BY <1>1, <1>8, <2>1, <2>2
    <3> QED
      BY <3>1, <3>4, <3>5, <3>6, <3>7
  <2>3. CASE j = i
    <3>1. Entry(t, j - 1) = Entry(s, i - 1)
      BY <1>1, <1>8, <2>1, <2>3
    <3>2. Entry(t, j + 1) = Entry(s, i)
      <4>1. j + 1 \in Int /\ j + 1 > i /\ (j + 1) - 1 = i
        BY <1>1, <2>1, <2>3
      <4> QED
        BY <1>8, <4>1
    <3> QED
      BY <1>5, <2>3, <3>1, <3>2 DEF LinkedIn
  <2>4. CASE j > i
    <3> DEFINE y == s[j - 1]
    <3>1. j - 1 \in 1..Len(s) /\ t[j] = y
      BY <1>5, <2>1, <2>4
    <3>2. y \in Instrs \ {x}
      BY <1>3, <3>1
    <3>3. y # Entry(s, i - 1) /\ (y = Entry(s, i) <=> j - 1 = i)
      BY <1>1, <1>4, <2>1, <2>4, <3>1
    <3>4. ins[y].prev = Entry(s, (j - 1) - 1) /\ ins[y].next = Entry(s, (j - 1) + 1)
      BY <3>1 DEF IsList
    <3>5. /\ new[y].prev = IF j - 1 = i THEN x ELSE ins[y].prev
          /\ new[y].next = ins[y].next
      BY <3>2, <3>3 DEF LinkedIn
    <3>6. Entry(t, j - 1) = IF j - 1 = i THEN x ELSE Entry(s, (j - 1) - 1)
      <4>1. j - 1 \in Int /\ (j - 1 # i => j - 1 > i)
        BY <1>1, <2>1, <2>4
      <4> QED
        BY <1>8, <4>1
    <3>7. Entry(t, j + 1) = Entry(s, (j - 1) + 1)
      <4>1. j + 1 \in Int /\ j + 1 > i /\ (j + 1) - 1 = (j - 1) + 1
        BY <1>1, <2>1, <2>4
      <4> QED
        BY <1>8, <4>1
    <3> QED
      BY <3>1, <3>4, <3>5, <3>6, <3>7
  <2> QED
    BY <1>1, <2>1, <2>2, <2>3, <2>4
<1>10. t \in Seq(Instrs)
  BY <1>2
<1>11. IsList(new, b, t)
  BY <1>6, <1>7, <1>9, <1>10 DEF IsList
<1> QED
  BY <1>11 DEF t

LEMMA ListWithOneLess ==
  ASSUME NEW ins, NEW new, NEW b \in Blocks, NEW s, IsList(ins, b, s),
         NEW i \in 1..Len(s), LinkedOut(ins, new, Entry(s, i - 1), s[i], Entry(s, i + 1))
  PROVE  IsList(new, b, Removal(s, i))
<1> DEFINE t == Removal(s, i)
<1>1. s \in Seq(Instrs) /\ NoRepeat(s) /\ Len(s) \in Nat /\ i \in Nat \ {0} /\ b # Null
  BY LenProperties, InstrAssumption DEF IsList, Blocks
<1>2. /\ t \in Seq(Instrs) /\ Len(t) = Len(s) - 1
      /\ \A j \in 1..Len(s) - 1 : t[j] = IF j < i THEN s[j] ELSE s[j + 1]
  BY <1>1, RemovalParts
<1> HIDE DEF t
<1>3. \A j \in 1..Len(s) : s[j] \in Instrs /\ s[j] # Null
  BY <1>1, OnePlace
<1>4. \A j \in 1..Len(s), k \in Int : s[j] = Entry(s, k) <=> j = k
  BY <1>1, OnePlace
<1>5. ASSUME NEW j \in 1..Len(s) - 1
      PROVE  /\ j < i => j \in 1..Len(s) /\ t[j] = s[j]
             /\ j >= i => j + 1 \in 1..Len(s) /\ t[j] = s[j + 1]
  <2>1. t[j] = IF j < i THEN s[j] ELSE s[j + 1]
    BY <1>2
  <2>2. j \in 1..Len(s) /\ j + 1 \in 1..Len(s) /\ (j >= i <=> ~(j < i))
    BY <1>1
  <2> QED
    BY <2>1, <2>2
<1>6. NoRepeat(t)
  <2>1. ASSUME NEW j \in 1..Len(s) - 1, NEW k \in 1..Len(s) - 1, t[j] = t[k], j < k
        PROVE  FALSE
    <3>1. CASE k < i
      <4>1. j < i /\ j \in 1..Len(s) /\ k \in 1..Len(s) /\ s[j] = s[k]
        <5>1. j < i
          BY <2>1, <3>1
        <5> QED
          BY <1>5, <2>1, <3>1, <5>1, Zenon
      <4> QED
        BY <1>1, <2>1, <4>1 DEF NoRepeat
    <3>2. CASE k >= i /\ j < i
      <4>1. j = k + 1
        BY <1>1, <1>5, <2>1, <3>2 DEF NoRepeat
      <4> QED
        BY <1>1, <2>1, <3>2, <4>1
    <3>3. CASE k >= i /\ j >= i
      <4>1. j + 1 = k + 1
        BY <1>1, <1>5, <2>1, <3>3 DEF NoRepeat
      <4> QED
        BY <1>1, <2>1, <4>1
    <3> QED
      BY <1>1, <3>1, <3>2, <3>3
  <2>2. ASSUME NEW j \in 1..Len(t), NEW k \in 1..Len(t), t[j] = t[k]
        PROVE  j = k
    <3>1. ~(j < k) /\ ~(k < j)
      BY <1>2, <2>1, <2>2
    <3> QED
      BY <3>1
  <2> QED
    BY <2>2 DEF NoRepeat
<1>7. ASSUME NEW y \in Instrs
      PROVE  new[y].bb = b <=> \E j \in 1..Len(t) : t[j] = y
  <2>1. ASSUME NEW j \in 1..Len(s) - 1, t[j] = y
        PROVE  y # s[i] /\ \E k \in 1..Len(s) : s[k] = y
    <3>1. CASE j < i
      BY <1>1, <1>5, <2>1, <3>1 DEF NoRepeat
    <3>2. CASE j >= i
      <4>1. j + 1 \in 1..Len(s) /\ s[j + 1] = y /\ j + 1 # i
        BY <1>1, <1>5, <2>1, <3>2
      <4> QED
        BY <1>1, <4>1 DEF NoRepeat
    <3> QED
      BY <1>1, <3>1, <3>2
  <2>2. ASSUME NEW j \in 1..Len(s), s[j] = y, y # s[i]
        PROVE  \E k \in 1..Len(s) - 1 : t[k] = y
    <3>1. CASE j < i
      <4>1. j \in 1..Len(s) - 1
        BY <1>1, <3>1
      <4> QED
        BY <1>5, <2>2, <3>1, <4>1
    <3>2. CASE j > i
      <4>1. j - 1 \in 1..Len(s) - 1 /\ j - 1 >= i /\ (j - 1) + 1 = j
        BY <1>1, <3>2
      <4>2. t[j - 1] = y
        BY <1>5, <2>2, <4>1
      <4> QED
        BY <4>1, <4>2
    <3> QED
      BY <1>1, <2>2, <3>1, <3>2
  <2>3. CASE y = s[i]
    <3>1. new[y].bb = Null
      BY <2>3 DEF LinkedOut, Detached
    <3> QED
      BY <1>1, <1>2, <2>1, <2>3, <3>1
  <2>4. CASE y # s[i]
    <3>1. new[y].bb = b <=> \E j \in 1..Len(s) : s[j] = y
      BY <2>4 DEF LinkedOut, IsList
    <3> QED
      BY <1>2, <2>1, <2>2, <2>4, <3>1
  <2> QED
    BY <2>3, <2>4
<1>8. \A k \in Int :
        /\ k < i => Entry(t, k) = Entry(s, k)
        /\ k >= i => Entry(t, k) = Entry(s, k + 1)
  <2> TAKE k \in Int
  <2>1. k < i => (k \in 1..Len(t) <=> k \in 1..Len(s)) /\ (k \in 1..Len(t) => k \in 1..Len(s) - 1)
    BY <1>1, <1>2
  <2>2. k >= i => (k \in 1..Len(t) <=> k + 1 \in 1..Len(s)) /\ (k \in 1..Len(t) => k \in 1..Len(s) - 1)
    BY <1>1, <1>2
  <2> QED
    BY <1>5, <2>1, <2>2 DEF Entry
<1>9. ASSUME NEW j \in 1..Len(t)
      PROVE  new[t[j]].prev = Entry(t, j - 1) /\ new[t[j]].next = Entry(t, j + 1)
  <2>1. j \in 1..Len(s) - 1 /\ j \in Int /\ i - 1 \in Int /\ i + 1 \in Int
    BY <1>1, <1>2
  <2>2. CASE j < i
    <3> DEFINE y == s[j]
    <3>1. j \in 1..Len(s) /\ t[j] = y
      BY <1>5, <2>1, <2>2
    <3>2. y \in Instrs \ {s[i]}
      BY <1>1, <1>3, <2>2, <3>1 DEF NoRepeat
    <3>3. y # Entry(s, i + 1) /\ (y = Entry(s, i - 1) <=> j = i - 1)
      BY <1>1, <1>4, <2>1, <2>2, <3>1
    <3>4. ins[y].prev = Entry(s, j - 1) /\ ins[y].next = Entry(s, j + 1)
      BY <3>1 DEF IsList
    <3>5. /\ new[y].prev = ins[y].prev
          /\ new[y].next = IF j = i - 1 THEN Entry(s, i + 1) ELSE ins[y].next
      BY <3>2, <3>3 DEF LinkedOut
    <3>6. Entry(t, j - 1) = Entry(s, j - 1)
      BY <1>1, <1>8, <2>1, <2>2
    <3>7. Entry(t, j + 1) = IF j = i - 1 THEN Entry(s, i + 1) ELSE Entry(s, j + 1)
      <4>1. j + 1 \in Int /\ (j = i - 1 => j + 1 >= i) /\ (j # i - 1 => j + 1 < i)
        BY <1>1, <2>1, <2>2
      <4>2. j = i - 1 => (j + 1) + 1 = i + 1
        BY <1>1, <2>1
      <4> QED
        BY <1>8, <4>1, <4>2
    <3> QED
      BY <3>1, <3>4, <3>5, <3>6, <3>7
  <2>3. CASE j >= i
    <3> DEFINE y == s[j + 1]
    <3>1. j + 1 \in 1..Len(s) /\ t[j] = y
      BY <1>5, <2>1, <2>3
    <3>2. y \in Instrs \ {s[i]}
      <4>1. j + 1 # i
        BY <1>1, <2>1, <2>3
      <4> QED
        BY <1>1, <1>3, <4>1, <3>1 DEF NoRepeat
    <3>3. y # Entry(s, i - 1) /\ (y = Entry(s, i + 1) <=> j = i)
      BY <1>1, <1>4, <2>1, <2>3, <3>1
    <3>4. ins[y].prev = Entry(s, (j + 1) - 1) /\ ins[y].next = Entry(s, (j + 1) + 1)
      BY <3>1 DEF IsList
    <3>5. /\ new[y].prev = IF j = i THEN Entry(s, i - 1) ELSE ins[y].prev
          /\ new[y].next = ins[y].next
      BY <3>2, <3>3 DEF LinkedOut
    <3>6. Entry(t, j - 1) = IF j = i THEN Entry(s, i - 1) ELSE Entry(s, (j + 1) - 1)
      <4>1. j - 1 \in Int /\ (j = i => j - 1 < i) /\ (j # i => j - 1 >= i)
        BY <1>1, <2>1, <2>3
      <4>2. (j - 1) + 1 = (j + 1) - 1
        BY <2>1
      <4> QED
        BY <1>8, <4>1, <4>2
    <3>7. Entry(t, j + 1) = Entry(s, (j + 1) + 1)
      BY <1>1, <1>8, <2>1, <2>3
    <3> QED
      BY <3>1, <3>4, <3>5, <3>6, <3>7
  <2> QED
    BY <1>1, <2>1, <2>2, <2>3
<1>10. t \in Seq(Instrs)
  BY <1>2
<1>11. IsList(new, b, t)
  BY <1>6, <1>7, <1>9, <1>10 DEF IsList
<1> QED
  BY <1>11 DEF t

-----------------------------------------------------------------------------
(***************************************************************************)
(* The fields of a block whose list is s, the first k entries phis, and    *)
(* what a push and a removal make of the list and of the fields.           *)
(***************************************************************************)

PhisFirst(s, k) == k \in 0..Len(s) /\ \A i \in 1..Len(s) : s[i] \in Phis <=> i <= k

Fields(fp, lp, fi, li, n) ==
  [firstPhi |-> fp, lastPhi |-> lp, firstInst |-> fi, lastInst |-> li, size |-> n]

Ends(s, k) == Fields(IF k = 0 THEN Null ELSE s[1], IF k = 0 THEN Null ELSE s[k],
                     IF k = Len(s) THEN Null ELSE s[k + 1],
                     IF k = Len(s) THEN Null ELSE s[Len(s)], Len(s))

Holds(ins, blk, b, s, k) == IsList(ins, b, s) /\ PhisFirst(s, k) /\ blk = Ends(s, k)

Heaps == [Instrs -> [prev : Pointer, next : Pointer, bb : Blocks \cup {Null}]]

LEMMA FieldsOf ==
  ASSUME NEW fp, NEW lp, NEW fi, NEW li, NEW n
  PROVE  LET r == Fields(fp, lp, fi, li, n)
         IN r.firstPhi = fp /\ r.lastPhi = lp /\ r.firstInst = fi /\ r.lastInst = li /\ r.size = n
BY DEF Fields

\* The assignments to a block's fields.
PutPhis(r, x, y) == [r EXCEPT !.firstPhi = x, !.lastPhi = y]
PutInsts(r, x, y) == [r EXCEPT !.firstInst = x, !.lastInst = y]
PutFirstPhi(r, x) == [r EXCEPT !.firstPhi = x]
PutFirstInst(r, x) == [r EXCEPT !.firstInst = x]
PutLastInst(r, x) == [r EXCEPT !.lastInst = x]
PutSize(r, n) == [r EXCEPT !.size = n]

LEMMA FieldsPut ==
  ASSUME NEW fp, NEW lp, NEW fi, NEW li, NEW n, NEW r, r = Fields(fp, lp, fi, li, n), NEW x
  PROVE  /\ PutFirstPhi(r, x) = Fields(x, lp, fi, li, n)
         /\ PutFirstInst(r, x) = Fields(fp, lp, x, li, n)
         /\ PutLastInst(r, x) = Fields(fp, lp, fi, x, n)
         /\ PutSize(r, x) = Fields(fp, lp, fi, li, x)
<1> DEFINE V == {fp, lp, fi, li, n, x}
<1>1. fp \in V /\ lp \in V /\ fi \in V /\ li \in V /\ n \in V /\ x \in V
  OBVIOUS
<1> HIDE DEF V
<1>2. r \in [firstPhi : V, lastPhi : V, firstInst : V, lastInst : V, size : V]
  BY <1>1 DEF Fields
<1>3. PutFirstPhi(r, x) = Fields(x, lp, fi, li, n) /\ PutFirstInst(r, x) = Fields(fp, lp, x, li, n)
  BY <1>1, <1>2 DEF Fields, PutFirstPhi, PutFirstInst
<1>4. PutLastInst(r, x) = Fields(fp, lp, fi, x, n) /\ PutSize(r, x) = Fields(fp, lp, fi, li, x)
  BY <1>1, <1>2 DEF Fields, PutLastInst, PutSize
<1> QED
  BY <1>3, <1>4

LEMMA FieldsPutBoth ==
  ASSUME NEW fp, NEW lp, NEW fi, NEW li, NEW n, NEW r, r = Fields(fp, lp, fi, li, n),
         NEW x, NEW y
  PROVE  /\ PutPhis(r, x, y) = Fields(x, y, fi, li, n)
         /\ PutInsts(r, x, y) = Fields(fp, lp, x, y, n)
<1> DEFINE V == {fp, lp, fi, li, n, x, y}
           phi == PutPhis(r, x, y)
           reg == PutInsts(r, x, y)
<1>1. fp \in V /\ lp \in V /\ fi \in V /\ li \in V /\ n \in V /\ x \in V /\ y \in V
  OBVIOUS
<1> HIDE DEF V
<1>2. r \in [firstPhi : V, lastPhi : V, firstInst : V, lastInst : V, size : V]
  BY <1>1 DEF Fields
<1>3. /\ phi \in [firstPhi : V, lastPhi : V, firstInst : V, lastInst : V, size : V]
      /\ reg \in [firstPhi : V, lastPhi : V, firstInst : V, lastInst : V, size : V]
  BY <1>1, <1>2 DEF PutPhis, PutInsts
<1>4. /\ phi.firstPhi = x /\ phi.lastPhi = y
      /\ phi.firstInst = fi /\ phi.lastInst = li /\ phi.size = n
  BY <1>2 DEF Fields, PutPhis
<1>5. /\ reg.firstPhi = fp /\ reg.lastPhi = lp
      /\ reg.firstInst = x /\ reg.lastInst = y /\ reg.size = n
  BY <1>2 DEF Fields, PutInsts
<1> HIDE DEF phi, reg
<1>6. phi = Fields(x, y, fi, li, n) /\ reg = Fields(fp, lp, x, y, n)
  BY <1>3, <1>4, <1>5 DEF Fields
<1> QED
  BY <1>6 DEF phi, reg

LEMMA EndsOf ==
  ASSUME NEW s, NEW k
  PROVE  /\ Ends(s, k).firstPhi = IF k = 0 THEN Null ELSE s[1]
         /\ Ends(s, k).lastPhi = IF k = 0 THEN Null ELSE s[k]
         /\ Ends(s, k).firstInst = IF k = Len(s) THEN Null ELSE s[k + 1]
         /\ Ends(s, k).lastInst = IF k = Len(s) THEN Null ELSE s[Len(s)]
         /\ Ends(s, k).size = Len(s)
         /\ Ends(s, k) = Fields(Ends(s, k).firstPhi, Ends(s, k).lastPhi,
                               Ends(s, k).firstInst, Ends(s, k).lastInst, Len(s))
BY FieldsOf DEF Ends

LEMMA HeldParts ==
  ASSUME NEW ins, NEW blk, NEW b, NEW s, NEW k, Holds(ins, blk, b, s, k)
  PROVE  /\ s \in Seq(Instrs) /\ NoRepeat(s) /\ Len(s) \in Nat /\ k \in Nat /\ k <= Len(s)
         /\ \A i \in 1..Len(s) : s[i] \in Instrs /\ s[i] # Null
         /\ Ends(s, k) \in [firstPhi : Pointer, lastPhi : Pointer,
                            firstInst : Pointer, lastInst : Pointer, size : Nat]
<1>1. /\ s \in Seq(Instrs) /\ NoRepeat(s) /\ Len(s) \in Nat /\ s \in [1..Len(s) -> Instrs]
      /\ k \in Nat /\ k <= Len(s)
  BY LenProperties DEF Holds, IsList, PhisFirst
<1>2. \A i \in 1..Len(s) : s[i] \in Instrs /\ s[i] # Null
  BY <1>1, InstrAssumption
<1>3. k # 0 => 1 \in 1..Len(s) /\ k \in 1..Len(s)
  BY <1>1
<1>4. k # Len(s) => k + 1 \in 1..Len(s) /\ Len(s) \in 1..Len(s)
  <2>1. Len(s) \in Nat /\ k \in Nat /\ k <= Len(s)
    BY <1>1
  <2> QED
    BY <2>1
<1>5. Ends(s, k) \in [firstPhi : Pointer, lastPhi : Pointer,
                      firstInst : Pointer, lastInst : Pointer, size : Nat]
  BY <1>1, <1>2, <1>3, <1>4 DEF Ends, Fields, Pointer
<1> QED
  BY <1>1, <1>2, <1>5

\* Linking two neighbours, either of them may be Null.
LEMMA LinkedParts ==
  ASSUME NEW ins \in Heaps, NEW p \in Pointer, NEW n \in Pointer
  PROVE  /\ Linked(ins, p, n) \in Heaps
         /\ \A y \in Instrs :
              /\ Linked(ins, p, n)[y].prev = IF y = n THEN p ELSE ins[y].prev
              /\ Linked(ins, p, n)[y].next = IF y = p THEN n ELSE ins[y].next
              /\ Linked(ins, p, n)[y].bb = ins[y].bb
<1> DEFINE h == SetPrev(ins, n, p)
<1>1. /\ h \in Heaps
      /\ \A y \in Instrs : /\ h[y].prev = IF y = n THEN p ELSE ins[y].prev
                           /\ h[y].next = ins[y].next
                           /\ h[y].bb = ins[y].bb
  <2>1. CASE n = Null
    BY <2>1, InstrAssumption DEF SetPrev
  <2>2. CASE n \in Instrs
    BY <2>2, InstrAssumption DEF SetPrev, Heaps
  <2> QED
    BY <2>1, <2>2 DEF Pointer
<1> HIDE DEF h
<1>2. /\ SetNext(h, p, n) \in Heaps
      /\ \A y \in Instrs : /\ SetNext(h, p, n)[y].next = IF y = p THEN n ELSE h[y].next
                           /\ SetNext(h, p, n)[y].prev = h[y].prev
                           /\ SetNext(h, p, n)[y].bb = h[y].bb
  <2>1. CASE p = Null
    BY <1>1, <2>1, InstrAssumption DEF SetNext
  <2>2. CASE p \in Instrs
    BY <1>1, <2>2, InstrAssumption DEF SetNext, Heaps
  <2> QED
    BY <2>1, <2>2 DEF Pointer
<1>3. Linked(ins, p, n) = SetNext(h, p, n)
  BY DEF Linked, h
<1> QED
  BY <1>1, <1>2, <1>3

\* An instruction of the block is between its neighbours ...
LEMMA EntryPointer ==
  ASSUME NEW s \in Seq(Instrs), NEW i \in Int
  PROVE  Entry(s, i) \in Pointer /\ (Entry(s, i) = Null <=> i \notin 1..Len(s))
<1>1. \A j \in 1..Len(s) : s[j] \in Instrs /\ s[j] # Null
  BY InstrAssumption, ElementOfSeq
<1> QED
  BY <1>1 DEF Entry, Pointer

\* ... and a detached one in none: linked to its neighbours it is linked in.
LEMMA OwnedLinked ==
  ASSUME NEW ins \in Heaps, NEW b \in Blocks, NEW x \in Instrs, ins[x] = Detached,
         NEW p \in Pointer, NEW n \in Pointer, p # x, n # x, NEW new,
         \/ new = Linked([ins EXCEPT ![x].bb = b], x, n) /\ p = Null
         \/ new = Linked([ins EXCEPT ![x].bb = b], p, x) /\ n = Null
  PROVE  new \in Heaps /\ LinkedIn(ins, new, b, p, x, n)
<1> DEFINE owned == [ins EXCEPT ![x].bb = b]
<1>1. /\ owned \in Heaps
      /\ owned[x] = [prev |-> Null, next |-> Null, bb |-> b]
      /\ \A y \in Instrs \ {x} : owned[y] = ins[y]
  BY DEF Heaps, Detached
<1> HIDE DEF owned
<1>2. x \in Pointer /\ Null \notin Instrs
  BY InstrAssumption DEF Pointer
<1>3. CASE new = Linked(owned, x, n) /\ p = Null
  <2> DEFINE l == Linked(owned, x, n)
  <2>0. /\ l \in Heaps
        /\ \A y \in Instrs :
             /\ l[y].prev = IF y = n THEN x ELSE owned[y].prev
             /\ l[y].next = IF y = x THEN n ELSE owned[y].next
             /\ l[y].bb = owned[y].bb
    BY <1>1, <1>2, LinkedParts
  <2> HIDE DEF l
  <2>1. /\ new \in Heaps
        /\ \A y \in Instrs :
             /\ new[y].prev = IF y = n THEN x ELSE owned[y].prev
             /\ new[y].next = IF y = x THEN n ELSE owned[y].next
             /\ new[y].bb = owned[y].bb
    <3>1. new = l
      BY <1>3 DEF l
    <3> QED
      BY <2>0, <3>1
  <2>2. new[x].prev = Null /\ new[x].next = n /\ new[x].bb = b
    BY <1>1, <2>1
  <2>3. new[x] = [prev |-> Null, next |-> n, bb |-> b]
    BY <2>1, <2>2 DEF Heaps
  <2> QED
    BY <1>1, <1>2, <1>3, <2>1, <2>3 DEF LinkedIn
<1>4. CASE new = Linked(owned, p, x) /\ n = Null
  <2> DEFINE l == Linked(owned, p, x)
  <2>0. /\ l \in Heaps
        /\ \A y \in Instrs :
             /\ l[y].prev = IF y = x THEN p ELSE owned[y].prev
             /\ l[y].next = IF y = p THEN x ELSE owned[y].next
             /\ l[y].bb = owned[y].bb
    BY <1>1, <1>2, LinkedParts
  <2> HIDE DEF l
  <2>1. /\ new \in Heaps
        /\ \A y \in Instrs :
             /\ new[y].prev = IF y = x THEN p ELSE owned[y].prev
             /\ new[y].next = IF y = p THEN x ELSE owned[y].next
             /\ new[y].bb = owned[y].bb
    <3>1. new = l
      BY <1>4 DEF l
    <3> QED
      BY <2>0, <3>1
  <2>2. new[x].prev = p /\ new[x].next = Null /\ new[x].bb = b
    BY <1>1, <2>1
  <2>3. new[x] = [prev |-> p, next |-> Null, bb |-> b]
    BY <2>1, <2>2 DEF Heaps
  <2> QED
    BY <1>1, <1>2, <1>4, <2>1, <2>3 DEF LinkedIn
<1> QED
  BY <1>3, <1>4 DEF owned

\* The place a push puts x at, in a list whose first k entries are phis.
PushPlace(s, k, x, back) ==
  IF x \in Phis \/ (k < Len(s) /\ ~back) THEN 1 ELSE Len(s) + 1

\* A phi joins the phis and another instruction does not, if it does not get
\* in front of a phi.
LEMMA EndsWithOneMore ==
  ASSUME NEW s \in Seq(Instrs), NEW k, PhisFirst(s, k), NEW x \in Instrs, NEW i,
         \/ x \in Phis /\ i = 1
         \/ x \in Regulars /\ i = Len(s) + 1
         \/ x \in Regulars /\ i = 1 /\ k = 0
  PROVE  LET t == Insertion(s, i, x)
             m == IF x \in Phis THEN k + 1 ELSE k
             old == Ends(s, k)
         IN /\ PhisFirst(t, m)
            /\ x \in Phis => Ends(t, m) = Fields(x, IF k = 0 THEN x ELSE old.lastPhi,
                                                old.firstInst, old.lastInst, Len(s) + 1)
            /\ x \notin Phis => Ends(t, m) = Fields(old.firstPhi, old.lastPhi,
                                   IF i = 1 \/ k = Len(s) THEN x ELSE old.firstInst,
                                   IF i = Len(s) + 1 THEN x ELSE old.lastInst, Len(s) + 1)
<1> DEFINE t == Insertion(s, i, x)
           m == IF x \in Phis THEN k + 1 ELSE k
           old == Ends(s, k)
<1>1. /\ Len(s) \in Nat /\ k \in Nat /\ k <= Len(s) /\ i \in 1..Len(s) + 1
      /\ x \in Regulars <=> x \notin Phis
  BY LenProperties, InstrAssumption DEF PhisFirst, Instrs
<1>2. /\ t \in Seq(Instrs) /\ Len(t) = Len(s) + 1
      /\ \A j \in 1..Len(s) + 1 : t[j] = IF j < i THEN s[j] ELSE IF j = i THEN x ELSE s[j - 1]
  BY <1>1, InsertionParts
<1> HIDE DEF t
<1>3. ASSUME i = 1
      PROVE  t[1] = x /\ \A j \in 2..Len(s) + 1 : j - 1 \in 1..Len(s) /\ t[j] = s[j - 1]
  BY <1>1, <1>2, <1>3
<1>4. ASSUME i = Len(s) + 1
      PROVE  t[Len(s) + 1] = x /\ \A j \in 1..Len(s) : j < i /\ t[j] = s[j]
  BY <1>1, <1>2, <1>4
<1>5. CASE x \in Phis /\ i = 1
  <2>1. PhisFirst(t, k + 1)
    <3> SUFFICES ASSUME NEW j \in 1..Len(s) + 1
                 PROVE  t[j] \in Phis <=> j <= k + 1
      BY <1>1, <1>2 DEF PhisFirst
    <3>1. CASE j = 1
      BY <1>1, <1>3, <1>5, <3>1
    <3>2. CASE j # 1
      <4>1. j \in 2..Len(s) + 1
        BY <1>1, <3>2
      <4>2. j - 1 \in 1..Len(s) /\ t[j] = s[j - 1]
        BY <1>3, <1>5, <4>1
      <4>3. s[j - 1] \in Phis <=> j - 1 <= k
        BY <4>2 DEF PhisFirst
      <4> QED
        BY <1>1, <4>2, <4>3
    <3> QED
      BY <3>1, <3>2
  <2>2. /\ t[1] = x
        /\ k = 0 => t[k + 1] = x
        /\ k # 0 => t[k + 1] = s[k]
        /\ k # Len(s) => t[(k + 1) + 1] = s[k + 1] /\ t[Len(s) + 1] = s[Len(s)]
    <3>1. k # 0 => k + 1 \in 2..Len(s) + 1 /\ (k + 1) - 1 = k
      BY <1>1
    <3>2. k # Len(s) => /\ (k + 1) + 1 \in 2..Len(s) + 1 /\ ((k + 1) + 1) - 1 = k + 1
                        /\ Len(s) + 1 \in 2..Len(s) + 1 /\ (Len(s) + 1) - 1 = Len(s)
      BY <1>1
    <3>3. k # 0 => t[k + 1] = s[k]
      BY <1>3, <1>5, <3>1
    <3>4. k # Len(s) => t[(k + 1) + 1] = s[k + 1] /\ t[Len(s) + 1] = s[Len(s)]
      BY <1>3, <1>5, <3>2
    <3>5. t[1] = x /\ (k = 0 => k + 1 = 1)
      BY <1>3, <1>5
    <3> QED
      BY <3>3, <3>4, <3>5
  <2>3. k + 1 # 0 /\ (k + 1 = Len(t) <=> k = Len(s))
    BY <1>1, <1>2
  <2>4. Ends(t, k + 1) = Fields(x, IF k = 0 THEN x ELSE old.lastPhi,
                              old.firstInst, old.lastInst, Len(s) + 1)
    BY <1>2, <2>2, <2>3, EndsOf DEF Ends
  <2> QED
    BY <1>5, <2>1, <2>4 DEF t
<1>6. CASE x \notin Phis /\ i = Len(s) + 1
  <2>1. PhisFirst(t, k)
    <3> SUFFICES ASSUME NEW j \in 1..Len(s) + 1
                 PROVE  t[j] \in Phis <=> j <= k
      BY <1>1, <1>2 DEF PhisFirst
    <3>1. CASE j = Len(s) + 1
      BY <1>1, <1>4, <1>6, <3>1
    <3>2. CASE j # Len(s) + 1
      <4>1. j \in 1..Len(s)
        BY <1>1, <3>2
      <4> QED
        BY <1>4, <1>6, <4>1 DEF PhisFirst
    <3> QED
      BY <3>1, <3>2
  <2>2. /\ k # 0 => t[1] = s[1] /\ t[k] = s[k]
        /\ t[k + 1] = IF k = Len(s) THEN x ELSE s[k + 1]
        /\ t[Len(s) + 1] = x
    <3>1. /\ k # 0 => 1 \in 1..Len(s) /\ k \in 1..Len(s)
          /\ k # Len(s) => k + 1 \in 1..Len(s)
      BY <1>1
    <3> QED
      BY <1>4, <1>6, <3>1
  <2>3. k # Len(t) /\ (i = 1 => k = Len(s)) /\ t[Len(t)] = x
    BY <1>1, <1>2, <1>6, <2>2
  <2>4. Ends(t, k) = Fields(old.firstPhi, old.lastPhi,
                          IF i = 1 \/ k = Len(s) THEN x ELSE old.firstInst,
                          IF i = Len(s) + 1 THEN x ELSE old.lastInst, Len(s) + 1)
    <3>1. Ends(t, k) = Fields(IF k = 0 THEN Null ELSE s[1], IF k = 0 THEN Null ELSE s[k],
                              t[k + 1], x, Len(s) + 1)
      BY <1>2, <2>2, <2>3 DEF Ends
    <3>2. t[k + 1] = IF i = 1 \/ k = Len(s) THEN x ELSE old.firstInst
      BY <2>2, <2>3, EndsOf
    <3>3. /\ old.firstPhi = IF k = 0 THEN Null ELSE s[1]
          /\ old.lastPhi = IF k = 0 THEN Null ELSE s[k]
      BY EndsOf
    <3> HIDE DEF old
    <3> QED
      BY <1>6, <3>1, <3>2, <3>3
  <2> QED
    BY <1>6, <2>1, <2>4 DEF t
<1>7. CASE x \notin Phis /\ i = 1 /\ k = 0 /\ i # Len(s) + 1
  <2>1. PhisFirst(t, 0)
    <3> SUFFICES ASSUME NEW j \in 1..Len(s) + 1
                 PROVE  t[j] \notin Phis
      BY <1>1, <1>2 DEF PhisFirst
    <3>1. CASE j = 1
      BY <1>3, <1>7, <3>1
    <3>2. CASE j # 1
      <4>1. j \in 2..Len(s) + 1
        BY <1>1, <3>2
      <4>2. j - 1 \in 1..Len(s) /\ t[j] = s[j - 1] /\ ~(j - 1 <= 0)
        BY <1>3, <1>7, <4>1
      <4> QED
        BY <1>7, <4>2 DEF PhisFirst
    <3> QED
      BY <3>1, <3>2
  <2>2. t[1] = x /\ t[0 + 1] = x /\ t[Len(s) + 1] = s[Len(s)]
    <3>1. Len(s) + 1 \in 2..Len(s) + 1 /\ (Len(s) + 1) - 1 = Len(s)
      BY <1>1, <1>7
    <3> QED
      BY <1>3, <1>7, <3>1
  <2>3. k # Len(t) /\ k # Len(s)
    BY <1>1, <1>2, <1>7
  <2>4. Ends(t, k) = Fields(old.firstPhi, old.lastPhi,
                          IF i = 1 \/ k = Len(s) THEN x ELSE old.firstInst,
                          IF i = Len(s) + 1 THEN x ELSE old.lastInst, Len(s) + 1)
    BY <1>2, <1>7, <2>2, <2>3, EndsOf DEF Ends
  <2> QED
    BY <1>7, <2>1, <2>4 DEF t
<1> QED
  BY <1>1, <1>5, <1>6, <1>7

\* Any push: linked in at its place, the block is the longer list.
LEMMA Pushed ==
  ASSUME NEW ins \in Heaps, NEW blk, NEW b \in Blocks, NEW s, NEW k, Holds(ins, blk, b, s, k),
         NEW x \in Instrs, ins[x] = Detached, NEW back \in BOOLEAN,
         x \in Phis \/ back \/ k = 0 \/ k = Len(s)
  PROVE  LET h == PushInstruction(ins, b, blk, x, back)
             i == PushPlace(s, k, x, back)
         IN /\ h.instrs \in Heaps /\ i \in 1..Len(s) + 1
            /\ LinkedIn(ins, h.instrs, b, Entry(s, i - 1), x, Entry(s, i))
            /\ Holds(h.instrs, h.block, b, Insertion(s, i, x),
                     IF x \in Phis THEN k + 1 ELSE k)
<1> DEFINE i == PushPlace(s, k, x, back)
           owned == [ins EXCEPT ![x].bb = b]
           sized == [blk EXCEPT !.size = @ + 1]
           h == PushInstruction(ins, b, blk, x, back)
           m == IF x \in Phis THEN k + 1 ELSE k
           t == Insertion(s, i, x)
<1>1. /\ s \in Seq(Instrs) /\ NoRepeat(s) /\ Len(s) \in Nat /\ k \in Nat /\ k <= Len(s)
      /\ \A j \in 1..Len(s) : s[j] \in Instrs /\ s[j] # Null
      /\ IsList(ins, b, s) /\ PhisFirst(s, k) /\ blk = Ends(s, k)
  BY HeldParts DEF Holds
<1>2. /\ x \in Regulars <=> x \notin Phis
      /\ ins[x].bb # b /\ b # Null /\ Null \notin Instrs
  BY InstrAssumption DEF Instrs, Detached, Blocks
<1>3. \A j \in Int : Entry(s, j) \in Pointer /\ Entry(s, j) # x
  <2> TAKE j \in Int
  <2>1. \A l \in 1..Len(s) : s[l] # x
    BY <1>1, <1>2 DEF IsList
  <2> QED
    BY <1>1, <1>2, <2>1, EntryPointer DEF Entry
<1>4. /\ i \in 1..Len(s) + 1 /\ i - 1 \in Int /\ i \in Int
      /\ \/ x \in Phis /\ i = 1
         \/ x \in Regulars /\ i = Len(s) + 1
         \/ x \in Regulars /\ i = 1 /\ k = 0
  BY <1>1, <1>2 DEF PushPlace
<1>5. /\ blk.firstPhi = IF k = 0 THEN Null ELSE s[1]
      /\ blk.lastPhi = IF k = 0 THEN Null ELSE s[k]
      /\ blk.firstInst = IF k = Len(s) THEN Null ELSE s[k + 1]
      /\ blk.lastInst = IF k = Len(s) THEN Null ELSE s[Len(s)]
      /\ blk = Fields(blk.firstPhi, blk.lastPhi, blk.firstInst, blk.lastInst, Len(s))
  BY <1>1, EndsOf
<1>6. /\ PhisFirst(t, m)
      /\ x \in Phis => Ends(t, m) = Fields(x, IF k = 0 THEN x ELSE blk.lastPhi,
                                           blk.firstInst, blk.lastInst, Len(s) + 1)
      /\ x \notin Phis => Ends(t, m) = Fields(blk.firstPhi, blk.lastPhi,
                             IF i = 1 \/ k = Len(s) THEN x ELSE blk.firstInst,
                             IF i = Len(s) + 1 THEN x ELSE blk.lastInst, Len(s) + 1)
  <2> HIDE DEF i
  <2> QED
    BY <1>1, <1>4, EndsWithOneMore
<1>7. sized = Fields(blk.firstPhi, blk.lastPhi, blk.firstInst, blk.lastInst, Len(s) + 1)
  <2>1. blk.size = Len(s)
    BY <1>1, EndsOf
  <2>2. sized = PutSize(blk, Len(s) + 1)
    BY <2>1 DEF PutSize
  <2> HIDE DEF sized
  <2> QED
    BY <1>5, <2>2, FieldsPut
<1> HIDE DEF sized
<1> SUFFICES h.instrs \in Heaps /\ LinkedIn(ins, h.instrs, b, Entry(s, i - 1), x, Entry(s, i))
             /\ h.block = Ends(t, m)
  <2>1. ASSUME h.instrs \in Heaps, LinkedIn(ins, h.instrs, b, Entry(s, i - 1), x, Entry(s, i)),
               h.block = Ends(t, m)
        PROVE  IsList(h.instrs, b, t)
    <3> HIDE DEF h, i
    <3> QED
      BY <1>1, <1>2, <1>4, <2>1, ListWithOneMore
  <2> HIDE DEF h, i, t, m
  <2> QED
    BY <1>4, <1>6, <2>1 DEF Holds, h, i, t, m
<1>8. ASSUME NEW new, NEW nblk, NEW p \in Pointer, NEW n \in Pointer,
             h = Heap(new, nblk), nblk = Ends(t, m),
             Entry(s, i - 1) = p, Entry(s, i) = n,
             \/ new = Linked(owned, x, n) /\ p = Null
             \/ new = Linked(owned, p, x) /\ n = Null
      PROVE  /\ h.instrs \in Heaps /\ LinkedIn(ins, h.instrs, b, Entry(s, i - 1), x, Entry(s, i))
             /\ h.block = Ends(t, m)
  <2>1. p # x /\ n # x
    BY <1>3, <1>4, <1>8
  <2>2. new \in Heaps /\ LinkedIn(ins, new, b, p, x, n)
    BY <1>8, <2>1, OwnedLinked
  <2>3. h.instrs = new /\ h.block = nblk
    BY <1>8 DEF Heap
  <2> HIDE DEF h, i, t, m
  <2> QED
    BY <1>8, <2>2, <2>3
<1>9. CASE x \in Phis
  <2>1. i = 1 /\ Entry(s, i - 1) = Null
    BY <1>1, <1>9 DEF PushPlace, Entry
  <2>2. h = PushPhi(owned, sized, x)
    BY <1>9 DEF PushInstruction, sized
  <2>3. sized.firstPhi = blk.firstPhi /\ sized.firstInst = blk.firstInst
    BY <1>7, FieldsOf
  <2>4. CASE k = 0
    <3> DEFINE nblk == PutPhis(sized, x, x)
    <3>1. h = Heap(Linked(owned, x, blk.firstInst), nblk)
      BY <1>5, <2>2, <2>3, <2>4 DEF PushPhi, PutPhis
    <3>2. nblk = Fields(x, x, blk.firstInst, blk.lastInst, Len(s) + 1)
      BY <1>7, FieldsPutBoth
    <3>3. Entry(s, i) = blk.firstInst /\ blk.firstInst \in Pointer
      BY <1>1, <1>5, <2>1, <2>4, <1>3 DEF Entry, Pointer
    <3>4. nblk = Ends(t, m)
      BY <1>6, <1>9, <2>4, <3>2
    <3> HIDE DEF h, i, t, m, nblk, owned
    <3> QED
      BY <1>8, <2>1, <3>1, <3>3, <3>4 DEF Pointer
  <2>5. CASE k # 0
    <3> DEFINE nblk == PutFirstPhi(sized, x)
    <3>1. h = Heap(Linked(owned, x, blk.firstPhi), nblk)
      BY <1>1, <1>5, <2>2, <2>3, <2>5 DEF PushPhi, PutFirstPhi
    <3>2. nblk = Fields(x, blk.lastPhi, blk.firstInst, blk.lastInst, Len(s) + 1)
      BY <1>7, FieldsPut
    <3>3. Entry(s, i) = blk.firstPhi /\ blk.firstPhi \in Pointer
      BY <1>1, <1>5, <2>1, <2>5, <1>3 DEF Entry, Pointer
    <3>4. nblk = Ends(t, m)
      BY <1>6, <1>9, <2>5, <3>2
    <3> HIDE DEF h, i, t, m, nblk, owned
    <3> QED
      BY <1>8, <2>1, <3>1, <3>3, <3>4 DEF Pointer
  <2> QED
    BY <2>4, <2>5
<1>10. CASE x \notin Phis /\ k = Len(s)
  <2> DEFINE nblk == PutInsts(sized, x, x)
  <2>1. i = Len(s) + 1 /\ Entry(s, i) = Null
    BY <1>1, <1>10 DEF PushPlace, Entry
  <2>2. sized.lastPhi = blk.lastPhi
    BY <1>7, FieldsOf
  <2>3. h = Heap(Linked(owned, blk.lastPhi, x), nblk)
    BY <1>5, <1>10, <2>2 DEF PushInstruction, PushOnly, sized, PutInsts
  <2>4. nblk = Fields(blk.firstPhi, blk.lastPhi, x, x, Len(s) + 1)
    BY <1>7, FieldsPutBoth
  <2>5. Entry(s, i - 1) = blk.lastPhi /\ blk.lastPhi \in Pointer
    BY <1>1, <1>5, <1>10, <2>1, <1>3 DEF Entry, Pointer
  <2>6. nblk = Ends(t, m)
    BY <1>6, <1>10, <2>1, <2>4
  <2> HIDE DEF h, i, t, m, nblk, owned
  <2> QED
    BY <1>8, <2>1, <2>3, <2>5, <2>6 DEF Pointer
<1>11. CASE x \notin Phis /\ k # Len(s) /\ back
  <2> DEFINE nblk == PutLastInst(sized, x)
  <2>1. i = Len(s) + 1 /\ Entry(s, i) = Null /\ i # 1
    BY <1>1, <1>11 DEF PushPlace, Entry
  <2>2. sized.lastInst = blk.lastInst
    BY <1>7, FieldsOf
  <2>3. blk.firstInst # Null
    BY <1>1, <1>5, <1>11
  <2>4. h = Heap(Linked(owned, blk.lastInst, x), nblk)
    BY <1>11, <2>2, <2>3 DEF PushInstruction, PushBack, sized, PutLastInst
  <2>5. nblk = Fields(blk.firstPhi, blk.lastPhi, blk.firstInst, x, Len(s) + 1)
    BY <1>7, FieldsPut
  <2>6. Entry(s, i - 1) = blk.lastInst /\ blk.lastInst \in Pointer
    <3> HIDE DEF i
    <3>1. i - 1 = Len(s) /\ Len(s) \in 1..Len(s) /\ i - 1 \in Int
      BY <1>1, <1>11, <2>1
    <3>2. Entry(s, i - 1) = blk.lastInst
      BY <1>5, <1>11, <3>1 DEF Entry
    <3> QED
      BY <1>3, <3>1, <3>2
  <2>7. nblk = Ends(t, m)
    BY <1>6, <1>11, <2>1, <2>5
  <2> HIDE DEF h, i, t, m, nblk, owned
  <2> QED
    BY <1>8, <2>1, <2>4, <2>6, <2>7 DEF Pointer
<1>12. CASE x \notin Phis /\ k # Len(s) /\ ~back
  <2> DEFINE nblk == PutFirstInst(sized, x)
  <2>1. k = 0 /\ i = 1 /\ Entry(s, i - 1) = Null /\ i # Len(s) + 1
    BY <1>1, <1>12 DEF PushPlace, Entry
  <2>2. sized.firstInst = blk.firstInst
    BY <1>7, FieldsOf
  <2>3. blk.firstInst # Null
    BY <1>1, <1>5, <1>12
  <2>4. h = Heap(Linked(owned, x, blk.firstInst), nblk)
    BY <1>12, <2>2, <2>3 DEF PushInstruction, PushFront, sized, PutFirstInst
  <2>5. nblk = Fields(blk.firstPhi, blk.lastPhi, x, blk.lastInst, Len(s) + 1)
    BY <1>7, FieldsPut
  <2>6. Entry(s, i) = blk.firstInst /\ blk.firstInst \in Pointer
    BY <1>1, <1>5, <1>12, <2>1, <1>3 DEF Entry, Pointer
  <2>7. nblk = Ends(t, m)
    BY <1>6, <1>12, <2>1, <2>5
  <2> HIDE DEF h, i, t, m, nblk, owned
  <2> QED
    BY <1>8, <2>1, <2>4, <2>6, <2>7 DEF Pointer
<1> QED
  BY <1>9, <1>10, <1>11, <1>12

\* What a removal leaves of the phis and of the others.
LEMMA EndsWithOneLess ==
  ASSUME NEW s \in Seq(Instrs), NEW k, PhisFirst(s, k), NEW i \in 1..Len(s)
  PROVE  LET t == Removal(s, i)
             m == IF i <= k THEN k - 1 ELSE k
             old == Ends(s, k)
         IN /\ PhisFirst(t, m)
            /\ i <= k => Ends(t, m) =
                 Fields(IF i # 1 THEN s[1] ELSE IF k = 1 THEN Null ELSE s[2],
                        IF i # k THEN s[k] ELSE IF k = 1 THEN Null ELSE s[k - 1],
                        old.firstInst, old.lastInst, Len(s) - 1)
            /\ i > k => Ends(t, m) =
                 Fields(old.firstPhi, old.lastPhi,
                        IF i # k + 1 THEN s[k + 1]
                        ELSE IF i = Len(s) THEN Null ELSE s[i + 1],
                        IF i # Len(s) THEN s[Len(s)]
                        ELSE IF i = k + 1 THEN Null ELSE s[i - 1], Len(s) - 1)
<1> DEFINE t == Removal(s, i)
           m == IF i <= k THEN k - 1 ELSE k
           old == Ends(s, k)
<1>1. Len(s) \in Nat /\ k \in Nat /\ k <= Len(s) /\ i \in Nat \ {0} /\ i <= Len(s)
  BY LenProperties DEF PhisFirst
<1>2. /\ t \in Seq(Instrs) /\ Len(t) = Len(s) - 1
      /\ \A j \in 1..Len(s) - 1 : t[j] = IF j < i THEN s[j] ELSE s[j + 1]
  BY RemovalParts
<1> HIDE DEF t
<1>3. \A j \in 1..Len(s) - 1 :
        /\ j < i => j \in 1..Len(s) /\ t[j] = s[j]
        /\ j >= i => j + 1 \in 1..Len(s) /\ t[j] = s[j + 1]
  BY <1>1, <1>2
<1>4. PhisFirst(t, m)
  <2>1. m \in 0..Len(t)
    BY <1>1, <1>2
  <2>2. ASSUME NEW j \in 1..Len(s) - 1
        PROVE  t[j] \in Phis <=> j <= m
    <3>1. CASE j < i
      <4>1. t[j] \in Phis <=> j <= k
        BY <1>3, <3>1 DEF PhisFirst
      <4> QED
        BY <1>1, <3>1, <4>1
    <3>2. CASE j >= i
      <4>1. t[j] \in Phis <=> j + 1 <= k
        BY <1>3, <3>2 DEF PhisFirst
      <4> QED
        BY <1>1, <3>2, <4>1
    <3> QED
      BY <1>1, <3>1, <3>2
  <2> HIDE DEF m
  <2> QED
    BY <1>2, <2>1, <2>2 DEF PhisFirst
<1>5. CASE i <= k
  <2>1. k - 1 # 0 => t[1] = IF i # 1 THEN s[1] ELSE s[2]
    <3>1. k - 1 # 0 => 1 \in 1..Len(s) - 1
      BY <1>1, <1>5
    <3> QED
      BY <1>1, <1>3, <3>1
  <2>2. k - 1 # 0 => t[k - 1] = IF i # k THEN s[k] ELSE s[k - 1]
    <3>1. k - 1 # 0 => k - 1 \in 1..Len(s) - 1 /\ (k - 1) + 1 = k
      BY <1>1, <1>5
    <3> QED
      BY <1>1, <1>3, <1>5, <3>1
  <2>3. k # Len(s) => t[(k - 1) + 1] = s[k + 1] /\ t[Len(s) - 1] = s[Len(s)]
    <3>1. k # Len(s) => /\ (k - 1) + 1 = k /\ k \in 1..Len(s) - 1
                        /\ Len(s) - 1 \in 1..Len(s) - 1 /\ Len(s) - 1 >= i /\ (Len(s) - 1) + 1 = Len(s)
      BY <1>1, <1>5
    <3> QED
      BY <1>3, <1>5, <3>1
  <2>4. /\ k - 1 = 0 <=> k = 1
        /\ k - 1 = Len(t) <=> k = Len(s)
        /\ k = 1 => i = 1
    BY <1>1, <1>2, <1>5
  <2>5. Ends(t, k - 1) = Fields(IF k = 1 THEN Null ELSE t[1], IF k = 1 THEN Null ELSE t[k - 1],
                                old.firstInst, old.lastInst, Len(s) - 1)
    <3>1. (IF k - 1 = Len(t) THEN Null ELSE t[(k - 1) + 1]) = old.firstInst
      BY <2>3, <2>4, EndsOf
    <3>2. (IF k - 1 = Len(t) THEN Null ELSE t[Len(t)]) = old.lastInst
      BY <1>2, <2>3, <2>4, EndsOf
    <3> HIDE DEF old
    <3> QED
      BY <1>2, <2>4, <3>1, <3>2 DEF Ends
  <2>6. /\ (IF k = 1 THEN Null ELSE t[1]) = IF i # 1 THEN s[1] ELSE IF k = 1 THEN Null ELSE s[2]
        /\ (IF k = 1 THEN Null ELSE t[k - 1])
             = IF i # k THEN s[k] ELSE IF k = 1 THEN Null ELSE s[k - 1]
    BY <2>1, <2>2, <2>4
  <2>7. ~(i > k) /\ m = k - 1
    BY <1>1, <1>5
  <2> HIDE DEF m, old
  <2> QED
    BY <1>4, <2>5, <2>6, <2>7 DEF m, old, t
<1>6. CASE i > k
  <2>1. k # 0 => t[1] = s[1] /\ t[k] = s[k]
    <3>1. k # 0 => 1 \in 1..Len(s) - 1 /\ k \in 1..Len(s) - 1 /\ 1 < i
      BY <1>1, <1>6
    <3> QED
      BY <1>3, <1>6, <3>1
  <2>2. k # Len(s) - 1 => t[k + 1] = IF i # k + 1 THEN s[k + 1] ELSE s[i + 1]
    <3>1. k # Len(s) - 1 => k + 1 \in 1..Len(s) - 1
      BY <1>1, <1>6
    <3>2. (i # k + 1 => k + 1 < i) /\ (i = k + 1 => k + 1 >= i)
      BY <1>1, <1>6
    <3> QED
      BY <1>3, <3>1, <3>2
  <2>3. k # Len(s) - 1 => t[Len(s) - 1] = IF i # Len(s) THEN s[Len(s)] ELSE s[i - 1]
    <3>1. k # Len(s) - 1 => Len(s) - 1 \in 1..Len(s) - 1 /\ (Len(s) - 1) + 1 = Len(s)
      BY <1>1, <1>6
    <3>2. (i # Len(s) => Len(s) - 1 >= i) /\ (i = Len(s) => Len(s) - 1 < i)
      BY <1>1
    <3> QED
      BY <1>3, <3>1, <3>2
  <2>4. /\ k # Len(s) /\ (k = Len(t) <=> k = Len(s) - 1)
        /\ k = Len(s) - 1 => i = k + 1 /\ i = Len(s)
        /\ i = k + 1 /\ i = Len(s) => k = Len(s) - 1
    BY <1>1, <1>2, <1>6
  <2>5. Ends(t, k) = Fields(old.firstPhi, old.lastPhi,
                            IF k = Len(s) - 1 THEN Null ELSE t[k + 1],
                            IF k = Len(s) - 1 THEN Null ELSE t[Len(s) - 1], Len(s) - 1)
    BY <1>2, <2>1, <2>4, EndsOf DEF Ends
  <2>6. /\ (IF k = Len(s) - 1 THEN Null ELSE t[k + 1])
             = IF i # k + 1 THEN s[k + 1] ELSE IF i = Len(s) THEN Null ELSE s[i + 1]
        /\ (IF k = Len(s) - 1 THEN Null ELSE t[Len(s) - 1])
             = IF i # Len(s) THEN s[Len(s)] ELSE IF i = k + 1 THEN Null ELSE s[i - 1]
    BY <2>2, <2>3, <2>4
  <2>7. ~(i <= k) /\ m = k
    BY <1>1, <1>6
  <2> HIDE DEF m, old
  <2> QED
    BY <1>4, <2>5, <2>6, <2>7 DEF m, old, t
<1> QED
  BY <1>1, <1>5, <1>6

\* SetInstructionAsDead of entry i leaves the list without it.
LEMMA Unlinked ==
  ASSUME NEW ins \in Heaps, NEW blk, NEW b \in Blocks, NEW s, NEW k, Holds(ins, blk, b, s, k),
         NEW i \in 1..Len(s)
  PROVE  LET h == Removed(ins, blk, s[i])
         IN /\ h.instrs \in Heaps
            /\ LinkedOut(ins, h.instrs, Entry(s, i - 1), s[i], Entry(s, i + 1))
            /\ Holds(h.instrs, h.block, b, Removal(s, i), IF i <= k THEN k - 1 ELSE k)
<1> DEFINE x == s[i]
           p == Entry(s, i - 1)
           n == Entry(s, i + 1)
           det == [ins EXCEPT ![x] = Detached]
           h == Removed(ins, blk, x)
           m == IF i <= k THEN k - 1 ELSE k
           t == Removal(s, i)
<1>1. /\ s \in Seq(Instrs) /\ NoRepeat(s) /\ Len(s) \in Nat /\ k \in Nat /\ k <= Len(s)
      /\ \A j \in 1..Len(s) : s[j] \in Instrs /\ s[j] # Null
      /\ IsList(ins, b, s) /\ PhisFirst(s, k) /\ blk = Ends(s, k)
      /\ i \in Nat \ {0} /\ i <= Len(s)
  BY HeldParts DEF Holds
<1>2. x \in Instrs /\ x # Null /\ ins[x].prev = p /\ ins[x].next = n
  BY <1>1 DEF IsList
<1>3. p \in Pointer /\ n \in Pointer /\ p # x /\ n # x
  <2>1. i - 1 \in Int /\ i + 1 \in Int /\ i - 1 # i /\ i + 1 # i
    BY <1>1
  <2> QED
    BY <1>1, <2>1, EntryPointer, OnePlace
<1>4. /\ det \in Heaps /\ det[x] = Detached
      /\ \A y \in Instrs \ {x} : det[y] = ins[y]
  BY <1>2 DEF Heaps, Detached, Pointer
<1> HIDE DEF det
<1>5. h.instrs = Linked(det, p, n)
  BY <1>2 DEF Removed, Heap, Linked, det
<1>6. h.instrs \in Heaps /\ LinkedOut(ins, h.instrs, p, x, n)
  <2> DEFINE new == Linked(det, p, n)
  <2>1. /\ new \in Heaps
        /\ \A y \in Instrs :
             /\ new[y].prev = IF y = n THEN p ELSE det[y].prev
             /\ new[y].next = IF y = p THEN n ELSE det[y].next
             /\ new[y].bb = det[y].bb
    BY <1>3, <1>4, LinkedParts
  <2> HIDE DEF new
  <2>2. new[x].prev = Null /\ new[x].next = Null /\ new[x].bb = Null
    BY <1>2, <1>3, <1>4, <2>1 DEF Detached
  <2>3. new[x] = Detached
    BY <1>2, <2>1, <2>2 DEF Heaps, Detached
  <2>4. LinkedOut(ins, new, p, x, n)
    BY <1>4, <2>1, <2>3 DEF LinkedOut
  <2> HIDE DEF h, p, n, x
  <2> QED
    BY <1>5, <2>1, <2>4 DEF new
<1>7. /\ PhisFirst(t, m)
      /\ i <= k => Ends(t, m) =
           Fields(IF i # 1 THEN s[1] ELSE IF k = 1 THEN Null ELSE s[2],
                  IF i # k THEN s[k] ELSE IF k = 1 THEN Null ELSE s[k - 1],
                  blk.firstInst, blk.lastInst, Len(s) - 1)
      /\ i > k => Ends(t, m) =
           Fields(blk.firstPhi, blk.lastPhi,
                  IF i # k + 1 THEN s[k + 1] ELSE IF i = Len(s) THEN Null ELSE s[i + 1],
                  IF i # Len(s) THEN s[Len(s)] ELSE IF i = k + 1 THEN Null ELSE s[i - 1],
                  Len(s) - 1)
  BY <1>1, EndsWithOneLess
<1>8. /\ blk.firstPhi = IF k = 0 THEN Null ELSE s[1]
      /\ blk.lastPhi = IF k = 0 THEN Null ELSE s[k]
      /\ blk.firstInst = IF k = Len(s) THEN Null ELSE s[k + 1]
      /\ blk.lastInst = IF k = Len(s) THEN Null ELSE s[Len(s)]
      /\ blk.size = Len(s)
      /\ blk = Fields(blk.firstPhi, blk.lastPhi, blk.firstInst, blk.lastInst, Len(s))
  BY <1>1, EndsOf
<1>9. x \in Phis <=> i <= k
  BY <1>1 DEF PhisFirst
<1>10. \A j \in 1..Len(s) : x = s[j] <=> j = i
  BY <1>1 DEF NoRepeat
<1>11. h.block = Ends(t, m)
  <2>1. CASE i <= k
    <3> DEFINE a == IF x # blk.firstPhi THEN blk.firstPhi ELSE IF x = blk.lastPhi THEN Null ELSE n
               z == IF x # blk.lastPhi THEN blk.lastPhi ELSE IF x = blk.firstPhi THEN Null ELSE p
               ends == PutPhis(blk, a, z)
    <3>1. h.block = [ends EXCEPT !.size = @ - 1]
      BY <1>2, <1>9, <2>1 DEF Removed, Heap, PhiEnds, PutPhis
    <3>2. ends = Fields(a, z, blk.firstInst, blk.lastInst, Len(s))
      <4> HIDE DEF a, z
      <4> QED
        BY <1>8, FieldsPutBoth
    <3> HIDE DEF ends
    <3>3. h.block = Fields(a, z, blk.firstInst, blk.lastInst, Len(s) - 1)
      <4> HIDE DEF a, z, h
      <4>1. ends.size = Len(s)
        BY <3>2, FieldsOf
      <4>2. h.block = PutSize(ends, Len(s) - 1)
        BY <3>1, <4>1 DEF PutSize
      <4> QED
        BY <3>2, <4>2, FieldsPut
    <3>4. /\ k # 0 /\ 1 \in 1..Len(s) /\ k \in 1..Len(s)
          /\ x = blk.firstPhi <=> i = 1
          /\ x = blk.lastPhi <=> i = k
      <4>1. k # 0 /\ 1 \in 1..Len(s) /\ k \in 1..Len(s)
        BY <1>1, <2>1
      <4> QED
        BY <1>8, <1>10, <4>1
    <3>5. a = IF i # 1 THEN s[1] ELSE IF k = 1 THEN Null ELSE s[2]
      <4>1. i = 1 /\ k # 1 => n = s[2]
        BY <1>1, <2>1 DEF Entry
      <4> HIDE DEF n, x
      <4> QED
        BY <1>8, <3>4, <4>1
    <3>6. z = IF i # k THEN s[k] ELSE IF k = 1 THEN Null ELSE s[k - 1]
      <4>1. i = k /\ k # 1 => p = s[k - 1]
        BY <1>1, <2>1 DEF Entry
      <4> HIDE DEF p, x
      <4> QED
        BY <1>8, <3>4, <4>1
    <3> HIDE DEF a, z, h, t, m
    <3> QED
      BY <1>7, <2>1, <3>3, <3>5, <3>6
  <2>2. CASE i > k
    <3> DEFINE a == IF x = blk.firstInst THEN n ELSE blk.firstInst
               z == IF x # blk.lastInst THEN blk.lastInst ELSE IF p \in Phis THEN Null ELSE p
               ends == PutInsts(blk, a, z)
    <3>1. h.block = [ends EXCEPT !.size = @ - 1]
      <4>1. x \notin Phis
        BY <1>1, <1>9, <2>2
      <4> QED
        BY <1>2, <4>1 DEF Removed, Heap, InstEnds, PutInsts
    <3>2. ends = Fields(blk.firstPhi, blk.lastPhi, a, z, Len(s))
      <4> HIDE DEF a, z
      <4> QED
        BY <1>8, FieldsPutBoth
    <3> HIDE DEF ends
    <3>3. h.block = Fields(blk.firstPhi, blk.lastPhi, a, z, Len(s) - 1)
      <4> HIDE DEF a, z, h
      <4>1. ends.size = Len(s)
        BY <3>2, FieldsOf
      <4>2. h.block = PutSize(ends, Len(s) - 1)
        BY <3>1, <4>1 DEF PutSize
      <4> QED
        BY <3>2, <4>2, FieldsPut
    <3>4. /\ k # Len(s) /\ k + 1 \in 1..Len(s) /\ Len(s) \in 1..Len(s)
          /\ x = blk.firstInst <=> i = k + 1
          /\ x = blk.lastInst <=> i = Len(s)
      <4>1. k # Len(s) /\ k + 1 \in 1..Len(s) /\ Len(s) \in 1..Len(s)
        BY <1>1, <2>2
      <4> QED
        BY <1>8, <1>10, <4>1
    <3>5. a = IF i # k + 1 THEN s[k + 1] ELSE IF i = Len(s) THEN Null ELSE s[i + 1]
      <4>1. n = IF i = Len(s) THEN Null ELSE s[i + 1]
        BY <1>1 DEF Entry
      <4> HIDE DEF n, x
      <4> QED
        BY <1>8, <3>4, <4>1
    <3>6. z = IF i # Len(s) THEN s[Len(s)] ELSE IF i = k + 1 THEN Null ELSE s[i - 1]
      <4>1. i # Len(s) => z = s[Len(s)]
        BY <1>8, <3>4
      <4>2. CASE i = Len(s) /\ i = k + 1
        <5>1. p = Null \/ p \in Phis
          <6>1. CASE k = 0
            BY <1>1, <4>2, <6>1 DEF Entry
          <6>2. CASE k # 0
            <7>1. k \in 1..Len(s) /\ i - 1 = k
              BY <1>1, <4>2, <6>2
            <7> QED
              BY <1>1, <7>1 DEF Entry, PhisFirst
          <6> QED
            BY <6>1, <6>2
        <5> HIDE DEF p, x
        <5> QED
          BY <3>4, <4>2, <5>1
      <4>3. CASE i = Len(s) /\ i # k + 1
        <5>1. i - 1 \in 1..Len(s) /\ ~(i - 1 <= k)
          BY <1>1, <2>2, <4>3
        <5>2. p = s[i - 1] /\ p \notin Phis
          BY <1>1, <5>1 DEF Entry, PhisFirst
        <5> HIDE DEF p, x
        <5> QED
          BY <3>4, <4>3, <5>2
      <4> QED
        BY <4>1, <4>2, <4>3
    <3> HIDE DEF a, z, h, t, m
    <3> QED
      BY <1>7, <2>2, <3>3, <3>5, <3>6
  <2> QED
    BY <1>1, <2>1, <2>2
<1>12. IsList(h.instrs, b, t)
  <2> HIDE DEF h
  <2> QED
    BY <1>1, <1>6, ListWithOneLess
<1> HIDE DEF h, t, m, p, n
<1> QED
  BY <1>6, <1>7, <1>11, <1>12 DEF Holds, h, t, m, p, n

\* Entry j of the two parts of a list cut after entry i.
LEMMA CutParts ==
  ASSUME NEW s \in Seq(Instrs), NoRepeat(s), NEW i \in 1..Len(s) - 1
  PROVE  LET u == SubSeq(s, 1, i)
             v == SubSeq(s, i + 1, Len(s))
         IN /\ u \in Seq(Instrs) /\ Len(u) = i /\ NoRepeat(u)
            /\ \A j \in 1..i : j \in 1..Len(s) /\ u[j] = s[j]
            /\ v \in Seq(Instrs) /\ Len(v) = Len(s) - i /\ NoRepeat(v)
            /\ \A j \in 1..Len(s) - i : i + j \in 1..Len(s) /\ v[j] = s[i + j]
<1> DEFINE u == SubSeq(s, 1, i)
           v == SubSeq(s, i + 1, Len(s))
<1>1. Len(s) \in Nat /\ i \in Nat \ {0} /\ i < Len(s)
  BY LenProperties
<1>2. u \in Seq(Instrs) /\ Len(u) = i /\ \A j \in 1..i : j \in 1..Len(s) /\ u[j] = s[j]
  <2>1. 1 \in Nat \ {0} /\ i \in Nat /\ i <= Len(s) /\ 1 <= i + 1
    BY <1>1
  <2>2. u \in Seq(Instrs) /\ Len(u) = i - 1 + 1 /\ \A j \in 1..i - 1 + 1 : u[j] = s[1 + j - 1]
    BY <2>1, PartOf
  <2> HIDE DEF u
  <2> QED
    BY <1>1, <2>2
<1>3. /\ v \in Seq(Instrs) /\ Len(v) = Len(s) - i
      /\ \A j \in 1..Len(s) - i : i + j \in 1..Len(s) /\ v[j] = s[i + j]
  <2>1. i + 1 \in Nat \ {0} /\ i + 1 <= Len(s) + 1
    BY <1>1
  <2>2. /\ v \in Seq(Instrs) /\ Len(v) = Len(s) - (i + 1) + 1
        /\ \A j \in 1..Len(s) - (i + 1) + 1 : v[j] = s[(i + 1) + j - 1]
    BY <1>1, <2>1, PartOf
  <2> HIDE DEF v
  <2> QED
    BY <1>1, <2>2
<1> HIDE DEF u, v
<1>4. NoRepeat(u)
  BY <1>2 DEF NoRepeat
<1>5. NoRepeat(v)
  <2> SUFFICES ASSUME NEW j \in 1..Len(s) - i, NEW l \in 1..Len(s) - i, v[j] = v[l]
               PROVE  j = l
    BY <1>3 DEF NoRepeat
  <2>1. i + j = i + l
    BY <1>3 DEF NoRepeat
  <2> QED
    BY <1>1, <2>1
<1> QED
  BY <1>2, <1>3, <1>4, <1>5 DEF u, v

\* In new, what follows s[i] belongs to block d.
Cut(ins, new, d, s, i) ==
  \A y \in Instrs :
    /\ new[y].prev = IF y = s[i + 1] THEN Null ELSE ins[y].prev
    /\ new[y].next = IF y = s[i] THEN Null ELSE ins[y].next
    /\ new[y].bb = IF \E j \in i + 1..Len(s) : y = s[j] THEN d ELSE ins[y].bb

LEMMA ListsCut ==
  ASSUME NEW ins, NEW new, NEW b \in Blocks, NEW d \in Blocks, b # d,
         NEW s, IsList(ins, b, s), \A y \in Instrs : ins[y].bb # d,
         NEW i \in 1..Len(s) - 1, Cut(ins, new, d, s, i)
  PROVE  /\ IsList(new, b, SubSeq(s, 1, i))
         /\ IsList(new, d, SubSeq(s, i + 1, Len(s)))
<1> DEFINE u == SubSeq(s, 1, i)
           v == SubSeq(s, i + 1, Len(s))
<1>1. /\ s \in Seq(Instrs) /\ NoRepeat(s) /\ Len(s) \in Nat /\ i \in Nat \ {0} /\ i < Len(s)
      /\ \A j \in 1..Len(s) : s[j] \in Instrs
  BY LenProperties, ElementOfSeq DEF IsList
<1>2. /\ u \in Seq(Instrs) /\ Len(u) = i /\ NoRepeat(u)
      /\ \A j \in 1..i : j \in 1..Len(s) /\ u[j] = s[j]
      /\ v \in Seq(Instrs) /\ Len(v) = Len(s) - i /\ NoRepeat(v)
      /\ \A j \in 1..Len(s) - i : i + j \in 1..Len(s) /\ v[j] = s[i + j]
  BY <1>1, CutParts
<1> HIDE DEF u, v
<1>3. i \in 1..Len(s) /\ i + 1 \in 1..Len(s)
  BY <1>1
<1>4. \A j \in 1..Len(s) : /\ s[j] = s[i] <=> j = i
                           /\ s[j] = s[i + 1] <=> j = i + 1
                           /\ (\E l \in i + 1..Len(s) : s[j] = s[l]) <=> j > i
  <2> TAKE j \in 1..Len(s)
  <2>1. (s[j] = s[i] <=> j = i) /\ (s[j] = s[i + 1] <=> j = i + 1)
    BY <1>1, <1>3 DEF NoRepeat
  <2>2. j > i => \E l \in i + 1..Len(s) : s[j] = s[l]
    BY <1>1
  <2>3. ASSUME NEW l \in i + 1..Len(s), s[j] = s[l]
        PROVE  j > i
    <3>1. l \in 1..Len(s) /\ l > i
      BY <1>1
    <3> QED
      BY <1>1, <2>3, <3>1 DEF NoRepeat
  <2> QED
    BY <2>1, <2>2, <2>3
<1>5. \A j \in 1..Len(s) :
        /\ new[s[j]].prev = IF j = i + 1 THEN Null ELSE Entry(s, j - 1)
        /\ new[s[j]].next = IF j = i THEN Null ELSE Entry(s, j + 1)
        /\ new[s[j]].bb = IF j > i THEN d ELSE b
  <2> TAKE j \in 1..Len(s)
  <2>1. /\ new[s[j]].prev = IF s[j] = s[i + 1] THEN Null ELSE ins[s[j]].prev
        /\ new[s[j]].next = IF s[j] = s[i] THEN Null ELSE ins[s[j]].next
        /\ new[s[j]].bb = IF \E l \in i + 1..Len(s) : s[j] = s[l] THEN d ELSE ins[s[j]].bb
    BY <1>1, Zenon DEF Cut
  <2>2. /\ ins[s[j]].prev = Entry(s, j - 1) /\ ins[s[j]].next = Entry(s, j + 1)
        /\ ins[s[j]].bb = b
    BY <1>1 DEF IsList
  <2>3. /\ s[j] = s[i] <=> j = i
        /\ s[j] = s[i + 1] <=> j = i + 1
        /\ (\E l \in i + 1..Len(s) : s[j] = s[l]) <=> j > i
    BY <1>4
  <2> QED
    BY <2>1, <2>2, <2>3
<1>6. \A y \in Instrs : (~\E j \in 1..Len(s) : s[j] = y) => new[y].bb = ins[y].bb /\ ins[y].bb # b
  <2> SUFFICES ASSUME NEW y \in Instrs, ~\E j \in 1..Len(s) : s[j] = y
               PROVE  new[y].bb = ins[y].bb /\ ins[y].bb # b
    OBVIOUS
  <2>1. ~\E j \in i + 1..Len(s) : y = s[j]
    BY <1>1
  <2> QED
    BY <2>1 DEF Cut, IsList
<1>7. IsList(new, b, u)
  <2>1. ASSUME NEW y \in Instrs
        PROVE  new[y].bb = b <=> \E j \in 1..Len(u) : u[j] = y
    <3>1. ASSUME NEW j \in 1..Len(u), u[j] = y
          PROVE  new[y].bb = b
      BY <1>1, <1>2, <1>5, <3>1
    <3>2. ASSUME new[y].bb = b
          PROVE  \E j \in 1..Len(u) : u[j] = y
      <4>1. PICK j \in 1..Len(s) : s[j] = y
        BY <1>6, <3>2
      <4>2. j \in 1..Len(u)
        BY <1>1, <1>2, <1>5, <3>2, <4>1
      <4> QED
        BY <1>2, <4>1, <4>2
    <3> QED
      BY <3>1, <3>2
  <2>2. ASSUME NEW j \in 1..Len(u)
        PROVE  new[u[j]].prev = Entry(u, j - 1) /\ new[u[j]].next = Entry(u, j + 1)
    <3>1. j \in 1..Len(s) /\ u[j] = s[j] /\ j # i + 1 /\ j <= i /\ j >= 1
      BY <1>1, <1>2
    <3>2. Entry(u, j - 1) = Entry(s, j - 1)
      BY <1>1, <1>2, <3>1 DEF Entry
    <3>3. Entry(u, j + 1) = IF j = i THEN Null ELSE Entry(s, j + 1)
      BY <1>1, <1>2, <3>1 DEF Entry
    <3> QED
      BY <1>5, <3>1, <3>2, <3>3
  <2> QED
    BY <1>2, <2>1, <2>2 DEF IsList
<1>8. IsList(new, d, v)
  <2>1. ASSUME NEW y \in Instrs
        PROVE  new[y].bb = d <=> \E j \in 1..Len(v) : v[j] = y
    <3>1. ASSUME NEW j \in 1..Len(v), v[j] = y
          PROVE  new[y].bb = d
      <4>1. i + j \in 1..Len(s) /\ y = s[i + j] /\ i + j > i
        BY <1>1, <1>2, <3>1
      <4> QED
        BY <1>5, <4>1
    <3>2. ASSUME new[y].bb = d
          PROVE  \E j \in 1..Len(v) : v[j] = y
      <4>1. PICK j \in 1..Len(s) : s[j] = y
        BY <1>6, <3>2
      <4>2. j > i
        BY <1>5, <3>2, <4>1
      <4>3. j - i \in 1..Len(s) - i /\ i + (j - i) = j
        BY <1>1, <4>2
      <4> QED
        BY <1>2, <4>1, <4>3
    <3> QED
      BY <3>1, <3>2
  <2>2. ASSUME NEW j \in 1..Len(v)
        PROVE  new[v[j]].prev = Entry(v, j - 1) /\ new[v[j]].next = Entry(v, j + 1)
    <3>1. j \in 1..Len(s) - i
      BY <1>2
    <3>2. /\ i + j \in 1..Len(s) /\ v[j] = s[i + j] /\ i + j # i
          /\ i + j = i + 1 <=> j = 1
      BY <1>1, <1>2, <3>1
    <3>3. Entry(v, j - 1) = IF j = 1 THEN Null ELSE Entry(s, (i + j) - 1)
      <4>1. CASE j = 1
        BY <1>2, <4>1 DEF Entry
      <4>2. CASE j # 1
        <5>1. j - 1 \in 1..Len(s) - i /\ i + (j - 1) = (i + j) - 1
          BY <1>1, <3>1, <4>2
        <5> QED
          BY <1>2, <4>2, <5>1 DEF Entry
      <4> QED
        BY <4>1, <4>2
    <3>4. Entry(v, j + 1) = Entry(s, (i + j) + 1)
      <4>1. CASE j = Len(s) - i
        <5>1. j + 1 \notin 1..Len(v) /\ (i + j) + 1 \notin 1..Len(s)
          BY <1>1, <1>2, <4>1
        <5> QED
          BY <5>1 DEF Entry
      <4>2. CASE j # Len(s) - i
        <5>1. j + 1 \in 1..Len(s) - i /\ i + (j + 1) = (i + j) + 1
          BY <1>1, <3>1, <4>2
        <5> QED
          BY <1>2, <5>1 DEF Entry
      <4> QED
        BY <4>1, <4>2
    <3> QED
      BY <1>5, <3>2, <3>3, <3>4
  <2> QED
    BY <1>2, <2>1, <2>2 DEF IsList
<1> QED
  BY <1>7, <1>8 DEF u, v

\* The fields of the two parts: cut between phis, or between others.
LEMMA EndsCut ==
  ASSUME NEW s \in Seq(Instrs), NoRepeat(s), NEW k, PhisFirst(s, k), NEW i \in 1..Len(s) - 1,
         i # k
  PROVE  LET u == SubSeq(s, 1, i)
             v == SubSeq(s, i + 1, Len(s))
             old == Ends(s, k)
         IN /\ i < k =>
                 /\ PhisFirst(u, i)
                 /\ Ends(u, i) = Fields(old.firstPhi, s[i], Null, Null, i)
                 /\ PhisFirst(v, k - i)
                 /\ Ends(v, k - i) = Fields(s[i + 1], old.lastPhi, old.firstInst,
                                            old.lastInst, Len(s) - i)
            /\ i > k =>
                 /\ PhisFirst(u, k)
                 /\ Ends(u, k) = Fields(old.firstPhi, old.lastPhi, old.firstInst, s[i], i)
                 /\ PhisFirst(v, 0)
                 /\ Ends(v, 0) = Fields(Null, Null, s[i + 1], old.lastInst, Len(s) - i)
<1> DEFINE u == SubSeq(s, 1, i)
           v == SubSeq(s, i + 1, Len(s))
           old == Ends(s, k)
<1>1. Len(s) \in Nat /\ i \in Nat \ {0} /\ i < Len(s) /\ k \in Nat /\ k <= Len(s)
  BY LenProperties DEF PhisFirst
<1>2. /\ Len(u) = i /\ \A j \in 1..i : j \in 1..Len(s) /\ u[j] = s[j]
      /\ Len(v) = Len(s) - i
      /\ \A j \in 1..Len(s) - i : i + j \in 1..Len(s) /\ v[j] = s[i + j]
  BY CutParts
<1> HIDE DEF u, v
<1>3. /\ \A j \in 1..i : u[j] \in Phis <=> j <= k
      /\ \A j \in 1..Len(s) - i : v[j] \in Phis <=> i + j <= k
  BY <1>2 DEF PhisFirst
<1>4. v[1] = s[i + 1] /\ v[Len(s) - i] = s[Len(s)] /\ u[1] = s[1] /\ u[i] = s[i]
  <2>1. 1 \in 1..Len(s) - i /\ Len(s) - i \in 1..Len(s) - i /\ i + (Len(s) - i) = Len(s)
    BY <1>1
  <2>2. 1 \in 1..i /\ i \in 1..i
    BY <1>1
  <2> QED
    BY <1>2, <2>1, <2>2
<1>5. CASE i < k
  <2>1. PhisFirst(u, i) /\ PhisFirst(v, k - i)
    <3>1. i \in 0..Len(u) /\ k - i \in 0..Len(v)
      BY <1>1, <1>2, <1>5
    <3>2. ASSUME NEW j \in 1..Len(u)
          PROVE  u[j] \in Phis <=> j <= i
      <4>1. j \in 1..i /\ j <= i /\ j <= k
        BY <1>1, <1>2, <1>5
      <4> QED
        BY <1>3, <4>1
    <3>3. ASSUME NEW j \in 1..Len(v)
          PROVE  v[j] \in Phis <=> j <= k - i
      <4>1. j \in 1..Len(s) - i /\ (i + j <= k <=> j <= k - i)
        BY <1>1, <1>2
      <4> QED
        BY <1>3, <4>1
    <3> QED
      BY <3>1, <3>2, <3>3 DEF PhisFirst
  <2>2. Ends(u, i) = Fields(old.firstPhi, s[i], Null, Null, i)
    <3>1. i # 0 /\ k # 0
      BY <1>1, <1>5
    <3>2. old.firstPhi = s[1]
      BY <3>1, EndsOf
    <3> HIDE DEF old
    <3> QED
      BY <1>2, <1>4, <3>1, <3>2 DEF Ends
  <2>3. Ends(v, k - i) = Fields(s[i + 1], old.lastPhi, old.firstInst, old.lastInst, Len(s) - i)
    <3>1. k - i # 0 /\ k # 0 /\ (k - i = Len(v) <=> k = Len(s))
      BY <1>1, <1>2, <1>5
    <3>2. v[k - i] = s[k]
      <4>1. k - i \in 1..Len(s) - i /\ i + (k - i) = k
        BY <1>1, <1>5
      <4> QED
        BY <1>2, <4>1
    <3>3. k # Len(s) => v[(k - i) + 1] = s[k + 1]
      <4>1. k # Len(s) => (k - i) + 1 \in 1..Len(s) - i /\ i + ((k - i) + 1) = k + 1
        BY <1>1, <1>5
      <4> QED
        BY <1>2, <4>1
    <3>4. (IF k - i = Len(v) THEN Null ELSE v[(k - i) + 1]) = old.firstInst
      BY <3>1, <3>3, EndsOf
    <3>5. (IF k - i = Len(v) THEN Null ELSE v[Len(v)]) = old.lastInst
      BY <1>2, <1>4, <3>1, EndsOf
    <3>6. old.lastPhi = s[k]
      BY <3>1, EndsOf
    <3> HIDE DEF old
    <3> QED
      BY <1>2, <1>4, <3>1, <3>2, <3>4, <3>5, <3>6 DEF Ends
  <2> HIDE DEF old
  <2> QED
    BY <1>1, <1>5, <2>1, <2>2, <2>3 DEF u, v, old
<1>6. CASE i > k
  <2>1. PhisFirst(u, k) /\ PhisFirst(v, 0)
    <3>1. k \in 0..Len(u) /\ 0 \in 0..Len(v)
      BY <1>1, <1>2, <1>6
    <3>2. \A j \in 1..Len(u) : u[j] \in Phis <=> j <= k
      BY <1>1, <1>2, <1>3, <1>6
    <3>3. \A j \in 1..Len(v) : v[j] \in Phis <=> j <= 0
      BY <1>1, <1>2, <1>3, <1>6
    <3> QED
      BY <3>1, <3>2, <3>3 DEF PhisFirst
  <2>2. Ends(u, k) = Fields(old.firstPhi, old.lastPhi, old.firstInst, s[i], i)
    <3>1. k # Len(u) /\ k # Len(s) /\ k + 1 \in 1..i /\ (k # 0 => k \in 1..i)
      BY <1>1, <1>2, <1>6
    <3>2. u[k + 1] = old.firstInst
      BY <1>2, <3>1, EndsOf
    <3>3. /\ (IF k = 0 THEN Null ELSE u[1]) = old.firstPhi
          /\ (IF k = 0 THEN Null ELSE u[k]) = old.lastPhi
      BY <1>2, <1>4, <3>1, EndsOf
    <3> HIDE DEF old
    <3> QED
      BY <1>2, <1>4, <3>1, <3>2, <3>3 DEF Ends
  <2>3. Ends(v, 0) = Fields(Null, Null, s[i + 1], old.lastInst, Len(s) - i)
    <3>1. 0 # Len(v) /\ k # Len(s) /\ 0 + 1 = 1
      BY <1>1, <1>2, <1>6
    <3>2. v[Len(v)] = old.lastInst
      BY <1>2, <1>4, <3>1, EndsOf
    <3> HIDE DEF old
    <3> QED
      BY <1>2, <1>4, <3>1, <3>2 DEF Ends
  <2> HIDE DEF old
  <2> QED
    BY <1>1, <1>6, <2>1, <2>2, <2>3 DEF u, v, old
<1> QED
  BY <1>1, <1>5, <1>6

-----------------------------------------------------------------------------
(***************************************************************************)
(* The inductive invariant: what the iterator of a block visits is the     *)
(* list the pointers and the fields describe, an instruction of no block   *)
(* is detached, and the blocks still to come have no instruction.          *)
(***************************************************************************)

BlockInv ==
  /\ TypeOK
  /\ \A b \in Blocks : \E k \in 0..Len(ListOf(b)) : Holds(instrs, blocks[b], b, ListOf(b), k)
  /\ \A x \in Instrs : instrs[x].bb = Null => instrs[x] = Detached
  /\ \A x \in Instrs : instrs[x].bb \in 1..created \cup {Null}

\* The iterator of a block visits its list.
LEMMA ListFound ==
  ASSUME NEW ins, NEW blk, NEW b, NEW s, NEW k, Holds(ins, blk, b, s, k)
  PROVE  Chain(ins, Begin(blk)) = s
<1>1. /\ s \in Seq(Instrs) /\ NoRepeat(s) /\ Len(s) \in Nat /\ k \in Nat /\ k <= Len(s)
      /\ \A j \in 1..Len(s) : s[j] \in Instrs /\ s[j] # Null
      /\ IsList(ins, b, s) /\ blk = Ends(s, k)
  BY HeldParts DEF Holds
<1>2. Begin(blk) = Entry(s, 1)
  <2>1. CASE k # 0
    <3>1. 1 \in 1..Len(s) /\ blk.firstPhi = s[1]
      BY <1>1, <2>1, EndsOf
    <3> QED
      BY <1>1, <3>1 DEF Begin, Entry
  <2>2. CASE k = 0
    <3>1. blk.firstPhi = Null /\ blk.firstInst = IF Len(s) = 0 THEN Null ELSE s[1]
      BY <1>1, <2>2, EndsOf
    <3>2. 1 \in 1..Len(s) <=> Len(s) # 0
      BY <1>1
    <3> QED
      BY <3>1, <3>2 DEF Begin, Entry
  <2> QED
    BY <2>1, <2>2
<1>3. Follows(ins, Begin(blk), s)
  BY <1>1, <1>2 DEF Follows, IsList
<1> QED
  BY <1>3, ChainIs

\* A list whose instructions do not change, and to which none comes, stays.
LEMMA ListStays ==
  ASSUME NEW ins, NEW new, NEW c, NEW s, IsList(ins, c, s),
         \A y \in Instrs : /\ new[y].bb = c <=> ins[y].bb = c
                           /\ ins[y].bb = c => new[y] = ins[y]
  PROVE  IsList(new, c, s)
<1>1. s \in Seq(Instrs) /\ NoRepeat(s)
  BY DEF IsList
<1>2. \A x \in Instrs : new[x].bb = c <=> \E i \in 1..Len(s) : s[i] = x
  BY DEF IsList
<1>3. ASSUME NEW i \in 1..Len(s)
      PROVE  new[s[i]].prev = Entry(s, i - 1) /\ new[s[i]].next = Entry(s, i + 1)
  <2>1. s[i] \in Instrs /\ ins[s[i]].bb = c
    BY <1>1, ElementOfSeq DEF IsList
  <2>2. new[s[i]] = ins[s[i]]
    BY <2>1
  <2> QED
    BY <2>2 DEF IsList
<1> QED
  BY <1>1, <1>2, <1>3 DEF IsList

\* Only instructions of b, or of no block, changed, and they are of b now or
\* detached.
Framed(ins, new, b) ==
  \A y \in Instrs : \/ new[y] = ins[y]
                    \/ new[y] = Detached /\ ins[y].bb = b
                    \/ new[y].bb = b /\ ins[y].bb \in {b, Null}

LEMMA LinkedInFramed ==
  ASSUME NEW ins \in Heaps, NEW new \in Heaps, NEW b \in Blocks, NEW s, IsList(ins, b, s),
         NEW x \in Instrs, ins[x].bb = Null, NEW i \in Int, NEW j \in Int,
         LinkedIn(ins, new, b, Entry(s, i), x, Entry(s, j))
  PROVE  Framed(ins, new, b)
<1> SUFFICES ASSUME NEW y \in Instrs
             PROVE  \/ new[y] = ins[y]
                    \/ new[y].bb = b /\ ins[y].bb \in {b, Null}
  BY DEF Framed
<1>1. CASE y = x
  BY <1>1 DEF LinkedIn
<1>2. CASE y # x
  <2>1. /\ new[y].prev = IF y = Entry(s, j) THEN x ELSE ins[y].prev
        /\ new[y].next = IF y = Entry(s, i) THEN x ELSE ins[y].next
        /\ new[y].bb = ins[y].bb
    BY <1>2 DEF LinkedIn
  <2>2. y = Entry(s, i) \/ y = Entry(s, j) => ins[y].bb = b
    BY InstrAssumption DEF Entry, IsList
  <2>3. y # Entry(s, i) /\ y # Entry(s, j) => new[y] = ins[y]
    BY <2>1 DEF Heaps
  <2> QED
    BY <2>1, <2>2, <2>3
<1> QED
  BY <1>1, <1>2

LEMMA LinkedOutFramed ==
  ASSUME NEW ins \in Heaps, NEW new \in Heaps, NEW b \in Blocks, NEW s, IsList(ins, b, s),
         NEW l \in 1..Len(s), NEW i \in Int, NEW j \in Int,
         LinkedOut(ins, new, Entry(s, i), s[l], Entry(s, j))
  PROVE  Framed(ins, new, b)
<1> SUFFICES ASSUME NEW y \in Instrs
             PROVE  \/ new[y] = ins[y]
                    \/ new[y] = Detached /\ ins[y].bb = b
                    \/ new[y].bb = b /\ ins[y].bb = b
  BY DEF Framed
<1>1. CASE y = s[l]
  BY <1>1 DEF LinkedOut, IsList
<1>2. CASE y # s[l]
  <2>1. /\ new[y].prev = IF y = Entry(s, j) THEN Entry(s, i) ELSE ins[y].prev
        /\ new[y].next = IF y = Entry(s, i) THEN Entry(s, j) ELSE ins[y].next
        /\ new[y].bb = ins[y].bb
    BY <1>2 DEF LinkedOut
  <2>2. y = Entry(s, i) \/ y = Entry(s, j) => ins[y].bb = b
    BY InstrAssumption DEF Entry, IsList
  <2>3. y # Entry(s, i) /\ y # Entry(s, j) => new[y] = ins[y]
    BY <2>1 DEF Heaps
  <2> QED
    BY <2>1, <2>2, <2>3
<1> QED
  BY <1>1, <1>2

LEMMA FramedTwice ==
  ASSUME NEW ins, NEW mid, NEW new, NEW b \in Blocks,
         \A y \in Instrs : ins[y].bb = Null => ins[y] = Detached,
         Framed(ins, mid, b), Framed(mid, new, b)
  PROVE  Framed(ins, new, b)
<1>1. b # Null
  BY InstrAssumption DEF Blocks
<1> QED
  BY <1>1 DEF Framed, Detached

\* A step that turns block b into another list keeps the other lists and the
\* invariant.
LEMMA BlockStep ==
  ASSUME BlockInv, NEW b \in 1..created, NEW h, Becomes(b, h), h.instrs \in Heaps,
         NEW t, NEW m, Holds(h.instrs, h.block, b, t, m), Framed(instrs, h.instrs, b)
  PROVE  /\ BlockInv' /\ ListOf(b)' = t
         /\ \A c \in Blocks : c # b => ListOf(c)' = ListOf(c)
<1>1. b \in Blocks /\ Null \notin Blocks /\ created \in 0..MaxBBs
  BY InstrAssumption DEF BlockInv, TypeOK, Blocks
<1>2. /\ instrs' = h.instrs /\ created' = created /\ status' = status
      /\ blocks' = [blocks EXCEPT ![b] = h.block]
  BY DEF Becomes
<1>3. /\ DOMAIN blocks = Blocks
      /\ blocks'[b] = h.block /\ \A c \in Blocks : c # b => blocks'[c] = blocks[c]
  BY <1>1, <1>2 DEF BlockInv, TypeOK
<1>4. Holds(instrs', blocks'[b], b, t, m)
  BY <1>2, <1>3
<1>5. ASSUME NEW c \in Blocks, c # b
      PROVE  /\ ListOf(c)' = ListOf(c)
             /\ \E k \in 0..Len(ListOf(c)) : Holds(instrs', blocks'[c], c, ListOf(c), k)
  <2>1. PICK k \in 0..Len(ListOf(c)) : Holds(instrs, blocks[c], c, ListOf(c), k)
    BY DEF BlockInv
  <2>2. \A y \in Instrs : /\ instrs'[y].bb = c <=> instrs[y].bb = c
                          /\ instrs[y].bb = c => instrs'[y] = instrs[y]
    BY <1>1, <1>2, <1>5 DEF Framed, Detached
  <2>3. IsList(instrs', c, ListOf(c))
    <3>1. IsList(instrs, c, ListOf(c))
      BY <2>1 DEF Holds
    <3> QED
      BY <2>2, <3>1, ListStays
  <2>4. Holds(instrs', blocks'[c], c, ListOf(c), k)
    BY <1>3, <1>5, <2>1, <2>3 DEF Holds
  <2>5. Chain(instrs', Begin(blocks'[c])) = ListOf(c)
    BY <2>4, ListFound
  <2> QED
    BY <2>4, <2>5 DEF ListOf
<1>6. ListOf(b)' = t
  <2>1. Chain(instrs', Begin(blocks'[b])) = t
    BY <1>4, ListFound
  <2> QED
    BY <2>1 DEF ListOf
<1>7. TypeOK'
  <2>1. h.block \in [firstPhi : Pointer, lastPhi : Pointer,
                     firstInst : Pointer, lastInst : Pointer, size : Nat]
    BY HeldParts DEF Holds
  <2> QED
    BY <1>1, <1>2, <2>1 DEF BlockInv, TypeOK, Heaps
<1>8. \A c \in Blocks : \E k \in 0..Len(ListOf(c)') : Holds(instrs', blocks'[c], c, ListOf(c)', k)
  <2>1. m \in 0..Len(t)
    BY DEF Holds, PhisFirst
  <2> QED
    BY <1>4, <1>5, <1>6, <2>1
<1>9. \A y \in Instrs : /\ instrs'[y].bb = Null => instrs'[y] = Detached
                        /\ instrs'[y].bb \in 1..created \cup {Null}
  <2> TAKE y \in Instrs
  <2>1. /\ instrs[y].bb = Null => instrs[y] = Detached
        /\ instrs[y].bb \in 1..created \cup {Null}
    BY DEF BlockInv
  <2> QED
    BY <1>1, <1>2, <2>1 DEF Framed, Detached
<1>10. BlockInv'
  BY <1>2, <1>7, <1>8, <1>9 DEF BlockInv
<1> QED
  BY <1>5, <1>6, <1>10

-----------------------------------------------------------------------------
(***************************************************************************)
(* Each operation keeps the invariant and is one operation of BlockLists.  *)
(***************************************************************************)

\* The list of a block of the graph, with the facts the operations need.
LEMMA BlockHas ==
  ASSUME BlockInv, NEW b \in Blocks
  PROVE  /\ \E k \in 0..Len(ListOf(b)) : Holds(instrs, blocks[b], b, ListOf(b), k)
         /\ ListOf(b) \in Seq(Instrs) /\ NoRepeat(ListOf(b)) /\ Len(ListOf(b)) \in Nat
         /\ IsList(instrs, b, ListOf(b)) /\ instrs \in Heaps /\ created \in 0..MaxBBs
         /\ 1..created \subseteq Blocks
<1>1. PICK k \in 0..Len(ListOf(b)) : Holds(instrs, blocks[b], b, ListOf(b), k)
  BY DEF BlockInv
<1>2. /\ ListOf(b) \in Seq(Instrs) /\ NoRepeat(ListOf(b)) /\ Len(ListOf(b)) \in Nat
  BY <1>1, HeldParts
<1>3. instrs \in Heaps /\ created \in 0..MaxBBs
  BY DEF BlockInv, TypeOK, Heaps
<1>4. 1..created \subseteq Blocks
  BY <1>3, InstrAssumption DEF Blocks
<1> QED
  BY <1>1, <1>2, <1>3, <1>4 DEF Holds

\* An instruction of no block is in no list.
LEMMA FreshUnlisted ==
  ASSUME BlockInv, NEW x \in Instrs, Fresh(x)
  PROVE  instrs[x] = Detached /\ instrs[x].bb = Null /\ ~Lists!Listed(x)
<1>1. instrs[x] = Detached /\ instrs[x].bb = Null
  BY DEF Fresh, BlockInv
<1>2. ASSUME NEW b \in 1..created, Lists!Contains(ListOf(b), x)
      PROVE  FALSE
  <2>1. b \in Blocks /\ b # Null
    BY <1>2, InstrAssumption DEF BlockInv, TypeOK, Blocks
  <2>2. IsList(instrs, b, ListOf(b))
    BY <2>1, BlockHas
  <2>3. \E i \in 1..Len(ListOf(b)) : ListOf(b)[i] = x
    BY <1>2 DEF Lists!Contains
  <2> QED
    BY <1>1, <2>1, <2>2, <2>3 DEF IsList
<1>3. 1..created \subseteq Blocks
  BY InstrAssumption DEF BlockInv, TypeOK, Blocks
<1>4. \A b \in 1..created : [c \in Blocks |-> ListOf(c)][b] = ListOf(b)
  BY <1>3
<1> QED
  BY <1>1, <1>2, <1>4 DEF Lists!Listed

\* The lists after a step that changes one.
LEMMA ListsStep ==
  ASSUME NEW b \in Blocks, NEW t, ListOf(b)' = t,
         \A c \in Blocks : c # b => ListOf(c)' = ListOf(c)
  PROVE  [c \in Blocks |-> ListOf(c)]' = [[c \in Blocks |-> ListOf(c)] EXCEPT ![b] = t]
OBVIOUS

\* A push, where the code's callers make it.
LEMMA PushStep ==
  ASSUME BlockInv, NEW b \in 1..created, NEW x \in Instrs, Fresh(x), NEW back \in BOOLEAN,
         Running, Becomes(b, PushInstruction(instrs, b, blocks[b], x, back)),
         x \in Phis \/ back \/ blocks[b].firstPhi = Null \/ blocks[b].firstInst = Null
  PROVE  BlockInv' /\ Lists!Next
<1> DEFINE s == ListOf(b)
           h == PushInstruction(instrs, b, blocks[b], x, back)
<1>1. b \in Blocks
  BY InstrAssumption DEF BlockInv, TypeOK, Blocks
<1>2. PICK k \in 0..Len(s) : Holds(instrs, blocks[b], b, s, k)
  BY <1>1, BlockHas
<1>3. /\ s \in Seq(Instrs) /\ NoRepeat(s) /\ Len(s) \in Nat /\ k \in Nat /\ k <= Len(s)
      /\ \A j \in 1..Len(s) : s[j] \in Instrs /\ s[j] # Null
      /\ IsList(instrs, b, s) /\ PhisFirst(s, k) /\ blocks[b] = Ends(s, k)
      /\ instrs \in Heaps
  BY <1>1, <1>2, HeldParts, BlockHas DEF Holds
<1>4. instrs[x] = Detached /\ instrs[x].bb = Null /\ ~Lists!Listed(x)
  BY FreshUnlisted
<1>5. x \in Phis \/ back \/ k = 0 \/ k = Len(s)
  <2>1. blocks[b].firstPhi = Null => k = 0
    <3>1. k # 0 => 1 \in 1..Len(s)
      BY <1>3
    <3> QED
      BY <1>3, <3>1, EndsOf
  <2>2. blocks[b].firstInst = Null => k = Len(s)
    <3>1. k # Len(s) => k + 1 \in 1..Len(s)
      <4>1. Len(s) \in Nat /\ k \in Nat /\ k <= Len(s)
        BY <1>3
      <4> HIDE DEF s
      <4> QED
        BY <4>1
    <3> QED
      BY <1>3, <3>1, EndsOf
  <2> QED
    BY <2>1, <2>2
<1> DEFINE i == PushPlace(s, k, x, back)
           m == IF x \in Phis THEN k + 1 ELSE k
           t == Insertion(s, i, x)
<1>6. /\ h.instrs \in Heaps /\ i \in 1..Len(s) + 1
      /\ LinkedIn(instrs, h.instrs, b, Entry(s, i - 1), x, Entry(s, i))
      /\ Holds(h.instrs, h.block, b, t, m)
  <2> HIDE DEF s
  <2> QED
    BY <1>1, <1>2, <1>3, <1>4, <1>5, Pushed
<1>7. \/ x \in Phis /\ i = 1
      \/ x \in Regulars /\ i = Len(s) + 1
      \/ x \in Regulars /\ \A j \in 1..Len(s) : s[j] \in Phis <=> j < i
  <2>1. CASE x \in Phis
    BY <2>1 DEF PushPlace
  <2>2. CASE x \notin Phis /\ i = Len(s) + 1
    BY <2>2 DEF Instrs
  <2>3. CASE x \notin Phis /\ i # Len(s) + 1
    <3>1. i = 1 /\ k = 0
      BY <1>5, <1>3, <2>3 DEF PushPlace
    <3>2. \A j \in 1..Len(s) : ~(j < 1) /\ ~(j <= 0)
      OBVIOUS
    <3>3. \A j \in 1..Len(s) : s[j] \in Phis <=> j < i
      BY <1>3, <3>1, <3>2 DEF PhisFirst
    <3> QED
      BY <2>3, <3>3 DEF Instrs
  <2> QED
    BY <2>1, <2>2, <2>3
<1> HIDE DEF i, m, h
<1>8. Framed(instrs, h.instrs, b)
  <2>1. i - 1 \in Int /\ i \in Int
    BY <1>6
  <2> HIDE DEF s
  <2> QED
    BY <1>1, <1>3, <1>4, <1>6, <2>1, LinkedInFramed
<1>9. Becomes(b, h)
  BY DEF h
<1>10. /\ BlockInv' /\ ListOf(b)' = t
       /\ \A c \in Blocks : c # b => ListOf(c)' = ListOf(c)
  <2> HIDE DEF t, s
  <2> QED
    BY <1>6, <1>8, <1>9, BlockStep
<1>11. Lists!InsertAt(s, i, x) = t
  <2> HIDE DEF s
  <2> QED
    BY <1>3, <1>6, InsertAtIs
<1>12. Lists!Insert(b, i, x)
  <2>1. [c \in Blocks |-> ListOf(c)]' = [[c \in Blocks |-> ListOf(c)] EXCEPT ![b] = t]
    <3> HIDE DEF t
    <3> QED
      BY <1>1, <1>10, ListsStep
  <2>2. [c \in Blocks |-> ListOf(c)][b] = s
    BY <1>1
  <2>3. DOMAIN s = 1..Len(s)
    <3> HIDE DEF s
    <3> QED
      BY <1>3, LenProperties
  <2>4. UNCHANGED <<created, status>>
    BY DEF Becomes
  <2> HIDE DEF s, t
  <2> QED
    BY <1>4, <1>7, <1>11, <2>1, <2>2, <2>3, <2>4 DEF Lists!Insert
<1>13. Lists!Next
  <2>1. [c \in Blocks |-> ListOf(c)][b] = s
    BY <1>1
  <2>2. x \in Lists!Instrs /\ status = "running"
    BY DEF Lists!Instrs, Instrs, Running
  <2> HIDE DEF s
  <2> QED
    BY <1>6, <1>12, <2>1, <2>2 DEF Lists!Next
<1> QED
  BY <1>10, <1>13

\* SetInstructionAsDead takes the instruction out of its list.
LEMMA RemoveStep ==
  ASSUME BlockInv, NEW x \in Instrs, SetInstructionAsDead(x)
  PROVE  BlockInv' /\ Lists!Next
<1>1. PICK b \in 1..created : instrs[x].bb = b
  BY DEF SetInstructionAsDead, BlockInv
<1> DEFINE s == ListOf(b)
           h == Removed(instrs, blocks[b], x)
<1>2. b \in Blocks /\ Running /\ Becomes(b, h)
  <2>1. b \in Blocks
    BY <1>1, InstrAssumption DEF BlockInv, TypeOK, Blocks
  <2> QED
    BY <1>1, <2>1 DEF SetInstructionAsDead
<1>3. PICK k \in 0..Len(s) : Holds(instrs, blocks[b], b, s, k)
  BY <1>2, BlockHas
<1>4. /\ s \in Seq(Instrs) /\ NoRepeat(s) /\ Len(s) \in Nat
      /\ IsList(instrs, b, s) /\ instrs \in Heaps
  BY <1>2, BlockHas
<1>5. PICK i \in 1..Len(s) : s[i] = x
  <2> HIDE DEF s
  <2> QED
    BY <1>1, <1>4 DEF IsList
<1> DEFINE m == IF i <= k THEN k - 1 ELSE k
           t == Removal(s, i)
<1>6. /\ h.instrs \in Heaps
      /\ LinkedOut(instrs, h.instrs, Entry(s, i - 1), s[i], Entry(s, i + 1))
      /\ Holds(h.instrs, h.block, b, t, m)
  <2> HIDE DEF s
  <2> QED
    BY <1>2, <1>3, <1>4, <1>5, Unlinked
<1> HIDE DEF h, m
<1>7. Framed(instrs, h.instrs, b)
  <2>1. i - 1 \in Int /\ i + 1 \in Int
    OBVIOUS
  <2> HIDE DEF s
  <2> QED
    BY <1>2, <1>4, <1>6, <2>1, LinkedOutFramed
<1>8. /\ BlockInv' /\ ListOf(b)' = t
      /\ \A c \in Blocks : c # b => ListOf(c)' = ListOf(c)
  <2> HIDE DEF t, s
  <2> QED
    BY <1>2, <1>6, <1>7, BlockStep
<1>9. Lists!RemoveAt(s, i) = t
  <2> HIDE DEF s
  <2> QED
    BY <1>4, RemoveAtIs
<1>10. [c \in Blocks |-> ListOf(c)][b] = s
  BY <1>2
<1>11. Lists!Delete(b, i)
  <2>1. [c \in Blocks |-> ListOf(c)]' = [[c \in Blocks |-> ListOf(c)] EXCEPT ![b] = t]
    <3> HIDE DEF t
    <3> QED
      BY <1>2, <1>8, ListsStep
  <2>2. UNCHANGED <<created, status>>
    BY <1>2 DEF Becomes
  <2> HIDE DEF s, t
  <2> QED
    BY <1>9, <1>10, <2>1, <2>2 DEF Lists!Delete
<1>12. Lists!Next
  <2>1. status = "running"
    BY <1>2 DEF Running
  <2> HIDE DEF s
  <2> QED
    BY <1>10, <1>11, <2>1 DEF Lists!Next
<1> QED
  BY <1>8, <1>12

\* ReplaceInControlFlow puts the new instruction where the lone one was.
LEMMA ReplaceStep ==
  ASSUME BlockInv, NEW x \in Regulars, NEW new \in Regulars, ReplaceInControlFlow(x, new)
  PROVE  BlockInv' /\ Lists!Next
<1>1. x \in Instrs /\ new \in Instrs /\ x \notin Phis /\ new \notin Phis
  BY InstrAssumption DEF Instrs
<1>2. PICK b \in 1..created : instrs[x].bb = b
  BY <1>1 DEF ReplaceInControlFlow, BlockInv
<1> DEFINE s == ListOf(b)
           g == PushInstruction(instrs, b, blocks[b], new, FALSE)
           h == Removed(g.instrs, g.block, x)
<1>3. /\ b \in Blocks /\ Running /\ Becomes(b, h) /\ Fresh(new)
      /\ instrs[x].prev = Null /\ instrs[x].next = Null
  <2>1. b \in Blocks
    BY <1>2, InstrAssumption DEF BlockInv, TypeOK, Blocks
  <2> QED
    BY <1>2, <2>1 DEF ReplaceInControlFlow
<1>4. PICK k \in 0..Len(s) : Holds(instrs, blocks[b], b, s, k)
  BY <1>3, BlockHas
<1>5. /\ s \in Seq(Instrs) /\ NoRepeat(s) /\ Len(s) \in Nat
      /\ IsList(instrs, b, s) /\ instrs \in Heaps
  BY <1>3, BlockHas
<1>6. /\ \A j \in 1..Len(s) : s[j] \in Instrs /\ s[j] # Null
      /\ PhisFirst(s, k)
  BY <1>4, HeldParts DEF Holds
<1>7. instrs[new] = Detached /\ instrs[new].bb = Null /\ ~Lists!Listed(new)
  BY <1>1, <1>3, FreshUnlisted
<1>8. Len(s) = 1 /\ s[1] = x /\ k = 0
  <2> HIDE DEF s
  <2>1. PICK i \in 1..Len(s) : s[i] = x
    BY <1>1, <1>2, <1>5 DEF IsList
  <2>2. Entry(s, i - 1) = Null /\ Entry(s, i + 1) = Null
    BY <1>3, <1>5, <2>1 DEF IsList
  <2>3. i - 1 \notin 1..Len(s) /\ i + 1 \notin 1..Len(s)
    BY <1>6, <2>2 DEF Entry
  <2>4. i = 1 /\ Len(s) = 1
    <3> DEFINE n == Len(s)
    <3>1. n \in Nat /\ i \in 1..n /\ i - 1 \notin 1..n /\ i + 1 \notin 1..n
      BY <1>5, <2>3
    <3> HIDE DEF n
    <3>2. i = 1 /\ n = 1
      BY <3>1
    <3> QED
      BY <3>2 DEF n
  <2>5. ~(1 <= k)
    BY <1>1, <1>6, <2>1, <2>4 DEF PhisFirst
  <2> QED
    BY <1>5, <2>1, <2>4, <2>5
<1> DEFINE mid == Insertion(s, 1, new)
           t == Removal(mid, 2)
<1>9. /\ g.instrs \in Heaps
      /\ LinkedIn(instrs, g.instrs, b, Entry(s, 0), new, Entry(s, 1))
      /\ Holds(g.instrs, g.block, b, mid, 0)
  <2>1. PushPlace(s, k, new, FALSE) = 1 /\ FALSE \in BOOLEAN
    BY <1>1, <1>8 DEF PushPlace
  <2> HIDE DEF s
  <2>2. /\ g.instrs \in Heaps
        /\ LinkedIn(instrs, g.instrs, b, Entry(s, 1 - 1), new, Entry(s, 1))
        /\ Holds(g.instrs, g.block, b, mid, IF new \in Phis THEN k + 1 ELSE k)
    BY <1>1, <1>3, <1>4, <1>5, <1>7, <1>8, <2>1, Pushed
  <2> HIDE DEF g, mid
  <2> QED
    BY <1>1, <1>8, <2>2
<1> HIDE DEF g
<1>10. /\ mid \in Seq(Instrs) /\ Len(mid) = 2 /\ mid[1] = new /\ mid[2] = x
  <2> HIDE DEF s
  <2>1. 1 \in 1..Len(s) + 1
    <3>1. 1 \in 1..1 + 1
      OBVIOUS
    <3> QED
      BY <1>8, <3>1
  <2>2. /\ mid \in Seq(Instrs) /\ Len(mid) = Len(s) + 1
        /\ \A j \in 1..Len(s) + 1 : mid[j] = IF j < 1 THEN s[j] ELSE IF j = 1 THEN new ELSE s[j - 1]
    <3>1. PICK o \in 1..Len(s) + 1 : o = 1
      BY <2>1
    <3>2. mid = Insertion(s, o, new)
      BY <3>1
    <3> HIDE DEF mid
    <3>3. /\ Insertion(s, o, new) \in Seq(Instrs) /\ Len(Insertion(s, o, new)) = Len(s) + 1
          /\ \A j \in 1..Len(s) + 1 : Insertion(s, o, new)[j] =
               IF j < o THEN s[j] ELSE IF j = o THEN new ELSE s[j - 1]
      <4>1. s \in Seq(Instrs) /\ new \in Instrs
        BY <1>1, <1>5
      <4> QED
        BY <4>1, InsertionParts
    <3> QED
      BY <3>1, <3>2, <3>3
  <2> HIDE DEF mid
  <2>3. Len(s) + 1 = 2 /\ 1 \in 1..2 /\ 2 \in 1..2 /\ 2 - 1 = 1
    BY <1>8
  <2> QED
    BY <1>8, <2>2, <2>3
<1> HIDE DEF mid
<1>11. /\ h.instrs \in Heaps
       /\ LinkedOut(g.instrs, h.instrs, Entry(mid, 1), mid[2], Entry(mid, 3))
       /\ Holds(h.instrs, h.block, b, t, 0)
  <2>1. 2 \in 1..Len(mid) /\ ~(2 <= 0)
    BY <1>10
  <2>2. LET r == Removed(g.instrs, g.block, mid[2])
        IN /\ r.instrs \in Heaps
           /\ LinkedOut(g.instrs, r.instrs, Entry(mid, 2 - 1), mid[2], Entry(mid, 2 + 1))
           /\ Holds(r.instrs, r.block, b, t, IF 2 <= 0 THEN 0 - 1 ELSE 0)
    BY <1>3, <1>9, <2>1, Unlinked
  <2> HIDE DEF t
  <2> QED
    BY <1>10, <2>1, <2>2
<1> HIDE DEF h
<1>12. Framed(instrs, h.instrs, b)
  <2>1. Framed(instrs, g.instrs, b)
    <3> HIDE DEF s
    <3>1. 0 \in Int /\ 1 \in Int
      OBVIOUS
    <3> QED
      BY <1>1, <1>3, <1>5, <1>7, <1>9, <3>1, LinkedInFramed
  <2>2. Framed(g.instrs, h.instrs, b)
    <3>1. IsList(g.instrs, b, mid) /\ 2 \in 1..Len(mid) /\ 1 \in Int /\ 3 \in Int
      BY <1>9, <1>10 DEF Holds
    <3> QED
      BY <1>3, <1>9, <1>11, <3>1, LinkedOutFramed
  <2>3. \A y \in Instrs : instrs[y].bb = Null => instrs[y] = Detached
    BY DEF BlockInv
  <2> QED
    BY <1>3, <2>1, <2>2, <2>3, FramedTwice
<1>13. /\ BlockInv' /\ ListOf(b)' = t
       /\ \A c \in Blocks : c # b => ListOf(c)' = ListOf(c)
  <2>1. Becomes(b, h)
    BY <1>3
  <2> HIDE DEF t, s
  <2> QED
    BY <1>11, <1>12, <2>1, BlockStep
<1>14. Lists!ReplaceAt(s, 1, new) = t
  <2> DEFINE r == [s EXCEPT ![1] = new]
  <2> HIDE DEF s
  <2>1. r \in Seq(Instrs) /\ Len(r) = 1 /\ r[1] = new
    <3>1. s \in [1..1 -> Instrs]
      BY <1>5, <1>8, LenProperties
    <3>2. r \in [1..1 -> Instrs] /\ r[1] = new
      BY <1>1, <3>1
    <3> HIDE DEF r
    <3>3. ASSUME NEW n \in Nat, NEW f \in [1..n -> Instrs]
          PROVE  f \in Seq(Instrs) /\ Len(f) = n
      OBVIOUS
    <3>4. 1 \in Nat
      OBVIOUS
    <3> QED
      BY <3>2, <3>3, <3>4
  <2>2. t \in Seq(Instrs) /\ Len(t) = 1 /\ t[1] = new
    <3>1. 2 \in 1..Len(mid) /\ Len(mid) - 1 = 1 /\ 1 \in 1..1 /\ 1 < 2
      BY <1>10
    <3>2. /\ t \in Seq(Instrs) /\ Len(t) = Len(mid) - 1
          /\ \A j \in 1..Len(mid) - 1 : t[j] = IF j < 2 THEN mid[j] ELSE mid[j + 1]
      BY <1>10, <3>1, RemovalParts
    <3> HIDE DEF t
    <3> QED
      BY <1>10, <3>1, <3>2
  <2> HIDE DEF r, t
  <2>3. \A j \in 1..Len(r) : r[j] = t[j]
    BY <2>1, <2>2
  <2>4. r = t
    BY <2>1, <2>2, <2>3, SeqEqual
  <2> QED
    BY <2>4 DEF Lists!ReplaceAt, r
<1>15. [c \in Blocks |-> ListOf(c)][b] = s
  BY <1>3
<1>16. Lists!Replace(b, 1, new)
  <2>1. [c \in Blocks |-> ListOf(c)]' = [[c \in Blocks |-> ListOf(c)] EXCEPT ![b] = t]
    <3> HIDE DEF t
    <3> QED
      BY <1>3, <1>13, ListsStep
  <2>2. UNCHANGED <<created, status>>
    BY <1>3 DEF Becomes
  <2> HIDE DEF s, t
  <2> QED
    BY <1>7, <1>14, <1>15, <2>1, <2>2 DEF Lists!Replace
<1>17. Lists!Next
  <2>1. status = "running" /\ new \in Lists!Instrs
    BY <1>1, <1>3 DEF Running, Lists!Instrs, Instrs
  <2>2. 1 \in 1..Len(s)
    BY <1>8
  <2> HIDE DEF s
  <2> QED
    BY <1>2, <1>15, <1>16, <2>1, <2>2 DEF Lists!Next
<1> QED
  BY <1>13, <1>17

\* The three assignments of a split: the end of the first part among the
\* phis, and the new block with phis or without.
PutHead(r, x) == [r EXCEPT !.lastPhi = x, !.firstInst = Null, !.lastInst = Null]
PutTail(r, x, n) == [r EXCEPT !.firstPhi = x, !.size = n]
PutRest(r, x, y, n) == [r EXCEPT !.firstInst = x, !.lastInst = y, !.size = n]

LEMMA FieldsPutHead ==
  ASSUME NEW fp, NEW lp, NEW fi, NEW li, NEW n, NEW r, r = Fields(fp, lp, fi, li, n), NEW x
  PROVE  PutHead(r, x) = Fields(fp, x, Null, Null, n)
<1> DEFINE V == {fp, lp, fi, li, n, x, Null}
           head == PutHead(r, x)
<1>1. fp \in V /\ lp \in V /\ fi \in V /\ li \in V /\ n \in V /\ x \in V /\ Null \in V
  OBVIOUS
<1> HIDE DEF V
<1>2. r \in [firstPhi : V, lastPhi : V, firstInst : V, lastInst : V, size : V]
  BY <1>1 DEF Fields
<1>3. head \in [firstPhi : V, lastPhi : V, firstInst : V, lastInst : V, size : V]
  BY <1>1, <1>2 DEF PutHead
<1>4. /\ head.firstPhi = fp /\ head.lastPhi = x
      /\ head.firstInst = Null /\ head.lastInst = Null /\ head.size = n
  BY <1>2 DEF Fields, PutHead
<1> HIDE DEF head
<1>5. head = Fields(fp, x, Null, Null, n)
  BY <1>3, <1>4 DEF Fields
<1> QED
  BY <1>5 DEF head

LEMMA FieldsPutTail ==
  ASSUME NEW fp, NEW lp, NEW fi, NEW li, NEW n, NEW r, r = Fields(fp, lp, fi, li, n),
         NEW x, NEW z
  PROVE  PutTail(r, x, z) = Fields(x, lp, fi, li, z)
<1> DEFINE V == {fp, lp, fi, li, n, x, z}
           tail == PutTail(r, x, z)
<1>1. fp \in V /\ lp \in V /\ fi \in V /\ li \in V /\ n \in V /\ x \in V /\ z \in V
  OBVIOUS
<1> HIDE DEF V
<1>2. r \in [firstPhi : V, lastPhi : V, firstInst : V, lastInst : V, size : V]
  BY <1>1 DEF Fields
<1>3. tail \in [firstPhi : V, lastPhi : V, firstInst : V, lastInst : V, size : V]
  BY <1>1, <1>2 DEF PutTail
<1>4. /\ tail.firstPhi = x /\ tail.lastPhi = lp
      /\ tail.firstInst = fi /\ tail.lastInst = li /\ tail.size = z
  BY <1>2 DEF Fields, PutTail
<1> HIDE DEF tail
<1>5. tail = Fields(x, lp, fi, li, z)
  BY <1>3, <1>4 DEF Fields
<1> QED
  BY <1>5 DEF tail

LEMMA FieldsPutRest ==
  ASSUME NEW fp, NEW lp, NEW fi, NEW li, NEW n, NEW r, r = Fields(fp, lp, fi, li, n),
         NEW x, NEW y, NEW z
  PROVE  PutRest(r, x, y, z) = Fields(fp, lp, x, y, z)
<1> DEFINE V == {fp, lp, fi, li, n, x, y, z}
           rest == PutRest(r, x, y, z)
<1>1. /\ fp \in V /\ lp \in V /\ fi \in V /\ li \in V /\ n \in V
      /\ x \in V /\ y \in V /\ z \in V
  OBVIOUS
<1> HIDE DEF V
<1>2. r \in [firstPhi : V, lastPhi : V, firstInst : V, lastInst : V, size : V]
  BY <1>1 DEF Fields
<1>3. rest \in [firstPhi : V, lastPhi : V, firstInst : V, lastInst : V, size : V]
  BY <1>1, <1>2 DEF PutRest
<1>4. /\ rest.firstPhi = fp /\ rest.lastPhi = lp
      /\ rest.firstInst = x /\ rest.lastInst = y /\ rest.size = z
  BY <1>2 DEF Fields, PutRest
<1> HIDE DEF rest
<1>5. rest = Fields(fp, lp, x, y, z)
  BY <1>3, <1>4 DEF Fields
<1> QED
  BY <1>5 DEF rest

\* The fields of both blocks after a split that moves n entries.
PhiHead(old, x, n) == PutHead(PutSize(old, old.size - n), x)
InstHead(old, x, n) == PutLastInst(PutSize(old, old.size - n), x)
InstRest(old, y, n) == PutRest(EmptyBB, y, old.lastInst, n)

LEMMA HeadFields ==
  ASSUME NEW fp, NEW lp, NEW fi, NEW li, NEW m, NEW old, old = Fields(fp, lp, fi, li, m),
         NEW x, NEW n
  PROVE  /\ PhiHead(old, x, n) = Fields(fp, x, Null, Null, m - n)
         /\ InstHead(old, x, n) = Fields(fp, lp, fi, x, m - n)
<1> DEFINE sizes == PutSize(old, m - n)
<1>1. old.size = m
  BY FieldsOf
<1>2. sizes = Fields(fp, lp, fi, li, m - n)
  BY FieldsPut
<1> HIDE DEF sizes
<1>3. PutHead(sizes, x) = Fields(fp, x, Null, Null, m - n)
  BY <1>2, FieldsPutHead
<1>4. PutLastInst(sizes, x) = Fields(fp, lp, fi, x, m - n)
  BY <1>2, FieldsPut
<1> QED
  BY <1>1, <1>3, <1>4 DEF PhiHead, InstHead, sizes

LEMMA RestFields ==
  ASSUME NEW fp, NEW lp, NEW fi, NEW li, NEW m, NEW old, old = Fields(fp, lp, fi, li, m),
         NEW y, NEW n
  PROVE  /\ PutTail(old, y, n) = Fields(y, lp, fi, li, n)
         /\ InstRest(old, y, n) = Fields(Null, Null, y, li, n)
<1>1. old.lastInst = li
  BY FieldsOf
<1>2. PutTail(old, y, n) = Fields(y, lp, fi, li, n)
  BY FieldsPutTail
<1>3. EmptyBB = Fields(Null, Null, Null, Null, 0)
  BY DEF EmptyBB, Fields
<1>4. PutRest(EmptyBB, y, li, n) = Fields(Null, Null, y, li, n)
  BY <1>3, FieldsPutRest
<1> QED
  BY <1>1, <1>2, <1>4 DEF InstRest

\* The iterator from the instruction after a cut visits the second part.
LEMMA TailIs ==
  ASSUME NEW ins, NEW b, NEW s, IsList(ins, b, s), NEW i \in 1..Len(s) - 1
  PROVE  /\ ins[s[i]].next = s[i + 1] /\ s[i] \in Instrs /\ s[i + 1] \in Instrs
         /\ Chain(ins, s[i + 1]) = SubSeq(s, i + 1, Len(s))
<1> DEFINE v == SubSeq(s, i + 1, Len(s))
<1>1. /\ s \in Seq(Instrs) /\ NoRepeat(s) /\ Len(s) \in Nat /\ i \in Nat \ {0} /\ i < Len(s)
      /\ \A j \in 1..Len(s) : s[j] \in Instrs
  BY LenProperties, ElementOfSeq DEF IsList
<1>2. /\ v \in Seq(Instrs) /\ Len(v) = Len(s) - i /\ NoRepeat(v)
      /\ \A j \in 1..Len(s) - i : i + j \in 1..Len(s) /\ v[j] = s[i + j]
  BY <1>1, CutParts
<1> HIDE DEF v
<1>3. i \in 1..Len(s) /\ i + 1 \in 1..Len(s) /\ 1 \in 1..Len(s) - i
  BY <1>1
<1>4. ins[s[i]].next = s[i + 1]
  BY <1>3 DEF IsList, Entry
<1>5. s[i + 1] = Entry(v, 1)
  BY <1>2, <1>3 DEF Entry
<1>6. ASSUME NEW j \in 1..Len(v)
      PROVE  ins[v[j]].next = Entry(v, j + 1)
  <2>1. j \in 1..Len(s) - i /\ i + j \in 1..Len(s) /\ v[j] = s[i + j]
    BY <1>2
  <2>2. ins[v[j]].next = Entry(s, (i + j) + 1)
    BY <2>1 DEF IsList
  <2>3. (i + j) + 1 = i + (j + 1)
    BY <1>1, <2>1
  <2>4. j + 1 \in 1..Len(v) <=> i + (j + 1) \in 1..Len(s)
    <3>1. Len(v) = Len(s) - i /\ j \in 1..Len(s) - i /\ Len(s) \in Nat /\ i \in Nat
      BY <1>1, <1>2, <2>1
    <3> QED
      BY <3>1
  <2>5. j + 1 \in 1..Len(v) => v[j + 1] = s[i + (j + 1)]
    BY <1>2
  <2> QED
    BY <2>2, <2>3, <2>4, <2>5 DEF Entry
<1>7. Follows(ins, s[i + 1], v)
  BY <1>2, <1>5, <1>6 DEF Follows
<1> QED
  BY <1>1, <1>3, <1>4, <1>7, ChainIs DEF v

\* The fields of block b and of the new one, after a split behind entry i.
SplitBlocks(old, s, i, one, two) ==
  IF s[i + 1] \in Phis
  THEN one = PhiHead(old, s[i], Len(s) - i) /\ two = PutTail(old, s[i + 1], Len(s) - i)
  ELSE one = InstHead(old, s[i], Len(s) - i) /\ two = InstRest(old, s[i + 1], Len(s) - i)

\* SplitAfterInstruction as an action on the list of the block.
SplitAt(b, s, k, i) ==
  /\ Running /\ created < MaxBBs /\ created' = created + 1 /\ status' = status
  /\ i \in 1..Len(s) - 1 /\ i # k /\ i + 1 \in 1..Len(s)
  /\ instrs' \in Heaps /\ Cut(instrs, instrs', created + 1, s, i)
  /\ SplitBlocks(blocks[b], s, i, blocks'[b], blocks'[created + 1])
  /\ \A c \in Blocks : c # b /\ c # created + 1 => blocks'[c] = blocks[c]
  /\ blocks' = [c \in Blocks |-> blocks'[c]]

LEMMA SplitIs ==
  ASSUME BlockInv, ~AtPhiBoundary, NEW x \in Instrs, SplitAfterInstruction(x),
         NEW b \in 1..created, instrs[x].bb = b, NEW s, s = ListOf(b),
         NEW k, Holds(instrs, blocks[b], b, s, k), NEW i \in 1..Len(s), s[i] = x
  PROVE  SplitAt(b, s, k, i)
<1> DEFINE v == SubSeq(s, i + 1, Len(s))
           n == s[i + 1]
<1>1. /\ Running /\ created < MaxBBs /\ created' = created + 1 /\ status' = status
      /\ instrs[x].next # Null
  BY DEF SplitAfterInstruction
<1>2. /\ s \in Seq(Instrs) /\ NoRepeat(s) /\ Len(s) \in Nat /\ IsList(instrs, b, s)
      /\ PhisFirst(s, k) /\ \A j \in 1..Len(s) : s[j] \in Instrs /\ s[j] # Null
  BY HeldParts DEF Holds
<1>3. i \in 1..Len(s) - 1 /\ i + 1 \in 1..Len(s)
  <2>1. i + 1 \in 1..Len(s)
    BY <1>1, <1>2 DEF IsList, Entry
  <2>2. Len(s) \in Nat /\ i \in 1..Len(s)
    BY <1>2
  <2> QED
    BY <2>1, <2>2
<1>4. instrs[x].next = n /\ n \in Instrs /\ Chain(instrs, n) = v
  BY <1>2, <1>3, TailIs, SMTT(30)
<1>5. /\ v \in Seq(Instrs) /\ Len(v) = Len(s) - i
      /\ \A j \in 1..Len(s) - i : i + j \in 1..Len(s) /\ v[j] = s[i + j]
  BY <1>2, <1>3, CutParts
<1> HIDE DEF v
<1>6. DOMAIN v = 1..Len(s) - i
  BY <1>5, LenProperties
<1>7. \A y : y \in {v[j] : j \in DOMAIN v} <=> \E j \in i + 1..Len(s) : y = s[j]
  <2>1. Len(s) \in Nat /\ i \in Nat
    BY <1>2
  <2> TAKE y
  <2>2. ASSUME NEW j \in i + 1..Len(s), y = s[j]
        PROVE  y \in {v[l] : l \in DOMAIN v}
    <3>1. j - i \in 1..Len(s) - i /\ i + (j - i) = j
      BY <2>1
    <3> QED
      BY <1>5, <1>6, <2>2, <3>1
  <2>3. ASSUME NEW j \in DOMAIN v, y = v[j]
        PROVE  \E l \in i + 1..Len(s) : y = s[l]
    <3>1. i + j \in i + 1..Len(s) /\ v[j] = s[i + j]
      <4>1. j \in 1..Len(s) - i
        BY <1>6
      <4>2. i + j \in i + 1..Len(s)
        BY <2>1, <4>1
      <4> QED
        BY <1>5, <4>1, <4>2
    <3> QED
      BY <2>3, <3>1
  <2> QED
    BY <2>2, <2>3
<1>8. instrs' = [y \in Instrs |->
        [prev |-> IF y = n THEN Null ELSE instrs[y].prev,
         next |-> IF y = x THEN Null ELSE instrs[y].next,
         bb |-> IF y \in {v[j] : j \in DOMAIN v} THEN created + 1 ELSE instrs[y].bb]]
  BY <1>1, <1>4 DEF SplitAfterInstruction
<1>9. instrs' \in Heaps /\ Cut(instrs, instrs', created + 1, s, i)
  <2>1. created + 1 \in Blocks
    BY <1>1, InstrAssumption DEF BlockInv, TypeOK, Blocks
  <2>2. instrs \in Heaps
    BY DEF BlockInv, TypeOK, Heaps
  <2>3. instrs' \in Heaps
    <3>1. \A y \in Instrs : instrs[y].prev \in Pointer /\ instrs[y].next \in Pointer
                             /\ instrs[y].bb \in Blocks \cup {Null}
      BY <2>2 DEF Heaps
    <3>2. Null \in Pointer
      BY DEF Pointer
    <3> HIDE DEF v, n
    <3>3. \A y \in Instrs : instrs'[y] \in [prev : Pointer, next : Pointer, bb : Blocks \cup {Null}]
      BY <1>8, <2>1, <3>1, <3>2
    <3> QED
      BY <1>8, <3>3 DEF Heaps
  <2>4. ASSUME NEW y \in Instrs
        PROVE  /\ instrs'[y].prev = IF y = s[i + 1] THEN Null ELSE instrs[y].prev
               /\ instrs'[y].next = IF y = s[i] THEN Null ELSE instrs[y].next
               /\ instrs'[y].bb = IF \E j \in i + 1..Len(s) : y = s[j]
                                  THEN created + 1 ELSE instrs[y].bb
    <3> DEFINE V == {v[j] : j \in DOMAIN v}
    <3>1. y \in V <=> \E j \in i + 1..Len(s) : y = s[j]
      BY <1>7
    <3> HIDE DEF V
    <3>2. instrs'[y] = [prev |-> IF y = n THEN Null ELSE instrs[y].prev,
                        next |-> IF y = x THEN Null ELSE instrs[y].next,
                        bb |-> IF y \in V THEN created + 1 ELSE instrs[y].bb]
      BY <1>8 DEF V
    <3> QED
      BY <3>1, <3>2
  <2> QED
    BY <2>3, <2>4 DEF Cut
<1>10. i # k
  <2>1. SUFFICES ASSUME i = k
                 PROVE  FALSE
    OBVIOUS
  <2>2. x \in Phis /\ n \notin Phis
    <3>1. i <= k /\ ~(i + 1 <= k)
      BY <2>1
    <3> QED
      BY <1>2, <1>3, <3>1 DEF PhisFirst
  <2>3. n \in Regulars
    BY <1>4, <2>2 DEF Instrs
  <2> QED
    BY <1>4, <2>2, <2>3 DEF SplitAfterInstruction
<1>11. blocks' =
         IF n \in Phis
         THEN [blocks EXCEPT ![b] = PhiHead(blocks[b], x, Len(v)),
                             ![created + 1] = PutTail(blocks[b], n, Len(v))]
         ELSE [blocks EXCEPT ![b] = InstHead(blocks[b], x, Len(v)),
                             ![created + 1] = InstRest(blocks[b], n, Len(v))]
  BY <1>1, <1>4 DEF SplitAfterInstruction, PhiHead, PutTail, InstHead, InstRest,
                    PutHead, PutSize, PutLastInst, PutRest
<1>12. /\ DOMAIN blocks = Blocks /\ b \in Blocks /\ created + 1 \in Blocks /\ b # created + 1
  BY <1>1, InstrAssumption DEF BlockInv, TypeOK, Blocks
<1> HIDE DEF n
<1>13. /\ \A c \in Blocks : c # b /\ c # created + 1 => blocks'[c] = blocks[c]
       /\ IF n \in Phis
          THEN /\ blocks'[b] = PhiHead(blocks[b], x, Len(v))
               /\ blocks'[created + 1] = PutTail(blocks[b], n, Len(v))
          ELSE /\ blocks'[b] = InstHead(blocks[b], x, Len(v))
               /\ blocks'[created + 1] = InstRest(blocks[b], n, Len(v))
  BY <1>11, <1>12
<1>14. SplitBlocks(blocks[b], s, i, blocks'[b], blocks'[created + 1])
  BY <1>5, <1>13 DEF SplitBlocks, n
<1>15. blocks' = [c \in Blocks |-> blocks'[c]]
  BY <1>11, <1>12
<1> QED
  BY <1>1, <1>3, <1>9, <1>10, <1>13, <1>14, <1>15 DEF SplitAt

\* After a cut each of the two blocks holds its part of the list.
LEMMA SplitHeld ==
  ASSUME NEW ins \in Heaps, NEW new \in Heaps, NEW b \in Blocks, NEW d \in Blocks, b # d,
         NEW old, NEW s, NEW k, Holds(ins, old, b, s, k),
         \A y \in Instrs : ins[y].bb # d,
         NEW i \in 1..Len(s) - 1, i # k, Cut(ins, new, d, s, i),
         NEW one, NEW two, SplitBlocks(old, s, i, one, two)
  PROVE  /\ \E p \in 0..i : Holds(new, one, b, SubSeq(s, 1, i), p)
         /\ \E p \in 0..Len(s) - i : Holds(new, two, d, SubSeq(s, i + 1, Len(s)), p)
         /\ Len(SubSeq(s, 1, i)) = i /\ Len(SubSeq(s, i + 1, Len(s))) = Len(s) - i
<1> DEFINE u == SubSeq(s, 1, i)
           v == SubSeq(s, i + 1, Len(s))
           n == s[i + 1]
           m == Len(s) - i
           e == Ends(s, k)
<1>1. /\ s \in Seq(Instrs) /\ NoRepeat(s) /\ Len(s) \in Nat /\ IsList(ins, b, s)
      /\ PhisFirst(s, k) /\ k \in Nat /\ k <= Len(s) /\ old = e
  BY HeldParts DEF Holds
<1>2. i \in Nat \ {0} /\ i < Len(s) /\ i + 1 \in 1..Len(s) /\ Len(s) - m = i /\ m \in Nat
  BY <1>1
<1>3. IsList(new, b, u) /\ IsList(new, d, v)
  BY <1>1, ListsCut
<1>4. Len(u) = i /\ Len(v) = m
  BY <1>1, CutParts
<1>5. /\ i < k =>
           /\ PhisFirst(u, i) /\ Ends(u, i) = Fields(e.firstPhi, s[i], Null, Null, i)
           /\ PhisFirst(v, k - i)
           /\ Ends(v, k - i) = Fields(n, e.lastPhi, e.firstInst, e.lastInst, m)
      /\ i > k =>
           /\ PhisFirst(u, k)
           /\ Ends(u, k) = Fields(e.firstPhi, e.lastPhi, e.firstInst, s[i], i)
           /\ PhisFirst(v, 0)
           /\ Ends(v, 0) = Fields(Null, Null, n, e.lastInst, m)
  BY <1>1, EndsCut
<1>6. old = Fields(e.firstPhi, e.lastPhi, e.firstInst, e.lastInst, Len(s))
  BY <1>1, EndsOf
<1>7. /\ PhiHead(old, s[i], m) = Fields(e.firstPhi, s[i], Null, Null, Len(s) - m)
      /\ PutTail(old, n, m) = Fields(n, e.lastPhi, e.firstInst, e.lastInst, m)
      /\ InstHead(old, s[i], m) = Fields(e.firstPhi, e.lastPhi, e.firstInst, s[i], Len(s) - m)
      /\ InstRest(old, n, m) = Fields(Null, Null, n, e.lastInst, m)
  <2> DEFINE fp == e.firstPhi
             lp == e.lastPhi
             fi == e.firstInst
             li == e.lastInst
             len == Len(s)
             x == s[i]
  <2>1. old = Fields(fp, lp, fi, li, len)
    BY <1>6
  <2> HIDE DEF n, m, e, fp, lp, fi, li, len, x
  <2>2. /\ PhiHead(old, x, m) = Fields(fp, x, Null, Null, len - m)
        /\ InstHead(old, x, m) = Fields(fp, lp, fi, x, len - m)
    BY <2>1, HeadFields
  <2>3. /\ PutTail(old, n, m) = Fields(n, lp, fi, li, m)
        /\ InstRest(old, n, m) = Fields(Null, Null, n, li, m)
    BY <2>1, RestFields
  <2> QED
    BY <2>2, <2>3 DEF fp, lp, fi, li, len, x
<1>8. /\ n \in Phis => one = Fields(e.firstPhi, s[i], Null, Null, i)
                       /\ two = Fields(n, e.lastPhi, e.firstInst, e.lastInst, m)
      /\ n \notin Phis => one = Fields(e.firstPhi, e.lastPhi, e.firstInst, s[i], i)
                          /\ two = Fields(Null, Null, n, e.lastInst, m)
  BY <1>2, <1>7 DEF SplitBlocks
<1>9. n \in Phis <=> i < k
  <2>1. i + 1 <= k <=> i < k
    BY <1>1, <1>2
  <2> QED
    BY <1>1, <1>2, <2>1 DEF PhisFirst
<1> HIDE DEF u, v, n, m, e
<1>10. CASE i < k
  <2>1. Holds(new, one, b, u, i) /\ Holds(new, two, d, v, k - i)
    BY <1>3, <1>5, <1>8, <1>9, <1>10 DEF Holds
  <2>2. i \in 0..i /\ k - i \in 0..m
    <3>1. k - i \in 0..Len(s) - i
      BY <1>1, <1>2, <1>10
    <3> QED
      BY <1>2, <3>1 DEF m
  <2> QED
    BY <1>4, <2>1, <2>2 DEF u, v, m
<1>11. CASE i > k
  <2>1. Holds(new, one, b, u, k) /\ Holds(new, two, d, v, 0)
    BY <1>1, <1>2, <1>3, <1>5, <1>8, <1>9, <1>11 DEF Holds
  <2>2. k \in 0..i /\ 0 \in 0..m
    BY <1>1, <1>2, <1>11
  <2> QED
    BY <1>4, <2>1, <2>2 DEF u, v, m
<1> QED
  BY <1>1, <1>2, <1>10, <1>11

\* SplitAfterInstruction moves the rest of the list to a new block.
LEMMA SplitStep ==
  ASSUME BlockInv, ~AtPhiBoundary, NEW x \in Instrs, SplitAfterInstruction(x)
  PROVE  BlockInv' /\ Lists!Next
<1>1. PICK b \in 1..created : instrs[x].bb = b
  BY DEF SplitAfterInstruction, BlockInv
<1> DEFINE s == ListOf(b)
<1>2. /\ created \in Nat /\ created < MaxBBs /\ b \in Blocks /\ created + 1 \in Blocks
      /\ b # created + 1 /\ created + 1 # Null /\ created + 1 \notin 1..created
  BY <1>1, InstrAssumption DEF BlockInv, TypeOK, Blocks, SplitAfterInstruction
<1> PICK d \in Blocks : d = created + 1
  BY <1>2
<1>3. PICK k \in 0..Len(s) : Holds(instrs, blocks[b], b, s, k)
  BY <1>2, BlockHas
<1>4. /\ s \in Seq(Instrs) /\ NoRepeat(s) /\ Len(s) \in Nat
      /\ IsList(instrs, b, s) /\ instrs \in Heaps
  BY <1>2, BlockHas
<1>5. PICK i \in 1..Len(s) : s[i] = x
  <2> HIDE DEF s
  <2> QED
    BY <1>1, <1>4 DEF IsList
<1>6. SplitAt(b, s, k, i)
  <2>1. s = ListOf(b)
    OBVIOUS
  <2> HIDE DEF s
  <2> QED
    BY <1>1, <1>3, <1>5, <2>1, SplitIs
<1> DEFINE u == SubSeq(s, 1, i)
           v == SubSeq(s, i + 1, Len(s))
<1>7. \A y \in Instrs : instrs[y].bb # d
  <2>1. \A y \in Instrs : instrs[y].bb \in 1..created \cup {Null}
    BY DEF BlockInv
  <2> QED
    BY <1>2, <2>1
<1> HIDE DEF s
<1>8. /\ Running /\ created' = created + 1 /\ status' = status
      /\ i \in 1..Len(s) - 1 /\ i # k /\ i + 1 \in 1..Len(s)
      /\ instrs' \in Heaps /\ Cut(instrs, instrs', d, s, i)
      /\ SplitBlocks(blocks[b], s, i, blocks'[b], blocks'[d])
      /\ \A c \in Blocks : c # b /\ c # d => blocks'[c] = blocks[c]
      /\ blocks' = [c \in Blocks |-> blocks'[c]]
  BY <1>6 DEF SplitAt
<1>9. /\ \E p \in 0..i : Holds(instrs', blocks'[b], b, u, p)
      /\ \E p \in 0..Len(s) - i : Holds(instrs', blocks'[d], d, v, p)
      /\ Len(u) = i /\ Len(v) = Len(s) - i
  BY <1>2, <1>3, <1>4, <1>7, <1>8, SplitHeld, SMTT(30)
<1> HIDE DEF u, v
<1>10. ListOf(b)' = u /\ ListOf(d)' = v
  <2>1. Chain(instrs', Begin(blocks'[b])) = u
    BY <1>9, ListFound
  <2>2. Chain(instrs', Begin(blocks'[d])) = v
    BY <1>9, ListFound
  <2> QED
    BY <2>1, <2>2 DEF ListOf
<1>11. ASSUME NEW y \in Instrs
       PROVE  /\ instrs'[y].bb = d => instrs[y].bb = b
              /\ instrs'[y].bb = d \/ instrs'[y].bb = instrs[y].bb
              /\ instrs[y].bb # b => instrs'[y] = instrs[y]
  <2>1. \A j \in 1..Len(s) : s[j] \in Instrs /\ instrs[s[j]].bb = b
    BY <1>4, ElementOfSeq DEF IsList
  <2>2. i \in 1..Len(s) /\ i + 1 \in 1..Len(s) /\ i + 1..Len(s) \subseteq 1..Len(s)
    BY <1>4, <1>8
  <2>3. /\ instrs'[y].prev = IF y = s[i + 1] THEN Null ELSE instrs[y].prev
        /\ instrs'[y].next = IF y = s[i] THEN Null ELSE instrs[y].next
        /\ instrs'[y].bb = IF \E j \in i + 1..Len(s) : y = s[j] THEN d ELSE instrs[y].bb
    BY <1>8 DEF Cut
  <2>4. (\E j \in i + 1..Len(s) : y = s[j]) => instrs[y].bb = b
    BY <2>1, <2>2
  <2>5. instrs[y].bb # b => instrs'[y] = instrs[y]
    <3> HAVE instrs[y].bb # b
    <3>1. /\ instrs'[y].prev = instrs[y].prev /\ instrs'[y].next = instrs[y].next
          /\ instrs'[y].bb = instrs[y].bb
      BY <2>1, <2>2, <2>3, <2>4
    <3> QED
      BY <1>4, <1>8, <3>1 DEF Heaps
  <2> QED
    BY <1>7, <2>3, <2>4, <2>5
<1>12. ASSUME NEW c \in Blocks, c # b, c # d
       PROVE  /\ ListOf(c)' = ListOf(c)
              /\ \E p \in 0..Len(ListOf(c)) : Holds(instrs', blocks'[c], c, ListOf(c), p)
  <2>1. PICK p \in 0..Len(ListOf(c)) : Holds(instrs, blocks[c], c, ListOf(c), p)
    BY DEF BlockInv
  <2>2. \A y \in Instrs : /\ instrs'[y].bb = c <=> instrs[y].bb = c
                          /\ instrs[y].bb = c => instrs'[y] = instrs[y]
    BY <1>11, <1>12
  <2>3. IsList(instrs', c, ListOf(c))
    <3>1. IsList(instrs, c, ListOf(c))
      BY <2>1 DEF Holds
    <3> QED
      BY <2>2, <3>1, ListStays
  <2>4. Holds(instrs', blocks'[c], c, ListOf(c), p)
    BY <1>8, <1>12, <2>1, <2>3 DEF Holds
  <2>5. Chain(instrs', Begin(blocks'[c])) = ListOf(c)
    BY <2>4, ListFound
  <2> QED
    BY <2>4, <2>5 DEF ListOf
<1>13. TypeOK'
  <2>1. ASSUME NEW c \in Blocks
        PROVE  blocks'[c] \in [firstPhi : Pointer, lastPhi : Pointer,
                               firstInst : Pointer, lastInst : Pointer, size : Nat]
    <3>1. PICK t, p : Holds(instrs', blocks'[c], c, t, p)
      BY <1>9, <1>12
    <3>2. Ends(t, p) \in [firstPhi : Pointer, lastPhi : Pointer,
                          firstInst : Pointer, lastInst : Pointer, size : Nat]
      BY <3>1, HeldParts
    <3> QED
      BY <3>1, <3>2 DEF Holds
  <2>2. blocks' \in [Blocks -> [firstPhi : Pointer, lastPhi : Pointer,
                                firstInst : Pointer, lastInst : Pointer, size : Nat]]
    BY <1>8, <2>1
  <2>3. created' \in 0..MaxBBs
    <3>1. created \in Nat /\ MaxBBs \in Nat /\ created < MaxBBs /\ created' = created + 1
      BY <1>2, <1>8, InstrAssumption
    <3> QED
      BY <3>1
  <2>4. status' \in {"running", "aborted"}
    BY <1>8 DEF BlockInv, TypeOK
  <2> QED
    BY <1>8, <2>2, <2>3, <2>4 DEF TypeOK, Heaps
<1>14. BlockInv'
  <2>1. ASSUME NEW c \in Blocks
        PROVE  \E p \in 0..Len(ListOf(c)') : Holds(instrs', blocks'[c], c, ListOf(c)', p)
    <3>1. CASE c = b
      BY <1>9, <1>10, <3>1
    <3>2. CASE c = d
      BY <1>9, <1>10, <3>2
    <3>3. CASE c # b /\ c # d
      BY <1>12, <3>3
    <3> QED
      BY <3>1, <3>2, <3>3
  <2>2. ASSUME NEW y \in Instrs
        PROVE  /\ instrs'[y].bb = Null => instrs'[y] = Detached
               /\ instrs'[y].bb \in 1..created' \cup {Null}
    <3>1. /\ instrs[y].bb = Null => instrs[y] = Detached
          /\ instrs[y].bb \in 1..created \cup {Null}
      BY DEF BlockInv
    <3>2. 1..created \subseteq 1..created' /\ d \in 1..created' /\ b # Null
      BY <1>2, <1>8, InstrAssumption DEF Blocks
    <3> QED
      BY <1>2, <1>11, <3>1, <3>2
  <2> QED
    BY <1>13, <2>1, <2>2 DEF BlockInv
<1>15. Lists!Split(b, i)
  <2> DEFINE L == [c \in Blocks |-> ListOf(c)]
  <2>1. L[b] = s /\ L \in [Blocks -> {ListOf(c) : c \in Blocks}] /\ DOMAIN L = Blocks
    BY <1>2 DEF s
  <2>2. L' = [L EXCEPT ![b] = u, ![d] = v]
    <3>1. \A c \in Blocks : L[c] = ListOf(c)
      OBVIOUS
    <3>2. L' = [c \in Blocks |-> IF c = d THEN v ELSE IF c = b THEN u ELSE L[c]]
      BY <1>2, <1>10, <1>12
    <3> HIDE DEF L
    <3> QED
      BY <1>2, <2>1, <3>2
  <2>3. i < Len(s) /\ created < MaxBBs
    BY <1>4, <1>8, <1>2
  <2> HIDE DEF L
  <2>4. L' = [L EXCEPT ![b] = SubSeq(@, 1, i), ![d] = SubSeq(L[b], i + 1, Len(L[b]))]
    BY <2>1, <2>2 DEF u, v
  <2>5. created' = d
    BY <1>8
  <2> QED
    BY <1>8, <2>1, <2>3, <2>4, <2>5 DEF Lists!Split, L
<1>16. Lists!Next
  <2>1. status = "running" /\ i \in 1..Len(s)
    BY <1>8 DEF Running
  <2>2. [c \in Blocks |-> ListOf(c)][b] = s
    BY <1>2 DEF s
  <2> QED
    BY <1>15, <2>1, <2>2 DEF Lists!Next
<1> QED
  BY <1>14, <1>16

\* What leaves the heap alone keeps the lists and, for more blocks, the
\* invariant.
LEMMA SameHeap ==
  ASSUME BlockInv, UNCHANGED <<instrs, blocks>>, created' \in created..MaxBBs,
         status' \in {"running", "aborted"}
  PROVE  BlockInv' /\ [c \in Blocks |-> ListOf(c)]' = [c \in Blocks |-> ListOf(c)]
<1>1. \A c \in Blocks : ListOf(c)' = ListOf(c)
  BY DEF ListOf
<1>2. created \in Nat /\ created' \in 0..MaxBBs /\ 1..created \subseteq 1..created'
  BY InstrAssumption DEF BlockInv, TypeOK
<1>3. TypeOK'
  BY <1>2 DEF BlockInv, TypeOK
<1>4. ASSUME NEW c \in Blocks
      PROVE  \E k \in 0..Len(ListOf(c)') : Holds(instrs', blocks'[c], c, ListOf(c)', k)
  <2>1. PICK k \in 0..Len(ListOf(c)) : Holds(instrs, blocks[c], c, ListOf(c), k)
    BY DEF BlockInv
  <2> QED
    BY <1>1, <2>1
<1>5. ASSUME NEW y \in Instrs
      PROVE  /\ instrs'[y].bb = Null => instrs'[y] = Detached
             /\ instrs'[y].bb \in 1..created' \cup {Null}
  BY <1>2 DEF BlockInv
<1>6. BlockInv'
  BY <1>3, <1>4, <1>5 DEF BlockInv
<1> QED
  BY <1>1, <1>6

LEMMA CreateStep ==
  ASSUME BlockInv, CreateEmptyBB
  PROVE  BlockInv' /\ Lists!Next
<1>1. /\ Running /\ created < MaxBBs /\ created' = created + 1
      /\ UNCHANGED <<instrs, blocks, status>>
  BY DEF CreateEmptyBB
<1>2. created' \in created..MaxBBs /\ status' \in {"running", "aborted"}
  BY <1>1, InstrAssumption DEF BlockInv, TypeOK
<1>3. BlockInv' /\ [c \in Blocks |-> ListOf(c)]' = [c \in Blocks |-> ListOf(c)]
  BY <1>1, <1>2, SameHeap
<1>4. Lists!Create
  BY <1>1, <1>3 DEF Lists!Create
<1> QED
  BY <1>1, <1>3, <1>4 DEF Lists!Next, Running

LEMMA AbortStep ==
  ASSUME BlockInv, NEW x \in Regulars, NEW new \in Regulars, ReplaceAborts(x, new)
  PROVE  BlockInv' /\ Lists!Next
<1>1. Running /\ status' = "aborted" /\ UNCHANGED <<created, instrs, blocks>>
  BY DEF ReplaceAborts
<1>2. created' \in created..MaxBBs
  BY <1>1, InstrAssumption DEF BlockInv, TypeOK
<1>3. BlockInv' /\ [c \in Blocks |-> ListOf(c)]' = [c \in Blocks |-> ListOf(c)]
  BY <1>1, <1>2, SameHeap
<1>4. Lists!Abort
  BY <1>1, <1>3 DEF Lists!Abort
<1> QED
  BY <1>1, <1>3, <1>4 DEF Lists!Next, Running

LEMMA StutterStep ==
  ASSUME BlockInv, UNCHANGED vars
  PROVE  BlockInv' /\ UNCHANGED Lists!vars
<1>1. UNCHANGED <<created, instrs, blocks, status>>
  BY DEF vars
<1>2. created' \in created..MaxBBs /\ status' \in {"running", "aborted"}
  BY <1>1, InstrAssumption DEF BlockInv, TypeOK
<1>3. BlockInv' /\ [c \in Blocks |-> ListOf(c)]' = [c \in Blocks |-> ListOf(c)]
  BY <1>1, <1>2, SameHeap
<1> QED
  BY <1>1, <1>3 DEF Lists!vars

\* At the start no block has a list.
LEMMA ListsInit ==
  Init => BlockInv /\ Lists!Init
<1> SUFFICES ASSUME Init
             PROVE  BlockInv /\ Lists!Init
  OBVIOUS
<1>1. /\ created = 0 /\ instrs = [x \in Instrs |-> Detached]
      /\ blocks = [b \in Blocks |-> EmptyBB] /\ status = "running"
  BY DEF Init
<1>2. <<>> \in Seq(Instrs) /\ Len(<<>>) = 0
  BY EmptySeq
<1>3. ASSUME NEW b \in Blocks
      PROVE  Holds(instrs, blocks[b], b, <<>>, 0)
  <2>1. b # Null
    BY InstrAssumption DEF Blocks
  <2>2. \A x \in Instrs : instrs[x].bb # b
    BY <1>1, <2>1 DEF Detached
  <2>3. IsList(instrs, b, <<>>)
    BY <1>2, <2>2 DEF IsList, NoRepeat
  <2>4. PhisFirst(<<>>, 0)
    BY <1>2 DEF PhisFirst
  <2>5. blocks[b] = Ends(<<>>, 0)
    BY <1>1, <1>2 DEF EmptyBB, Ends, Fields
  <2> QED
    BY <2>3, <2>4, <2>5 DEF Holds
<1>4. ASSUME NEW b \in Blocks
      PROVE  ListOf(b) = <<>>
  BY <1>3, ListFound DEF ListOf
<1>5. TypeOK
  BY <1>1, InstrAssumption DEF TypeOK, Detached, EmptyBB, Pointer
<1>6. \A b \in Blocks : \E k \in 0..Len(ListOf(b)) : Holds(instrs, blocks[b], b, ListOf(b), k)
  <2> TAKE b \in Blocks
  <2>1. ListOf(b) = <<>> /\ Holds(instrs, blocks[b], b, <<>>, 0) /\ 0 \in 0..0
    BY <1>3, <1>4
  <2> QED
    BY <1>2, <2>1
<1>7. BlockInv
  BY <1>1, <1>5, <1>6 DEF BlockInv, Detached
<1>8. Lists!Init
  <2>1. [b \in Blocks |-> ListOf(b)] = [b \in Blocks |-> <<>>]
    BY <1>4
  <2> QED
    BY <1>1, <2>1 DEF Lists!Init, Blocks
<1> QED
  BY <1>7, <1>8

\* Every step keeps the invariant and is a step of BlockLists, or none.
LEMMA ListsNext ==
  ASSUME BlockInv, ~AtPhiBoundary, [Next]_vars
  PROVE  BlockInv' /\ [Lists!Next]_(Lists!vars)
<1>1. CASE CreateEmptyBB
  BY <1>1, CreateStep
<1>2. ASSUME NEW b \in 1..created, NEW x \in Instrs, PushInstBackward(b, x)
      PROVE  BlockInv' /\ Lists!Next
  <2>1. /\ Fresh(x) /\ Running /\ TRUE \in BOOLEAN
        /\ Becomes(b, PushInstruction(instrs, b, blocks[b], x, TRUE))
    BY <1>2 DEF PushInstBackward
  <2> QED
    BY <2>1, PushStep
<1>3. ASSUME NEW b \in 1..created, NEW x \in Instrs, PushInstForward(b, x)
      PROVE  BlockInv' /\ Lists!Next
  <2>1. /\ Fresh(x) /\ Running /\ FALSE \in BOOLEAN
        /\ x \in Phis \/ blocks[b].firstPhi = Null \/ blocks[b].firstInst = Null
        /\ Becomes(b, PushInstruction(instrs, b, blocks[b], x, FALSE))
    BY <1>3 DEF PushInstForward
  <2> QED
    BY <2>1, PushStep
<1>4. ASSUME NEW x \in Instrs, SetInstructionAsDead(x)
      PROVE  BlockInv' /\ Lists!Next
  BY <1>4, RemoveStep
<1>5. ASSUME NEW x \in Instrs, SplitAfterInstruction(x)
      PROVE  BlockInv' /\ Lists!Next
  BY <1>5, SplitStep
<1>6. ASSUME NEW x \in Regulars, NEW new \in Regulars, ReplaceInControlFlow(x, new)
      PROVE  BlockInv' /\ Lists!Next
  BY <1>6, ReplaceStep
<1>7. ASSUME NEW x \in Regulars, NEW new \in Regulars, ReplaceAborts(x, new)
      PROVE  BlockInv' /\ Lists!Next
  BY <1>7, AbortStep
<1>8. CASE UNCHANGED vars
  BY <1>8, StutterStep
<1> QED
  BY <1>1, <1>2, <1>3, <1>4, <1>5, <1>6, <1>7, <1>8 DEF Next

\* What the invariant says of a list is what WellFormed says of it.
LEMMA ListWellFormed ==
  ASSUME BlockInv, NEW b \in Blocks
  PROVE  LET l == ListOf(b)
             blk == blocks[b]
             n == Cardinality({i \in DOMAIN l : l[i] \in Phis})
             At(i, first, last) == IF i \in first..last THEN l[i] ELSE Null
         IN /\ blk.size = Len(l)
            /\ {l[i] : i \in DOMAIN l} = {x \in Instrs : instrs[x].bb = b}
            /\ \A i \in DOMAIN l : instrs[l[i]].prev = IF i = 1 THEN Null ELSE l[i - 1]
            /\ \A i, j \in DOMAIN l : l[i] = l[j] => i = j
            /\ \A i \in DOMAIN l : l[i] \in Phis <=> i <= n
            /\ blk.firstPhi = At(1, 1, n) /\ blk.lastPhi = At(n, 1, n)
            /\ blk.firstInst = At(n + 1, n + 1, Len(l))
            /\ blk.lastInst = At(Len(l), n + 1, Len(l))
<1> DEFINE l == ListOf(b)
           blk == blocks[b]
           n == Cardinality({i \in DOMAIN l : l[i] \in Phis})
<1>1. PICK k \in 0..Len(l) : Holds(instrs, blk, b, l, k)
  BY DEF BlockInv
<1> HIDE DEF l, blk
<1>2. /\ l \in Seq(Instrs) /\ NoRepeat(l) /\ Len(l) \in Nat /\ k \in Nat /\ k <= Len(l)
      /\ IsList(instrs, b, l) /\ PhisFirst(l, k) /\ blk = Ends(l, k)
  BY <1>1, HeldParts DEF Holds
<1>3. DOMAIN l = 1..Len(l) /\ \A i \in 1..Len(l) : l[i] \in Instrs
  BY <1>2, LenProperties, ElementOfSeq
<1>4. n = k
  <2>1. {i \in DOMAIN l : l[i] \in Phis} = 1..k
    BY <1>2, <1>3 DEF PhisFirst
  <2>2. Cardinality(1..k) = k
    <3>1. Cardinality(1..k) = IF 1 > k THEN 0 ELSE k - 1 + 1
      BY <1>2, FS_Interval
    <3> QED
      BY <1>2, <3>1
  <2> QED
    BY <2>1, <2>2
<1> HIDE DEF n
<1>5. /\ blk.firstPhi = IF k = 0 THEN Null ELSE l[1]
      /\ blk.lastPhi = IF k = 0 THEN Null ELSE l[k]
      /\ blk.firstInst = IF k = Len(l) THEN Null ELSE l[k + 1]
      /\ blk.lastInst = IF k = Len(l) THEN Null ELSE l[Len(l)]
      /\ blk.size = Len(l)
  BY <1>2, EndsOf
<1>6. /\ 1 \in 1..k <=> k # 0
      /\ k \in 1..k <=> k # 0
      /\ k + 1 \in k + 1..Len(l) <=> k # Len(l)
      /\ Len(l) \in k + 1..Len(l) <=> k # Len(l)
  <2> DEFINE m == Len(l)
  <2>1. m \in Nat /\ k \in Nat /\ k <= m
    BY <1>2
  <2> HIDE DEF m
  <2>2. /\ 1 \in 1..k <=> k # 0
        /\ k \in 1..k <=> k # 0
        /\ k + 1 \in k + 1..m <=> k # m
        /\ m \in k + 1..m <=> k # m
    BY <2>1
  <2> QED
    BY <2>2 DEF m
<1>7. {l[i] : i \in DOMAIN l} = {x \in Instrs : instrs[x].bb = b}
  <2>1. \A x \in Instrs : instrs[x].bb = b <=> \E i \in 1..Len(l) : l[i] = x
    BY <1>2 DEF IsList
  <2>2. \A x \in {l[i] : i \in DOMAIN l} : x \in Instrs /\ instrs[x].bb = b
    BY <1>3, <2>1
  <2>3. \A x \in Instrs : instrs[x].bb = b => x \in {l[i] : i \in DOMAIN l}
    BY <1>3, <2>1
  <2> QED
    BY <2>2, <2>3
<1>8. \A i \in DOMAIN l : instrs[l[i]].prev = IF i = 1 THEN Null ELSE l[i - 1]
  <2> TAKE i \in DOMAIN l
  <2>1. instrs[l[i]].prev = Entry(l, i - 1)
    BY <1>2, <1>3 DEF IsList
  <2>2. i - 1 \in 1..Len(l) <=> i # 1
    BY <1>2, <1>3
  <2> QED
    BY <2>1, <2>2 DEF Entry
<1>9. \A i, j \in DOMAIN l : l[i] = l[j] => i = j
  BY <1>2, <1>3 DEF NoRepeat
<1>10. \A i \in DOMAIN l : l[i] \in Phis <=> i <= n
  BY <1>2, <1>3, <1>4 DEF PhisFirst
<1>11. /\ blk.firstPhi = IF 1 \in 1..n THEN l[1] ELSE Null
       /\ blk.lastPhi = IF n \in 1..n THEN l[n] ELSE Null
       /\ blk.firstInst = IF n + 1 \in n + 1..Len(l) THEN l[n + 1] ELSE Null
       /\ blk.lastInst = IF Len(l) \in n + 1..Len(l) THEN l[Len(l)] ELSE Null
  BY <1>4, <1>5, <1>6
<1> QED
  BY <1>5, <1>7, <1>8, <1>9, <1>10, <1>11 DEF l, blk, n

LEMMA BlocksWellFormed ==
  BlockInv => WellFormed
<1> SUFFICES ASSUME BlockInv
             PROVE  WellFormed
  OBVIOUS
<1>1. TypeOK /\ 1..created \subseteq Blocks
  BY InstrAssumption DEF BlockInv, TypeOK, Blocks
<1>2. SizeIsLength
  BY <1>1, ListWellFormed DEF SizeIsLength
<1>3. LinksAgree
  BY <1>1, ListWellFormed DEF LinksAgree
<1>4. EndsRight
  BY <1>1, ListWellFormed DEF EndsRight
<1> QED
  BY <1>1, <1>2, <1>3, <1>4 DEF WellFormed

\* The invariant holds in every state, the callers being those of the
\* repository: none pushes a regular instruction in front of others in a block
\* with phis, and none splits a block between its phis and the others.
THEOREM BlockInvariance ==
  ~AtPhiBoundary => (Spec => []BlockInv)
<1> SUFFICES ASSUME ~AtPhiBoundary
             PROVE  Spec => []BlockInv
  OBVIOUS
<1>1. Init => BlockInv
  BY ListsInit
<1>2. BlockInv /\ [Next]_vars => BlockInv'
  BY ListsNext
<1> QED
  BY <1>1, <1>2, PTL DEF Spec

\* Through any sequence of pushes, removals, replacements and splits, of any
\* number of blocks and instructions, the two links of every instruction, the
\* four pointers of its block and the count describe one list, phis first.
THEOREM ListsWellFormed ==
  ~AtPhiBoundary => (Spec => []WellFormed)
<1> SUFFICES ASSUME ~AtPhiBoundary
             PROVE  Spec => []WellFormed
  OBVIOUS
<1>1. BlockInv => WellFormed
  BY BlocksWellFormed
<1>2. Spec => []BlockInv
  BY BlockInvariance
<1> QED
  BY <1>1, <1>2, PTL

\* Blocks linked by pointers implement blocks that are lists: every operation
\* of bb.cpp is, on the lists their iterators visit, the one operation of
\* BlockLists its callers take it for.
THEOREM BlocksAreLists ==
  ~AtPhiBoundary => (Spec => ImplementsBlockLists)
<1> SUFFICES ASSUME ~AtPhiBoundary
             PROVE  Spec => ImplementsBlockLists
  OBVIOUS
<1>1. Init => Lists!Init
  BY ListsInit
<1>2. BlockInv /\ [Next]_vars => [Lists!Next]_(Lists!vars)
  BY ListsNext
<1>3. Spec => []BlockInv
  BY BlockInvariance
<1> QED
  BY <1>1, <1>2, <1>3, PTL DEF Spec, ImplementsBlockLists, Lists!Spec

-----------------------------------------------------------------------------
(***************************************************************************)
(* The markers of ir::BB: the four slots, the values in them, and what the *)
(* blocks answer.                                                          *)
(***************************************************************************)
\* A marker is taken apart into what it was built from.
LEMMA MarkerParts ==
  ASSUME NEW index \in Nat, NEW i \in Slots
  PROVE  /\ index * MAX_MARKERS + i \in Nat
         /\ ValueOf(index * MAX_MARKERS + i) = index
         /\ SlotOf(index * MAX_MARKERS + i) = i
BY DEF Slots, ValueOf, SlotOf, MAX_MARKERS

\* Any marker splits into a slot and a value.
LEMMA SlotRange ==
  ASSUME NEW mark \in Nat
  PROVE  SlotOf(mark) \in Slots /\ ValueOf(mark) \in Nat
BY DEF Slots, ValueOf, SlotOf, MAX_MARKERS

\* Five different owners are more than OwnersAssumption allows.
LEMMA NotFive ==
  ASSUME NEW a \in Owners, NEW b \in Owners, NEW c \in Owners,
         NEW d \in Owners, NEW e \in Owners,
         a # b, a # c, a # d, a # e, b # c, b # d, b # e, c # d, c # e, d # e
  PROVE  FALSE
<1>1. /\ IsFiniteSet({a}) /\ Cardinality({a}) = 1
  BY FS_Singleton
<1>2. IsFiniteSet({a, b}) /\ Cardinality({a, b}) = 2
  <2>1. {a, b} = {a} \cup {b}  OBVIOUS
  <2> QED  BY <1>1, <2>1, FS_AddElement
<1>3. IsFiniteSet({a, b, c}) /\ Cardinality({a, b, c}) = 3
  <2>1. {a, b, c} = {a, b} \cup {c}  OBVIOUS
  <2> QED  BY <1>2, <2>1, FS_AddElement
<1>4. IsFiniteSet({a, b, c, d}) /\ Cardinality({a, b, c, d}) = 4
  <2>1. {a, b, c, d} = {a, b, c} \cup {d}  OBVIOUS
  <2> QED  BY <1>3, <2>1, FS_AddElement
<1>5. IsFiniteSet({a, b, c, d, e}) /\ Cardinality({a, b, c, d, e}) = 5
  <2>1. {a, b, c, d, e} = {a, b, c, d} \cup {e}  OBVIOUS
  <2> QED  BY <1>4, <2>1, FS_AddElement
<1>6. {a, b, c, d, e} \subseteq Owners
  OBVIOUS
<1>7. Cardinality({a, b, c, d, e}) <= Cardinality(Owners)
  BY <1>6, FS_Subset, OwnersAssumption
<1>8. Cardinality(Owners) \in Nat /\ Cardinality(Owners) <= 4
  BY OwnersAssumption, FS_CardinalityType DEF MAX_MARKERS
<1> QED  BY <1>5, <1>7, <1>8

\* So an owner that holds nothing finds a free slot.
LEMMA SlotLeft ==
  ASSUME SlotsOwned, NEW o \in Owners, held[o] = NoMarker
  PROVE  SomeFree /\ FirstFree \in Slots /\ SlotFree(FirstFree)
<1>1. \E i \in Slots : SlotFree(i)
  <2> SUFFICES ASSUME \A i \in Slots : ~SlotFree(i)
               PROVE  FALSE
    OBVIOUS
  <2>1. \A i \in Slots : \E p \in Holders : SlotOf(held[p]) = i
    BY DEF SlotsOwned, SlotFree
  <2>2. 0 \in Slots /\ 1 \in Slots /\ 2 \in Slots /\ 3 \in Slots
    BY DEF Slots, MAX_MARKERS
  <2>3. PICK p0 \in Holders : SlotOf(held[p0]) = 0  BY <2>1, <2>2
  <2>4. PICK p1 \in Holders : SlotOf(held[p1]) = 1  BY <2>1, <2>2
  <2>5. PICK p2 \in Holders : SlotOf(held[p2]) = 2  BY <2>1, <2>2
  <2>6. PICK p3 \in Holders : SlotOf(held[p3]) = 3  BY <2>1, <2>2
  <2>7. /\ p0 \in Owners /\ p1 \in Owners /\ p2 \in Owners /\ p3 \in Owners
        /\ o # p0 /\ o # p1 /\ o # p2 /\ o # p3
    BY DEF Holders
  <2>8. p0 # p1 /\ p0 # p2 /\ p0 # p3 /\ p1 # p2 /\ p1 # p3 /\ p2 # p3
    BY <2>3, <2>4, <2>5, <2>6
  <2> QED  BY <2>7, <2>8, NotFive
<1> DEFINE Least(i) == SlotFree(i) /\ \A j \in Slots : j < i => ~SlotFree(j)
<1>2. \E i \in Slots : Least(i)
  <2>1. Slots = {0, 1, 2, 3}
    BY DEF Slots, MAX_MARKERS
  <2> QED  BY <1>1, <2>1
<1> QED  BY <1>1, <1>2 DEF FirstFree, SomeFree

-----------------------------------------------------------------------------
(***************************************************************************)
(* The inductive invariant is the conjunction of what TLC checks; each     *)
(* step preserves it and is a step of MarkSets.  Only the blocks' values   *)
(* being spent makes a new marker start empty, and only the slots being    *)
(* owned keeps the other markers unchanged.                                *)
(***************************************************************************)
MInv == MTypeOK /\ SlotsOwned /\ ValuesSpent

\* The values a marker can have, as numbers.
LEMMA LimitTyped ==
  /\ IndexLimit \in Nat
  /\ Marks \subseteq Nat
  /\ NoMarker \notin Nat
BY MarkerAssumption DEF IndexLimit, Marks, MAX_MARKERS

LEMMA MarksTyped ==
  ASSUME MTypeOK
  PROVE  /\ currentIndex \in Nat /\ currentIndex <= IndexLimit
         /\ markers \in [BBs -> [Slots -> Nat]]
         /\ \A o \in Owners : held[o] # NoMarker => held[o] \in Nat
<1>1. /\ currentIndex \in 0..IndexLimit
      /\ markers \in [BBs -> [Slots -> 0..IndexLimit]]
      /\ held \in [Owners -> Marks \cup {NoMarker}]
  BY DEF MTypeOK
<1>2. currentIndex \in Nat /\ currentIndex <= IndexLimit
  BY <1>1, LimitTyped
<1>3. markers \in [BBs -> [Slots -> Nat]]
  <2>1. \A v \in 0..IndexLimit : v \in Nat
    BY LimitTyped
  <2>2. ASSUME NEW b \in BBs
        PROVE  markers[b] \in [Slots -> Nat]
    BY <1>1, <2>1
  <2> QED  BY <1>1, <2>2
<1>4. \A o \in Owners : held[o] # NoMarker => held[o] \in Nat
  BY <1>1, LimitTyped
<1> QED  BY <1>2, <1>3, <1>4

\* What a holder holds is a marker.
LEMMA HeldTyped ==
  ASSUME MTypeOK, NEW o \in Holders
  PROVE  /\ o \in Owners /\ held[o] \in Nat
         /\ SlotOf(held[o]) \in Slots /\ ValueOf(held[o]) \in Nat
BY SlotRange, MarksTyped DEF Holders

\* An owner's set depends on its own slot of the blocks only.
LEMMA MarkedSame ==
  ASSUME NEW o \in Owners, held'[o] = held[o],
         held[o] # NoMarker =>
           \A b \in BBs : markers'[b][SlotOf(held[o])] = markers[b][SlotOf(held[o])]
  PROVE  MarkedBy(o)' = MarkedBy(o)
BY DEF MarkedBy, IsMarkerSet

\* GetNewMarker hands out an empty set.
LEMMA GetStep ==
  ASSUME MInv, NEW o \in Owners, GetNewMarker(o)
  PROVE  MInv' /\ Sets!Obtain(o)
<1> DEFINE i == FirstFree
           mark == currentIndex' * MAX_MARKERS + i
<1>1. SomeFree /\ i \in Slots /\ SlotFree(i)
  BY SlotLeft DEF MInv, GetNewMarker
<1>2. /\ currentIndex \in Nat /\ currentIndex' = currentIndex + 1
      /\ currentIndex' \in 1..IndexLimit
  BY LimitTyped, MarksTyped DEF GetNewMarker, MInv
<1>3. mark \in Nat /\ ValueOf(mark) = currentIndex' /\ SlotOf(mark) = i
  BY <1>1, <1>2, MarkerParts
<1>4. /\ held \in [Owners -> Marks \cup {NoMarker}] /\ held[o] = NoMarker
      /\ held' = [held EXCEPT ![o] = mark]
      /\ held'[o] = mark /\ mark # NoMarker
      /\ \A p \in Owners : p # o => held'[p] = held[p]
      /\ markers' = markers /\ mstatus' = mstatus
      /\ markersSlots' = [j \in Slots |-> markersSlots[j] \/ j = i]
  BY <1>1, <1>3, MarkerAssumption DEF GetNewMarker, NewMarker, MInv, MTypeOK, SlotFree
<1>5. MTypeOK'
  <2>1. mark \in Marks
    BY <1>1, <1>2, LimitTyped DEF Marks, Slots, MAX_MARKERS
  <2>2. held' \in [Owners -> Marks \cup {NoMarker}]
    BY <1>4, <2>1
  <2> QED  BY <1>2, <1>4, <2>2 DEF MInv, MTypeOK
<1>6. Holders' = Holders \cup {o} /\ o \notin Holders
  BY <1>4 DEF Holders
<1>7. \A p \in Holders : held'[p] = held[p] /\ SlotOf(held[p]) # i
  <2>1. \A p \in Holders : p \in Owners /\ p # o
    BY <1>4 DEF Holders
  <2>2. \A p \in Holders : SlotOf(held[p]) # i
    BY <1>1 DEF MInv, SlotsOwned, SlotFree
  <2> QED  BY <1>4, <2>1, <2>2
<1>8. SlotsOwned'
  <2>1. \A j \in Slots : markersSlots'[j] <=> (markersSlots[j] \/ j = i)
    BY <1>4
  <2>2. \A j \in Slots :
          (\E p \in Holders' : SlotOf(held'[p]) = j)
            <=> ((\E p \in Holders : SlotOf(held[p]) = j) \/ j = i)
    BY <1>3, <1>4, <1>6, <1>7
  <2>3. \A p, q \in Holders' : SlotOf(held'[p]) = SlotOf(held'[q]) => p = q
    BY <1>3, <1>4, <1>6, <1>7 DEF MInv, SlotsOwned
  <2> QED  BY <2>1, <2>2, <2>3 DEF MInv, SlotsOwned
<1>9. ValuesSpent'
  <2>1. \A b \in BBs, j \in Slots : markers'[b][j] <= currentIndex'
    BY <1>2, <1>4, MarksTyped DEF MInv, ValuesSpent
  <2>2. \A p \in Holders' : ValueOf(held'[p]) \in 1..currentIndex'
    BY <1>2, <1>3, <1>4, <1>6, <1>7 DEF MInv, ValuesSpent
  <2> QED  BY <2>1, <2>2 DEF ValuesSpent
<1>10. MarkedBy(o)' = {}
  <2>1. \A b \in BBs : markers'[b][i] < currentIndex'
    BY <1>1, <1>2, <1>4, MarksTyped DEF MInv, ValuesSpent
  <2>2. \A b \in BBs : markers'[b][i] \in Nat
    BY <1>1, <1>4, MarksTyped DEF MInv
  <2>3. \A b \in BBs : markers'[b][i] # currentIndex'
    BY <1>2, <2>1, <2>2
  <2> QED  BY <1>3, <1>4, <2>3 DEF MarkedBy, IsMarkerSet
<1>11. \A p \in Owners : p # o => MarkedBy(p)' = MarkedBy(p)
  BY <1>4, MarkedSame
<1>12. MarkedBy(o) = {}
  BY <1>4 DEF MarkedBy
<1>13. Sets!Obtain(o)
  <2>1. \A p \in Owners : MarkedBy(p)' = MarkedBy(p)
    BY <1>10, <1>11, <1>12
  <2> QED  BY <1>4, <1>6, <2>1 DEF GetNewMarker, Sets!Obtain
<1> QED  BY <1>5, <1>8, <1>9, <1>13 DEF MInv

\* ReleaseMarker frees the slot and touches no other set.
LEMMA ReleaseStep ==
  ASSUME MInv, NEW o \in Owners, ReleaseMarker(o)
  PROVE  MInv' /\ Sets!Release(o)
<1> DEFINE i == SlotOf(held[o])
<1>1. o \in Holders /\ i \in Slots
  BY HeldTyped DEF ReleaseMarker, Holders, MInv
<1>2. /\ held \in [Owners -> Marks \cup {NoMarker}]
      /\ held' = [held EXCEPT ![o] = NoMarker]
      /\ held'[o] = NoMarker /\ held[o] # NoMarker
      /\ \A p \in Owners : p # o => held'[p] = held[p]
      /\ markers' = markers /\ mstatus' = mstatus /\ currentIndex' = currentIndex
      /\ markersSlots' = [markersSlots EXCEPT ![i] = FALSE]
  BY DEF ReleaseMarker, MInv, MTypeOK
<1>3. MTypeOK'
  BY <1>2 DEF MInv, MTypeOK
<1>4. Holders' = Holders \ {o}
  BY <1>2 DEF Holders
<1>5. \A p \in Holders \ {o} : held'[p] = held[p] /\ SlotOf(held[p]) # i
  <2>1. \A p \in Holders : p \in Owners
    BY DEF Holders
  <2> QED  BY <1>1, <1>2, <2>1 DEF MInv, SlotsOwned
<1>6. SlotsOwned'
  <2>1. \A j \in Slots : markersSlots'[j] <=> (markersSlots[j] /\ j # i)
    BY <1>1, <1>2 DEF MInv, MTypeOK
  <2>2. \A j \in Slots :
          (\E p \in Holders' : SlotOf(held'[p]) = j)
            <=> ((\E p \in Holders : SlotOf(held[p]) = j) /\ j # i)
    BY <1>1, <1>4, <1>5
  <2> QED  BY <1>4, <1>5, <2>1, <2>2 DEF MInv, SlotsOwned
<1>7. ValuesSpent'
  BY <1>2, <1>4, <1>5 DEF MInv, ValuesSpent
<1>8. \A p \in Owners : p # o => MarkedBy(p)' = MarkedBy(p)
  BY <1>2, MarkedSame
<1>9. MarkedBy(o)' = {}
  BY <1>2 DEF MarkedBy
<1>10. Sets!Release(o)
  BY <1>1, <1>2, <1>4, <1>8, <1>9 DEF ReleaseMarker, Sets!Release
<1> QED  BY <1>3, <1>6, <1>7, <1>10 DEF MInv

\* Writing through a held marker changes the one mark it names.
LEMMA WriteStep ==
  ASSUME MInv, NEW o \in Owners, NEW b \in BBs,
         NEW value \in {ValueOf(held[o]), UNDEF_VALUE}, Write(o, b, value)
  PROVE  /\ MInv' /\ o \in Holders /\ Holders' = Holders
         /\ \A p \in Owners : p # o => MarkedBy(p)' = MarkedBy(p)
         /\ value = ValueOf(held[o]) => MarkedBy(o)' = MarkedBy(o) \cup {b}
         /\ value = UNDEF_VALUE => MarkedBy(o)' = MarkedBy(o) \ {b}
<1> DEFINE i == SlotOf(held[o])
<1>1. /\ o \in Holders /\ i \in Slots /\ held[o] # NoMarker
      /\ ValueOf(held[o]) \in 1..currentIndex
      /\ currentIndex \in Nat /\ value \in Nat /\ value <= currentIndex
      /\ currentIndex <= IndexLimit /\ IndexLimit \in Nat
  <2>1. o \in Holders
    BY DEF Write, Holders
  <2>2. ValueOf(held[o]) \in 1..currentIndex /\ currentIndex \in Nat
    BY <2>1, MarksTyped DEF MInv, ValuesSpent
  <2> QED  BY <2>1, <2>2, HeldTyped, MarksTyped, LimitTyped DEF Write, MInv, UNDEF_VALUE
<1>2. /\ held' = held /\ mstatus' = mstatus /\ mstatus = "running"
      /\ currentIndex' = currentIndex /\ markersSlots' = markersSlots
      /\ markers' = [markers EXCEPT ![b][i] = value]
      /\ markers \in [BBs -> [Slots -> 0..IndexLimit]]
  BY DEF Write, MInv, MTypeOK
<1>3. /\ markers' \in [BBs -> [Slots -> 0..IndexLimit]]
      /\ markers'[b][i] = value
      /\ \A c \in BBs, j \in Slots : (c # b \/ j # i) => markers'[c][j] = markers[c][j]
  BY <1>1, <1>2
<1>4. MTypeOK'
  BY <1>2, <1>3 DEF MInv, MTypeOK
<1>5. Holders' = Holders
  BY <1>2 DEF Holders
<1>6. SlotsOwned'
  BY <1>2, <1>5 DEF MInv, SlotsOwned
<1>7. ValuesSpent'
  <2>1. \A c \in BBs, j \in Slots : markers'[c][j] <= currentIndex
    BY <1>1, <1>3 DEF MInv, ValuesSpent
  <2> QED  BY <1>2, <1>5, <2>1 DEF MInv, ValuesSpent
<1>8. \A p \in Owners : p # o => MarkedBy(p)' = MarkedBy(p)
  <2> SUFFICES ASSUME NEW p \in Owners, p # o
               PROVE  MarkedBy(p)' = MarkedBy(p)
    OBVIOUS
  <2>1. CASE held[p] = NoMarker
    BY <1>2, <2>1 DEF MarkedBy
  <2>2. CASE held[p] # NoMarker
    <3>1. p \in Holders /\ SlotOf(held[p]) \in Slots
      BY <2>2, HeldTyped DEF Holders, MInv
    <3>2. SlotOf(held[p]) # i
      BY <1>1, <3>1 DEF MInv, SlotsOwned
    <3> QED  BY <1>2, <1>3, <3>1, <3>2, MarkedSame
  <2> QED  BY <2>1, <2>2
<1>9. /\ MarkedBy(o) = {c \in BBs : markers[c][i] = ValueOf(held[o])}
      /\ MarkedBy(o)' = {c \in BBs : markers'[c][i] = ValueOf(held[o])}
  BY <1>1, <1>2 DEF MarkedBy, IsMarkerSet
<1>11. value = ValueOf(held[o]) => MarkedBy(o)' = MarkedBy(o) \cup {b}
  BY <1>1, <1>3, <1>9
<1>12. value = UNDEF_VALUE => MarkedBy(o)' = MarkedBy(o) \ {b}
  <2>1. UNDEF_VALUE # ValueOf(held[o])
    BY <1>1 DEF UNDEF_VALUE
  <2> QED  BY <1>1, <1>3, <1>9, <2>1
<1> QED
  BY <1>1, <1>4, <1>5, <1>6, <1>7, <1>8, <1>11, <1>12 DEF MInv

\* SetMarker adds the block to the owner's set ...
LEMMA SetStep ==
  ASSUME MInv, NEW o \in Owners, NEW b \in BBs, SetMarker(o, b)
  PROVE  MInv' /\ Sets!Set(o, b)
BY WriteStep DEF SetMarker, Write, Sets!Set, Sets!Change

\* ... and ClearMarker takes it out.
LEMMA ClearStep ==
  ASSUME MInv, NEW o \in Owners, NEW b \in BBs, ClearMarker(o, b)
  PROVE  MInv' /\ Sets!Clear(o, b)
BY WriteStep DEF ClearMarker, Write, Sets!Clear, Sets!Change

\* A new graph has no marker in use and no block marked.
LEMMA MInitHolds == MInit => MInv /\ Sets!Init
<1> SUFFICES ASSUME MInit PROVE MInv /\ Sets!Init
  OBVIOUS
<1>1. Holders = {}
  BY DEF MInit, Holders
<1>2. MInv
  BY <1>1, LimitTyped DEF MInit, MInv, MTypeOK, SlotsOwned, ValuesSpent, Slots, MAX_MARKERS,
     UNDEF_VALUE
<1>3. \A o \in Owners : MarkedBy(o) = {}
  BY DEF MInit, MarkedBy
<1> QED  BY <1>1, <1>2, <1>3 DEF MInit, Sets!Init

\* Every step keeps the invariant and is a step of MarkSets or invisible there.
LEMMA MNextStep == MInv /\ [MNext]_mvars => MInv' /\ [Sets!Next]_(Sets!vars)
<1> SUFFICES ASSUME MInv, [MNext]_mvars
             PROVE  MInv' /\ [Sets!Next]_(Sets!vars)
  OBVIOUS
<1>1. ASSUME NEW o \in Owners, GetNewMarker(o)
      PROVE  MInv' /\ Sets!Next
  BY <1>1, GetStep DEF Sets!Next
<1>2. ASSUME NEW o \in Owners, AssertFails(o)
      PROVE  MInv' /\ Sets!Next
  <2>1. MInv'
    BY <1>2 DEF AssertFails, MInv, MTypeOK, SlotsOwned, ValuesSpent, Holders
  <2>2. \A p \in Owners : MarkedBy(p)' = MarkedBy(p)
    BY <1>2, MarkedSame DEF AssertFails
  <2>3. Holders' = Holders
    BY <1>2 DEF AssertFails, Holders
  <2> QED  BY <1>2, <2>1, <2>2, <2>3 DEF AssertFails, Sets!Next, Sets!Abort
<1>3. ASSUME NEW o \in Owners, ReleaseMarker(o)
      PROVE  MInv' /\ Sets!Next
  BY <1>3, ReleaseStep DEF Sets!Next
<1>4. ASSUME NEW o \in Owners, NEW b \in BBs, SetMarker(o, b)
      PROVE  MInv' /\ Sets!Next
  BY <1>4, SetStep DEF Sets!Next
<1>5. ASSUME NEW o \in Owners, NEW b \in BBs, ClearMarker(o, b)
      PROVE  MInv' /\ Sets!Next
  BY <1>5, ClearStep DEF Sets!Next
<1>6. CASE UNCHANGED mvars
  <2>1. MInv'
    BY <1>6 DEF mvars, MInv, MTypeOK, SlotsOwned, ValuesSpent, Holders
  <2>2. \A p \in Owners : MarkedBy(p)' = MarkedBy(p)
    BY <1>6, MarkedSame DEF mvars
  <2>3. Holders' = Holders
    BY <1>6 DEF mvars, Holders
  <2> QED  BY <1>6, <2>1, <2>2, <2>3 DEF mvars, Sets!vars
<1> QED
  BY <1>1, <1>2, <1>3, <1>4, <1>5, <1>6 DEF MNext

-----------------------------------------------------------------------------
\* The inductive invariant holds in every state.
THEOREM MarkersInvariance == MSpec => []MInv
BY MInitHolds, MNextStep, PTL DEF MSpec

\* The marker manager's state keeps its types: the value of a marker is never
\* 0, that of unmarked blocks, and never more than the assert allows.
THEOREM MarkersTyped == MSpec => []MTypeOK
BY MarkersInvariance, PTL DEF MInv

\* For any four users of a graph's markers, a slot is in use exactly while
\* one of them holds it.
THEOREM SlotsNeverShared == MSpec => []SlotsOwned
BY MarkersInvariance, PTL DEF MInv

\* Markers are private sets of blocks, for any number of blocks and for any
\* bound of the counter.
THEOREM MarkersAreSets == MSpec => ImplementsMarkSets
BY MInitHolds, MNextStep, MarkersInvariance, PTL DEF MSpec, ImplementsMarkSets, Sets!Spec

-----------------------------------------------------------------------------
(* The arena.                                                               *)

\* std::align skips less than one alignment unit ...
LEMMA PaddingRange ==
  ASSUME NEW p \in Nat
  PROVE  Padding(p) \in 0..ALIGNMENT - 1 /\ Padding(p) \in Nat
BY PageAssumption DEF Padding

\* ... to an aligned address ...
LEMMA PaddingAligns ==
  ASSUME NEW p \in Nat
  PROVE  (p + Padding(p)) % ALIGNMENT = 0
<1> DEFINE r == p % ALIGNMENT
           q == p \div ALIGNMENT
<1>1. p = ALIGNMENT * q + r /\ r \in 0..ALIGNMENT - 1 /\ q \in Nat
  BY PageAssumption
<1>2. CASE r = 0
  <2>1. Padding(p) = 0  BY <1>2, PageAssumption DEF Padding
  <2> QED  BY <2>1, <1>2
<1>3. CASE r # 0
  <2>1. Padding(p) = ALIGNMENT - r  BY <1>1, <1>3, PageAssumption DEF Padding
  <2>2. p + Padding(p) = ALIGNMENT * (q + 1)  BY <1>1, <2>1, PageAssumption
  <2> QED  BY <2>2, <1>1, PageAssumption
<1> QED  BY <1>2, <1>3

\* ... and nothing at all when the address is aligned.
LEMMA PaddingZero ==
  ASSUME NEW p \in Nat, p % ALIGNMENT = 0
  PROVE  Padding(p) = 0
BY PageAssumption DEF Padding

\* AlignUp rounds up to a page, or wraps around to 0 past the last page.
LEMMA AlignUpBounds ==
  ASSUME NEW s \in 0..SIZE_RANGE - 1
  PROVE  /\ AlignUp(s) \in Nat
         /\ AlignUp(s) = 0 \/ AlignUp(s) >= s
<1> DEFINE t == s + (PAGE_SIZE - 1)
<1>1. CASE t < SIZE_RANGE
  <2>1. t % SIZE_RANGE = t  BY <1>1, PageAssumption
  <2>2. AlignUp(s) = (t \div PAGE_SIZE) * PAGE_SIZE  BY <2>1 DEF AlignUp
  <2> QED  BY <2>2, PageAssumption
<1>2. CASE t >= SIZE_RANGE
  <2>1. PAGE_SIZE <= SIZE_RANGE  BY PageAssumption
  <2>2. t % SIZE_RANGE = t - SIZE_RANGE  BY <1>2, <2>1, PageAssumption
  <2>3. (t - SIZE_RANGE) \div PAGE_SIZE = 0  BY <1>2, <2>1, PageAssumption
  <2> QED  BY <2>2, <2>3, PageAssumption DEF AlignUp
<1> QED  BY <1>1, <1>2, PageAssumption

\* AlignUp of the constructor's argument, which nothing bounds.
LEMMA AlignUpNat ==
  ASSUME NEW s \in Nat
  PROVE  AlignUp(s) \in Nat
BY PageAssumption DEF AlignUp

-----------------------------------------------------------------------------
(***************************************************************************)
(* The inductive invariant.  NoOverlap alone is not inductive: a new block *)
(* is apart from the old ones because those of its own arena stop at `end' *)
(* and those of other arenas stay inside regions that mmap kept apart.     *)
(***************************************************************************)
Arenas == DOMAIN arenaList

BumpBounds ==
  \A i \in Arenas : /\ arenaList[i].start <= arenaList[i].end
                    /\ arenaList[i].start + arenaList[i].size <= SIZE_RANGE

BlocksUsed ==
  astatus = "running" =>
    \A b \in handedOut : \E i \in Arenas :
       arenaList[i].start <= b.addr /\ b.addr + b.size <= arenaList[i].end

ArenaInv ==
  /\ ATypeOK
  /\ Accounting
  /\ BumpBounds
  /\ ListOwnsMapped
  /\ HeadSizeIsArenaSize
  /\ BlocksUsed
  /\ NoOverlap

\* The fields of an arena are numbers.
LEMMA ArenaFields ==
  ASSUME NEW r \in ArenaRec
  PROVE  r.start \in Nat /\ r.size \in Nat /\ r.end \in Nat /\ r.freeSize \in Nat
BY DEF ArenaRec

\* The arenas of the list, and the head a running allocator always has.
LEMMA ArenasTyped ==
  ASSUME ATypeOK
  PROVE  /\ Len(arenaList) \in Nat /\ Arenas = 1..Len(arenaList)
         /\ \A i \in Arenas : arenaList[i] \in ArenaRec
         /\ astatus = "running" => Len(arenaList) \in Arenas
<1>1. arenaList \in Seq(ArenaRec) /\ (astatus = "running" => arenaList # <<>>)
  BY DEF ATypeOK
<1>2. Len(arenaList) \in Nat /\ Arenas = 1..Len(arenaList)
  BY <1>1, LenProperties DEF Arenas
<1>3. \A i \in Arenas : arenaList[i] \in ArenaRec
  BY <1>1, <1>2, ElementOfSeq
<1>4. astatus = "running" => Len(arenaList) \in Arenas
  BY <1>1, <1>2, EmptySeq
<1> QED  BY <1>2, <1>3, <1>4

-----------------------------------------------------------------------------
\* The constructor establishes the invariant.
LEMMA InitArenaInv == AInit => ArenaInv
<1> SUFFICES ASSUME AInit PROVE ArenaInv
  OBVIOUS
<1>1. arenaSize \in Nat
  BY AlignUpNat, RequestAssumption DEF AInit
<1>2. CASE astatus = "aborted"
  <2>1. /\ mapped = {} /\ arenaList = <<>> /\ handedOut = {} /\ pending = 0
    BY <1>2 DEF AInit
  <2>2. ATypeOK
    BY <1>1, <1>2, <2>1, EmptySeq DEF ATypeOK
  <2> QED
    BY <1>2, <2>1, <2>2 DEF ArenaInv, Accounting, BumpBounds, Arenas,
       ListOwnsMapped, HeadSizeIsArenaSize, BlocksUsed, NoOverlap
<1>3. CASE astatus = "running"
  <2>1. PICK start \in Frames :
          /\ start + arenaSize <= SIZE_RANGE
          /\ mapped = {[start |-> start, size |-> arenaSize]}
          /\ arenaList = <<[start |-> start, size |-> arenaSize,
                            end |-> start, freeSize |-> arenaSize]>>
    BY <1>3 DEF AInit
  <2> DEFINE first == [start |-> start, size |-> arenaSize,
                       end |-> start, freeSize |-> arenaSize]
  <2>2. start \in Nat
    BY RequestAssumption
  <2>3. first \in ArenaRec /\ [start |-> start, size |-> arenaSize] \in Region
    BY <1>1, <2>2 DEF ArenaRec, Region
  <2>4. /\ arenaList \in Seq(ArenaRec) /\ arenaList # <<>>
        /\ Len(arenaList) = 1 /\ DOMAIN arenaList = {1} /\ arenaList[1] = first
    BY <2>1, <2>3
  <2>5. ATypeOK
    BY <1>1, <1>3, <2>1, <2>3, <2>4 DEF AInit, ATypeOK
  <2>6. Accounting /\ BumpBounds /\ HeadSizeIsArenaSize
    BY <1>1, <2>1, <2>2, <2>4 DEF Accounting, BumpBounds, Arenas,
       HeadSizeIsArenaSize, HeadArena
  <2>7. ListOwnsMapped
    BY <2>1, <2>4 DEF ListOwnsMapped
  <2> QED
    BY <2>5, <2>6, <2>7 DEF AInit, ArenaInv, BlocksUsed, NoOverlap
<1> QED  BY <1>2, <1>3 DEF AInit

\* Serving a request from the head arena, which is the abstract Answer.
\* What Alloc takes from freeSize it adds to end.
LEMMA BumpSums ==
  ASSUME NEW start \in Nat, NEW size \in Nat, NEW end \in Nat, NEW freeSize \in Nat,
         NEW skip \in Nat, NEW sz \in Nat, skip + sz <= freeSize,
         end + freeSize = start + size, start <= end
  PROVE  /\ freeSize - skip - sz \in Nat /\ end + skip + sz \in Nat
         /\ (end + skip + sz) + (freeSize - skip - sz) = start + size
         /\ start <= end + skip + sz
OBVIOUS

LEMMA HeadArenaInv == ArenaInv /\ AllocFromHead => ArenaInv' /\ Allocator!Answer
<1> SUFFICES ASSUME ArenaInv, AllocFromHead PROVE ArenaInv' /\ Allocator!Answer
  OBVIOUS
<1> DEFINE n == Len(arenaList)
           h == arenaList[n]
           pad == Padding(h.end)
           addr == h.end + pad
           b0 == [addr |-> addr, size |-> pending]
<1>1. /\ astatus = "running" /\ astatus' = astatus
      /\ pad + pending <= h.freeSize
      /\ arenaList' = [arenaList EXCEPT ![n] = Bump(h, pending)]
      /\ handedOut' = handedOut \cup {b0}
      /\ pending' = 0 /\ arenaSize' = arenaSize /\ mapped' = mapped
      /\ pending \in Nat
  <2>1. pending \in Nat
    BY RequestAssumption DEF ArenaInv, ATypeOK
  <2>2. pad + pending <= h.freeSize
    <3>1. pending + pad <= h.freeSize
      BY DEF AllocFromHead, HeadArena, Fits
    <3>2. h.end \in Nat
      BY ArenasTyped, ArenaFields DEF ArenaInv, AllocFromHead
    <3>3. pad \in Nat
      BY <3>2, PaddingRange
    <3> QED  BY <2>1, <3>1, <3>3
  <2> QED  BY <2>1, <2>2 DEF AllocFromHead, HeadArena
<1>2. /\ arenaList \in Seq(ArenaRec) /\ n \in Nat /\ n \in Arenas
      /\ Arenas = 1..n
      /\ \A i \in Arenas : arenaList[i] \in ArenaRec
  BY <1>1, ArenasTyped DEF ArenaInv, ATypeOK
<1>3. /\ h.start \in Nat /\ h.size \in Nat /\ h.end \in Nat /\ h.freeSize \in Nat
      /\ pad \in Nat
  <2>1. h \in ArenaRec
    BY <1>2
  <2>2. h.end \in Nat
    BY <2>1, ArenaFields
  <2> QED  BY <2>1, <2>2, ArenaFields, PaddingRange
<1>17. pending \in Nat
  BY <1>1
<1>4. /\ h.end + h.freeSize = h.start + h.size
      /\ h.start <= h.end /\ h.start + h.size <= SIZE_RANGE
  BY <1>2 DEF ArenaInv, Accounting, BumpBounds, Arenas
<1>19. /\ h.freeSize - pad - pending \in Nat /\ h.end + pad + pending \in Nat
       /\ (h.end + pad + pending) + (h.freeSize - pad - pending) = h.start + h.size
       /\ h.start <= h.end + pad + pending
  <2>1. /\ h.start \in Nat /\ h.size \in Nat /\ h.end \in Nat /\ h.freeSize \in Nat
        /\ pad \in Nat /\ pending \in Nat /\ pad + pending <= h.freeSize
        /\ h.end + h.freeSize = h.start + h.size /\ h.start <= h.end
    BY <1>1, <1>3, <1>4, Zenon
  <2> HIDE DEF h, pad
  <2> QED  BY ONLY <2>1, BumpSums
<1> DEFINE h1 == Bump(h, pending)
<1>5. /\ h1.start = h.start /\ h1.size = h.size
      /\ h1.end = addr + pending
      /\ h1.freeSize = h.freeSize - pad - pending
  BY DEF Bump
<1>6. h1 \in ArenaRec
  <2>1. h.freeSize - pad - pending \in Nat /\ h.end + pad + pending \in Nat
    BY <1>19
  <2>2. h1 = [start |-> h.start, size |-> h.size, end |-> h.end + pad + pending,
              freeSize |-> h.freeSize - pad - pending]
    BY DEF Bump
  <2> HIDE DEF h1
  <2> QED  BY ONLY <1>3, <2>1, <2>2 DEF ArenaRec
<1>7. /\ arenaList' \in Seq(ArenaRec) /\ Len(arenaList') = n
      /\ arenaList'[n] = h1
      /\ \A i \in Arenas : i # n => arenaList'[i] = arenaList[i]
  BY <1>1, <1>2, <1>6, ExceptSeq
<1>8. Arenas' = Arenas
  BY <1>2, <1>7, LenProperties DEF Arenas
<1>9. \A i \in Arenas : /\ arenaList'[i].start = arenaList[i].start
                        /\ arenaList'[i].size = arenaList[i].size
                        /\ arenaList'[i].end >= arenaList[i].end
  <2> TAKE i \in Arenas
  <2>1. CASE i = n
    BY <1>1, <1>3, <1>5, <1>7, <2>1
  <2>2. CASE i # n
    <3>1. arenaList[i].end \in Nat
      BY <1>2, ArenaFields
    <3> QED  BY <1>7, <2>2, <3>1
  <2> QED  BY <2>1, <2>2
<1>10. ATypeOK'
  <2>1. b0 \in [addr : Nat, size : Nat]
    BY <1>1, <1>3
  <2>2. arenaList' # <<>>
    BY <1>2, <1>7, EmptySeq
  <2> QED
    BY <1>1, <1>7, <2>1, <2>2 DEF ArenaInv, ATypeOK
<1>11. Accounting' /\ BumpBounds'
  <2> SUFFICES ASSUME NEW i \in Arenas
               PROVE  /\ arenaList'[i].end + arenaList'[i].freeSize
                           = arenaList'[i].start + arenaList'[i].size
                      /\ arenaList'[i].start <= arenaList'[i].end
                      /\ arenaList'[i].start + arenaList'[i].size <= SIZE_RANGE
    BY <1>8 DEF Accounting, BumpBounds, Arenas
  <2>1. CASE i = n
    <3>1. /\ h1.end + h1.freeSize = h1.start + h1.size
          /\ h1.start <= h1.end /\ h1.start + h1.size <= SIZE_RANGE
      <4> HIDE DEF h, h1, pad
      <4> QED  BY <1>4, <1>5, <1>19, Zenon
    <3> QED  BY <1>7, <2>1, <3>1
  <2>2. CASE i # n
    BY <1>7, <2>2 DEF ArenaInv, Accounting, BumpBounds, Arenas
  <2> QED  BY <2>1, <2>2
<1>12. ListOwnsMapped'
  BY <1>1, <1>8, <1>9 DEF ArenaInv, ListOwnsMapped, Arenas
<1>13. HeadSizeIsArenaSize'
  BY <1>1, <1>2, <1>7, <1>9 DEF ArenaInv, HeadSizeIsArenaSize, HeadArena
<1>14. BlocksUsed'
  <2> SUFFICES ASSUME NEW b \in handedOut'
               PROVE  \E i \in Arenas : /\ arenaList'[i].start <= b.addr
                                        /\ b.addr + b.size <= arenaList'[i].end
    BY <1>8 DEF BlocksUsed
  <2>1. CASE b = b0
    <3>1. b.addr = addr /\ b.size = pending
      BY <2>1
    <3>2. arenaList'[n].start = h.start /\ arenaList'[n].end = addr + pending
      BY <1>5, <1>7
    <3>3. h.start <= addr
      BY <1>3, <1>4
    <3>4. arenaList'[n].start <= b.addr /\ b.addr + b.size <= arenaList'[n].end
      BY <1>3, <1>17, <3>1, <3>2, <3>3
    <3> QED  BY <1>2, <3>4
  <2>2. CASE b \in handedOut
    <3>1. PICK i \in Arenas :
             arenaList[i].start <= b.addr /\ b.addr + b.size <= arenaList[i].end
      BY <1>1, <2>2 DEF ArenaInv, BlocksUsed
    <3>2. b.addr \in Nat /\ b.size \in Nat
      BY <2>2 DEF ArenaInv, ATypeOK
    <3>3. arenaList[i].end \in Nat /\ arenaList'[i].end \in Nat
      BY <1>2, <1>6, <1>7, ArenaFields
    <3>4. arenaList'[i].start <= b.addr /\ b.addr + b.size <= arenaList'[i].end
      BY <1>9, <3>1, <3>2, <3>3
    <3> QED  BY <3>4
  <2> QED  BY <1>1, <2>1, <2>2
<1>15. \A c \in handedOut : b0.addr + b0.size <= c.addr \/ c.addr + c.size <= b0.addr
  <2> TAKE c \in handedOut
  <2>1. PICK i \in Arenas :
           arenaList[i].start <= c.addr /\ c.addr + c.size <= arenaList[i].end
    BY <1>1 DEF ArenaInv, BlocksUsed
  <2>2. c.addr \in Nat /\ c.size \in Nat
    BY DEF ArenaInv, ATypeOK
  <2>3. CASE i = n
    BY <1>3, <2>1, <2>2, <2>3
  <2>4. CASE i # n
    <3>1. /\ arenaList[i].start \in Nat /\ arenaList[i].size \in Nat
          /\ arenaList[i].end \in Nat /\ arenaList[i].freeSize \in Nat
      BY <1>2, ArenaFields
    <3>2. arenaList[i].end <= arenaList[i].start + arenaList[i].size
      BY <3>1 DEF ArenaInv, Accounting, Arenas
    <3>3. \/ arenaList[i].start + arenaList[i].size <= h.start
          \/ h.start + h.size <= arenaList[i].start
      BY <1>2, <2>4 DEF ArenaInv, ListOwnsMapped, Arenas
    <3>4. addr + pending <= h.start + h.size /\ h.start <= addr
      BY <1>1, <1>3, <1>4
    <3>5. addr \in Nat
      BY <1>3
    <3>6. /\ h.start \in Nat /\ h.size \in Nat
          /\ b0.addr = addr /\ b0.size = pending
      BY <1>3
    <3> HIDE DEF n, h, pad, addr, b0
    <3>7. CASE arenaList[i].start + arenaList[i].size <= h.start
      <4>1. c.addr + c.size <= addr
        BY <2>1, <2>2, <3>1, <3>2, <3>4, <3>5, <3>6, <3>7
      <4> QED  BY <3>6, <4>1
    <3>8. CASE h.start + h.size <= arenaList[i].start
      <4>1. addr + pending <= c.addr
        BY <1>17, <2>1, <2>2, <3>1, <3>4, <3>5, <3>6, <3>8
      <4> QED  BY <3>6, <4>1
    <3> QED  BY <3>3, <3>7, <3>8
  <2> QED  BY <2>3, <2>4
<1>16. NoOverlap'
  BY <1>1, <1>15 DEF ArenaInv, NoOverlap
<1>18. Allocator!Answer
  <2>1. addr \in 0..SIZE_RANGE - 1
    <3>1. pending # 0
      BY DEF AllocFromHead
    <3>2. SIZE_RANGE \in Nat
      BY PageAssumption
    <3> QED  BY <1>1, <1>3, <1>4, <1>17, <3>1, <3>2, SMTT(30)
  <2>2. addr % ALIGNMENT = 0
    BY <1>3, PaddingAligns
  <2>3. \A c \in handedOut : Allocator!Disjoint(b0, c)
    BY <1>15 DEF Allocator!Disjoint
  <2>4. pending # 0
    BY DEF AllocFromHead
  <2> QED
    BY <1>1, <2>1, <2>2, <2>3, <2>4 DEF Allocator!Answer
<1> QED
  BY <1>10, <1>11, <1>12, <1>13, <1>14, <1>16, <1>18 DEF ArenaInv

\* Mapping a new head keeps the old arenas and their blocks where they are,
\* and the new head has room for the request that asked for it.
LEMMA GrowArenaInv == ArenaInv /\ Grow => ArenaInv' /\ Fits(HeadArena, pending)'
<1> SUFFICES ASSUME ArenaInv, Grow PROVE ArenaInv' /\ Fits(HeadArena, pending)'
  OBVIOUS
<1> DEFINE n == Len(arenaList)
<1>1. /\ astatus = "running" /\ astatus' = astatus
      /\ pending' = pending /\ handedOut' = handedOut
      /\ arenaSize' = GrownSize(pending) /\ arenaSize' # 0
      /\ arenaList \in Seq(ArenaRec) /\ arenaSize \in Nat
      /\ HeadArena.size = arenaSize
  BY DEF Grow, AddNewArena, ArenaInv, ATypeOK, HeadSizeIsArenaSize
<1>2. /\ n \in Nat /\ n \in Arenas /\ Arenas = 1..n
      /\ \A i \in Arenas : arenaList[i] \in ArenaRec
  BY <1>1, ArenasTyped DEF ArenaInv
<1>3. pending \in 0..SIZE_RANGE - 1 /\ pending \in Nat
  BY RequestAssumption, PageAssumption DEF ArenaInv, ATypeOK
<1>4. arenaSize' \in Nat /\ arenaSize' >= pending
  BY <1>1, <1>3, AlignUpBounds DEF GrownSize
<1>5. PICK start \in Frames :
        /\ Free(start, arenaSize')
        /\ mapped' = mapped \cup {[start |-> start, size |-> arenaSize']}
        /\ arenaList' = Append(arenaList,
             [start |-> start, size |-> arenaSize',
              end |-> start, freeSize |-> arenaSize'])
  BY DEF Grow, AddNewArena
<1> DEFINE new == [start |-> start, size |-> arenaSize',
                   end |-> start, freeSize |-> arenaSize']
           region == [start |-> start, size |-> arenaSize']
<1>6. start \in Nat /\ start % ALIGNMENT = 0
  BY RequestAssumption
<1>7. new \in ArenaRec /\ region \in Region
  BY <1>4, <1>6 DEF ArenaRec, Region
<1>8. /\ arenaList' \in Seq(ArenaRec) /\ arenaList' # <<>>
      /\ Len(arenaList') = n + 1
      /\ arenaList'[n + 1] = new
      /\ \A i \in Arenas : arenaList'[i] = arenaList[i]
  BY <1>1, <1>2, <1>5, <1>7, AppendProperties
<1>9. Arenas' = Arenas \cup {n + 1}
  BY <1>2, <1>8, LenProperties DEF Arenas
<1>10. ATypeOK'
  BY <1>1, <1>4, <1>5, <1>7, <1>8 DEF ArenaInv, ATypeOK
<1>11. Accounting' /\ BumpBounds'
  <2>1. start + arenaSize' <= SIZE_RANGE
    BY <1>5 DEF Free
  <2> SUFFICES ASSUME NEW i \in Arenas'
               PROVE  /\ arenaList'[i].end + arenaList'[i].freeSize
                           = arenaList'[i].start + arenaList'[i].size
                      /\ arenaList'[i].start <= arenaList'[i].end
                      /\ arenaList'[i].start + arenaList'[i].size <= SIZE_RANGE
    BY DEF Accounting, BumpBounds, Arenas
  <2>2. CASE i = n + 1
    BY <1>4, <1>6, <1>8, <2>1, <2>2
  <2>3. CASE i \in Arenas
    BY <1>8, <2>3 DEF ArenaInv, Accounting, BumpBounds, Arenas
  <2> QED  BY <1>9, <2>2, <2>3
<1>12. HeadArena' = new
  BY <1>8 DEF HeadArena
<1>13. HeadSizeIsArenaSize'
  BY <1>12 DEF HeadSizeIsArenaSize
<1>14. ListOwnsMapped'
  <2>1. \A i \in Arenas :
           \/ arenaList[i].start + arenaList[i].size <= start
           \/ start + arenaSize' <= arenaList[i].start
    <3> TAKE i \in Arenas
    <3> DEFINE m == [start |-> arenaList[i].start, size |-> arenaList[i].size]
    <3>1. m \in mapped
      BY DEF ArenaInv, ListOwnsMapped, Arenas
    <3>2. start + arenaSize' <= m.start \/ m.start + m.size <= start
      BY <1>5, <3>1 DEF Free
    <3> QED  BY <3>2
  <2>2. \A i, j \in Arenas' :
       i # j => \/ arenaList'[i].start + arenaList'[i].size <= arenaList'[j].start
                \/ arenaList'[j].start + arenaList'[j].size <= arenaList'[i].start
    <3> TAKE i, j \in Arenas'
    <3>1. CASE i = n + 1 /\ j \in Arenas
      BY <1>8, <2>1, <3>1
    <3>2. CASE j = n + 1 /\ i \in Arenas
      BY <1>8, <2>1, <3>2
    <3>3. CASE i \in Arenas /\ j \in Arenas
      BY <1>8, <3>3 DEF ArenaInv, ListOwnsMapped, Arenas
    <3> QED  BY <1>9, <3>1, <3>2, <3>3
  <2>3. mapped' = {[start |-> arenaList'[i].start, size |-> arenaList'[i].size] :
                     i \in Arenas'}
    <3>1. mapped = {[start |-> arenaList[i].start, size |-> arenaList[i].size] :
                      i \in Arenas}
      BY DEF ArenaInv, ListOwnsMapped, Arenas
    <3>2. \A i \in Arenas : /\ arenaList'[i].start = arenaList[i].start
                            /\ arenaList'[i].size = arenaList[i].size
      BY <1>8
    <3>3. arenaList'[n + 1].start = start /\ arenaList'[n + 1].size = arenaSize'
      BY <1>8
    <3>4. mapped' = mapped \cup {[start |-> arenaList'[n + 1].start,
                                  size |-> arenaList'[n + 1].size]}
      BY <1>5, <3>3
    <3> QED  BY <1>9, <3>1, <3>2, <3>4
  <2> QED  BY <2>2, <2>3 DEF ListOwnsMapped, Arenas
<1>15. BlocksUsed' /\ NoOverlap'
  BY <1>1, <1>8, <1>9 DEF ArenaInv, BlocksUsed, NoOverlap
<1>16. Fits(HeadArena, pending)'
  <2>1. Padding(start) = 0
    BY <1>6, PaddingZero
  <2> QED  BY <1>1, <1>3, <1>4, <1>12, <2>1 DEF Fits
<1> QED  BY <1>10, <1>11, <1>13, <1>14, <1>15, <1>16 DEF ArenaInv

\* Every operation of the allocator preserves the invariant.
LEMMA NextArenaInv == ArenaInv /\ [ANext]_avars => ArenaInv'
<1> SUFFICES ASSUME ArenaInv, [ANext]_avars PROVE ArenaInv'
  OBVIOUS
<1> USE DEF ArenaInv, ATypeOK, Accounting, BumpBounds, Arenas, ListOwnsMapped,
            HeadSizeIsArenaSize, HeadArena, BlocksUsed, NoOverlap
<1>1. ASSUME NEW size \in Requests, Call(size) PROVE ArenaInv'
  BY <1>1 DEF Call
<1>2. CASE AllocFromHead
  BY <1>2, HeadArenaInv
<1>3. CASE Grow
  BY <1>3, GrowArenaInv
<1>4. CASE MapFails
  <2>1. pending \in 0..SIZE_RANGE - 1 /\ arenaSize \in Nat
    BY RequestAssumption, PageAssumption
  <2>2. arenaSize' \in Nat
    BY <1>4, <2>1, AlignUpBounds DEF MapFails, GrownSize
  <2> QED  BY <1>4, <2>2 DEF MapFails
<1>5. CASE Destroy
  BY <1>5, EmptySeq DEF Destroy
<1>6. CASE UNCHANGED avars
  BY <1>6 DEF avars
<1> QED
  BY <1>1, <1>2, <1>3, <1>4, <1>5, <1>6 DEF ANext

-----------------------------------------------------------------------------
\* The inductive invariant holds in every state of the allocator.
THEOREM ArenaInvariance == ASpec => []ArenaInv
BY InitArenaInv, NextArenaInv, PTL DEF ASpec

\* The fields of ArenaAllocator keep their types; in particular freeSize never
\* goes below zero, and a running allocator has a head arena.
THEOREM ArenaTyped == ASpec => []ATypeOK
BY ArenaInvariance, PTL DEF ArenaInv

\* No byte of memory is handed out twice, for every page size, alignment,
\* sequence of requests and placement of the mappings.
THEOREM BlocksNeverOverlap == ASpec => []NoOverlap
BY ArenaInvariance, PTL DEF ArenaInv

\* The destructor unmaps every region the allocator ever mapped, and only those.
THEOREM NothingLeaks == ASpec => []ListOwnsMapped
BY ArenaInvariance, PTL DEF ArenaInv

\* A block of a running allocator lies in mapped memory.
THEOREM BlocksStayMapped == ASpec => []BlocksMapped
<1>1. ArenaInv => BlocksMapped
  <2> SUFFICES ASSUME ArenaInv, astatus = "running", NEW b \in handedOut
               PROVE  \E m \in mapped :
                        m.start <= b.addr /\ b.addr + b.size <= m.start + m.size
    BY DEF BlocksMapped
  <2>1. PICK i \in Arenas :
          arenaList[i].start <= b.addr /\ b.addr + b.size <= arenaList[i].end
    BY DEF ArenaInv, BlocksUsed
  <2>2. /\ arenaList[i].start \in Nat /\ arenaList[i].size \in Nat
        /\ arenaList[i].end \in Nat /\ arenaList[i].freeSize \in Nat
    BY ArenasTyped, ArenaFields DEF ArenaInv
  <2>3. b.addr \in Nat /\ b.size \in Nat
    BY DEF ArenaInv, ATypeOK
  <2>4. arenaList[i].end <= arenaList[i].start + arenaList[i].size
    BY <2>2 DEF ArenaInv, Accounting, Arenas
  <2>5. [start |-> arenaList[i].start, size |-> arenaList[i].size] \in mapped
    BY DEF ArenaInv, ListOwnsMapped, Arenas
  <2> QED  BY <2>1, <2>2, <2>3, <2>4, <2>5
<1> QED  BY <1>1, ArenaInvariance, PTL

\* allocate calls itself at most once.
THEOREM OneRetryIsEnough == ASpec => RetryFits
<1>1. ArenaInv /\ [ANext]_avars => [Grow => Fits(HeadArena, pending)']_avars
  BY GrowArenaInv
<1> QED  BY <1>1, ArenaInvariance, PTL DEF ASpec, RetryFits

\* ArenaAllocator is the allocator of AllocatorSpec: mapping a new arena is
\* invisible to the client, and each answer is an aligned, fresh block.
THEOREM ArenaRefinement == ASpec => ImplementsAllocator
<1>1. AInit => Allocator!Init
  BY DEF AInit, Allocator!Init
<1>2. ArenaInv /\ [ANext]_avars => [Allocator!Next]_(Allocator!vars)
  <2> SUFFICES ASSUME ArenaInv, [ANext]_avars
               PROVE  [Allocator!Next]_(Allocator!vars)
    OBVIOUS
  <2> USE DEF Allocator!Next, Allocator!vars
  <2>1. ASSUME NEW size \in Requests, Call(size) PROVE Allocator!Ask
    BY <2>1 DEF Call, Allocator!Ask
  <2>2. CASE AllocFromHead
    BY <2>2, HeadArenaInv
  <2>3. CASE Grow
    BY <2>3 DEF Grow
  <2>4. CASE MapFails
    BY <2>4 DEF MapFails, Allocator!Abort
  <2>5. CASE Destroy
    BY <2>5 DEF Destroy, Allocator!Destroy
  <2>6. CASE UNCHANGED avars
    BY <2>6 DEF avars
  <2> QED
    BY <2>1, <2>2, <2>3, <2>4, <2>5, <2>6 DEF ANext
<1> QED
  BY <1>1, <1>2, ArenaInvariance, PTL DEF ASpec, ImplementsAllocator, Allocator!Spec
=============================================================================
