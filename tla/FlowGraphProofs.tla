-------------------------- MODULE FlowGraphProofs --------------------------
(* Lemmas about paths and dominance that the proofs about searches rest on.  *)
EXTENDS FlowGraph, WellFoundedInduction, TLAPS

\* The path of no edges.
LEMMA ReachesItself ==
  ASSUME NEW N, NEW E, NEW a \in N
  PROVE  a \in ReachableFrom(a, N, E)
BY DEF ReachableFrom

\* A path and one more edge.
LEMMA ReachesNext ==
  ASSUME NEW N, NEW E, NEW a, NEW b, NEW c \in N,
         b \in ReachableFrom(a, N, E), <<b, c>> \in E
  PROVE  c \in ReachableFrom(a, N, E)
<1>1. ASSUME NEW S \in SUBSET N, a \in S, Closed(S, E)
      PROVE  c \in S
  <2>1. b \in S
    BY <1>1 DEF ReachableFrom
  <2> QED
    BY <1>1, <2>1 DEF Closed
<1> QED
  BY <1>1 DEF ReachableFrom

\* Only the root dominates the root.
LEMMA RootDominators ==
  ASSUME NEW N, NEW E, NEW root \in N, NEW a,
         Dominates(a, root, root, N, E)
  PROVE  a = root
BY ReachesItself DEF Dominates

\* What dominates a block, the block apart, dominates its predecessors.
LEMMA DominatesPredecessor ==
  ASSUME NEW N, NEW E, NEW root, NEW a, NEW b, NEW c \in N,
         <<b, c>> \in E, a # c, Dominates(a, c, root, N, E)
  PROVE  Dominates(a, b, root, N, E)
<1> SUFFICES ASSUME a # b, a # root, b \in ReachableFrom(root, N, Without({a}, E))
             PROVE  FALSE
  BY DEF Dominates
<1>1. <<b, c>> \in Without({a}, E)
  BY DEF Without
<1>2. c \in ReachableFrom(root, N, Without({a}, E))
  BY <1>1, ReachesNext
<1> QED
  BY <1>2 DEF Dominates

\* What dominates a dominator of c dominates c.
LEMMA DominatesTransitive ==
  ASSUME NEW N, NEW E, E \subseteq N \X N, NEW root \in N,
         NEW a, NEW b \in N, NEW c \in N,
         Dominates(a, b, root, N, E), Dominates(b, c, root, N, E)
  PROVE  Dominates(a, c, root, N, E)
<1> DEFINE R(x) == ReachableFrom(root, N, Without({x}, E))
<1> SUFFICES ASSUME a # c, a # root, c \in R(a)
             PROVE  FALSE
  BY DEF Dominates
<1>1. CASE a = b \/ b = c
  BY <1>1 DEF Dominates
<1>2. CASE b = root
  BY <1>2, RootDominators
<1>3. CASE a # b /\ b # c /\ b # root
  <2>1. b \notin R(a) /\ c \notin R(b)
    BY <1>3 DEF Dominates
  <2> DEFINE S == R(a) \cap R(b)
  <2>2. root \in S
    BY ReachesItself
  <2>3. Closed(S, Without({a}, E))
    <3> SUFFICES ASSUME NEW e \in Without({a}, E), e[1] \in S
                 PROVE  e[2] \in S
      BY DEF Closed
    <3>1. e \in E /\ e = <<e[1], e[2]>> /\ e[1] \in N /\ e[2] \in N
      BY DEF Without
    <3>2. e[2] \in R(a)
      BY <3>1, ReachesNext
    <3>3. e \in Without({b}, E)
      BY <2>1, <3>1, <3>2 DEF Without
    <3>4. e[2] \in R(b)
      BY <3>1, <3>3, ReachesNext
    <3> QED
      BY <3>2, <3>4
  <2>4. S \subseteq N
    BY DEF ReachableFrom
  <2>5. c \in S
    BY <2>2, <2>3, <2>4 DEF ReachableFrom
  <2> QED
    BY <2>1, <2>5
<1> QED
  BY <1>1, <1>2, <1>3

\* No two blocks that control can get to dominate each other.
LEMMA DominatesAntisymmetric ==
  ASSUME NEW N, NEW E, E \subseteq N \X N, NEW root \in N,
         NEW a \in ReachableFrom(root, N, E), NEW b \in N,
         Dominates(a, b, root, N, E), Dominates(b, a, root, N, E)
  PROVE  a = b
<1> DEFINE R(x) == ReachableFrom(root, N, Without({x}, E))
<1> SUFFICES ASSUME a # b
             PROVE  FALSE
  OBVIOUS
<1>1. a \in N
  BY DEF ReachableFrom
<1>2. a # root /\ b # root
  BY <1>1, RootDominators
<1>3. b \notin R(a) /\ a \notin R(b)
  BY <1>2 DEF Dominates
<1> DEFINE S == R(a) \cap R(b)
<1>4. root \in S
  BY ReachesItself
<1>5. Closed(S, E)
  <2> SUFFICES ASSUME NEW e \in E, e[1] \in S
               PROVE  e[2] \in S
    BY DEF Closed
  <2>1. e = <<e[1], e[2]>> /\ e[1] \in N /\ e[2] \in N
    OBVIOUS
  <2>2. ASSUME e[2] # a
        PROVE  e[2] \in R(a)
    <3>1. a # e[1]
      BY <1>3
    <3>2. e \in Without({a}, E)
      BY <2>2, <3>1 DEF Without
    <3> QED
      BY <2>1, <3>2, ReachesNext
  <2>3. ASSUME e[2] # b
        PROVE  e[2] \in R(b)
    <3>1. b # e[1]
      BY <1>3
    <3>2. e \in Without({b}, E)
      BY <2>3, <3>1 DEF Without
    <3> QED
      BY <2>1, <3>2, ReachesNext
  <2> QED
    BY <1>3, <2>2, <2>3
<1>6. S \subseteq N
  BY DEF ReachableFrom
<1>7. a \in S
  BY <1>4, <1>5, <1>6 DEF ReachableFrom
<1> QED
  BY <1>3, <1>7
-----------------------------------------------------------------------------
(* Paths.                                                                    *)

\* A set that has the first node and is closed has every node of a path.
LEMMA ReachesInside ==
  ASSUME NEW N, NEW E, NEW S, NEW a \in S, a \in N, NEW b \in ReachableFrom(a, N, E),
         \A e \in E : e[1] \in S /\ e[1] \in N /\ e[2] \in N => e[2] \in S,
         E \subseteq N \X N
  PROVE  b \in S
<1>1. a \in S \cap N /\ Closed(S \cap N, E)
  BY DEF Closed
<1> QED
  BY <1>1 DEF ReachableFrom

\* Two paths, one after the other.
LEMMA ReachesTransitive ==
  ASSUME NEW N, NEW E, NEW a, NEW b \in ReachableFrom(a, N, E),
         NEW c \in ReachableFrom(b, N, E)
  PROVE  c \in ReachableFrom(a, N, E)
BY DEF ReachableFrom

\* A path exists also where there are more edges.
LEMMA ReachesMore ==
  ASSUME NEW N, NEW E, NEW F, E \subseteq F, NEW a, NEW b \in ReachableFrom(a, N, E)
  PROVE  b \in ReachableFrom(a, N, F)
<1>1. \A S : Closed(S, F) => Closed(S, E)
  BY DEF Closed
<1> QED
  BY <1>1 DEF ReachableFrom

\* An edge and then a path.
LEMMA ReachesFirst ==
  ASSUME NEW N, NEW E, NEW a \in N, NEW b \in N, <<a, b>> \in E,
         NEW c \in ReachableFrom(b, N, E)
  PROVE  c \in ReachableFrom(a, N, E)
<1>1. b \in ReachableFrom(a, N, E)
  BY ReachesItself, ReachesNext
<1> QED
  BY <1>1, ReachesTransitive

\* A path that leads elsewhere has a first edge.
LEMMA ReachesBySuccessor ==
  ASSUME NEW N, NEW E, E \subseteq N \X N, NEW a \in N,
         NEW c \in ReachableFrom(a, N, E), c # a
  PROVE  \E b \in N : <<a, b>> \in E /\ c \in ReachableFrom(b, N, E)
<1> DEFINE S == {a} \cup {d \in N : \E b \in N : <<a, b>> \in E /\ d \in ReachableFrom(b, N, E)}
<1>1. ASSUME NEW e \in E, e[1] \in S
      PROVE  e[2] \in S
  <2>1. e = <<e[1], e[2]>> /\ e[1] \in N /\ e[2] \in N
    OBVIOUS
  <2>2. CASE e[1] = a
    BY <2>1, <2>2, ReachesItself
  <2>3. CASE e[1] # a
    <3>1. PICK b \in N : <<a, b>> \in E /\ e[1] \in ReachableFrom(b, N, E)
      BY <1>1, <2>3
    <3>2. e[2] \in ReachableFrom(b, N, E)
      BY <2>1, <3>1, ReachesNext
    <3> QED
      BY <2>1, <3>1, <3>2
  <2> QED
    BY <2>2, <2>3
<1>2. c \in S
  <2>1. a \in S
    OBVIOUS
  <2> HIDE DEF S
  <2> QED
    BY <1>1, <2>1, ReachesInside
<1> QED
  BY <1>2

\* A path against the edges.
LEMMA ReachesBack ==
  ASSUME NEW N, NEW E, NEW F, E \subseteq N \X N, \A e \in E : <<e[2], e[1]>> \in F,
         NEW a \in N, NEW c \in ReachableFrom(a, N, E)
  PROVE  a \in ReachableFrom(c, N, F)
<1> DEFINE S == {x \in N : a \in ReachableFrom(x, N, F)}
<1>1. a \in S
  BY ReachesItself
<1>2. ASSUME NEW e \in E, e[1] \in S
      PROVE  e[2] \in S
  <2>1. e[1] \in N /\ e[2] \in N /\ <<e[2], e[1]>> \in F
    OBVIOUS
  <2> QED
    BY <1>2, <2>1, ReachesFirst
<1>3. c \in S
  BY <1>1, <1>2, ReachesInside
<1> QED
  BY <1>3

-----------------------------------------------------------------------------
(* Dominators.                                                               *)

\* A path of edges that do not touch h does not lead to h.
LEMMA NotThrough ==
  ASSUME NEW N, NEW E, E \subseteq N \X N, NEW h, NEW a \in N, a # h
  PROVE  h \notin ReachableFrom(a, N, Without({h}, E))
<1> DEFINE F == Without({h}, E)
           S == N \ {h}
<1>1. a \in S /\ F \subseteq N \X N /\ \A e \in F : e[2] # h
  BY DEF Without
<1>2. \A e \in F : e[1] \in S /\ e[1] \in N /\ e[2] \in N => e[2] \in S
  BY <1>1
<1>3. h \notin S
  OBVIOUS
<1> HIDE DEF S, F
<1>4. \A b \in ReachableFrom(a, N, F) : b \in S
  BY <1>1, <1>2, ReachesInside
<1> QED
  BY <1>3, <1>4 DEF F

\* Of two dominators of a block one dominates the other.
LEMMA DominatorsComparable ==
  ASSUME NEW N, NEW E, E \subseteq N \X N, NEW root \in N,
         NEW a \in N, NEW b \in N, NEW c \in ReachableFrom(root, N, E),
         Dominates(a, c, root, N, E), Dominates(b, c, root, N, E)
  PROVE  Dominates(a, b, root, N, E) \/ Dominates(b, a, root, N, E)
<1> DEFINE R(x) == ReachableFrom(root, N, Without({x}, E))
<1> SUFFICES ASSUME ~Dominates(a, b, root, N, E), ~Dominates(b, a, root, N, E)
             PROVE  FALSE
  OBVIOUS
<1>1. /\ a # b /\ a # root /\ b # root /\ b \in R(a) /\ a \in R(b)
      /\ c # a /\ c # b /\ c \notin R(a) /\ c \notin R(b)
  BY DEF Dominates
<1> DEFINE S == R(a) \cup R(b)
<1>2. root \in S
  BY ReachesItself
<1>3. ASSUME NEW e \in E, e[1] \in S
      PROVE  e[2] \in S
  <2>1. e = <<e[1], e[2]>> /\ e[1] \in N /\ e[2] \in N
    OBVIOUS
  <2>2. ASSUME NEW x, x \in {a, b}, e[1] \in R(x), e[2] \notin {a, b}
        PROVE  e[2] \in R(x)
    <3>1. e[1] # x
      BY <1>1, <2>2, NotThrough
    <3>2. e \in Without({x}, E)
      BY <2>2, <3>1 DEF Without
    <3> QED
      BY <2>1, <2>2, <3>2, ReachesNext
  <2> QED
    BY <1>1, <1>3, <2>2
<1>4. c \in S
  <2> HIDE DEF S
  <2> QED
    BY <1>2, <1>3, ReachesInside
<1> QED
  BY <1>1, <1>4

\* A path that does not touch h from b to a block that h dominates: h dominates
\* b as well.
LEMMA DominatesBackwards ==
  ASSUME NEW N, NEW E, E \subseteq N \X N, NEW root \in N,
         NEW h \in N, NEW b \in N, b # h, NEW s \in ReachableFrom(b, N, Without({h}, E)),
         Dominates(h, s, root, N, E)
  PROVE  Dominates(h, b, root, N, E)
<1> DEFINE F == Without({h}, E)
<1> SUFFICES ASSUME h # root, b \in ReachableFrom(root, N, F)
             PROVE  FALSE
  BY DEF Dominates
<1>1. s \in ReachableFrom(root, N, F)
  BY ReachesTransitive
<1>2. h # s
  BY NotThrough
<1> QED
  BY <1>1, <1>2 DEF Dominates
-----------------------------------------------------------------------------
(* Chains of links.                                                          *)

\* A set of numbers has a least one.
LEMMA LeastNumber ==
  ASSUME NEW S \in SUBSET Nat, S # {}
  PROVE  \E m \in S : \A k \in S : m <= k
<1> DEFINE R == OpToRel(<, Nat)
<1>1. PICK m \in S : \A k \in S : <<k, m>> \notin R
  <2>1. IsWellFoundedOn(R, Nat)
    BY NatLessThanWellFounded
  <2> HIDE DEF R
  <2> QED
    BY <2>1, WFMin
<1>2. \A k \in S : ~(k < m)
  BY <1>1 DEF OpToRel
<1> QED
  BY <1>2

\* Nobody climbs for ever below a bound.
LEMMA ClimbEnds ==
  ASSUME NEW S, NEW rank, NEW B \in Nat, \A x \in S : rank[x] \in 0..B,
         \A x \in S : \E y \in S : rank[x] < rank[y]
  PROVE  S = {}
<1> SUFFICES ASSUME S # {}
             PROVE  FALSE
  OBVIOUS
<1> DEFINE T == {B - rank[x] : x \in S}
<1>1. T \in SUBSET Nat /\ T # {}
  OBVIOUS
<1>2. PICK t \in T : \A k \in T : t <= k
  <2> HIDE DEF T
  <2> QED
    BY <1>1, LeastNumber
<1>3. PICK x \in S : t = B - rank[x]
  OBVIOUS
<1>4. PICK y \in S : rank[x] < rank[y]
  OBVIOUS
<1>5. B - rank[y] \in T /\ rank[x] \in 0..B /\ rank[y] \in 0..B
  OBVIOUS
<1>6. t <= B - rank[y]
  BY <1>2, <1>5
<1> HIDE DEF T
<1> QED
  BY <1>3, <1>4, <1>5, <1>6

LEMMA LinksParts ==
  ASSUME NEW N, NEW up
  PROVE  /\ Links(N, up) \subseteq N \X N
         /\ \A e \in Links(N, up) : e[1] \in N /\ e[2] = up[e[1]] /\ e[2] \in N
         /\ \A k \in N : up[k] \in N => <<k, up[k]>> \in Links(N, up)
BY DEF Links

LEMMA ChainParts ==
  ASSUME NEW N, NEW up, NEW m \in N
  PROVE  /\ m \in Chain(m, N, up) /\ Chain(m, N, up) \subseteq N
         /\ \A q \in Chain(m, N, up) : up[q] \in N => up[q] \in Chain(m, N, up)
<1>1. m \in Chain(m, N, up) /\ Chain(m, N, up) \subseteq N
  BY ReachesItself DEF Chain, ReachableFrom
<1>2. ASSUME NEW q \in Chain(m, N, up), up[q] \in N
      PROVE  up[q] \in Chain(m, N, up)
  <2>1. <<q, up[q]>> \in Links(N, up)
    BY <1>1, <1>2, LinksParts
  <2> QED
    BY <1>2, <2>1, ReachesNext DEF Chain
<1> QED
  BY <1>1, <1>2

\* What holds of m and passes along the links holds of the chain.
LEMMA ChainInside ==
  ASSUME NEW N, NEW up, NEW m \in N, NEW S, m \in S,
         \A k \in N : k \in S /\ up[k] \in N => up[k] \in S
  PROVE  Chain(m, N, up) \subseteq S
<1>1. \A e \in Links(N, up) : e[1] \in S /\ e[1] \in N /\ e[2] \in N => e[2] \in S
  BY LinksParts
<1>2. \A b \in ReachableFrom(m, N, Links(N, up)) : b \in S
  BY <1>1, LinksParts, ReachesInside
<1> QED
  BY <1>2 DEF Chain

\* Another node of the chain is linked to.
LEMMA ChainLast ==
  ASSUME NEW N, NEW up, NEW m \in N, NEW p \in Chain(m, N, up), p # m
  PROVE  \E q \in Chain(m, N, up) : up[q] = p
<1> DEFINE S == {m} \cup {x \in N : \E q \in Chain(m, N, up) : up[q] = x}
<1>1. ASSUME NEW k \in N, k \in S, up[k] \in N
      PROVE  up[k] \in S
  <2>1. k \in Chain(m, N, up)
    BY <1>1, ChainParts
  <2> QED
    BY <1>1, <2>1
<1>2. p \in S
  <2>1. m \in S
    OBVIOUS
  <2> HIDE DEF S
  <2> QED
    BY <1>1, <2>1, ChainInside
<1> QED
  BY <1>2

\* The chain of m is m and the chain of what m links to.
LEMMA ChainSteps ==
  ASSUME NEW N, NEW up, NEW m \in N
  PROVE  Chain(m, N, up) = {m} \cup (IF up[m] \in N THEN Chain(up[m], N, up) ELSE {})
<1> DEFINE S == {m} \cup (IF up[m] \in N THEN Chain(up[m], N, up) ELSE {})
<1>1. ASSUME NEW k \in N, k \in S, up[k] \in N
      PROVE  up[k] \in S
  <2>1. CASE k = m
    BY <1>1, <2>1, ChainParts
  <2>2. CASE k # m
    <3>1. up[m] \in N /\ k \in Chain(up[m], N, up)
      BY <1>1, <2>2
    <3>2. up[k] \in Chain(up[m], N, up)
      BY <1>1, <3>1, ChainParts
    <3> QED
      BY <3>1, <3>2
  <2> QED
    BY <2>1, <2>2
<1>2. Chain(m, N, up) \subseteq S
  <2>1. m \in S
    OBVIOUS
  <2> HIDE DEF S
  <2> QED
    BY <1>1, <2>1, ChainInside
<1>3. ASSUME up[m] \in N
      PROVE  Chain(up[m], N, up) \subseteq Chain(m, N, up)
  BY <1>3, ChainParts, ChainInside
<1> QED
  BY <1>2, <1>3, ChainParts

\* A chain that climbs has an end.
LEMMA ChainEnds ==
  ASSUME NEW N, NEW up, NEW rank, NEW B \in Nat, \A k \in N : rank[k] \in 0..B,
         \A k \in N : up[k] \in N => rank[k] < rank[up[k]],
         NEW m \in N
  PROVE  \E t \in Chain(m, N, up) : up[t] \notin N
<1> SUFFICES ASSUME \A t \in Chain(m, N, up) : up[t] \in N
             PROVE  FALSE
  OBVIOUS
<1> DEFINE S == Chain(m, N, up)
<1>1. m \in S /\ S \subseteq N /\ \A q \in S : up[q] \in S
  BY ChainParts
<1>2. \A x \in S : rank[x] \in 0..B /\ \E y \in S : rank[x] < rank[y]
  BY <1>1
<1> HIDE DEF S
<1>3. S = {}
  BY <1>2, ClimbEnds
<1> QED
  BY <1>1, <1>3

\* f[m] is m and f of what m links to, and none is the end of the chains.
Follows(f, N, none, up) ==
  /\ none \notin N /\ f[none] = {}
  /\ \A k \in N : up[k] \in N \cup {none} /\ f[k] = {k} \cup f[up[k]]

\* Links lead from a node to one of a higher rank.
Climbs(N, up, rank, B) ==
  /\ B \in Nat /\ \A k \in N : rank[k] \in 0..B
  /\ \A k \in N : up[k] \in N => rank[k] < rank[up[k]]

\* The recursive definition of the chains of links that climb defines them.
LEMMA ChainRecursion ==
  ASSUME NEW N, NEW up, NEW rank, NEW B, Climbs(N, up, rank, B),
         NEW f, NEW none, Follows(f, N, none, up), NEW m \in N
  PROVE  f[m] = Chain(m, N, up)
<1> USE DEF Follows, Climbs
<1>1. Chain(m, N, up) \subseteq f[m]
  <2> DEFINE S == {k \in N : k \in f[m] /\ f[k] \subseteq f[m]}
  <2>1. m \in S /\ \A k \in N : k \in S /\ up[k] \in N => up[k] \in S
    OBVIOUS
  <2>2. S \subseteq f[m]
    OBVIOUS
  <2> HIDE DEF S
  <2> QED
    BY <2>1, <2>2, ChainInside
<1>2. ASSUME NEW p \in f[m], p \notin Chain(m, N, up)
      PROVE  FALSE
  <2> DEFINE S == {q \in Chain(m, N, up) : p \in f[q]}
  <2>1. m \in S
    BY <1>2, ChainParts
  <2>2. ASSUME NEW q \in S
        PROVE  up[q] \in S /\ rank[q] < rank[up[q]]
    <3>1. q \in N /\ q # p
      BY <1>2, <2>2, ChainParts
    <3>2. p \in f[up[q]]
      BY <2>2, <3>1
    <3>3. up[q] \in N
      BY <3>1, <3>2
    <3> QED
      BY <2>2, <3>1, <3>2, <3>3, ChainParts
  <2>3. \A x \in S : rank[x] \in 0..B
    BY ChainParts
  <2> HIDE DEF S
  <2>4. S = {}
    BY <2>2, <2>3, ClimbEnds
  <2> QED
    BY <2>1, <2>4
<1> QED
  BY <1>1, <1>2

\* The chain of m once the ends in A are linked to top.
Joined(m, N, up, A, top) ==
  Chain(m, N, up) \cup (IF A \cap Chain(m, N, up) # {} THEN {top} ELSE {})

\* Ends of chains of N are linked to a node top, which may be new.
Joins(N, M, up, A, top, new) ==
  /\ A \subseteq N /\ M = N \cup {top}
  /\ \A k \in A : up[k] \notin N /\ new[k] = top
  /\ \A k \in N : k \notin A => new[k] = up[k]
  /\ \A k \in N : up[k] \in M => up[k] \in N
  /\ new[top] \notin M

LEMMA ChainsJoined ==
  ASSUME NEW N, NEW M, NEW up, NEW A, NEW top, NEW new, Joins(N, M, up, A, top, new),
         NEW m \in N
  PROVE  Chain(m, M, new) = Joined(m, N, up, A, top)
<1> USE DEF Joins
<1>1. Chain(m, M, new) = Chain(m, N, up) \cup (IF A \cap Chain(m, N, up) # {} THEN {top} ELSE {})
  <2> DEFINE C == Chain(m, N, up)
             D == Chain(m, M, new)
             S == C \cup (IF A \cap C # {} THEN {top} ELSE {})
  <2>1. m \in C /\ C \subseteq N /\ \A q \in C : up[q] \in N => up[q] \in C
    BY ChainParts
  <2>2. \A k \in M : k \in S /\ new[k] \in M => new[k] \in S
    <3> SUFFICES ASSUME NEW k \in M, k \in S, new[k] \in M
                 PROVE  new[k] \in S
      OBVIOUS
    <3>1. k # top /\ k \in C
      OBVIOUS
    <3>2. CASE k \in A
      <4>1. new[k] = top /\ A \cap C # {}
        BY <2>1, <3>1, <3>2
      <4> QED
        BY <4>1
    <3>3. CASE k \notin A
      <4>1. new[k] = up[k] /\ up[k] \in N
        BY <2>1, <3>1, <3>3
      <4> QED
        BY <2>1, <3>1, <4>1
    <3> QED
      BY <3>2, <3>3
  <2>3. m \in S /\ m \in M
    BY <2>1
  <2>4. D \subseteq S
    <3> HIDE DEF S
    <3> QED
      BY <2>2, <2>3, ChainInside
  <2>5. m \in D /\ D \subseteq M /\ \A q \in D : new[q] \in M => new[q] \in D
    BY <2>3, ChainParts
  <2>6. \A k \in N : k \in D /\ up[k] \in N => up[k] \in D
    BY <2>5
  <2>7. C \subseteq D
    <3> HIDE DEF D
    <3> QED
      BY <2>5, <2>6, ChainInside
  <2>8. A \cap C # {} => top \in D
    BY <2>1, <2>5, <2>7
  <2>9. D = C \cup (IF A \cap C # {} THEN {top} ELSE {})
    <3> HIDE DEF C, D, Joins
    <3> QED
      BY <2>4, <2>7, <2>8
  <2> QED
    BY <2>9
<1> QED
  BY <1>1 DEF Joined
-----------------------------------------------------------------------------
(* Graphs that are edited: F and M are what a graph of nodes N and edges E   *)
(* is made into.                                                             *)

\* Node m, which has no edges in E, is put in between b and all that leads
\* to b.
Inserted(m, b, N, E, F) ==
  \A x, y \in N : <<x, y>> \in F <=>
    IF x = m THEN y = b
    ELSE IF y = m THEN <<x, b>> \in E ELSE y # b /\ <<x, y>> \in E

\* An insertion leaves the paths between the other nodes.
LEMMA PathsInserted ==
  ASSUME NEW N, NEW E, E \subseteq N \X N, NEW F, F \subseteq N \X N,
         NEW b \in N, NEW m \in N, b # m,
         \A x \in N : <<x, m>> \notin E /\ <<m, x>> \notin E,
         Inserted(m, b, N, E, F), NEW a \in N \ {m}, NEW c \in N \ {m}
  PROVE  c \in ReachableFrom(a, N, E) <=> c \in ReachableFrom(a, N, F)
<1> DEFINE R == ReachableFrom(a, N, E)
           S == ReachableFrom(a, N, F)
<1>1. a \in R /\ a \in S /\ R \subseteq N /\ S \subseteq N
  BY ReachesItself DEF ReachableFrom
<1>2. \A x, y \in N : x \in R /\ <<x, y>> \in E => y \in R
  BY ReachesNext
<1>3. \A x, y \in N : x \in S /\ <<x, y>> \in F => y \in S
  BY ReachesNext
<1>4. ASSUME c \in R
      PROVE  c \in S
  <2>1. ASSUME NEW x \in N, NEW y \in N, x \in S, <<x, y>> \in E
        PROVE  y \in S
    <3>1. x # m /\ y # m
      BY <2>1
    <3>2. CASE y = b
      <4>1. <<x, m>> \in F /\ <<m, b>> \in F
        BY <2>1, <3>1, <3>2 DEF Inserted
      <4> QED
        BY <1>3, <2>1, <3>2, <4>1
    <3>3. CASE y # b
      <4>1. <<x, y>> \in F
        BY <2>1, <3>1, <3>3 DEF Inserted
      <4> QED
        BY <1>3, <2>1, <4>1
    <3> QED
      BY <3>2, <3>3
  <2>2. \A e \in E : e[1] \in S /\ e[1] \in N /\ e[2] \in N => e[2] \in S
    BY <2>1
  <2> HIDE DEF S
  <2> QED
    BY <1>1, <1>4, <2>2, ReachesInside
<1>5. ASSUME c \in S
      PROVE  c \in R
  <2> DEFINE T == (R \ {m}) \cup {x \in {m} : b \in R}
  <2>1. ASSUME NEW x \in N, NEW y \in N, x \in T, <<x, y>> \in F
        PROVE  y \in T
    <3>1. CASE x = m
      BY <2>1, <3>1 DEF Inserted
    <3>2. CASE x # m
      <4>1. x \in R
        BY <2>1, <3>2
      <4>2. CASE y = m
        <5>1. <<x, b>> \in E
          BY <2>1, <3>2, <4>2 DEF Inserted
        <5> QED
          BY <1>2, <4>1, <4>2, <5>1
      <4>3. CASE y # m
        <5>1. <<x, y>> \in E
          BY <2>1, <3>2, <4>3 DEF Inserted
        <5> QED
          BY <1>2, <4>1, <4>3, <5>1
      <4> QED
        BY <4>2, <4>3
    <3> QED
      BY <3>1, <3>2
  <2>2. \A e \in F : e[1] \in T /\ e[1] \in N /\ e[2] \in N => e[2] \in T
    BY <2>1
  <2>3. a \in T
    BY <1>1
  <2> HIDE DEF T
  <2>4. c \in T
    BY <1>1, <1>5, <2>2, <2>3, ReachesInside
  <2> QED
    BY <2>4 DEF T
<1> QED
  BY <1>4, <1>5

\* Nothing enters b any more but by way of m.
LEMMA OnlyByInserted ==
  ASSUME NEW N, NEW E, NEW F, F \subseteq N \X N, NEW b \in N, NEW m \in N, b # m,
         Inserted(m, b, N, E, F), NEW a \in N,
         b \in ReachableFrom(a, N, Without({m}, F))
  PROVE  a = b
<1> SUFFICES ASSUME a # b
             PROVE  FALSE
  OBVIOUS
<1> DEFINE S == N \ {b}
<1>1. Closed(S, Without({m}, F))
  <2> SUFFICES ASSUME NEW e \in F, e[1] # m, e[2] # m
               PROVE  e[2] \in S
    BY DEF Closed, Without
  <2>1. e[1] \in N /\ e[2] \in N /\ <<e[1], e[2]>> \in F
    OBVIOUS
  <2> QED
    BY <2>1 DEF Inserted
<1>2. a \in S /\ S \subseteq N
  OBVIOUS
<1>3. b \in S
  BY <1>1, <1>2 DEF ReachableFrom
<1> QED
  BY <1>3

\* A path keeps to the nodes that the edges touch.
LEMMA PathsInFewerNodes ==
  ASSUME NEW N, NEW M, M \subseteq N, NEW E, E \subseteq M \X M, NEW a \in M
  PROVE  ReachableFrom(a, M, E) = ReachableFrom(a, N, E)
<1>1. ASSUME NEW c \in ReachableFrom(a, N, E)
      PROVE  c \in ReachableFrom(a, M, E)
  <2>1. a \in ReachableFrom(a, M, E) /\ ReachableFrom(a, M, E) \subseteq N
    BY ReachesItself DEF ReachableFrom
  <2>2. Closed(ReachableFrom(a, M, E), E)
    <3> SUFFICES ASSUME NEW e \in E, e[1] \in ReachableFrom(a, M, E)
                 PROVE  e[2] \in ReachableFrom(a, M, E)
      BY DEF Closed
    <3>1. e[2] \in M /\ <<e[1], e[2]>> \in E
      OBVIOUS
    <3> QED
      BY <3>1, ReachesNext
  <2> QED
    BY <1>1, <2>1, <2>2 DEF ReachableFrom
<1>2. ASSUME NEW c \in ReachableFrom(a, M, E), NEW S \in SUBSET N, a \in S, Closed(S, E)
      PROVE  c \in S
  <2>1. S \cap M \in SUBSET M /\ a \in S \cap M /\ Closed(S \cap M, E)
    BY <1>2 DEF Closed
  <2>2. c \in S \cap M
    BY <2>1 DEF ReachableFrom
  <2> QED
    BY <2>2
<1>3. ReachableFrom(a, M, E) \subseteq N
  BY DEF ReachableFrom
<1>4. ASSUME NEW c \in ReachableFrom(a, M, E)
      PROVE  c \in ReachableFrom(a, N, E)
  BY <1>2, <1>3 DEF ReachableFrom
<1> QED
  BY <1>1, <1>4

\* Node b gives its successors to a new node m and has only m for successor.
SplitIn(b, m, N, E, F) ==
  \A x, y \in N \cup {m} : <<x, y>> \in F <=>
    IF x = b THEN y = m
    ELSE IF x = m THEN <<b, y>> \in E ELSE <<x, y>> \in E

\* A node that is split in two reaches what it reached.
LEMMA PathsSplit ==
  ASSUME NEW N, NEW E, E \subseteq N \X N, NEW b \in N, NEW m, m \notin N,
         NEW F, F \subseteq (N \cup {m}) \X (N \cup {m}),
         SplitIn(b, m, N, E, F), NEW a \in N
  PROVE  ReachableFrom(a, N \cup {m}, F) \cap N = ReachableFrom(a, N, E)
<1> DEFINE M == N \cup {m}
           R == ReachableFrom(a, N, E)
           S == ReachableFrom(a, M, F)
<1>1. a \in R /\ a \in S /\ R \subseteq N /\ S \subseteq M
  BY ReachesItself DEF ReachableFrom
<1>2. \A x, y \in N : x \in R /\ <<x, y>> \in E => y \in R
  BY ReachesNext
<1>3. \A x, y \in M : x \in S /\ <<x, y>> \in F => y \in S
  BY ReachesNext
<1>4. \A x, y : <<x, y>> \in E => x \in N /\ y \in N
  OBVIOUS
<1> HIDE DEF R, S
<1>5. ASSUME NEW c \in R
      PROVE  c \in S
  <2>1. ASSUME NEW x \in N, NEW y \in N, x \in S, <<x, y>> \in E
        PROVE  y \in S
    <3>1. CASE x = b
      <4>1. <<x, m>> \in F /\ <<m, y>> \in F
        BY <2>1, <3>1 DEF SplitIn
      <4> QED
        BY <1>3, <2>1, <4>1
    <3>2. CASE x # b
      <4>1. <<x, y>> \in F
        BY <2>1, <3>2 DEF SplitIn
      <4> QED
        BY <1>3, <2>1, <4>1
    <3> QED
      BY <3>1, <3>2
  <2>2. \A e \in E : e[1] \in S /\ e[1] \in N /\ e[2] \in N => e[2] \in S
    BY <2>1
  <2>3. c \in ReachableFrom(a, N, E)
    BY <1>5 DEF R
  <2> QED
    BY <1>1, <2>2, <2>3, ReachesInside
<1>6. ASSUME NEW c \in S, c \in N
      PROVE  c \in R
  <2> DEFINE T == R \cup {x \in {m} : b \in R}
  <2>1. ASSUME NEW x \in M, NEW y \in M, x \in T, <<x, y>> \in F
        PROVE  y \in T
    <3>1. CASE x = b
      <4>1. y = m /\ b \in R
        BY <1>1, <2>1, <3>1 DEF SplitIn
      <4> QED
        BY <4>1
    <3>2. CASE x = m
      <4>1. <<b, y>> \in E /\ b \in R
        BY <1>1, <2>1, <3>2 DEF SplitIn
      <4> QED
        BY <1>2, <1>4, <4>1
    <3>3. CASE x # b /\ x # m
      <4>1. <<x, y>> \in E /\ x \in R
        BY <2>1, <3>3 DEF SplitIn
      <4> QED
        BY <1>2, <1>4, <4>1
    <3> QED
      BY <3>1, <3>2, <3>3
  <2>2. \A e \in F : e[1] \in T /\ e[1] \in M /\ e[2] \in M => e[2] \in T
    BY <2>1
  <2>3. a \in T /\ a \in M /\ F \subseteq M \X M /\ c \in ReachableFrom(a, M, F)
    BY <1>1, <1>6 DEF S
  <2> HIDE DEF T, M
  <2>4. c \in T
    BY <2>2, <2>3, ReachesInside
  <2> QED
    BY <1>6, <2>4 DEF T
<1>7. S \cap N = R
  BY <1>1, <1>5, <1>6
<1> QED
  BY <1>7 DEF R, S

\* Node b gives its successors to a new node m, which also follows itself, and
\* is left with none.
CutIn(b, m, N, E, F) ==
  \A x, y \in N \cup {m} : <<x, y>> \in F <=>
    /\ x # b
    /\ IF x = m THEN y = m \/ <<b, y>> \in E ELSE <<x, y>> \in E

LEMMA ReachesParts ==
  ASSUME NEW N, NEW E, NEW a \in N
  PROVE  /\ a \in ReachableFrom(a, N, E) /\ ReachableFrom(a, N, E) \subseteq N
         /\ \A x, y \in N : x \in ReachableFrom(a, N, E) /\ <<x, y>> \in E
                           => y \in ReachableFrom(a, N, E)
<1>1. a \in ReachableFrom(a, N, E) /\ ReachableFrom(a, N, E) \subseteq N
  BY ReachesItself DEF ReachableFrom
<1> QED
  BY <1>1, ReachesNext

\* The paths end at b; those that led on from it do so from m.
CutPaths(b, m, N, E, F) ==
  /\ ReachableFrom(b, N \cup {m}, F) = {b}
  /\ \A a \in N \ {b} : ReachableFrom(a, N \cup {m}, F) = ReachableFrom(a, N, NotFrom(b, E))
  /\ ReachableFrom(m, N \cup {m}, F) \ {b} = (ReachableFrom(b, N, E) \ {b}) \cup {m}

LEMMA PathsCut ==
  ASSUME NEW N, NEW E, E \subseteq N \X N, NEW b \in N, NEW m, m \notin N,
         NEW F, F \subseteq (N \cup {m}) \X (N \cup {m}), CutIn(b, m, N, E, F)
  PROVE  CutPaths(b, m, N, E, F)
<1> DEFINE M == N \cup {m}
           G == NotFrom(b, E)
           R == ReachableFrom(b, N, E)
           S == ReachableFrom(m, M, F)
<1>1. \A x, y : <<x, y>> \in E => x \in N /\ y \in N
  OBVIOUS
<1>2. \A x, y \in M : <<x, y>> \in F => x # b /\ (x # m => <<x, y>> \in G)
  BY DEF CutIn, NotFrom
<1>3. \A x, y \in M : <<x, y>> \in F /\ x = m => y = m \/ <<b, y>> \in E
  BY DEF CutIn, NotFrom
<1>4. /\ \A x, y \in N : <<x, y>> \in G => <<x, y>> \in F
      /\ \A y \in N : <<b, y>> \in E => <<m, y>> \in F
  BY DEF CutIn, NotFrom
<1>5. F \subseteq M \X M /\ G \subseteq N \X N /\ m \notin N
  BY DEF NotFrom
<1>6. /\ R \subseteq N /\ S \subseteq M /\ b \in R /\ m \in S
      /\ \A x, y \in N : x \in R /\ <<x, y>> \in E => y \in R
      /\ \A x, y \in M : x \in S /\ <<x, y>> \in F => y \in S
  <2>1. b \in N /\ m \in M
    OBVIOUS
  <2> HIDE DEF M
  <2> QED
    BY <2>1, ReachesParts
<1>7. N \subseteq M /\ M = N \cup {m}
  OBVIOUS
<1> HIDE DEF G, R, S, M
<1>8. ReachableFrom(b, M, F) = {b}
  <2> DEFINE T == {b}
  <2>1. \A e \in F : e[1] \in T /\ e[1] \in M /\ e[2] \in M => e[2] \in T
    BY <1>2, <1>5
  <2>2. b \in M /\ b \in T
    BY <1>7
  <2>3. ASSUME NEW c \in ReachableFrom(b, M, F)
        PROVE  c \in T
    <3> HIDE DEF T
    <3> QED
      BY <1>5, <2>1, <2>2, <2>3, ReachesInside
  <2>4. b \in ReachableFrom(b, M, F)
    BY <1>7, ReachesItself
  <2> QED
    BY <2>3, <2>4
<1>9. ASSUME NEW a \in N \ {b}
      PROVE  ReachableFrom(a, M, F) = ReachableFrom(a, N, G)
  <2> DEFINE U == ReachableFrom(a, M, F)
             V == ReachableFrom(a, N, G)
  <2>1. /\ V \subseteq N /\ U \subseteq M /\ a \in U /\ a \in V
        /\ \A x, y \in N : x \in V /\ <<x, y>> \in G => y \in V
        /\ \A x, y \in M : x \in U /\ <<x, y>> \in F => y \in U
    BY <1>7, ReachesParts
  <2>2. ASSUME NEW c \in V
        PROVE  c \in U
    <3> HIDE DEF U
    <3>1. \A e \in G : e[1] \in U /\ e[1] \in N /\ e[2] \in N => e[2] \in U
      <4>1. ASSUME NEW x \in N, NEW y \in N, <<x, y>> \in G, x \in U
            PROVE  y \in U
        <5>1. <<x, y>> \in F /\ x \in M /\ y \in M
          BY <1>4, <1>7, <4>1
        <5> QED
          BY <2>1, <4>1, <5>1
      <4> QED
        BY <1>5, <4>1
    <3> QED
      BY <1>5, <2>1, <2>2, <3>1, ReachesInside
  <2>3. ASSUME NEW c \in U
        PROVE  c \in V
    <3> HIDE DEF V
    <3>1. \A e \in F : e[1] \in V /\ e[1] \in M /\ e[2] \in M => e[2] \in V
      <4>1. ASSUME NEW x \in M, NEW y \in M, <<x, y>> \in F, x \in V
            PROVE  y \in V
        <5>1. x \in N /\ <<x, y>> \in G
          BY <1>2, <1>5, <2>1, <4>1
        <5>2. y \in N
          BY <1>5, <5>1
        <5> QED
          BY <2>1, <4>1, <5>1, <5>2
      <4> QED
        BY <1>5, <4>1
    <3> QED
      BY <1>5, <2>1, <2>3, <3>1, ReachesInside
  <2> QED
    BY <2>2, <2>3
<1>10. ASSUME NEW c \in S
      PROVE  c \in R \cup {m}
  <2> DEFINE T == R \cup {m}
  <2>1. ASSUME NEW x \in M, NEW y \in M, x \in T, <<x, y>> \in F
        PROVE  y \in T
    <3>1. CASE x = m
      BY <1>1, <1>3, <1>6, <2>1, <3>1
    <3>2. CASE x # m
      <4>1. <<x, y>> \in E /\ x \in R
        BY <1>2, <2>1, <3>2 DEF G, NotFrom
      <4> QED
        BY <1>1, <1>6, <4>1
    <3> QED
      BY <3>1, <3>2
  <2>2. \A e \in F : e[1] \in T /\ e[1] \in M /\ e[2] \in M => e[2] \in T
    BY <2>1
  <2>3. m \in T /\ m \in M /\ c \in ReachableFrom(m, M, F)
    BY <1>7, <1>10 DEF S
  <2> HIDE DEF T, M
  <2>4. c \in T
    BY <1>5, <2>2, <2>3, ReachesInside
  <2> QED
    BY <2>4 DEF T
<1>11. ASSUME NEW c \in R, c # b
       PROVE  c \in S
  <2> DEFINE T == {b} \cup S
  <2>1. ASSUME NEW x \in N, NEW y \in N, x \in T, <<x, y>> \in E
        PROVE  y \in T
    <3>1. CASE x = b
      <4>1. <<m, y>> \in F
        BY <1>4, <2>1, <3>1
      <4> QED
        BY <1>6, <1>7, <4>1
    <3>2. CASE x # b
      <4>1. <<x, y>> \in F /\ x \in S
        BY <1>4, <2>1, <3>2 DEF G, NotFrom
      <4> QED
        BY <1>6, <1>7, <4>1
    <3> QED
      BY <3>1, <3>2
  <2>2. \A e \in E : e[1] \in T /\ e[1] \in N /\ e[2] \in N => e[2] \in T
    BY <2>1
  <2>3. b \in T /\ c \in ReachableFrom(b, N, E)
    BY <1>11 DEF R
  <2> HIDE DEF T
  <2>4. c \in T
    BY <2>2, <2>3, ReachesInside
  <2> QED
    BY <1>11, <2>4 DEF T
<1>12. S \ {b} = (R \ {b}) \cup {m}
  BY <1>5, <1>6, <1>10, <1>11
<1> QED
  BY <1>8, <1>9, <1>12 DEF M, R, S, G, CutPaths
=============================================================================
