---------------------------- MODULE DomTreeProofs ----------------------------
(***************************************************************************)
(* Construct gives up on the right graphs; semiDoms_, DSU::Find and the    *)
(* tree of dominator_ are what they are meant to be, for every graph and   *)
(* whatever order the search and the loops take.                           *)
(***************************************************************************)
EXTENDS DomTree, FlowGraphProofs, FiniteSetTheorems, SequenceTheorems

Entries(s) == {s[n] : n \in 1..Len(s)}

\* The blocks the search has found.
Found == {b \in BBs : label[b] # NoBB}

Reached == ReachableFrom(graph.first, BBs, graph.edges)

\* What is known of the blocks found while the search runs: each one was
\* reached and has an id that fits; one that is not on the stack any more has
\* no successor that is still to find.
SearchState ==
  /\ stack \in Seq(BBs) /\ stack # <<>> /\ order \in Seq(BBs)
  /\ label \in [BBs -> BBs \cup {NoBB}]
  /\ Len(order) = Cardinality(Found)
  /\ graph.first \in Found /\ Found \subseteq Reached
  /\ \A b \in Found : b < BBCount
  /\ Entries(stack) \subseteq Found
  /\ \A b \in Found \ Entries(stack) : Succs(b) \subseteq Found

Good == Reached = BBs /\ Compact

IInv ==
  /\ graph \in Graphs
  /\ pc = "dfs" => SearchState
  /\ pc = "aborted" => ~Good
  /\ pc \notin {"dfs", "aborted"} => Good
LEMMA GraphParts ==
  ASSUME graph \in Graphs
  PROVE  /\ IsFiniteSet(BBs) /\ BBs \subseteq Nat /\ BBCount \in Nat
         /\ graph.first \in BBs /\ NoBB \notin BBs
         /\ graph.edges \subseteq BBs \X BBs
<1>1. IsFiniteSet(BBs)
  BY GraphAssumption DEF BBs
<1> QED
  BY <1>1, GraphAssumption, FS_CardinalityType DEF BBs, BBCount

LEMMA StackAppend ==
  ASSUME NEW S, NEW s \in Seq(S), NEW e \in S
  PROVE  /\ Append(s, e) \in Seq(S) /\ Append(s, e) # <<>>
         /\ Len(Append(s, e)) = Len(s) + 1
         /\ Entries(Append(s, e)) = Entries(s) \cup {e}
<1>1. /\ Append(s, e) \in Seq(S) /\ Append(s, e) # <<>>
      /\ Len(Append(s, e)) = Len(s) + 1
      /\ \A n \in 1..Len(s) : Append(s, e)[n] = s[n]
      /\ Append(s, e)[Len(s) + 1] = e
      /\ Len(s) \in Nat
  OBVIOUS
<1>2. 1..Len(s) + 1 = (1..Len(s)) \cup {Len(s) + 1}
  BY <1>1
<1> QED
  BY <1>1, <1>2 DEF Entries

LEMMA StackPop ==
  ASSUME NEW S, NEW s \in Seq(S), Len(s) > 1
  PROVE  /\ SubSeq(s, 1, Len(s) - 1) \in Seq(S) /\ SubSeq(s, 1, Len(s) - 1) # <<>>
         /\ Entries(s) = Entries(SubSeq(s, 1, Len(s) - 1)) \cup {s[Len(s)]}
<1> DEFINE t == SubSeq(s, 1, Len(s) - 1)
<1>1. Len(s) \in Nat
  BY LenProperties
<1>2. \A n \in 1..Len(s) - 1 : s[n] \in S
  BY <1>1, ElementOfSeq
<1>3. /\ t \in Seq(S) /\ Len(t) = Len(s) - 1
      /\ \A n \in 1..Len(s) - 1 : t[n] = s[n]
  BY <1>1, <1>2, SubSeqProperties
<1>4. 1..Len(s) = (1..Len(s) - 1) \cup {Len(s)}
  BY <1>1
<1> HIDE DEF t
<1>5. Len(t) # 0
  BY <1>1, <1>3
<1>6. t # <<>>
  BY <1>3, <1>5, EmptySeq
<1>7. Entries(s) = Entries(t) \cup {s[Len(s)]}
  BY <1>1, <1>3, <1>4 DEF Entries
<1> QED
  BY <1>3, <1>6, <1>7 DEF t

LEMMA TopParts ==
  ASSUME graph \in Graphs, SearchState
  PROVE  /\ Len(stack) \in Nat \ {0} /\ Top \in BBs /\ Top \in Found /\ Top \in Reached
         /\ \A s \in Succs(Top) : s \in BBs /\ s \in Reached
<1>1. Len(stack) \in Nat \ {0}
  BY EmptySeq, LenProperties DEF SearchState
<1>2. Top \in Found /\ Top \in BBs /\ Top \in Reached
  <2>1. Top \in Entries(stack)
    BY <1>1 DEF Entries, Top
  <2> QED
    BY <2>1 DEF SearchState, Found
<1>3. ASSUME NEW s \in Succs(Top)
      PROVE  s \in BBs /\ s \in Reached
  <2>1. s \in BBs /\ <<Top, s>> \in graph.edges
    BY <1>3 DEF Succs
  <2> QED
    BY <1>2, <2>1, ReachesNext DEF Reached
<1> QED
  BY <1>1, <1>2, <1>3

LEMMA InitHolds == Init => IInv
<1> SUFFICES ASSUME Init PROVE IInv
  OBVIOUS
<1>1. /\ graph \in Graphs /\ graph.first \in BBs /\ NoBB \notin BBs
      /\ BBCount \in Nat /\ BBs \subseteq Nat
  BY GraphParts DEF Init
<1>2. ASSUME pc = "dfs"
      PROVE  SearchState
  <2>1. Found = {graph.first} /\ label \in [BBs -> BBs \cup {NoBB}]
    BY <1>1 DEF Init, Found
  <2>2. Cardinality({graph.first}) = 1
    BY FS_Singleton
  <2>3. /\ stack \in Seq(BBs) /\ stack # <<>> /\ order \in Seq(BBs) /\ Len(order) = 1
        /\ Entries(stack) = {graph.first}
    BY <1>1 DEF Init, Entries
  <2>4. graph.first < BBCount
    BY <1>2 DEF Init
  <2>5. graph.first \in Reached
    BY <1>1, ReachesItself DEF Reached
  <2> QED
    BY <2>1, <2>2, <2>3, <2>4, <2>5 DEF SearchState
<1>3. ASSUME pc # "dfs"
      PROVE  pc = "aborted" /\ ~Compact
  BY <1>1, <1>3 DEF Init, Compact
<1> QED
  BY <1>1, <1>2, <1>3 DEF IInv, Good

LEMMA VisitSteps ==
  ASSUME IInv, NEW s \in BBs, Visit(s)
  PROVE  IInv'
<1>1. /\ graph \in Graphs /\ SearchState /\ pc = "dfs" /\ s \in Succs(Top) /\ label[s] = NoBB
      /\ s < BBCount
      /\ label' = [label EXCEPT ![s] = s] /\ order' = Append(order, s) /\ stack' = Append(stack, s)
      /\ graph' = graph /\ pc' = pc
  BY DEF IInv, Visit, Unlabelled
<1>2. /\ IsFiniteSet(BBs) /\ NoBB \notin BBs
      /\ s \in Reached
  BY <1>1, GraphParts, TopParts
<1>3. BBs' = BBs /\ BBCount' = BBCount /\ Reached' = Reached /\ \A b : Succs(b)' = Succs(b)
  BY <1>1 DEF BBs, BBCount, Reached, Succs
<1>4. Found' = Found \cup {s} /\ s \notin Found /\ label' \in [BBs -> BBs \cup {NoBB}]
  BY <1>1, <1>2, <1>3 DEF Found, SearchState
<1>5. /\ stack' \in Seq(BBs) /\ stack' # <<>> /\ order' \in Seq(BBs)
      /\ Len(order') = Len(order) + 1 /\ Entries(stack') = Entries(stack) \cup {s}
  BY <1>1, StackAppend DEF SearchState
<1>6. Len(order') = Cardinality(Found')
  <2>1. IsFiniteSet(Found)
    BY <1>2, FS_Subset DEF Found
  <2>2. Cardinality(Found \cup {s}) = Cardinality(Found) + 1
    BY <1>4, <2>1, FS_AddElement
  <2> QED
    BY <1>1, <1>4, <1>5, <2>2 DEF SearchState
<1>7. /\ graph.first \in Found' /\ Found' \subseteq Reached
      /\ \A b \in Found' : b < BBCount
      /\ Entries(stack') \subseteq Found'
      /\ \A b \in Found' \ Entries(stack') : Succs(b) \subseteq Found'
  BY <1>1, <1>2, <1>4, <1>5 DEF SearchState
<1>8. SearchState'
  BY <1>1, <1>3, <1>4, <1>5, <1>6, <1>7 DEF SearchState
<1> QED
  BY <1>1, <1>8 DEF IInv

LEMMA IdOutOfRangeSteps ==
  ASSUME IInv, IdOutOfRange
  PROVE  IInv'
<1>1. /\ graph \in Graphs /\ SearchState /\ graph' = graph /\ pc' = "aborted"
      /\ \E s \in Succs(Top) : s >= BBCount
  BY DEF IInv, IdOutOfRange, Unlabelled
<1>2. PICK s \in Succs(Top) : s >= BBCount
  BY <1>1
<1>3. s \in BBs /\ s \in Nat /\ BBCount \in Nat
  BY <1>1, GraphParts, TopParts
<1>4. ~Compact
  BY <1>2, <1>3 DEF Compact
<1>5. Compact' = Compact
  BY <1>1 DEF Compact, BBs, BBCount
<1> QED
  BY <1>1, <1>4, <1>5 DEF IInv, Good

LEMMA ReturnSteps ==
  ASSUME IInv, Return
  PROVE  IInv'
<1>1. /\ graph \in Graphs /\ SearchState /\ pc = "dfs" /\ Unlabelled = {} /\ Len(stack) > 1
      /\ stack' = SubSeq(stack, 1, Len(stack) - 1)
      /\ UNCHANGED <<graph, pc, order, label>>
  BY DEF IInv, Return
<1>2. /\ BBs' = BBs /\ BBCount' = BBCount /\ Reached' = Reached /\ Found' = Found
      /\ \A b : Succs(b)' = Succs(b)
  BY <1>1 DEF BBs, BBCount, Reached, Found, Succs
<1>3. /\ stack' \in Seq(BBs) /\ stack' # <<>> /\ Entries(stack) = Entries(stack') \cup {Top}
  BY <1>1, StackPop DEF SearchState, Top
<1>4. Succs(Top) \subseteq Found
  BY <1>1, TopParts DEF Unlabelled, Found
<1>5. /\ Entries(stack') \subseteq Found
      /\ \A b \in Found \ Entries(stack') : Succs(b) \subseteq Found
  BY <1>1, <1>3, <1>4 DEF SearchState
<1>6. SearchState'
  BY <1>1, <1>2, <1>3, <1>5 DEF SearchState
<1> QED
  BY <1>1, <1>6 DEF IInv

\* When the search is back in the first block it has found what the first
\* block reaches, no more and no less.
LEMMA SearchComplete ==
  ASSUME graph \in Graphs, SearchState, Unlabelled = {}, Len(stack) = 1
  PROVE  Found = Reached
<1>1. Entries(stack) = {Top}
  BY DEF Entries, Top
<1>2. Succs(Top) \subseteq Found
  BY TopParts DEF Unlabelled, Found
<1>3. \A b \in Found : Succs(b) \subseteq Found
  BY <1>1, <1>2 DEF SearchState
<1>4. Closed(Found, graph.edges)
  <2> SUFFICES ASSUME NEW e \in graph.edges, e[1] \in Found
               PROVE  e[2] \in Found
    BY DEF Closed
  <2>1. e = <<e[1], e[2]>> /\ e[2] \in BBs
    BY GraphParts
  <2>2. e[2] \in Succs(e[1])
    BY <2>1 DEF Succs
  <2> QED
    BY <1>3, <2>2
<1>5. Found \in SUBSET BBs /\ graph.first \in Found
  BY DEF Found, SearchState
<1>6. Reached \subseteq Found
  BY <1>4, <1>5 DEF Reached, ReachableFrom
<1> QED
  BY <1>6 DEF SearchState

LEMMA ReturnFromFirstSteps ==
  ASSUME IInv, ReturnFromFirst
  PROVE  IInv'
<1>1. /\ graph \in Graphs /\ SearchState /\ Unlabelled = {} /\ Len(stack) = 1
      /\ graph' = graph
      /\ pc' = (IF Len(order) = BBCount THEN "semi" ELSE "aborted")
  BY DEF IInv, ReturnFromFirst
<1>2. Found = Reached
  BY <1>1, SearchComplete
<1>3. IsFiniteSet(BBs) /\ Found \in SUBSET BBs
  BY <1>1, GraphParts DEF Found
<1>4. Len(order) = BBCount <=> Found = BBs
  <2>1. Cardinality(BBs) = Cardinality(Found) => BBs = Found
    BY <1>3, FS_Subset
  <2> QED
    BY <1>1, <2>1 DEF SearchState, BBCount
<1>5. \A b \in Found : b < BBCount
  BY <1>1 DEF SearchState
<1>6. IF Len(order) = BBCount THEN Good ELSE ~Good
  BY <1>2, <1>4, <1>5 DEF Good, Compact
<1>7. Good' = Good
  BY <1>1 DEF Good, Reached, Compact, BBs, BBCount
<1> QED
  BY <1>1, <1>6, <1>7 DEF IInv

LEMMA LaterSteps ==
  ASSUME IInv,
         \/ \E b \in BBs : SemiOfPred(b) \/ IdomOfDominatee(b)
         \/ RegisterAndUnite \/ NextBlock \/ Refine
  PROVE  IInv'
<1>1. graph' = graph /\ pc \notin {"dfs", "aborted"} /\ pc' \notin {"dfs", "aborted"}
  BY DEF SemiOfPred, IdomOfDominatee, RegisterAndUnite, NextBlock, Refine
<1>2. Good' = Good
  BY <1>1 DEF Good, Reached, Compact, BBs, BBCount
<1> QED
  BY <1>1, <1>2 DEF IInv

LEMMA Stutter ==
  ASSUME IInv, UNCHANGED vars
  PROVE  IInv'
BY DEF IInv, vars, SearchState, Good, Reached, Found, Compact, BBs, BBCount, Succs

LEMMA Invariance == Spec => []IInv
<1>1. IInv /\ [Next]_vars => IInv'
  BY VisitSteps, IdOutOfRangeSteps, ReturnSteps, ReturnFromFirstSteps, LaterSteps, Stutter
     DEF Next
<1> QED
  BY InitHolds, <1>1, PTL DEF Spec

\* The assert that the search saw every block, and the range check of the
\* vectors, fail on exactly the graphs that have a block the first one does
\* not reach or a gap in the ids, for every order of the successors.
THEOREM AbortsRight == Spec => []AbortsOnlyOnBadGraph
<1>1. IInv => AbortsOnlyOnBadGraph
  BY DEF IInv, Good, Reached, AbortsOnlyOnBadGraph
<1> QED
  BY <1>1, Invariance, PTL

-----------------------------------------------------------------------------
(* The search tree.  N is what the search found, up links a block to the     *)
(* block it was found from, num numbers the blocks in the order found.       *)

\* A block that was found after another one and not from below it has no edge
\* from it, and the blocks below a block are found one after the other.
SearchTree(N, E, root, up, num) ==
  /\ root \in N /\ up[root] \notin N
  /\ \A b \in N : num[b] \in Nat
  /\ \A b \in N \ {root} : up[b] \in N /\ num[up[b]] < num[b] /\ <<up[b], b>> \in E
  /\ \A b, c \in N : num[b] = num[c] => b = c
  /\ \A u, x, y \in N :
       u \in Chain(x, N, up) /\ num[u] <= num[y] /\ num[y] <= num[x] => u \in Chain(y, N, up)
  /\ \A x, y \in N : <<x, y>> \in E /\ num[x] < num[y] => x \in Chain(y, N, up)


LEMMA AboveBelow ==
  ASSUME NEW N, NEW E, NEW root, NEW up, NEW num, SearchTree(N, E, root, up, num),
         NEW x \in N, NEW u \in Chain(x, N, up)
  PROVE  u \in N /\ num[u] <= num[x] /\ (u # x => num[u] < num[x])
<1> DEFINE S == {y \in N : num[y] <= num[x]}
<1>1. x \in S
  BY DEF SearchTree
<1>2. ASSUME NEW k \in N, k \in S, up[k] \in N
      PROVE  up[k] \in S
  <2>1. num[up[k]] < num[k]
    BY <1>2 DEF SearchTree
  <2>2. num[up[k]] \in Nat /\ num[k] \in Nat /\ num[x] \in Nat /\ num[k] <= num[x]
    BY <1>2 DEF SearchTree
  <2> QED
    BY <1>2, <2>1, <2>2
<1> HIDE DEF S
<1>3. Chain(x, N, up) \subseteq S
  BY <1>1, <1>2, ChainInside
<1> QED
  BY <1>3 DEF S, SearchTree

LEMMA AboveTransitive ==
  ASSUME NEW N, NEW up, NEW x, NEW y \in Chain(x, N, up), NEW u \in Chain(y, N, up)
  PROVE  u \in Chain(x, N, up)
BY ReachesTransitive DEF Chain

\* The blocks above a block are one above the other.
LEMMA AboveOrdered ==
  ASSUME NEW N, NEW E, NEW root, NEW up, NEW num, SearchTree(N, E, root, up, num),
         NEW x \in N, NEW u \in Chain(x, N, up), NEW v \in Chain(x, N, up),
         num[u] <= num[v]
  PROVE  u \in Chain(v, N, up)
<1>1. u \in N /\ v \in N /\ num[v] <= num[x]
  BY AboveBelow
<1> QED
  BY <1>1 DEF SearchTree

\* The parent of a block is above it, and what is above a block, the block
\* apart, is above its parent.
LEMMA AboveParent ==
  ASSUME NEW N, NEW E, NEW root, NEW up, NEW num, SearchTree(N, E, root, up, num),
         NEW x \in N, x # root
  PROVE  /\ up[x] \in N /\ up[x] \in Chain(x, N, up)
         /\ \A u \in Chain(x, N, up) : u # x => u \in Chain(up[x], N, up)
<1>1. up[x] \in N
  BY DEF SearchTree
<1>2. Chain(x, N, up) = {x} \cup Chain(up[x], N, up)
  BY <1>1, ChainSteps
<1> QED
  BY <1>1, <1>2, ChainParts

\* A set of blocks has one that was found first.
LEMMA FirstFound ==
  ASSUME NEW N, NEW E, NEW root, NEW up, NEW num, SearchTree(N, E, root, up, num),
         NEW S \in SUBSET N, S # {}
  PROVE  \E y \in S : \A x \in S : num[y] <= num[x]
<1> DEFINE T == {num[y] : y \in S}
<1>1. T \in SUBSET Nat /\ T # {}
  BY DEF SearchTree
<1>2. PICK m \in T : \A n \in T : m <= n
  BY <1>1, LeastNumber
<1> QED
  BY <1>2

\* The first block is above all.
LEMMA RootAbove ==
  ASSUME NEW N, NEW E, NEW root, NEW up, NEW num, SearchTree(N, E, root, up, num),
         NEW x \in N
  PROVE  root \in Chain(x, N, up)
<1> SUFFICES ASSUME root \notin Chain(x, N, up)
             PROVE  FALSE
  OBVIOUS
<1> DEFINE S == {y \in N : root \notin Chain(y, N, up)}
<1>1. S \in SUBSET N /\ S # {}
  OBVIOUS
<1> HIDE DEF S
<1>2. PICK y \in S : \A z \in S : num[y] <= num[z]
  BY <1>1, FirstFound
<1>3. y \in N /\ root \notin Chain(y, N, up) /\ y # root
  BY ChainParts DEF S
<1>4. up[y] \in N /\ up[y] \in Chain(y, N, up) /\ num[up[y]] < num[y]
      /\ num[up[y]] \in Nat /\ num[y] \in Nat
  BY <1>3, AboveParent DEF SearchTree
<1>5. up[y] \notin S
  BY <1>2, <1>4
<1>6. root \in Chain(up[y], N, up)
  BY <1>4, <1>5 DEF S
<1> QED
  BY <1>3, <1>4, <1>6, AboveTransitive

\* The links between a block and one above it, the other way round, are a path.
LEMMA TreePath ==
  ASSUME NEW N, NEW E, NEW root, NEW up, NEW num, SearchTree(N, E, root, up, num),
         NEW x \in N, NEW u \in Chain(x, N, up), NEW M, NEW F,
         \A y \in Chain(x, N, up) : u \in Chain(y, N, up) =>
           y \in M /\ (y # u => <<up[y], y>> \in F)
  PROVE  x \in ReachableFrom(u, M, F)
<1> SUFFICES ASSUME x \notin ReachableFrom(u, M, F)
             PROVE  FALSE
  OBVIOUS
<1> DEFINE S == {y \in Chain(x, N, up) : u \in Chain(y, N, up) /\ y \notin ReachableFrom(u, M, F)}
<1>1. S \in SUBSET N /\ S # {}
  BY ChainParts
<1> HIDE DEF S
<1>2. PICK y \in S : \A z \in S : num[y] <= num[z]
  BY <1>1, FirstFound
<1>3. y \in Chain(x, N, up) /\ u \in Chain(y, N, up) /\ y \notin ReachableFrom(u, M, F) /\ y \in N
  BY <1>1 DEF S
<1>4. u \in N /\ u \in Chain(u, N, up)
  BY AboveBelow, ChainParts
<1>5. y # u
  BY <1>3, <1>4, ReachesItself
<1>6. y # root
  <2>1. up[root] \notin N
    BY DEF SearchTree
  <2>2. Chain(root, N, up) = {root}
    BY <1>3, <2>1, ChainSteps DEF SearchTree
  <2> QED
    BY <1>3, <1>5, <2>2
<1>7. /\ up[y] \in N /\ up[y] \in Chain(y, N, up) /\ u \in Chain(up[y], N, up)
      /\ num[up[y]] < num[y] /\ num[up[y]] \in Nat /\ num[y] \in Nat
  BY <1>3, <1>5, <1>6, AboveParent DEF SearchTree
<1>8. up[y] \in Chain(x, N, up) /\ up[y] \notin S
  BY <1>2, <1>3, <1>7, AboveTransitive
<1>9. up[y] \in ReachableFrom(u, M, F)
  BY <1>7, <1>8 DEF S
<1>10. y \in M /\ <<up[y], y>> \in F
  BY <1>3, <1>5
<1> QED
  BY <1>3, <1>9, <1>10, ReachesNext

\* s is a new node that links to t.
Leaf(N, M, up, s, t, new) ==
  /\ M = N \cup {s} /\ s \notin N /\ t \in N /\ new[s] = t
  /\ \A k \in N : new[k] = up[k] /\ up[k] # s

LEMMA ChainLeaf ==
  ASSUME NEW N, NEW M, NEW up, NEW s, NEW t, NEW new, Leaf(N, M, up, s, t, new), NEW n \in N
  PROVE  /\ Chain(n, M, new) = Chain(n, N, up)
         /\ Chain(s, M, new) = {s} \cup Chain(t, N, up)
<1>1. ASSUME NEW m \in N
      PROVE  Chain(m, M, new) = Chain(m, N, up)
  <2>1. Chain(m, M, new) \subseteq Chain(m, N, up)
    <3> DEFINE S == Chain(m, N, up)
    <3>1. m \in S /\ S \subseteq N
      BY ChainParts
    <3>2. \A k \in M : k \in S /\ new[k] \in M => new[k] \in S
      BY <3>1, ChainParts DEF Leaf
    <3>3. m \in M
      BY DEF Leaf
    <3> HIDE DEF S
    <3> QED
      BY <3>1, <3>2, <3>3, ChainInside DEF S
  <2>2. Chain(m, N, up) \subseteq Chain(m, M, new)
    <3> DEFINE S == Chain(m, M, new)
    <3>1. m \in S
      BY ChainParts DEF Leaf
    <3>2. \A k \in N : k \in S /\ up[k] \in N => up[k] \in S
      BY ChainParts DEF Leaf
    <3> HIDE DEF S
    <3> QED
      BY <3>1, <3>2, ChainInside DEF S
  <2> QED
    BY <2>1, <2>2
<1>2. Chain(s, M, new) = {s} \cup Chain(t, M, new)
  BY ChainSteps DEF Leaf
<1> QED
  BY <1>1, <1>2 DEF Leaf

\* The next block found is linked to the block that is being visited, t: what
\* was found since a block above t is below that one, and so is every
\* predecessor the new block has by now.
Finds(N, M, E, up, num, s, t, new, numNew) ==
  /\ Leaf(N, M, up, s, t, new) /\ <<t, s>> \in E
  /\ numNew[s] \in Nat
  /\ \A b \in N : numNew[b] = num[b] /\ num[b] < numNew[s]
  /\ \A u \in Chain(t, N, up), y \in N : num[u] <= num[y] => u \in Chain(y, N, up)
  /\ \A x \in N : <<x, s>> \in E => x \in Chain(t, N, up)

LEMMA SearchTreeGrows ==
  ASSUME NEW N, NEW E, NEW root, NEW up, NEW num, SearchTree(N, E, root, up, num),
         NEW M, NEW s, NEW t, NEW new, NEW numNew, Finds(N, M, E, up, num, s, t, new, numNew)
  PROVE  SearchTree(M, E, root, new, numNew)
<1>1. /\ \A m \in N : Chain(m, M, new) = Chain(m, N, up)
      /\ Chain(s, M, new) = {s} \cup Chain(t, N, up)
  <2>1. Leaf(N, M, up, s, t, new)
    BY DEF Finds
  <2>2. ASSUME NEW m \in N
        PROVE  /\ Chain(m, M, new) = Chain(m, N, up)
               /\ Chain(s, M, new) = {s} \cup Chain(t, N, up)
    BY <2>1, ChainLeaf
  <2>3. t \in N
    BY <2>1 DEF Leaf
  <2> QED
    BY <2>2, <2>3
<1>2. /\ M = N \cup {s} /\ s \notin N /\ t \in N /\ new[s] = t
      /\ <<t, s>> \in E /\ numNew[s] \in Nat
      /\ \A b \in N : /\ new[b] = up[b] /\ up[b] # s
                      /\ numNew[b] = num[b] /\ num[b] < numNew[s] /\ num[b] \in Nat
  BY DEF Finds, Leaf, SearchTree
<1>3. root \in M /\ new[root] \notin M
  BY <1>2 DEF SearchTree
<1>4. \A b \in M : numNew[b] \in Nat
  BY <1>2
<1>5. ASSUME NEW b \in M \ {root}
      PROVE  new[b] \in M /\ numNew[new[b]] < numNew[b] /\ <<new[b], b>> \in E
  <2>1. CASE b = s
    BY <1>2, <2>1
  <2>2. CASE b \in N
    BY <1>2, <1>5, <2>2 DEF SearchTree
  <2> QED
    BY <1>2, <2>1, <2>2
<1>6. ASSUME NEW b \in M, NEW c \in M, numNew[b] = numNew[c]
      PROVE  b = c
  BY <1>2, <1>6 DEF SearchTree
<1>7. ASSUME NEW u \in M, NEW x \in M, NEW y \in M,
             u \in Chain(x, M, new), numNew[u] <= numNew[y], numNew[y] <= numNew[x]
      PROVE  u \in Chain(y, M, new)
  <2>1. CASE x = s /\ u = s
    <3>1. y = s
      BY <1>2, <1>7, <2>1
    <3> QED
      BY <1>1, <2>1, <3>1
  <2>2. CASE x = s /\ u # s
    <3>1. u \in Chain(t, N, up) /\ u \in N
      BY <1>1, <1>2, <1>7, <2>2
    <3>2. CASE y = s
      BY <1>1, <3>1, <3>2
    <3>3. CASE y \in N
      <4>1. num[u] <= num[y]
        BY <1>2, <1>7, <3>1, <3>3
      <4> QED
        BY <1>1, <3>1, <3>3, <4>1 DEF Finds
    <3> QED
      BY <1>2, <3>2, <3>3
  <2>3. CASE x \in N
    <3>1. u \in Chain(x, N, up) /\ u \in N
      BY <1>1, <1>7, <2>3, ChainParts
    <3>2. y \in N
      BY <1>2, <1>7, <2>3
    <3>3. num[u] <= num[y] /\ num[y] <= num[x]
      BY <1>2, <1>7, <2>3, <3>1, <3>2
    <3> QED
      BY <1>1, <2>3, <3>1, <3>2, <3>3 DEF SearchTree
  <2> QED
    BY <1>2, <2>1, <2>2, <2>3
<1>8. ASSUME NEW x \in M, NEW y \in M, <<x, y>> \in E, numNew[x] < numNew[y]
      PROVE  x \in Chain(y, M, new)
  <2>1. x \in N
    BY <1>2, <1>8
  <2>2. CASE y = s
    BY <1>1, <1>8, <2>1, <2>2 DEF Finds
  <2>3. CASE y \in N
    BY <1>1, <1>2, <1>8, <2>1, <2>3 DEF SearchTree
  <2> QED
    BY <1>2, <2>2, <2>3
<1> QED
  BY <1>3, <1>4, <1>5, <1>6, <1>7, <1>8 DEF SearchTree

\* While the search runs semiDoms_ holds the numbers.  Each activation was
\* entered from the one before it, and what was found since is below it.
SearchRuns ==
  /\ \A n \in 1..Len(order) : order[n] \in Found /\ semi[order[n]] = n - 1
  /\ \A b \in Found : /\ semi[b] \in 0..Len(order) - 1 /\ order[semi[b] + 1] = b
                      /\ label[b] = b
  /\ SearchTree(Found, graph.edges, graph.first, parent, semi)
  /\ order[1] = graph.first /\ parent[graph.first] = NoBB
  /\ \A k \in 1..Len(stack) :
       /\ Chain(stack[k], Found, parent) = {stack[j] : j \in 1..k}
       /\ \A y \in Found : semi[stack[k]] <= semi[y] => stack[k] \in Chain(y, Found, parent)
  /\ link = [b \in BBs |-> NoBB] /\ semiDomSet = [b \in BBs |-> {}]
  /\ dominator = [b \in BBs |-> NoBB] /\ dominated = [b \in BBs |-> {}]

-----------------------------------------------------------------------------
(* The DSU.  The blocks whose number is at least k are united with the       *)
(* blocks they were found from.                                              *)

\* The blocks whose labels the label of v stands for.
Segment(v, N, up, num, jump) == {u \in Chain(v, N, up) : num[jump[v]] < num[u]}

Compressing(N, up, num, none, k, jump, least, rank) ==
  /\ none \notin N
  /\ \A v \in N : jump[v] \in N \cup {none} /\ least[v] \in N
  /\ \A v \in N : jump[v] # none <=> k <= num[v]
  /\ \A v \in N : jump[v] = none => least[v] = v
  /\ \A v \in N : jump[v] # none =>
       /\ jump[v] \in Chain(v, N, up) /\ num[jump[v]] < num[v]
       /\ least[v] \in Segment(v, N, up, num, jump)
       /\ \A u \in Segment(v, N, up, num, jump) :
            k <= num[u] /\ rank[least[v]] <= rank[u]

Num == [b \in BBs |-> Number(b)]
Above(b) == Chain(b, BBs, parent)

\* The blocks numbered from here on are united, and their semidominators final.
Bound == IF pc = "semi" THEN i + 1 ELSE IF pc = "bucket" /\ i > 0 THEN i ELSE 1

Numbered ==
  /\ Len(order) = BBCount
  /\ \A b \in BBs : Num[b] \in 0..BBCount - 1 /\ Ordered(Num[b]) = b
  /\ \A n \in 0..BBCount - 1 : Ordered(n) \in BBs /\ Num[Ordered(n)] = n
  /\ SearchTree(BBs, graph.edges, graph.first, parent, Num)
  /\ Num[graph.first] = 0 /\ parent[graph.first] = NoBB

Counters ==
  /\ pc \in {"semi", "bucket"} => i < BBCount
  /\ pc = "idom" => i \in 1..BBCount - 1
  /\ pc = "done" => i = BBCount

\* semiDoms_ never claims more than there is; what is finished is right; the
\* current block has seen what its predecessors know.
SemiState ==
  /\ \A w \in BBs : semi[w] <= Num[w]
  /\ pc \in {"semi", "bucket"} => \A w \in BBs : Num[w] < i => semi[w] = Num[w]
  /\ \A w \in BBs : semi[w] = Num[w] \/ \E v \in SemiSources(w) : semi[w] = Num[v]
  /\ \A w \in BBs : Bound <= Num[w] =>
       semi[w] < Num[w] /\ \A v \in SemiSources(w) : semi[w] <= Num[v]
  /\ pc = "semi" => \A p \in Preds(Current) \ todo :
       /\ Num[p] < i => semi[Current] <= Num[p]
       /\ \A u \in Above(p) : i < Num[u] => semi[Current] <= semi[u]

\* The blocks whose immediate dominator is set but not refined.
Handled(w) ==
  /\ Bound <= Num[w]
  /\ \/ pc \in {"semi", "bucket"} /\ i < semi[w]
     \/ pc = "bucket" /\ semi[w] = i /\ w \notin todo
     \/ pc = "idom" /\ i <= Num[w]

BucketState ==
  /\ \A b, w \in BBs : w \in semiDomSet[b] => Bound <= Num[w] /\ Num[b] = semi[w]
  /\ \A w \in BBs : Bound <= Num[w] => w \in semiDomSet[Ordered(semi[w])]
  /\ pc = "semi" => todo \subseteq Preds(Current)
  /\ pc = "bucket" => todo \subseteq semiDomSet[Current]
  /\ \A w \in BBs : Handled(w) =>
       idom[w] \in Above(w) /\ idom[w] # w /\ semi[w] <= Num[idom[w]]

\* The blocks whose immediate dominator is refined.
Settled(w) == pc \in {"idom", "done"} /\ 0 < Num[w] /\ Num[w] < i

DominatorState ==
  /\ \A w \in BBs : Settled(w) =>
       /\ dominator[w] = idom[w] /\ idom[w] \in Above(w) /\ idom[w] # w
       /\ \A a \in BBs :
            a # w /\ Dominates(a, w, graph.first, BBs, graph.edges) =>
              Dominates(a, idom[w], graph.first, BBs, graph.edges)
  /\ \A w \in BBs : ~Settled(w) => dominator[w] = NoBB
  /\ \A a, b \in BBs : b \in dominated[a] <=> dominator[b] = a

TInv ==
  /\ TypeOK
  /\ pc = "dfs" => SearchRuns
  /\ pc \notin {"dfs", "aborted"} =>
       /\ Numbered /\ Counters
       /\ Compressing(BBs, parent, Num, NoBB, Bound, link, label, semi)
       /\ SemiState /\ BucketState /\ DominatorState

-----------------------------------------------------------------------------
(* The search.                                                               *)

LEMMA FoundCounted ==
  ASSUME graph \in Graphs, NEW S \in SUBSET BBs
  PROVE  Cardinality(S) \in Nat /\ Cardinality(S) <= BBCount /\ BBCount \in Nat
<1>1. IsFiniteSet(BBs)
  BY GraphParts
<1> QED
  BY <1>1, FS_Subset, FS_CardinalityType DEF BBCount

LEMMA InitTree == Init => TInv
<1> SUFFICES ASSUME Init PROVE TInv
  OBVIOUS
<1> DEFINE r == graph.first
<1>1. /\ graph \in Graphs /\ r \in BBs /\ NoBB \notin BBs /\ BBCount \in Nat
      /\ {r} \in SUBSET BBs
  BY GraphParts DEF Init
<1>2. 1 <= BBCount
  BY <1>1, FoundCounted, FS_Singleton
<1>3. /\ semi \in [BBs -> 0..BBCount] /\ semi[r] = 0
      /\ label \in [BBs -> BBs \cup {NoBB}] /\ label[r] = r
      /\ stack \in Seq(BBs) /\ order \in Seq(BBs) /\ Len(order) = 1 /\ Len(stack) = 1
      /\ order[1] = r /\ stack[1] = r
  BY <1>1, <1>2 DEF Init, Unset
<1>4. TypeOK
  BY <1>1, <1>3 DEF Init, TypeOK
<1>5. Found = {r}
  BY <1>1 DEF Init, Found
<1>6. parent[r] = NoBB
  BY <1>1 DEF Init
<1>7. Chain(r, {r}, parent) = {r}
  <2>1. parent[r] \notin {r}
    BY <1>1, <1>6
  <2> QED
    BY <2>1, ChainSteps
<1>8. SearchTree({r}, graph.edges, r, parent, semi)
  BY <1>1, <1>3, <1>6, <1>7 DEF SearchTree
<1>9. \A k \in 1..Len(stack) :
        /\ Chain(stack[k], Found, parent) = {stack[j] : j \in 1..k}
        /\ \A y \in Found : semi[stack[k]] <= semi[y] => stack[k] \in Chain(y, Found, parent)
  <2> SUFFICES ASSUME NEW k \in 1..1
               PROVE  /\ Chain(stack[k], Found, parent) = {stack[j] : j \in 1..k}
                      /\ \A y \in Found : stack[k] \in Chain(y, Found, parent)
    BY <1>3
  <2>1. k = 1
    OBVIOUS
  <2>2. {stack[j] : j \in 1..k} = {r}
    BY <1>3, <2>1
  <2> QED
    BY <1>3, <1>5, <1>7, <2>1, <2>2
<1>10. /\ \A n \in 1..Len(order) : order[n] \in Found /\ semi[order[n]] = n - 1
       /\ \A b \in Found : /\ semi[b] \in 0..Len(order) - 1 /\ order[semi[b] + 1] = b
                           /\ label[b] = b
  BY <1>3, <1>5
<1>11. /\ link = [b \in BBs |-> NoBB] /\ semiDomSet = [b \in BBs |-> {}]
       /\ dominator = [b \in BBs |-> NoBB] /\ dominated = [b \in BBs |-> {}]
  BY DEF Init
<1>12. SearchRuns
  BY <1>3, <1>5, <1>6, <1>8, <1>9, <1>10, <1>11 DEF SearchRuns
<1> QED
  BY <1>4, <1>12 DEF TInv, Init

LEMMA VisitTree ==
  ASSUME IInv, TInv, NEW s \in BBs, Visit(s)
  PROVE  TInv'
<1> DEFINE n == Len(stack)
           m == Len(order)
           F == Found
<1>1. /\ graph \in Graphs /\ SearchState /\ SearchRuns /\ TypeOK /\ pc = "dfs"
      /\ s \in Succs(Top) /\ label[s] = NoBB /\ graph' = graph /\ pc' = pc
      /\ parent' = [parent EXCEPT ![s] = Top] /\ label' = [label EXCEPT ![s] = s]
      /\ semi' = [semi EXCEPT ![s] = m] /\ order' = Append(order, s)
      /\ stack' = Append(stack, s)
      /\ UNCHANGED <<link, semiDomSet, idom, i, todo, dominator, dominated>>
  BY DEF IInv, TInv, Visit, Unlabelled
<1>2. /\ NoBB \notin BBs /\ Top \in F /\ Top \in BBs /\ n \in Nat \ {0} /\ m \in Nat
      /\ Top = stack[n] /\ <<Top, s>> \in graph.edges
  BY <1>1, GraphParts, TopParts, LenProperties DEF SearchState, Succs, Top
<1>3. BBs' = BBs /\ BBCount' = BBCount
  BY <1>1 DEF BBs, BBCount
<1>4. Found' = F \cup {s} /\ s \notin F /\ F \subseteq BBs
  BY <1>1, <1>2, <1>3 DEF Found, TypeOK
<1>5. m <= BBCount /\ BBCount \in Nat
  BY <1>1, <1>4, FoundCounted DEF SearchState
<1>6. /\ order' \in Seq(BBs) /\ Len(order') = m + 1 /\ order'[m + 1] = s
      /\ \A k \in 1..m : order'[k] = order[k]
      /\ stack' \in Seq(BBs) /\ Len(stack') = n + 1 /\ stack'[n + 1] = s
      /\ \A k \in 1..n : stack'[k] = stack[k]
  BY <1>1 DEF TypeOK
<1>7. TypeOK'
  BY <1>1, <1>2, <1>3, <1>5, <1>6 DEF TypeOK
<1>8. /\ \A b \in F : semi'[b] = semi[b] /\ parent'[b] = parent[b] /\ label'[b] = label[b]
      /\ semi'[s] = m /\ parent'[s] = Top /\ label'[s] = s
  BY <1>1, <1>4 DEF TypeOK
<1>9. /\ \A k \in 1..m : order[k] \in F /\ semi[order[k]] = k - 1
      /\ \A b \in F : semi[b] \in 0..m - 1 /\ order[semi[b] + 1] = b /\ label[b] = b
      /\ SearchTree(F, graph.edges, graph.first, parent, semi)
      /\ order[1] = graph.first /\ parent[graph.first] = NoBB
      /\ \A k \in 1..n :
           /\ Chain(stack[k], F, parent) = {stack[j] : j \in 1..k}
           /\ \A y \in F : semi[stack[k]] <= semi[y] => stack[k] \in Chain(y, F, parent)
      /\ graph.first \in F /\ Entries(stack) \subseteq F
      /\ \A b \in F \ Entries(stack) : Succs(b) \subseteq F
  BY <1>1 DEF SearchRuns, SearchState
<1>10. Chain(Top, F, parent) = Entries(stack)
  <2>1. n \in 1..n
    BY <1>2
  <2>2. Chain(stack[n], F, parent) = {stack[j] : j \in 1..n}
    BY <1>9, <2>1
  <2> QED
    BY <1>2, <2>2 DEF Entries
<1>11. Leaf(F, Found', parent, s, Top, parent')
  <2>1. \A k \in F : parent[k] # s
    <3> SUFFICES ASSUME NEW k \in F
                 PROVE  parent[k] # s
      OBVIOUS
    <3>1. CASE k = graph.first
      BY <1>2, <1>9, <3>1
    <3>2. CASE k # graph.first
      BY <1>4, <1>9, <3>2 DEF SearchTree
    <3> QED
      BY <3>1, <3>2
  <2> QED
    BY <1>2, <1>4, <1>8, <2>1 DEF Leaf
<1>12. Finds(F, Found', graph.edges, parent, semi, s, Top, parent', semi')
  <2>1. \A u \in Chain(Top, F, parent), y \in F : semi[u] <= semi[y] => u \in Chain(y, F, parent)
    BY <1>9, <1>10 DEF Entries
  <2>2. \A x \in F : <<x, s>> \in graph.edges => x \in Chain(Top, F, parent)
    BY <1>4, <1>9, <1>10 DEF Succs
  <2>3. semi'[s] \in Nat /\ \A b \in F : semi'[b] = semi[b] /\ semi[b] < semi'[s]
    BY <1>2, <1>8, <1>9
  <2> QED
    BY <1>2, <1>11, <2>1, <2>2, <2>3 DEF Finds
<1>13. SearchTree(Found', graph.edges, graph.first, parent', semi')
  BY <1>9, <1>12, SearchTreeGrows
<1>14. /\ \A b \in F : Chain(b, Found', parent') = Chain(b, F, parent)
       /\ Chain(s, Found', parent') = {s} \cup Chain(Top, F, parent)
  BY <1>2, <1>11, ChainLeaf
<1>15. ASSUME NEW k \in 1..n + 1
       PROVE  /\ Chain(stack'[k], Found', parent') = {stack'[j] : j \in 1..k}
              /\ \A y \in Found' : semi'[stack'[k]] <= semi'[y] =>
                   stack'[k] \in Chain(y, Found', parent')
  <2>1. CASE k \in 1..n
    <3>1. stack'[k] = stack[k] /\ stack[k] \in F /\ stack[k] \in Entries(stack)
      BY <1>6, <1>9, <2>1 DEF Entries
    <3>2. {stack'[j] : j \in 1..k} = {stack[j] : j \in 1..k}
      <4>1. \A j \in 1..k : stack'[j] = stack[j]
        BY <1>2, <1>6, <2>1
      <4> QED
        BY <4>1
    <3>3. ASSUME NEW y \in Found', semi'[stack'[k]] <= semi'[y]
          PROVE  stack'[k] \in Chain(y, Found', parent')
      <4>1. CASE y = s
        BY <1>10, <1>14, <3>1, <4>1
      <4>2. CASE y \in F
        BY <1>8, <1>9, <1>14, <2>1, <3>1, <3>3, <4>2
      <4> QED
        BY <1>4, <4>1, <4>2
    <3> QED
      BY <1>9, <1>14, <2>1, <3>1, <3>2, <3>3
  <2>2. CASE k = n + 1
    <3>1. stack'[k] = s
      BY <1>6, <2>2
    <3>2. {stack'[j] : j \in 1..k} = {s} \cup Entries(stack)
      <4>1. 1..k = (1..n) \cup {n + 1}
        BY <1>2, <2>2
      <4>2. {stack'[j] : j \in 1..k} = {stack'[j] : j \in 1..n} \cup {stack'[n + 1]}
        BY <4>1
      <4>3. {stack'[j] : j \in 1..n} = Entries(stack)
        BY <1>6 DEF Entries
      <4> QED
        BY <1>6, <4>2, <4>3
    <3>3. ASSUME NEW y \in Found', semi'[s] <= semi'[y]
          PROVE  y = s
      BY <1>4, <1>8, <1>9, <1>2, <3>3
    <3> QED
      BY <1>10, <1>14, <3>1, <3>2, <3>3
  <2> QED
    BY <1>2, <2>1, <2>2
<1>16. \A k \in 1..Len(order') : order'[k] \in Found' /\ semi'[order'[k]] = k - 1
  <2> SUFFICES ASSUME NEW k \in 1..m + 1
               PROVE  order'[k] \in Found' /\ semi'[order'[k]] = k - 1
    BY <1>6
  <2>1. CASE k \in 1..m
    <3>1. order'[k] = order[k] /\ order[k] \in F /\ semi[order[k]] = k - 1
      BY <1>6, <1>9, <2>1
    <3>2. order'[k] \in Found' /\ semi'[order'[k]] = semi[order[k]]
      BY <1>4, <1>8, <3>1
    <3> QED
      BY <3>1, <3>2
  <2>2. CASE k = m + 1
    BY <1>2, <1>4, <1>6, <1>8, <2>2
  <2> QED
    BY <1>2, <2>1, <2>2
<1>17. \A b \in Found' : /\ semi'[b] \in 0..Len(order') - 1 /\ order'[semi'[b] + 1] = b
                         /\ label'[b] = b
  <2> SUFFICES ASSUME NEW b \in Found'
               PROVE  semi'[b] \in 0..m /\ order'[semi'[b] + 1] = b /\ label'[b] = b
    BY <1>2, <1>6
  <2>1. CASE b \in F
    <3>1. semi'[b] = semi[b] /\ label'[b] = b /\ semi[b] \in 0..m - 1 /\ order[semi[b] + 1] = b
      BY <1>8, <1>9, <2>1
    <3>2. semi[b] + 1 \in 1..m /\ semi[b] \in 0..m
      BY <1>2, <3>1
    <3> QED
      BY <1>6, <3>1, <3>2
  <2>2. CASE b = s
    BY <1>2, <1>6, <1>8, <2>2
  <2> QED
    BY <1>4, <2>1, <2>2
<1>18. order'[1] = graph.first /\ parent'[graph.first] = NoBB
  <2>1. m # 0
    BY <1>2, <1>9
  <2> QED
    BY <1>2, <1>6, <1>8, <1>9, <2>1
<1>19. /\ link' = [b \in BBs |-> NoBB] /\ semiDomSet' = [b \in BBs |-> {}]
       /\ dominator' = [b \in BBs |-> NoBB] /\ dominated' = [b \in BBs |-> {}]
  BY <1>1 DEF SearchRuns
<1>20. SearchRuns'
  BY <1>1, <1>3, <1>6, <1>13, <1>15, <1>16, <1>17, <1>18, <1>19 DEF SearchRuns
<1> QED
  BY <1>1, <1>7, <1>20 DEF TInv

LEMMA SameSearch ==
  ASSUME UNCHANGED <<graph, order, parent>>
  PROVE  /\ BBs' = BBs /\ BBCount' = BBCount /\ Num' = Num
         /\ \A b : Above(b)' = Above(b) /\ Preds(b)' = Preds(b) /\ Ordered(b)' = Ordered(b)
         /\ \A w : SemiSources(w)' = SemiSources(w)
<1>1. BBs' = BBs /\ BBCount' = BBCount /\ \A b : Ordered(b)' = Ordered(b)
  BY DEF BBs, BBCount, Ordered
<1>2. \A b : Number(b)' = Number(b)
  BY DEF Number, Ordered
<1>3. Num' = Num
  BY <1>1, <1>2 DEF Num
<1>4. \A b : Above(b)' = Above(b) /\ Preds(b)' = Preds(b)
  BY <1>1 DEF Above, Preds
<1>5. \A w : SemiSources(w)' = SemiSources(w)
  BY <1>1, <1>2 DEF SemiSources
<1> QED
  BY <1>1, <1>3, <1>4, <1>5

LEMMA IdOutOfRangeTree ==
  ASSUME IInv, TInv, IdOutOfRange
  PROVE  TInv'
<1>1. TypeOK
  BY DEF TInv
<1>2. TypeOK' /\ pc' = "aborted"
  BY <1>1 DEF IdOutOfRange, TypeOK, BBs, BBCount
<1> QED
  BY <1>2 DEF TInv

LEMMA ReturnTree ==
  ASSUME IInv, TInv, Return
  PROVE  TInv'
<1> DEFINE n == Len(stack)
<1>1. /\ graph \in Graphs /\ SearchRuns /\ TypeOK /\ pc = "dfs"
      /\ n > 1 /\ stack' = SubSeq(stack, 1, n - 1)
      /\ UNCHANGED <<graph, pc, order, parent, semi, label, link, semiDomSet,
                     idom, i, todo, dominator, dominated>>
  BY DEF IInv, TInv, Return
<1>2. n \in Nat /\ \A k \in 1..n : stack[k] \in BBs
  BY <1>1, LenProperties, ElementOfSeq DEF TypeOK
<1>3. /\ stack' \in Seq(BBs) /\ Len(stack') = n - 1
      /\ \A k \in 1..n - 1 : stack'[k] = stack[k]
  <2>1. \A k \in 1..n - 1 : stack[k] \in BBs
    BY <1>2
  <2> QED
    BY <1>1, <1>2, <2>1, SubSeqProperties
<1>4. BBs' = BBs /\ BBCount' = BBCount /\ Found' = Found
  BY <1>1 DEF BBs, BBCount, Found
<1>5. TypeOK'
  BY <1>1, <1>3, <1>4 DEF TypeOK
<1>6. \A k \in 1..n :
        /\ Chain(stack[k], Found, parent) = {stack[j] : j \in 1..k}
        /\ \A y \in Found : semi[stack[k]] <= semi[y] => stack[k] \in Chain(y, Found, parent)
  BY <1>1 DEF SearchRuns
<1>7. ASSUME NEW k \in 1..n - 1
      PROVE  /\ Chain(stack'[k], Found, parent) = {stack'[j] : j \in 1..k}
             /\ \A y \in Found : semi[stack'[k]] <= semi[y] => stack'[k] \in Chain(y, Found, parent)
  <2>1. stack'[k] = stack[k] /\ k \in 1..n
    BY <1>2, <1>3
  <2>2. \A j \in 1..k : stack'[j] = stack[j]
    BY <1>2, <1>3
  <2>3. {stack'[j] : j \in 1..k} = {stack[j] : j \in 1..k}
    BY <2>2
  <2> QED
    BY <1>6, <2>1, <2>3
<1>8. SearchRuns'
  BY <1>1, <1>3, <1>4, <1>7 DEF SearchRuns
<1> QED
  BY <1>1, <1>5, <1>8 DEF TInv

\* When the search is over, what semiDoms_ holds are the numbers.
LEMMA SearchNumbers ==
  ASSUME graph \in Graphs, TypeOK, SearchRuns, Found = BBs
  PROVE  Num = semi
<1>1. /\ semi \in [BBs -> 0..BBCount] /\ Len(order) \in Nat
      /\ \A n \in 1..Len(order) : semi[order[n]] = n - 1
      /\ \A b \in BBs : semi[b] \in 0..Len(order) - 1 /\ order[semi[b] + 1] = b
  BY LenProperties DEF TypeOK, SearchRuns
<1>2. ASSUME NEW b \in BBs
      PROVE  Number(b) = semi[b]
  <2>1. semi[b] \in 0..Len(order) - 1 /\ Ordered(semi[b]) = b
    BY <1>1 DEF Ordered
  <2>2. \A n \in 0..Len(order) - 1 : Ordered(n) = b => n = semi[b]
    BY <1>1 DEF Ordered
  <2> QED
    BY <2>1, <2>2 DEF Number
<1> QED
  BY <1>1, <1>2 DEF Num

LEMMA ReturnFromFirstTree ==
  ASSUME IInv, TInv, ReturnFromFirst
  PROVE  TInv'
<1>1. /\ graph \in Graphs /\ SearchState /\ SearchRuns /\ TypeOK /\ pc = "dfs"
      /\ Unlabelled = {} /\ Len(stack) = 1 /\ stack' = <<>>
      /\ UNCHANGED <<graph, order, parent, semi, label, link, semiDomSet, idom,
                     dominator, dominated>>
  BY DEF IInv, TInv, ReturnFromFirst
<1>2. /\ IsFiniteSet(BBs) /\ NoBB \notin BBs /\ BBCount \in Nat /\ graph.first \in BBs
      /\ Found \in SUBSET BBs
  BY <1>1, GraphParts DEF Found
<1>3. /\ BBs' = BBs /\ BBCount' = BBCount /\ Num' = Num
      /\ \A b : Preds(b)' = Preds(b) /\ Ordered(b)' = Ordered(b)
      /\ \A w : SemiSources(w)' = SemiSources(w)
  BY <1>1, SameSearch
<1>4. stack' \in Seq(BBs)
  BY <1>1
<1>5. CASE Len(order) # BBCount
  <2>1. pc' = "aborted" /\ UNCHANGED <<i, todo>>
    BY <1>5 DEF ReturnFromFirst
  <2>2. TypeOK'
    BY <1>1, <1>3, <1>4, <2>1 DEF TypeOK
  <2> QED
    BY <2>1, <2>2 DEF TInv
<1>6. CASE Len(order) = BBCount
  <2>1. pc' = "semi" /\ i' = BBCount - 1 /\ todo' = Preds(Ordered(BBCount - 1))
    BY <1>6 DEF ReturnFromFirst
  <2>2. Found = BBs
    BY <1>1, <1>2, <1>6, FS_Subset DEF SearchState, BBCount
  <2>3. Num = semi
    BY <1>1, <2>2, SearchNumbers
  <2>4. /\ \A b \in BBs : Num[b] \in 0..BBCount - 1 /\ Ordered(Num[b]) = b /\ label[b] = b
        /\ \A n \in 0..BBCount - 1 : Ordered(n) \in BBs /\ Num[Ordered(n)] = n
        /\ SearchTree(BBs, graph.edges, graph.first, parent, Num)
        /\ parent[graph.first] = NoBB /\ Num[graph.first] = 0 /\ BBCount > 0
    <3>1. \A b \in BBs : Num[b] \in 0..BBCount - 1 /\ Ordered(Num[b]) = b /\ label[b] = b
      BY <1>1, <1>6, <2>2, <2>3 DEF SearchRuns, Ordered
    <3>2. ASSUME NEW n \in 0..BBCount - 1
          PROVE  Ordered(n) \in BBs /\ Num[Ordered(n)] = n
      <4>1. n + 1 \in 1..Len(order) /\ (n + 1) - 1 = n
        BY <1>2, <1>6
      <4> QED
        BY <1>1, <2>2, <2>3, <4>1 DEF SearchRuns, Ordered
    <3>3. SearchTree(BBs, graph.edges, graph.first, parent, Num)
      BY <1>1, <2>2, <2>3 DEF SearchRuns
    <3>4. BBCount > 0
      BY <1>2, <3>1
    <3>5. order[1] = graph.first /\ parent[graph.first] = NoBB
      BY <1>1 DEF SearchRuns
    <3>6. Num[graph.first] = 0
      BY <1>2, <3>2, <3>4, <3>5 DEF Ordered
    <3> QED
      BY <3>1, <3>2, <3>3, <3>4, <3>5, <3>6
  <2>5. Numbered'
    BY <1>1, <1>3, <1>6, <2>4 DEF Numbered
  <2>6. Bound' = BBCount /\ Counters'
    BY <1>2, <1>3, <2>1, <2>4 DEF Bound, Counters
  <2>7. \A b \in BBs : link[b] = NoBB /\ dominator[b] = NoBB /\ dominated[b] = {}
    BY <1>1 DEF SearchRuns
  <2>8. Compressing(BBs, parent, Num, NoBB, BBCount, link, label, semi)
    BY <1>2, <2>4, <2>7 DEF Compressing
  <2>9. SemiState'
    <3>1. \A w \in BBs : Num[w] < BBCount
      BY <1>2, <2>4
    <3>2. \A w \in BBs : semi[w] = Num[w] /\ Num[w] \in Nat
      BY <2>3, <2>4
    <3>3. Current' = Ordered(BBCount - 1)
      BY <1>3, <2>1 DEF Current, Ordered
    <3>4. \A p \in Preds(Current)' : p \in todo'
      BY <1>1, <1>3, <2>1, <3>3 DEF Preds
    <3> QED
      BY <1>1, <1>2, <1>3, <2>1, <2>6, <3>1, <3>2, <3>4 DEF SemiState
  <2>10. BucketState'
    <3>1. \A b \in BBs : semiDomSet[b] = {}
      BY <1>1 DEF SearchRuns
    <3>2. \A w \in BBs : ~(BBCount <= Num[w])
      BY <1>2, <2>4
    <3>3. \A w \in BBs : ~Handled(w)'
      BY <1>3, <2>6, <3>2 DEF Handled
    <3>4. Current' = Ordered(BBCount - 1)
      BY <1>3, <2>1 DEF Current, Ordered
    <3>5. todo' \subseteq Preds(Current)'
      BY <1>1, <1>3, <2>1, <3>4 DEF Preds
    <3> QED
      BY <1>1, <1>3, <2>1, <2>6, <3>1, <3>2, <3>3, <3>5 DEF BucketState
  <2>11. DominatorState'
    <3>1. \A w : ~Settled(w)'
      BY <2>1 DEF Settled
    <3>2. \A b \in BBs : b \notin {NoBB}
      BY <1>2
    <3> QED
      BY <1>1, <1>3, <2>7, <3>1, <3>2 DEF DominatorState
  <2>12. TypeOK'
    <3>1. i' \in 0..BBCount
      BY <1>2, <2>1, <2>4
    <3>2. todo' \subseteq BBs
      BY <2>1 DEF Preds
    <3> QED
      BY <1>1, <1>3, <1>4, <2>1, <3>1, <3>2 DEF TypeOK
  <2>13. Compressing(BBs, parent, Num, NoBB, Bound, link, label, semi)'
    BY <1>1, <1>3, <2>6, <2>8
  <2> QED
    BY <2>1, <2>5, <2>6, <2>9, <2>10, <2>11, <2>12, <2>13 DEF TInv
<1> QED
  BY <1>5, <1>6

-----------------------------------------------------------------------------
(* Path compression.                                                         *)

\* From each node of a chain the chain goes on to its end.
LEMMA ChainToEnd ==
  ASSUME NEW N, NEW up, NEW m \in N, NEW r \in Chain(m, N, up), up[r] \notin N,
         NEW q \in Chain(m, N, up)
  PROVE  r \in Chain(q, N, up)
<1> DEFINE S == {y \in N : r \in Chain(y, N, up)}
<1>1. m \in S
  OBVIOUS
<1>2. ASSUME NEW y \in N, y \in S, up[y] \in N
      PROVE  up[y] \in S
  <2>1. y # r
    BY <1>2
  <2>2. Chain(y, N, up) = {y} \cup Chain(up[y], N, up)
    BY <1>2, ChainSteps
  <2> QED
    BY <1>2, <2>1, <2>2
<1> HIDE DEF S
<1>3. Chain(m, N, up) \subseteq S
  BY <1>1, <1>2, ChainInside
<1> QED
  BY <1>3 DEF S

\* Labels are compared by rank.
Unites(N, E, root, up, num, none, k, jump, least, rank) ==
  /\ SearchTree(N, E, root, up, num)
  /\ Compressing(N, up, num, none, k, jump, least, rank)
  /\ \A v \in N : rank[v] \in Nat

\* The blocks Find goes through from v.
Passes(v, N, none, jump) == {x \in Chain(v, N, jump) : jump[x] # none}

LEMMA JumpParts ==
  ASSUME NEW N, NEW E, NEW root, NEW up, NEW num, NEW none, NEW k, NEW jump, NEW least,
         NEW rank, Unites(N, E, root, up, num, none, k, jump, least, rank),
         NEW v \in N
  PROVE  /\ jump[v] # none => jump[v] \in N /\ num[jump[v]] < num[v]
         /\ jump[v] \notin N <=> jump[v] = none
         /\ num[v] \in Nat /\ least[v] \in N /\ rank[least[v]] \in Nat /\ rank[v] \in Nat
         /\ \A x \in Chain(v, N, jump) : x \in N /\ x \in Chain(v, N, up)
         /\ \A x \in Chain(v, N, jump) : num[x] <= num[v] /\ (x # v => num[x] < num[v])
<1>1. /\ \A w \in N : jump[w] \in N \cup {none} /\ least[w] \in N
      /\ \A w \in N : jump[w] # none => jump[w] \in Chain(w, N, up) /\ num[jump[w]] < num[w]
      /\ none \notin N /\ SearchTree(N, E, root, up, num)
      /\ \A w \in N : num[w] \in Nat /\ rank[w] \in Nat
  BY DEF Unites, Compressing, SearchTree
<1>2. Chain(v, N, jump) \subseteq Chain(v, N, up)
  <2> DEFINE S == Chain(v, N, up)
  <2>1. v \in S
    BY ChainParts
  <2>2. ASSUME NEW w \in N, w \in S, jump[w] \in N
        PROVE  jump[w] \in S
    BY <1>1, <2>2, AboveTransitive
  <2> HIDE DEF S
  <2>3. Chain(v, N, jump) \subseteq S
    BY <2>1, <2>2, ChainInside
  <2> QED
    BY <2>3 DEF S
<1>3. \A x \in Chain(v, N, jump) : /\ x \in N /\ x \in Chain(v, N, up) /\ num[x] <= num[v]
                                   /\ x # v => num[x] < num[v]
  BY <1>1, <1>2, AboveBelow
<1> QED
  BY <1>1, <1>3

\* The chain ends, in one block, and it is not united with another.
LEMMA JumpsEnd ==
  ASSUME NEW N, NEW E, NEW root, NEW up, NEW num, NEW none, NEW k, NEW jump, NEW least,
         NEW rank, Unites(N, E, root, up, num, none, k, jump, least, rank),
         NEW v \in N
  PROVE  /\ \E r \in Chain(v, N, jump) : jump[r] = none
         /\ \A r, q \in Chain(v, N, jump) : jump[r] = none /\ jump[q] = none => r = q
<1>1. SearchTree(N, E, root, up, num)
  BY DEF Unites
<1>2. \E r \in Chain(v, N, jump) : jump[r] = none
  <2>1. v \in Chain(v, N, jump) /\ Chain(v, N, jump) \in SUBSET N
    BY ChainParts
  <2>2. PICK r \in Chain(v, N, jump) : \A q \in Chain(v, N, jump) : num[r] <= num[q]
    BY <1>1, <2>1, FirstFound
  <2>3. jump[r] # none => jump[r] \in N /\ num[jump[r]] < num[r] /\ num[jump[r]] \in Nat
                          /\ num[r] \in Nat
    BY <2>1, JumpParts
  <2>4. jump[r] \in N => jump[r] \in Chain(v, N, jump)
    BY ChainParts
  <2> QED
    BY <2>2, <2>3, <2>4
<1>3. ASSUME NEW r \in Chain(v, N, jump), NEW q \in Chain(v, N, jump),
             jump[r] = none, jump[q] = none
      PROVE  r = q
  <2>1. r \in N /\ q \in N /\ jump[r] \notin N /\ jump[q] \notin N
    BY <1>3, JumpParts
  <2>2. r \in Chain(q, N, jump)
    BY <2>1, ChainToEnd
  <2>3. Chain(q, N, jump) = {q}
    BY <2>1, ChainSteps
  <2> QED
    BY <2>2, <2>3
<1> QED
  BY <1>2, <1>3

\* The segments of the blocks Find goes through have every block above v that
\* was found after the end of the chain.
LEMMA SegmentsCover ==
  ASSUME NEW N, NEW E, NEW root, NEW up, NEW num, NEW none, NEW k, NEW jump, NEW least,
         NEW rank, Unites(N, E, root, up, num, none, k, jump, least, rank),
         NEW v \in N, NEW r \in Chain(v, N, jump), jump[r] = none,
         NEW x \in Chain(v, N, up), num[r] < num[x]
  PROVE  \E u \in Passes(v, N, none, jump) : x \in Segment(u, N, up, num, jump)
<1>1. SearchTree(N, E, root, up, num)
  BY DEF Unites
<1> DEFINE T == {u \in Chain(v, N, jump) : x \in Chain(u, N, up)}
<1>2. T \in SUBSET N /\ v \in T
  BY ChainParts
<1> HIDE DEF T
<1>3. PICK u \in T : \A w \in T : num[u] <= num[w]
  BY <1>1, <1>2, FirstFound
<1>4. u \in Chain(v, N, jump) /\ x \in Chain(u, N, up) /\ u \in N /\ x \in N
      /\ num[x] <= num[u] /\ num[x] \in Nat /\ num[u] \in Nat
  <2>1. u \in Chain(v, N, jump) /\ x \in Chain(u, N, up) /\ u \in N
    BY <1>2 DEF T
  <2>2. x \in N /\ num[x] <= num[u]
    BY <1>1, <2>1, AboveBelow
  <2> QED
    BY <1>1, <2>1, <2>2 DEF SearchTree
<1>5. jump[u] # none
  <2> SUFFICES ASSUME jump[u] = none
               PROVE  FALSE
    OBVIOUS
  <2>1. u = r
    BY <1>4, JumpsEnd
  <2> QED
    BY <1>4, <2>1
<1>6. /\ jump[u] \in N /\ num[jump[u]] < num[u] /\ num[jump[u]] \in Nat
      /\ jump[u] \in Chain(u, N, up)
  <2>1. jump[u] \in N /\ num[jump[u]] < num[u]
    BY <1>4, <1>5, JumpParts
  <2>2. jump[u] \in Chain(u, N, up)
    BY <1>4, <1>5 DEF Unites, Compressing
  <2> QED
    BY <1>1, <2>1, <2>2 DEF SearchTree
<1>7. jump[u] \in Chain(v, N, jump)
  BY <1>4, <1>6, ChainParts
<1>8. jump[u] \notin T
  BY <1>3, <1>4, <1>6
<1>9. x \notin Chain(jump[u], N, up)
  BY <1>7, <1>8 DEF T
<1>10. num[jump[u]] < num[x]
  BY <1>1, <1>4, <1>6, <1>9, AboveOrdered
<1> QED
  BY <1>4, <1>5, <1>10 DEF Passes, Segment

\* What UpdateAncestorPath leaves: lab labels, to links.
Updates(N, none, jump, least, rank, lab, to) ==
  \A w \in N : jump[w] # none =>
    /\ jump[jump[w]] = none => lab[w] = least[w] /\ to[w] = jump[w]
    /\ jump[jump[w]] # none =>
         /\ to[w] = to[jump[w]]
         /\ rank[lab[jump[w]]] < rank[least[w]] => lab[w] = lab[jump[w]]
         /\ ~(rank[lab[jump[w]]] < rank[least[w]]) => lab[w] = least[w]

\* The blocks Find goes through from v are v and those from the next one.
LEMMA PassesSteps ==
  ASSUME NEW N, NEW E, NEW root, NEW up, NEW num, NEW none, NEW k, NEW jump, NEW least,
         NEW rank, Unites(N, E, root, up, num, none, k, jump, least, rank),
         NEW w \in N, jump[w] # none
  PROVE  /\ Passes(w, N, none, jump) = {w} \cup Passes(jump[w], N, none, jump)
         /\ jump[w] \in N /\ num[jump[w]] < num[w]
         /\ jump[jump[w]] = none => Passes(jump[w], N, none, jump) = {}
         /\ \A x \in Passes(w, N, none, jump) : /\ x \in N /\ jump[x] # none
                                                /\ num[x] <= num[w] /\ x \in Chain(w, N, up)
         /\ Chain(w, N, jump) = {w} \cup Chain(jump[w], N, jump)
<1>1. jump[w] \in N /\ num[jump[w]] < num[w]
  BY JumpParts
<1>2. Chain(w, N, jump) = {w} \cup Chain(jump[w], N, jump)
  BY <1>1, ChainSteps
<1>3. ASSUME jump[jump[w]] = none
      PROVE  Chain(jump[w], N, jump) = {jump[w]}
  <2>1. jump[jump[w]] \notin N
    BY <1>1, <1>3, JumpParts
  <2> QED
    BY <1>1, <2>1, ChainSteps
<1>4. \A x \in Chain(w, N, jump) : x \in N /\ num[x] <= num[w] /\ x \in Chain(w, N, up)
  BY JumpParts
<1> QED
  BY <1>1, <1>2, <1>3, <1>4 DEF Passes

\* The label is the one of least rank among the blocks Find goes through, and
\* the link leads to the end.
LEMMA UpdatesRight ==
  ASSUME NEW N, NEW E, NEW root, NEW up, NEW num, NEW none, NEW k, NEW jump, NEW least,
         NEW rank, Unites(N, E, root, up, num, none, k, jump, least, rank),
         NEW lab, NEW to, Updates(N, none, jump, least, rank, lab, to),
         NEW v \in N, jump[v] # none
  PROVE  /\ to[v] \in Chain(v, N, jump) /\ jump[to[v]] = none
         /\ \E u \in Passes(v, N, none, jump) : lab[v] = least[u]
         /\ \A u \in Passes(v, N, none, jump) : rank[lab[v]] <= rank[least[u]]
<1> DEFINE Right(w) == /\ to[w] \in Chain(w, N, jump) /\ jump[to[w]] = none
                       /\ \E u \in Passes(w, N, none, jump) : lab[w] = least[u]
                       /\ \A u \in Passes(w, N, none, jump) : rank[lab[w]] <= rank[least[u]]
           S == {w \in N : jump[w] # none /\ ~Right(w)}
<1>1. SearchTree(N, E, root, up, num)
  BY DEF Unites
<1>2. SUFFICES ASSUME S # {}
               PROVE  FALSE
  OBVIOUS
<1>3. S \in SUBSET N
  OBVIOUS
<1> HIDE DEF S
<1>4. PICK w \in S : \A x \in S : num[w] <= num[x]
  BY <1>1, <1>2, <1>3, FirstFound
<1>5. w \in N /\ jump[w] # none /\ ~Right(w)
  BY DEF S
<1> DEFINE a == jump[w]
<1>6. /\ Passes(w, N, none, jump) = {w} \cup Passes(a, N, none, jump)
      /\ a \in N /\ num[a] < num[w] /\ num[a] \in Nat /\ num[w] \in Nat
      /\ jump[a] = none => Passes(a, N, none, jump) = {}
      /\ \A x \in Passes(w, N, none, jump) : rank[least[x]] \in Nat
      /\ Chain(w, N, jump) = {w} \cup Chain(a, N, jump)
  <2> HIDE DEF Right
  <2>1. /\ Passes(w, N, none, jump) = {w} \cup Passes(a, N, none, jump)
        /\ a \in N /\ num[a] < num[w]
        /\ jump[a] = none => Passes(a, N, none, jump) = {}
        /\ \A x \in Passes(w, N, none, jump) : x \in N
        /\ Chain(w, N, jump) = {w} \cup Chain(a, N, jump)
    BY <1>5, PassesSteps
  <2>2. num[a] \in Nat /\ num[w] \in Nat
    BY <1>1, <1>5, <2>1 DEF SearchTree
  <2>3. \A x \in Passes(w, N, none, jump) : rank[least[x]] \in Nat
    BY <2>1, JumpParts
  <2> QED
    BY <2>1, <2>2, <2>3
<1>7. CASE jump[a] = none
  <2>1. lab[w] = least[w] /\ to[w] = a
    BY <1>5, <1>7 DEF Updates
  <2>2. a \in Chain(a, N, jump)
    BY <1>6, ChainParts
  <2>3. Right(w)
    BY <1>6, <1>7, <2>1, <2>2
  <2> QED
    BY <1>5, <2>3
<1>8. CASE jump[a] # none
  <2>1. a \notin S
    BY <1>4, <1>6
  <2>2. Right(a)
    BY <1>6, <1>8, <2>1 DEF S
  <2>3. PICK u \in Passes(a, N, none, jump) : lab[a] = least[u]
    BY <2>2
  <2>4. rank[lab[a]] \in Nat /\ rank[least[w]] \in Nat
    BY <1>6, <2>3
  <2>5. to[w] \in Chain(w, N, jump) /\ jump[to[w]] = none
    BY <1>5, <1>6, <1>8, <2>2 DEF Updates
  <2>6. CASE rank[lab[a]] < rank[least[w]]
    <3>1. lab[w] = lab[a]
      BY <1>5, <1>8, <2>6 DEF Updates
    <3>2. \A x \in Passes(w, N, none, jump) : rank[lab[w]] <= rank[least[x]]
      BY <1>6, <2>2, <2>4, <2>6, <3>1
    <3>3. Right(w)
      BY <1>6, <2>3, <2>5, <3>1, <3>2
    <3> QED
      BY <1>5, <3>3
  <2>7. CASE ~(rank[lab[a]] < rank[least[w]])
    <3>1. lab[w] = least[w]
      BY <1>5, <1>8, <2>7 DEF Updates
    <3>2. ASSUME NEW x \in Passes(w, N, none, jump)
          PROVE  rank[lab[w]] <= rank[least[x]]
      <4>1. CASE x = w
        BY <2>4, <3>1, <4>1
      <4>2. CASE x \in Passes(a, N, none, jump)
        <5>1. rank[lab[a]] <= rank[least[x]] /\ rank[least[x]] \in Nat
          BY <1>6, <2>2, <4>2
        <5> QED
          BY <2>4, <2>7, <3>1, <5>1
      <4> QED
        BY <1>6, <4>1, <4>2
    <3>3. Right(w)
      BY <1>6, <2>5, <3>1, <3>2
    <3> QED
      BY <1>5, <3>3
  <2> QED
    BY <2>6, <2>7
<1> QED
  BY <1>7, <1>8

\* Blocks are found one after the other, so of the blocks not above a given
\* number the last one found is there.
LEMMA LastFound ==
  ASSUME NEW N, NEW E, NEW root, NEW up, NEW num, SearchTree(N, E, root, up, num),
         NEW S \in SUBSET N, S # {}, NEW B \in Nat, \A x \in S : num[x] <= B
  PROVE  \E y \in S : \A x \in S : num[x] <= num[y]
<1> DEFINE T == {B - num[y] : y \in S}
<1>1. \A y \in S : num[y] \in Nat /\ B - num[y] \in Nat
  BY DEF SearchTree
<1>2. T \in SUBSET Nat /\ T # {}
  BY <1>1
<1>3. PICK m \in T : \A n \in T : m <= n
  BY <1>2, LeastNumber
<1>4. PICK y \in S : m = B - num[y]
  OBVIOUS
<1>5. ASSUME NEW x \in S
      PROVE  num[x] <= num[y]
  <2>1. B - num[x] \in T
    OBVIOUS
  <2>2. B - num[y] <= B - num[x]
    BY <1>3, <1>4, <2>1
  <2> QED
    BY <1>1, <2>2
<1> QED
  BY <1>5

LastOf(S, num) == CHOOSE u \in S : \A x \in S : num[x] <= num[u]

\* Such labels and links exist: of the blocks whose labels have the least rank
\* the one Find meets first gives the label.
LEMMA UpdatesExist ==
  ASSUME NEW N, NEW E, NEW root, NEW up, NEW num, NEW none, NEW k, NEW jump, NEW least,
         NEW rank, Unites(N, E, root, up, num, none, k, jump, least, rank)
  PROVE  \E lab, to : Updates(N, none, jump, least, rank, lab, to)
<1> DEFINE P == [w \in N |-> Passes(w, N, none, jump)]
           Best == [w \in N |-> {u \in P[w] : \A x \in P[w] : rank[least[u]] <= rank[least[x]]}]
           Pick == [w \in N |-> LastOf(Best[w], num)]
           End == [w \in N |-> CHOOSE r \in Chain(w, N, jump) : jump[r] = none]
           lab == [w \in N |-> least[Pick[w]]]
<1>1. SearchTree(N, E, root, up, num)
  BY DEF Unites
<1>2. ASSUME NEW w \in N
      PROVE  /\ End[w] \in Chain(w, N, jump) /\ jump[End[w]] = none
             /\ \A r \in Chain(w, N, jump) : jump[r] = none => r = End[w]
  <2>1. \E r \in Chain(w, N, jump) : jump[r] = none
    BY JumpsEnd
  <2>2. End[w] = CHOOSE r \in Chain(w, N, jump) : jump[r] = none
    OBVIOUS
  <2> HIDE DEF End
  <2>3. End[w] \in Chain(w, N, jump) /\ jump[End[w]] = none
    BY <2>1, <2>2
  <2> QED
    BY <2>3, JumpsEnd
<1>3. ASSUME NEW w \in N, jump[w] # none
      PROVE  /\ P[w] = {w} \cup P[jump[w]] /\ jump[w] \in N /\ num[jump[w]] < num[w]
             /\ num[jump[w]] \in Nat /\ num[w] \in Nat
             /\ jump[jump[w]] = none => P[jump[w]] = {}
             /\ Chain(w, N, jump) = {w} \cup Chain(jump[w], N, jump)
             /\ \A x \in P[w] : x \in N /\ rank[least[x]] \in Nat /\ num[x] <= num[w]
  <2>1. /\ P[w] = {w} \cup P[jump[w]] /\ jump[w] \in N /\ num[jump[w]] < num[w]
        /\ jump[jump[w]] = none => P[jump[w]] = {}
        /\ Chain(w, N, jump) = {w} \cup Chain(jump[w], N, jump)
        /\ \A x \in P[w] : x \in N /\ num[x] <= num[w]
    BY <1>3, PassesSteps
  <2> HIDE DEF P
  <2>2. num[jump[w]] \in Nat /\ num[w] \in Nat
    BY <1>1, <2>1 DEF SearchTree
  <2>3. \A x \in P[w] : rank[least[x]] \in Nat
    BY <2>1, JumpParts
  <2> QED
    BY <2>1, <2>2, <2>3
<1>4. \A w \in N : /\ Best[w] = {u \in P[w] : \A x \in P[w] : rank[least[u]] <= rank[least[x]]}
                   /\ Pick[w] = LastOf(Best[w], num)
                   /\ lab[w] = least[Pick[w]]
  OBVIOUS
<1> HIDE DEF P, Best, Pick, End, lab
<1>5. ASSUME NEW w \in N, jump[w] # none
      PROVE  Pick[w] \in Best[w] /\ \A x \in Best[w] : num[x] <= num[Pick[w]]
  <2> DEFINE R == {rank[least[x]] : x \in P[w]}
  <2>1. R \in SUBSET Nat /\ R # {}
    BY <1>3, <1>5
  <2>2. PICK m \in R : \A n \in R : m <= n
    BY <2>1, LeastNumber
  <2>3. Best[w] # {}
    BY <1>4, <2>2
  <2>4. Best[w] \in SUBSET N /\ num[w] \in Nat /\ \A x \in Best[w] : num[x] <= num[w]
    BY <1>3, <1>4, <1>5
  <2>5. \E y \in Best[w] : \A x \in Best[w] : num[x] <= num[y]
    BY <1>1, <2>3, <2>4, LastFound
  <2> QED
    BY <1>4, <2>5 DEF LastOf
<1>6. ASSUME NEW w \in N, jump[w] # none, jump[jump[w]] = none
      PROVE  lab[w] = least[w] /\ End[w] = jump[w]
  <2>1. P[w] = {w}
    BY <1>3, <1>6
  <2>2. Pick[w] = w
    BY <1>4, <1>5, <1>6, <2>1
  <2>3. jump[w] \in Chain(w, N, jump)
    BY <1>3, <1>6, ChainParts
  <2> QED
    BY <1>2, <1>4, <1>6, <2>2, <2>3
<1>7. ASSUME NEW w \in N, jump[w] # none, jump[jump[w]] # none
      PROVE  /\ End[w] = End[jump[w]]
             /\ rank[lab[jump[w]]] < rank[least[w]] => lab[w] = lab[jump[w]]
             /\ ~(rank[lab[jump[w]]] < rank[least[w]]) => lab[w] = least[w]
  <2> DEFINE a == jump[w]
  <2>1. a \in N /\ jump[a] # none
    BY <1>3, <1>7
  <2>2. End[w] = End[a]
    BY <1>2, <1>3, <1>7, <2>1
  <2>3. /\ Pick[a] \in Best[a] /\ Pick[a] \in P[a] /\ lab[a] = least[Pick[a]]
        /\ \A x \in P[a] : rank[lab[a]] <= rank[least[x]]
    BY <1>4, <1>5, <2>1
  <2>4. /\ P[w] = {w} \cup P[a] /\ rank[lab[a]] \in Nat /\ rank[least[w]] \in Nat
        /\ \A x \in P[a] : rank[least[x]] \in Nat
    BY <1>3, <1>7, <2>3
  <2> HIDE DEF a
  <2>5. ASSUME rank[lab[a]] < rank[least[w]]
        PROVE  lab[w] = lab[a]
    <3>1. ASSUME NEW u \in Best[w]
          PROVE  u \in Best[a]
      <4>1. u \in P[w] /\ \A x \in P[w] : rank[least[u]] <= rank[least[x]]
        BY <1>4
      <4>2. rank[least[u]] <= rank[lab[a]]
        BY <2>3, <2>4, <4>1
      <4>3. u # w
        BY <2>4, <2>5, <4>2
      <4> QED
        BY <1>4, <2>1, <2>4, <4>1, <4>3
    <3>2. ASSUME NEW u \in Best[a]
          PROVE  u \in Best[w]
      <4>1. u \in P[a] /\ \A x \in P[a] : rank[least[u]] <= rank[least[x]]
        BY <1>4, <2>1
      <4>2. rank[least[u]] <= rank[lab[a]] /\ rank[least[u]] \in Nat
        BY <2>3, <2>4, <4>1
      <4>3. rank[least[u]] <= rank[least[w]]
        BY <2>4, <2>5, <4>2
      <4> QED
        BY <1>4, <2>4, <4>1, <4>3
    <3>3. Best[w] = Best[a]
      BY <3>1, <3>2
    <3>4. Pick[w] = Pick[a]
      BY <1>4, <2>1, <3>3
    <3> QED
      BY <1>4, <2>1, <3>4
  <2>6. ASSUME ~(rank[lab[a]] < rank[least[w]])
        PROVE  lab[w] = least[w]
    <3>1. ASSUME NEW x \in P[w]
          PROVE  rank[least[w]] <= rank[least[x]]
      <4>1. CASE x = w
        BY <2>4, <4>1
      <4>2. CASE x \in P[a]
        <5>1. rank[lab[a]] <= rank[least[x]] /\ rank[least[x]] \in Nat
          BY <2>3, <2>4, <4>2
        <5> QED
          BY <2>4, <2>6, <5>1
      <4> QED
        BY <2>4, <4>1, <4>2
    <3>2. w \in Best[w]
      BY <1>4, <2>4, <3>1
    <3>3. Pick[w] \in P[w] /\ num[w] <= num[Pick[w]]
      BY <1>4, <1>5, <1>7, <3>2
    <3>4. Pick[w] \in N /\ num[Pick[w]] <= num[w] /\ num[w] \in Nat
      BY <1>3, <1>7, <3>3
    <3>5. num[Pick[w]] = num[w]
      BY <1>1, <3>3, <3>4 DEF SearchTree
    <3>6. Pick[w] = w
      BY <1>1, <3>4, <3>5 DEF SearchTree
    <3> QED
      BY <1>4, <3>6
  <2> QED
    BY <2>2, <2>5, <2>6 DEF a
<1>8. Updates(N, none, jump, least, rank, lab, End)
  BY <1>6, <1>7 DEF Updates
<1> QED
  BY <1>8

\* What a label found this way says: it is the least of what is united above v.
LEMMA LeastAbove ==
  ASSUME NEW N, NEW E, NEW root, NEW up, NEW num, NEW none, NEW k, NEW jump, NEW least,
         NEW rank, Unites(N, E, root, up, num, none, k, jump, least, rank),
         NEW lab, NEW to, Updates(N, none, jump, least, rank, lab, to),
         NEW v \in N, jump[v] # none, k \in Nat
  PROVE  /\ to[v] \in N /\ to[v] # none /\ to[v] \in Chain(v, N, up) /\ num[to[v]] < k
         /\ lab[v] \in Chain(v, N, up) /\ k <= num[lab[v]]
         /\ \A y \in Chain(v, N, up) :
              num[to[v]] < num[y] => k <= num[y] /\ rank[lab[v]] <= rank[y]
<1> DEFINE r == to[v]
<1>1. /\ SearchTree(N, E, root, up, num) /\ none \notin N
      /\ \A w \in N : /\ jump[w] # none <=> k <= num[w]
                      /\ num[w] \in Nat /\ rank[w] \in Nat
      /\ \A w \in N : jump[w] # none =>
           /\ least[w] \in Segment(w, N, up, num, jump)
           /\ \A u \in Segment(w, N, up, num, jump) : k <= num[u] /\ rank[least[w]] <= rank[u]
  BY DEF Unites, Compressing, SearchTree
<1>2. /\ r \in Chain(v, N, jump) /\ jump[r] = none
      /\ \E u \in Passes(v, N, none, jump) : lab[v] = least[u]
      /\ \A u \in Passes(v, N, none, jump) : rank[lab[v]] <= rank[least[u]]
  BY UpdatesRight
<1>3. r \in N /\ r \in Chain(v, N, up)
  BY <1>2, JumpParts
<1>4. num[r] < k
  BY <1>1, <1>2, <1>3
<1>5. PICK u \in Passes(v, N, none, jump) : lab[v] = least[u]
  BY <1>2
<1>6. u \in N /\ jump[u] # none /\ u \in Chain(v, N, up)
  BY PassesSteps
<1>7. least[u] \in Chain(u, N, up) /\ k <= num[least[u]]
  BY <1>1, <1>6 DEF Segment
<1>8. lab[v] \in Chain(v, N, up)
  BY <1>5, <1>6, <1>7, AboveTransitive
<1>9. ASSUME NEW y \in Chain(v, N, up), num[r] < num[y]
      PROVE  k <= num[y] /\ rank[lab[v]] <= rank[y]
  <2>1. PICK w \in Passes(v, N, none, jump) : y \in Segment(w, N, up, num, jump)
    BY <1>2, <1>9, SegmentsCover
  <2>2. w \in N /\ jump[w] # none
    BY PassesSteps
  <2>3. k <= num[y] /\ rank[least[w]] <= rank[y] /\ rank[lab[v]] <= rank[least[w]]
    BY <1>1, <1>2, <2>1, <2>2
  <2>4. lab[v] \in N /\ y \in N /\ least[w] \in N
    BY <1>1, <1>5, <1>6, <2>2, AboveBelow, JumpParts
  <2> QED
    BY <1>1, <2>3, <2>4
<1> QED
  BY <1>1, <1>3, <1>4, <1>5, <1>7, <1>8, <1>9

\* Find writes labels and links of the blocks it goes through.
Compresses(N, none, v, jump, least, lab, to, jump2, least2) ==
  \A u \in N : LET P == Passes(v, N, none, jump)
               IN /\ u \in P => jump2[u] = to[u] /\ least2[u] = lab[u]
                  /\ u \notin P => jump2[u] = jump[u] /\ least2[u] = least[u]

LEMMA CompressKeeps ==
  ASSUME NEW N, NEW E, NEW root, NEW up, NEW num, NEW none, NEW k, NEW jump, NEW least,
         NEW rank, Unites(N, E, root, up, num, none, k, jump, least, rank),
         NEW lab, NEW to, Updates(N, none, jump, least, rank, lab, to),
         NEW v \in N, NEW jump2, NEW least2,
         Compresses(N, none, v, jump, least, lab, to, jump2, least2), k \in Nat
  PROVE  Unites(N, E, root, up, num, none, k, jump2, least2, rank)
<1> DEFINE P == Passes(v, N, none, jump)
<1>1. /\ SearchTree(N, E, root, up, num) /\ none \notin N
      /\ \A w \in N : num[w] \in Nat /\ rank[w] \in Nat
      /\ \A w \in N : jump[w] \in N \cup {none} /\ least[w] \in N
      /\ \A w \in N : jump[w] # none <=> k <= num[w]
      /\ \A w \in N : jump[w] = none => least[w] = w
      /\ \A w \in N : jump[w] # none =>
           /\ jump[w] \in Chain(w, N, up) /\ num[jump[w]] < num[w]
           /\ least[w] \in Segment(w, N, up, num, jump)
           /\ \A u \in Segment(w, N, up, num, jump) : k <= num[u] /\ rank[least[w]] <= rank[u]
  BY DEF Unites, Compressing, SearchTree
<1>2. \A u \in P : u \in N /\ jump[u] # none
  BY ChainParts DEF Passes
<1>3. /\ \A u \in N : u \in P => jump2[u] = to[u] /\ least2[u] = lab[u]
      /\ \A u \in N : u \notin P => jump2[u] = jump[u] /\ least2[u] = least[u]
  BY DEF Compresses
<1> HIDE DEF P
<1>4. ASSUME NEW w \in N, w \in P
      PROVE  /\ jump2[w] \in N /\ jump2[w] # none
             /\ jump2[w] \in Chain(w, N, up) /\ num[jump2[w]] < k
             /\ least2[w] \in N /\ least2[w] \in Chain(w, N, up) /\ k <= num[least2[w]]
             /\ \A y \in Chain(w, N, up) :
                  num[jump2[w]] < num[y] => k <= num[y] /\ rank[least2[w]] <= rank[y]
  <2>1. jump2[w] = to[w] /\ least2[w] = lab[w] /\ jump[w] # none
    BY <1>2, <1>3, <1>4
  <2>2. /\ to[w] \in N /\ to[w] # none /\ to[w] \in Chain(w, N, up) /\ num[to[w]] < k
        /\ lab[w] \in Chain(w, N, up) /\ k <= num[lab[w]]
        /\ \A y \in Chain(w, N, up) :
             num[to[w]] < num[y] => k <= num[y] /\ rank[lab[w]] <= rank[y]
    BY <2>1, LeastAbove
  <2>3. lab[w] \in N
    BY <1>1, <2>2, AboveBelow
  <2> QED
    BY <2>1, <2>2, <2>3
<1>5. ASSUME NEW w \in N, jump2[w] # none
      PROVE  /\ jump2[w] \in Chain(w, N, up) /\ num[jump2[w]] < num[w]
             /\ least2[w] \in Segment(w, N, up, num, jump2)
             /\ \A u \in Segment(w, N, up, num, jump2) : k <= num[u] /\ rank[least2[w]] <= rank[u]
  <2>1. CASE w \in P
    <3>1. k <= num[w]
      BY <1>1, <1>2, <2>1
    <3>2. num[jump2[w]] < num[least2[w]] /\ num[jump2[w]] < num[w]
      BY <1>1, <1>4, <2>1, <3>1
    <3> QED
      BY <1>4, <2>1, <3>2 DEF Segment
  <2>2. CASE w \notin P
    <3>1. jump2[w] = jump[w] /\ least2[w] = least[w]
      BY <1>3, <2>2
    <3> QED
      BY <1>1, <1>5, <3>1 DEF Segment
  <2> QED
    BY <2>1, <2>2
<1>6. \A w \in N : jump2[w] \in N \cup {none} /\ least2[w] \in N
  BY <1>1, <1>3, <1>4
<1>7. \A w \in N : jump2[w] # none <=> k <= num[w]
  BY <1>1, <1>2, <1>3, <1>4
<1>8. \A w \in N : jump2[w] = none => least2[w] = w
  BY <1>1, <1>3, <1>4
<1> QED
  BY <1>1, <1>5, <1>6, <1>7, <1>8 DEF Unites, Compressing

-----------------------------------------------------------------------------
(* The operators of the DSU.                                                 *)

Uniting == Unites(BBs, graph.edges, graph.first, parent, Num, NoBB, Bound, link, label, semi)

NewLabels == [w \in BBs |-> Updated(w).label]
NewLinks == [w \in BBs |-> Updated(w).link]

\* The recursive definition of Updated has a solution, so it defines what it
\* says it does.
LEMMA UpdatedRight ==
  ASSUME graph \in Graphs, TypeOK, Uniting
  PROVE  Updates(BBs, NoBB, link, label, semi, NewLabels, NewLinks)
<1> DEFINE K == CHOOSE F : F = [w \in Linked |->
                  LET ancestor == link[w] IN
                  IF link[ancestor] = NoBB
                  THEN [label |-> label[w], link |-> ancestor]
                  ELSE LET min == IF semi[F[ancestor].label] < semi[label[w]]
                                  THEN F[ancestor].label ELSE label[w]
                       IN [label |-> min, link |-> F[ancestor].link]]
<1>1. PICK lab, to : Updates(BBs, NoBB, link, label, semi, lab, to)
  BY UpdatesExist DEF Uniting
<1>2. \A w \in Linked : w \in BBs /\ link[w] # NoBB /\ link[w] \in BBs
  BY DEF Linked, TypeOK
<1> DEFINE G == [w \in Linked |-> [label |-> lab[w], link |-> to[w]]]
<1>3. \E F : F = [w \in Linked |->
                  LET ancestor == link[w] IN
                  IF link[ancestor] = NoBB
                  THEN [label |-> label[w], link |-> ancestor]
                  ELSE LET min == IF semi[F[ancestor].label] < semi[label[w]]
                                  THEN F[ancestor].label ELSE label[w]
                       IN [label |-> min, link |-> F[ancestor].link]]
  <2>1. ASSUME NEW w \in Linked
        PROVE  G[w] = LET ancestor == link[w] IN
                      IF link[ancestor] = NoBB
                      THEN [label |-> label[w], link |-> ancestor]
                      ELSE LET min == IF semi[G[ancestor].label] < semi[label[w]]
                                      THEN G[ancestor].label ELSE label[w]
                           IN [label |-> min, link |-> G[ancestor].link]
    <3>1. CASE link[link[w]] = NoBB
      <4>1. lab[w] = label[w] /\ to[w] = link[w]
        BY <1>1, <1>2, <3>1 DEF Updates
      <4> QED
        BY <3>1, <4>1
    <3>2. CASE link[link[w]] # NoBB
      <4>1. link[w] \in Linked
        BY <1>2, <3>2 DEF Linked
      <4>2. G[link[w]].label = lab[link[w]] /\ G[link[w]].link = to[link[w]]
        BY <4>1
      <4>3. /\ to[w] = to[link[w]]
            /\ lab[w] = IF semi[lab[link[w]]] < semi[label[w]] THEN lab[link[w]] ELSE label[w]
        BY <1>1, <1>2, <3>2 DEF Updates
      <4> QED
        BY <3>2, <4>2, <4>3
    <3> QED
      BY <3>1, <3>2
  <2>2. G = [w \in Linked |-> G[w]]
    OBVIOUS
  <2> HIDE DEF G
  <2>3. G = [w \in Linked |->
                  LET ancestor == link[w] IN
                  IF link[ancestor] = NoBB
                  THEN [label |-> label[w], link |-> ancestor]
                  ELSE LET min == IF semi[G[ancestor].label] < semi[label[w]]
                                  THEN G[ancestor].label ELSE label[w]
                       IN [label |-> min, link |-> G[ancestor].link]]
    BY <2>1, <2>2
  <2> QED
    BY <2>3, Zenon
<1>4. K = [w \in Linked |->
                  LET ancestor == link[w] IN
                  IF link[ancestor] = NoBB
                  THEN [label |-> label[w], link |-> ancestor]
                  ELSE LET min == IF semi[K[ancestor].label] < semi[label[w]]
                                  THEN K[ancestor].label ELSE label[w]
                       IN [label |-> min, link |-> K[ancestor].link]]
  BY <1>3, Zenon
<1>5. \A w \in BBs : Updated(w) = K[w]
  BY Zenon DEF Updated
<1> HIDE DEF K
<1>6. ASSUME NEW w \in BBs, link[w] # NoBB
      PROVE  /\ link[link[w]] = NoBB => K[w] = [label |-> label[w], link |-> link[w]]
             /\ link[link[w]] # NoBB =>
                  K[w] = [label |-> IF semi[K[link[w]].label] < semi[label[w]]
                                    THEN K[link[w]].label ELSE label[w],
                          link |-> K[link[w]].link]
  <2>1. w \in Linked
    BY <1>6 DEF Linked
  <2> QED
    BY <1>4, <2>1
<1>7. ASSUME NEW w \in BBs
      PROVE  NewLabels[w] = K[w].label /\ NewLinks[w] = K[w].link
  BY <1>5 DEF NewLabels, NewLinks
<1>8. ASSUME NEW w \in BBs, link[w] # NoBB
      PROVE  /\ link[link[w]] = NoBB => NewLabels[w] = label[w] /\ NewLinks[w] = link[w]
             /\ link[link[w]] # NoBB =>
                  /\ NewLinks[w] = NewLinks[link[w]]
                  /\ semi[NewLabels[link[w]]] < semi[label[w]] => NewLabels[w] = NewLabels[link[w]]
                  /\ ~(semi[NewLabels[link[w]]] < semi[label[w]]) => NewLabels[w] = label[w]
  <2>1. link[w] \in BBs
    BY <1>2, <1>8 DEF TypeOK
  <2>2. /\ NewLabels[w] = K[w].label /\ NewLinks[w] = K[w].link
        /\ NewLabels[link[w]] = K[link[w]].label /\ NewLinks[link[w]] = K[link[w]].link
    BY <1>7, <2>1
  <2>3. ASSUME link[link[w]] = NoBB
        PROVE  NewLabels[w] = label[w] /\ NewLinks[w] = link[w]
    <3>1. K[w] = [label |-> label[w], link |-> link[w]]
      BY <1>6, <1>8, <2>3
    <3> QED
      BY <2>2, <3>1
  <2>4. ASSUME link[link[w]] # NoBB
        PROVE  /\ NewLinks[w] = NewLinks[link[w]]
               /\ NewLabels[w] = IF semi[NewLabels[link[w]]] < semi[label[w]]
                                 THEN NewLabels[link[w]] ELSE label[w]
    <3>1. K[w] = [label |-> IF semi[K[link[w]].label] < semi[label[w]]
                            THEN K[link[w]].label ELSE label[w],
                  link |-> K[link[w]].link]
      BY <1>6, <1>8, <2>4
    <3> QED
      BY <2>2, <3>1
  <2> QED
    BY <2>3, <2>4
<1> QED
  BY <1>8 DEF Updates

\* Path(v) as it is meant.
LEMMA PathRight ==
  ASSUME graph \in Graphs, TypeOK, Uniting, NEW v \in BBs
  PROVE  Path(v) = Passes(v, BBs, NoBB, link)
<1> DEFINE K == CHOOSE F : F = [u \in BBs |->
                  IF link[u] = NoBB THEN {} ELSE {u} \cup F[link[u]]]
           G == [u \in BBs |-> Passes(u, BBs, NoBB, link)]
<1>1. /\ SearchTree(BBs, graph.edges, graph.first, parent, Num) /\ NoBB \notin BBs
      /\ \A u \in BBs : link[u] # NoBB => link[u] \in BBs
  BY GraphParts DEF Uniting, Unites, TypeOK
<1>2. ASSUME NEW u \in BBs
      PROVE  /\ link[u] = NoBB => G[u] = {}
             /\ link[u] # NoBB => G[u] = {u} \cup G[link[u]] /\ Num[link[u]] < Num[u]
                                  /\ link[u] \in BBs
  <2>1. CASE link[u] = NoBB
    <3>1. Chain(u, BBs, link) = {u}
      BY <1>1, <2>1, ChainSteps
    <3> QED
      BY <2>1, <3>1 DEF Passes
  <2>2. CASE link[u] # NoBB
    <3>1. /\ Passes(u, BBs, NoBB, link) = {u} \cup Passes(link[u], BBs, NoBB, link)
          /\ link[u] \in BBs /\ Num[link[u]] < Num[u]
      BY <2>2, PassesSteps DEF Uniting
    <3> QED
      BY <2>2, <3>1
  <2> QED
    BY <2>1, <2>2
<1>3. \A u \in BBs : G[u] = Passes(u, BBs, NoBB, link)
  OBVIOUS
<1>4. G = [u \in BBs |-> IF link[u] = NoBB THEN {} ELSE {u} \cup G[link[u]]]
  <2>1. G = [u \in BBs |-> G[u]]
    OBVIOUS
  <2> HIDE DEF G
  <2> QED
    BY <1>2, <2>1
<1> HIDE DEF G
<1>5. K = [u \in BBs |-> IF link[u] = NoBB THEN {} ELSE {u} \cup K[link[u]]]
  <2>1. \E F : F = [u \in BBs |-> IF link[u] = NoBB THEN {} ELSE {u} \cup F[link[u]]]
    BY <1>4, Zenon
  <2> QED
    BY <2>1, Zenon
<1>6. Path(v) = K[v]
  BY Zenon DEF Path
<1> HIDE DEF K
<1>7. \A u \in BBs : K[u] = IF link[u] = NoBB THEN {} ELSE {u} \cup K[link[u]]
  BY <1>5
<1> DEFINE S == {u \in BBs : K[u] # G[u]}
<1>8. S = {}
  <2> SUFFICES ASSUME S # {}
               PROVE  FALSE
    OBVIOUS
  <2>1. S \in SUBSET BBs
    OBVIOUS
  <2> HIDE DEF S
  <2>2. PICK u \in S : \A w \in S : Num[u] <= Num[w]
    BY <1>1, <2>1, FirstFound
  <2>3. u \in BBs /\ K[u] # G[u]
    BY DEF S
  <2>4. link[u] # NoBB /\ link[u] \in BBs /\ Num[link[u]] < Num[u]
        /\ Num[link[u]] \in Nat /\ Num[u] \in Nat
    BY <1>1, <1>2, <1>7, <2>3 DEF SearchTree
  <2>5. K[link[u]] = G[link[u]]
    BY <2>2, <2>4 DEF S
  <2>6. K[u] = {u} \cup K[link[u]]
    BY <1>7, <2>3, <2>4
  <2>7. G[u] = {u} \cup G[link[u]]
    BY <1>2, <2>3, <2>4
  <2> QED
    BY <2>3, <2>5, <2>6, <2>7
<1> QED
  BY <1>3, <1>6, <1>8

\* Forest(v): the blocks above v, v included, that are united.
LEMMA ForestRight ==
  ASSUME graph \in Graphs, TypeOK, Uniting, Bound > 0, Num[graph.first] = 0, NEW v \in BBs
  PROVE  Forest(v) = {u \in Above(v) : link[u] # NoBB}
<1> DEFINE K == CHOOSE F : F = [u \in BBs |->
                  IF link[u] = NoBB THEN {} ELSE {u} \cup F[parent[u]]]
           G == [u \in BBs |-> {w \in Above(u) : link[w] # NoBB}]
<1>1. /\ SearchTree(BBs, graph.edges, graph.first, parent, Num) /\ NoBB \notin BBs
      /\ \A u \in BBs : link[u] # NoBB <=> Bound <= Num[u]
      /\ \A u \in BBs : Num[u] \in Nat
      /\ Bound \in Int
  <2>1. /\ SearchTree(BBs, graph.edges, graph.first, parent, Num)
        /\ Compressing(BBs, parent, Num, NoBB, Bound, link, label, semi)
    BY DEF Uniting, Unites
  <2>2. Bound \in Int
    BY GraphParts DEF TypeOK, Bound
  <2> HIDE DEF Bound
  <2>3. \A u \in BBs : link[u] # NoBB <=> Bound <= Num[u]
    BY <2>1 DEF Compressing
  <2>4. \A u \in BBs : Num[u] \in Nat
    BY <2>1 DEF SearchTree
  <2> QED
    BY <2>1, <2>2, <2>3, <2>4, GraphParts
<1>2. ASSUME NEW u \in BBs
      PROVE  /\ link[u] = NoBB => G[u] = {}
             /\ link[u] # NoBB => G[u] = {u} \cup G[parent[u]] /\ Num[parent[u]] < Num[u]
                                  /\ parent[u] \in BBs
  <2>1. CASE link[u] = NoBB
    <3>1. ASSUME NEW w \in Above(u)
          PROVE  link[w] = NoBB
      <4>1. w \in BBs /\ Num[w] <= Num[u]
        BY <1>1, <3>1, AboveBelow DEF Above
      <4> QED
        BY <1>1, <2>1, <4>1
    <3> QED
      BY <2>1, <3>1
  <2>2. CASE link[u] # NoBB
    <3>1. u # graph.first
      BY <1>1, <2>2
    <3>2. parent[u] \in BBs /\ Num[parent[u]] < Num[u]
      BY <1>1, <3>1 DEF SearchTree
    <3>3. Above(u) = {u} \cup Above(parent[u])
      BY <3>2, ChainSteps DEF Above
    <3> QED
      BY <2>2, <3>2, <3>3
  <2> QED
    BY <2>1, <2>2
<1>3. \A u \in BBs : G[u] = {w \in Above(u) : link[w] # NoBB}
  OBVIOUS
<1>4. G = [u \in BBs |-> IF link[u] = NoBB THEN {} ELSE {u} \cup G[parent[u]]]
  <2>1. G = [u \in BBs |-> G[u]]
    OBVIOUS
  <2> HIDE DEF G
  <2> QED
    BY <1>2, <2>1
<1> HIDE DEF G
<1>5. K = [u \in BBs |-> IF link[u] = NoBB THEN {} ELSE {u} \cup K[parent[u]]]
  <2>1. \E F : F = [u \in BBs |-> IF link[u] = NoBB THEN {} ELSE {u} \cup F[parent[u]]]
    BY <1>4, Zenon
  <2> QED
    BY <2>1, Zenon
<1>6. Forest(v) = K[v]
  BY Zenon DEF Forest
<1> HIDE DEF K
<1>7. \A u \in BBs : K[u] = IF link[u] = NoBB THEN {} ELSE {u} \cup K[parent[u]]
  BY <1>5
<1> DEFINE S == {u \in BBs : K[u] # G[u]}
<1>8. S = {}
  <2> SUFFICES ASSUME S # {}
               PROVE  FALSE
    OBVIOUS
  <2>1. S \in SUBSET BBs
    OBVIOUS
  <2> HIDE DEF S
  <2>2. PICK u \in S : \A w \in S : Num[u] <= Num[w]
    BY <1>1, <2>1, FirstFound
  <2>3. u \in BBs /\ K[u] # G[u]
    BY DEF S
  <2>4. link[u] # NoBB /\ parent[u] \in BBs /\ Num[parent[u]] < Num[u]
        /\ Num[parent[u]] \in Nat /\ Num[u] \in Nat
    BY <1>1, <1>2, <1>7, <2>3
  <2>5. K[parent[u]] = G[parent[u]]
    BY <2>2, <2>4 DEF S
  <2>6. K[u] = {u} \cup K[parent[u]]
    BY <1>7, <2>3, <2>4
  <2>7. G[u] = {u} \cup G[parent[u]]
    BY <1>2, <2>3, <2>4
  <2> QED
    BY <2>3, <2>5, <2>6, <2>7
<1> QED
  BY <1>3, <1>6, <1>8

LEMMA FindParts ==
  ASSUME graph \in Graphs, TypeOK, Uniting, Bound \in Nat, NEW v \in BBs
  PROVE  /\ link[v] = NoBB => Find(v) = v
         /\ link[v] # NoBB =>
              /\ Find(v) \in Above(v) /\ Bound <= Num[Find(v)]
              /\ \A y \in Above(v) : Bound <= Num[y] => semi[Find(v)] <= semi[y]
         /\ Find(v) \in BBs
<1>1. CASE link[v] = NoBB
  BY <1>1 DEF Find
<1>2. CASE link[v] # NoBB
  <2>1. Updates(BBs, NoBB, link, label, semi, NewLabels, NewLinks)
    BY UpdatedRight
  <2>2. Find(v) = NewLabels[v]
    BY <1>2 DEF Find, NewLabels
  <2>3. SearchTree(BBs, graph.edges, graph.first, parent, Num)
    BY DEF Uniting, Unites
  <2>4. /\ NewLinks[v] \in BBs /\ Num[NewLinks[v]] < Bound
        /\ NewLabels[v] \in Chain(v, BBs, parent) /\ Bound <= Num[NewLabels[v]]
        /\ \A y \in Chain(v, BBs, parent) :
             Num[NewLinks[v]] < Num[y] => semi[NewLabels[v]] <= semi[y]
    BY <1>2, <2>1, LeastAbove DEF Uniting
  <2>5. \A y \in Chain(v, BBs, parent) : y \in BBs
    BY ChainParts
  <2>6. \A y \in BBs : Num[y] \in Nat
    BY <2>3 DEF SearchTree
  <2>7. \A y \in Above(v) : Bound <= Num[y] => semi[Find(v)] <= semi[y]
    BY <2>2, <2>4, <2>5, <2>6 DEF Above
  <2> QED
    BY <1>2, <2>2, <2>4, <2>5, <2>7 DEF Above
<1> QED
  BY <1>1, <1>2

LEMMA CompressUnites ==
  ASSUME graph \in Graphs, TypeOK, Uniting, Bound \in Nat, NEW v \in BBs, Compress(v)
  PROVE  /\ Unites(BBs, graph.edges, graph.first, parent, Num, NoBB, Bound, link', label', semi)
         /\ link' \in [BBs -> BBs \cup {NoBB}] /\ label' \in [BBs -> BBs \cup {NoBB}]
<1>1. Updates(BBs, NoBB, link, label, semi, NewLabels, NewLinks)
  BY UpdatedRight
<1>2. Path(v) = Passes(v, BBs, NoBB, link)
  BY PathRight
<1>3. /\ label' = [u \in BBs |-> IF u \in Path(v) THEN Updated(u).label ELSE label[u]]
      /\ link' = [u \in BBs |-> IF u \in Path(v) THEN Updated(u).link ELSE link[u]]
  BY DEF Compress, Compressed
<1>4. \A u \in BBs : NewLabels[u] = Updated(u).label /\ NewLinks[u] = Updated(u).link
  BY DEF NewLabels, NewLinks
<1>5. Compresses(BBs, NoBB, v, link, label, NewLabels, NewLinks, link', label')
  BY <1>2, <1>3, <1>4 DEF Compresses
<1>6. Unites(BBs, graph.edges, graph.first, parent, Num, NoBB, Bound, link', label', semi)
  BY <1>1, <1>5, CompressKeeps DEF Uniting
<1>7. \A u \in BBs : link'[u] \in BBs \cup {NoBB} /\ label'[u] \in BBs \cup {NoBB}
  BY <1>6 DEF Unites, Compressing
<1> QED
  BY <1>3, <1>6, <1>7

LEMMA MinIs ==
  ASSUME NEW S \in SUBSET Nat, NEW m \in S, \A x \in S : m <= x
  PROVE  Min(S) = m
<1> DEFINE p == CHOOSE x \in S : \A y \in S : x <= y
<1>1. p \in S /\ \A y \in S : p <= y
  OBVIOUS
<1>2. Min(S) = p
  BY DEF Min
<1> HIDE DEF p
<1>3. p <= m /\ m <= p /\ p \in Nat /\ m \in Nat
  BY <1>1
<1> QED
  BY <1>2, <1>3

-----------------------------------------------------------------------------
(* Semidominators.                                                           *)

\* The blocks found no earlier than w, and the edges between them.
Later(w, N, num) == {b \in N : num[b] >= num[w]}
Inner(w, N, E, num) ==
  {e \in E : e[1] \in Later(w, N, num) /\ e[2] \in Later(w, N, num)}

\* w is reached from v with no block before w in between.
IsSource(v, w, N, E, num) ==
  \E d \in Later(w, N, num) :
    /\ <<v, d>> \in E
    /\ w \in ReachableFrom(d, Later(w, N, num), Inner(w, N, E, num))

LEMMA SemiSourcesAre ==
  ASSUME graph \in Graphs, NEW w \in BBs, NEW v
  PROVE  v \in SemiSources(w) <=> v \in BBs /\ IsSource(v, w, BBs, graph.edges, Num)
<1> DEFINE later == Later(w, BBs, Num)
           inner == Inner(w, BBs, graph.edges, Num)
           lead == {b \in later : w \in ReachableFrom(b, later, inner)}
<1>1. \A b \in BBs : Num[b] = Number(b)
  BY DEF Num
<1>2. graph.edges \subseteq BBs \X BBs
  BY GraphParts
<1>3. later = {b \in BBs : Number(b) >= Number(w)}
  BY <1>1 DEF Later
<1>4. inner = {e \in graph.edges : e[1] \in later /\ e[2] \in later}
  BY DEF Inner
<1>5. SemiSources(w) = {e[1] : e \in {d \in graph.edges : d[2] \in lead}}
  BY <1>3, <1>4 DEF SemiSources
<1> HIDE DEF later, inner
<1>6. v \in SemiSources(w) <=> v \in BBs /\ \E d \in lead : <<v, d>> \in graph.edges
  <2>1. ASSUME v \in SemiSources(w)
        PROVE  v \in BBs /\ \E d \in lead : <<v, d>> \in graph.edges
    <3>1. PICK e \in graph.edges : e[2] \in lead /\ v = e[1]
      BY <1>5, <2>1
    <3>2. e = <<e[1], e[2]>> /\ e[1] \in BBs
      BY <1>2, <3>1
    <3> QED
      BY <3>1, <3>2
  <2>2. ASSUME NEW d \in lead, <<v, d>> \in graph.edges
        PROVE  v \in SemiSources(w)
    BY <1>5, <2>2
  <2> QED
    BY <2>1, <2>2
<1> QED
  BY <1>6 DEF IsSource, later, inner

\* A path exists also where there are more nodes and more edges.
LEMMA ReachesWider ==
  ASSUME NEW N, NEW E, NEW M, NEW F, N \subseteq M, E \subseteq F, E \subseteq N \X N,
         NEW a \in N, NEW b \in ReachableFrom(a, N, E)
  PROVE  b \in ReachableFrom(a, M, F)
<1> DEFINE S == {x \in N : x \in ReachableFrom(a, M, F)}
<1>1. a \in S
  BY ReachesItself
<1>2. ASSUME NEW e \in E, e[1] \in S
      PROVE  e[2] \in S
  <2>1. e = <<e[1], e[2]>> /\ e[2] \in N /\ e[2] \in M /\ <<e[1], e[2]>> \in F
    BY <1>2
  <2> QED
    BY <1>2, <2>1, ReachesNext
<1> HIDE DEF S
<1>3. b \in S
  BY <1>1, <1>2, ReachesInside
<1> QED
  BY <1>3 DEF S

\* w and what was found after it, with the edges of the graph between them.
LEMMA LaterParts ==
  ASSUME NEW N, NEW E, E \subseteq N \X N, NEW root, NEW up, NEW num,
         SearchTree(N, E, root, up, num), NEW w \in N
  PROVE  /\ w \in Later(w, N, num) /\ Later(w, N, num) \subseteq N
         /\ Inner(w, N, E, num) \subseteq Later(w, N, num) \X Later(w, N, num)
         /\ Inner(w, N, E, num) \subseteq E
         /\ \A x, y \in Later(w, N, num) : <<x, y>> \in E => <<x, y>> \in Inner(w, N, E, num)
<1>1. \A b \in N : num[b] \in Nat
  BY DEF SearchTree
<1>2. ASSUME NEW e \in Inner(w, N, E, num)
      PROVE  e \in Later(w, N, num) \X Later(w, N, num)
  <2>1. e = <<e[1], e[2]>>
    BY DEF Inner
  <2> QED
    BY <2>1 DEF Inner
<1> QED
  BY <1>1, <1>2 DEF Later, Inner

\* A source found before w is above w.
LEMMA SourceAbove ==
  ASSUME NEW N, NEW E, E \subseteq N \X N, NEW root, NEW up, NEW num,
         SearchTree(N, E, root, up, num),
         NEW w \in N, NEW v \in N, IsSource(v, w, N, E, num), num[v] < num[w]
  PROVE  v \in Chain(w, N, up) /\ v # w
<1> DEFINE L == Later(w, N, num)
           I == Inner(w, N, E, num)
           S == {x \in L : v \in Chain(x, N, up)}
<1>1. PICK d \in L : <<v, d>> \in E /\ w \in ReachableFrom(d, L, I)
  BY DEF IsSource
<1>2. /\ w \in L /\ L \subseteq N /\ I \subseteq L \X L /\ I \subseteq E
      /\ \A b \in N : num[b] \in Nat
      /\ \A x \in L : num[w] <= num[x]
  BY LaterParts DEF SearchTree, Later
<1>3. d \in S
  <2>1. num[v] < num[d]
    BY <1>1, <1>2
  <2> QED
    BY <1>1, <1>2, <2>1 DEF SearchTree
<1>4. ASSUME NEW e \in I, e[1] \in S
      PROVE  e[2] \in S
  <2>1. e = <<e[1], e[2]>> /\ e[1] \in L /\ e[2] \in L /\ e \in E /\ v \in Chain(e[1], N, up)
    BY <1>2, <1>4
  <2>2. CASE num[e[1]] < num[e[2]]
    <3>1. e[1] \in Chain(e[2], N, up)
      BY <1>2, <2>1, <2>2 DEF SearchTree
    <3> QED
      BY <1>2, <2>1, <3>1, AboveTransitive
  <2>3. CASE num[e[2]] <= num[e[1]]
    <3>1. num[v] <= num[e[2]]
      BY <1>2, <2>1
    <3> QED
      BY <1>2, <2>1, <2>3, <3>1 DEF SearchTree
  <2>4. num[e[1]] \in Nat /\ num[e[2]] \in Nat
    BY <1>2, <2>1
  <2> QED
    BY <2>2, <2>3, <2>4
<1> HIDE DEF S
<1>5. w \in S
  BY <1>1, <1>2, <1>3, <1>4, ReachesInside
<1> QED
  BY <1>2, <1>5 DEF S

\* A predecessor is a source.
LEMMA SourceEdge ==
  ASSUME NEW N, NEW E, E \subseteq N \X N, NEW root, NEW up, NEW num,
         SearchTree(N, E, root, up, num), NEW w \in N, NEW v \in N, <<v, w>> \in E
  PROVE  IsSource(v, w, N, E, num)
BY LaterParts, ReachesItself DEF IsSource

\* So is a source of a block, found no earlier than w, above a predecessor.
LEMMA SourceFrom ==
  ASSUME NEW N, NEW E, E \subseteq N \X N, NEW root, NEW up, NEW num,
         SearchTree(N, E, root, up, num),
         NEW w \in N, NEW p \in N, <<p, w>> \in E, NEW u \in Chain(p, N, up),
         num[w] <= num[u], NEW v \in N, IsSource(v, u, N, E, num)
  PROVE  IsSource(v, w, N, E, num)
<1> DEFINE L == Later(w, N, num)
           I == Inner(w, N, E, num)
           K == Later(u, N, num)
           J == Inner(u, N, E, num)
<1>1. u \in N /\ num[u] <= num[p]
  BY AboveBelow
<1>2. PICK d \in K : <<v, d>> \in E /\ u \in ReachableFrom(d, K, J)
  BY DEF IsSource
<1>3. /\ w \in L /\ L \subseteq N /\ I \subseteq L \X L /\ I \subseteq E
      /\ \A x, y \in L : <<x, y>> \in E => <<x, y>> \in I
      /\ u \in K /\ K \subseteq N /\ J \subseteq K \X K /\ J \subseteq E
      /\ \A b \in N : num[b] \in Nat
  BY <1>1, LaterParts DEF SearchTree
<1>4. K \subseteq L
  BY <1>1, <1>3 DEF Later
<1>5. J \subseteq I
  <2>1. ASSUME NEW e \in J
        PROVE  e \in I
    <3>1. e = <<e[1], e[2]>> /\ e[1] \in L /\ e[2] \in L /\ e \in E
      BY <1>3, <1>4
    <3> QED
      BY <1>3, <3>1
  <2> QED
    BY <2>1
<1>6. u \in ReachableFrom(d, L, I)
  BY <1>2, <1>3, <1>4, <1>5, ReachesWider
<1>7. p \in ReachableFrom(u, L, I)
  <2>1. ASSUME NEW y \in Chain(p, N, up), u \in Chain(y, N, up)
        PROVE  y \in L /\ (y # u => <<up[y], y>> \in I)
    <3>1. y \in N /\ num[u] <= num[y]
      BY <2>1, AboveBelow
    <3>2. y \in L
      BY <1>1, <1>3, <3>1 DEF Later
    <3>3. ASSUME y # u
          PROVE  <<up[y], y>> \in I
      <4>1. y # root
        <5>1. Chain(root, N, up) = {root}
          BY <3>1, ChainSteps DEF SearchTree
        <5> QED
          BY <2>1, <3>3, <5>1
      <4>2. up[y] \in N /\ u \in Chain(up[y], N, up)
        BY <2>1, <3>1, <3>3, <4>1, AboveParent
      <4>3. num[u] <= num[up[y]]
        BY <4>2, AboveBelow
      <4>4. up[y] \in L
        BY <1>1, <1>3, <4>2, <4>3 DEF Later
      <4>5. <<up[y], y>> \in E
        BY <3>1, <4>1 DEF SearchTree
      <4> QED
        BY <1>3, <3>2, <4>4, <4>5
    <3> QED
      BY <3>2, <3>3
  <2> HIDE DEF L, I
  <2> QED
    BY <2>1, TreePath
<1>8. p \in L
  BY <1>1, <1>3 DEF Later
<1>9. w \in ReachableFrom(u, L, I)
  BY <1>3, <1>7, <1>8, ReachesNext
<1>10. w \in ReachableFrom(d, L, I)
  BY <1>6, <1>9, ReachesTransitive
<1> QED
  BY <1>2, <1>4, <1>10 DEF IsSource

\* Every source found before w is a predecessor of w, or a source of a block
\* above a predecessor that was found after w: what the loop over the
\* predecessors looks at is enough.
LEMMA SourceComplete ==
  ASSUME NEW N, NEW E, E \subseteq N \X N, NEW root, NEW up, NEW num,
         SearchTree(N, E, root, up, num),
         NEW w \in N, NEW v \in N, IsSource(v, w, N, E, num), num[v] < num[w],
         <<v, w>> \notin E
  PROVE  \E x \in N : \E y \in Chain(x, N, up) :
           <<x, w>> \in E /\ num[w] < num[y] /\ IsSource(v, y, N, E, num)
<1> DEFINE L == Later(w, N, num)
           I == Inner(w, N, E, num)
           S == {x \in L : x # w /\ \E y \in Chain(x, N, up) :
                                       num[w] < num[y] /\ IsSource(v, y, N, E, num)}
<1> SUFFICES ASSUME ~\E x \in S : <<x, w>> \in E
             PROVE  FALSE
  BY LaterParts
<1>1. PICK d \in L : <<v, d>> \in E /\ w \in ReachableFrom(d, L, I)
  BY DEF IsSource
<1>2. /\ w \in L /\ L \subseteq N /\ I \subseteq L \X L /\ I \subseteq E
      /\ \A b \in N : num[b] \in Nat
      /\ \A x \in L : num[w] <= num[x]
      /\ \A x \in L : x # w => num[w] < num[x]
  <2>1. /\ w \in L /\ L \subseteq N /\ I \subseteq L \X L /\ I \subseteq E
    BY LaterParts
  <2>2. /\ \A b \in N : num[b] \in Nat
        /\ \A x \in N : num[x] = num[w] => x = w
    BY DEF SearchTree
  <2>3. \A x \in L : num[w] <= num[x]
    BY <2>2 DEF Later
  <2> HIDE DEF L, I
  <2> QED
    BY <2>1, <2>2, <2>3
<1>3. d \in S
  <2>1. d # w
    BY <1>1
  <2>2. d \in Chain(d, N, up) /\ num[w] < num[d] /\ IsSource(v, d, N, E, num)
    BY <1>1, <1>2, <2>1, ChainParts, SourceEdge
  <2> QED
    BY <2>1, <2>2
<1>4. ASSUME NEW e \in I, e[1] \in S
      PROVE  e[2] \in S
  <2> DEFINE x == e[1]
             z == e[2]
  <2>1. e = <<x, z>> /\ x \in L /\ z \in L /\ <<x, z>> \in E /\ x \in N /\ z \in N
    BY <1>2
  <2>2. PICK y \in Chain(x, N, up) : num[w] < num[y] /\ IsSource(v, y, N, E, num)
    BY <1>4
  <2>3. z # w
    BY <1>4, <2>1
  <2> HIDE DEF L, I
  <2>4. num[x] \in Nat /\ num[z] \in Nat /\ num[y] \in Nat /\ num[w] < num[z] /\ y \in N
    BY <1>2, <2>1, <2>2, <2>3, AboveBelow
  <2>5. CASE num[x] < num[z]
    <3>1. x \in Chain(z, N, up)
      BY <2>1, <2>5 DEF SearchTree
    <3>2. y \in Chain(z, N, up)
      BY <2>1, <2>2, <3>1, AboveTransitive
    <3> QED
      BY <2>1, <2>2, <2>3, <3>2
  <2>6. CASE num[y] <= num[z] /\ num[z] <= num[x]
    <3>1. y \in Chain(z, N, up)
      BY <2>1, <2>2, <2>4, <2>6 DEF SearchTree
    <3> QED
      BY <2>1, <2>2, <2>3, <3>1
  <2>7. CASE num[z] < num[y]
    <3>1. IsSource(v, z, N, E, num)
      BY <2>1, <2>2, <2>4, <2>7, SourceFrom
    <3>2. z \in Chain(z, N, up)
      BY <2>1, ChainParts
    <3> QED
      BY <2>1, <2>3, <2>4, <3>1, <3>2
  <2> QED
    BY <2>4, <2>5, <2>6, <2>7
<1>5. S \subseteq L /\ w \notin S
  OBVIOUS
<1> HIDE DEF S
<1>6. w \in S
  BY <1>1, <1>2, <1>3, <1>4, ReachesInside
<1> QED
  BY <1>5, <1>6

\* The path from a source does not touch what was found before w.
LEMMA SourcePath ==
  ASSUME NEW N, NEW E, E \subseteq N \X N, NEW root, NEW up, NEW num,
         SearchTree(N, E, root, up, num),
         NEW w \in N, NEW v \in N, IsSource(v, w, N, E, num),
         NEW a \in N, num[a] < num[w], a # v
  PROVE  w \in ReachableFrom(v, N, Without({a}, E))
<1> DEFINE L == Later(w, N, num)
           I == Inner(w, N, E, num)
           F == Without({a}, E)
<1>1. PICK d \in L : <<v, d>> \in E /\ w \in ReachableFrom(d, L, I)
  BY DEF IsSource
<1>2. /\ w \in L /\ L \subseteq N /\ I \subseteq L \X L /\ I \subseteq E
  BY LaterParts
<1>3. a \notin L
  BY DEF SearchTree, Later
<1>4. I \subseteq F
  <2>1. ASSUME NEW e \in I
        PROVE  e \in F
    <3>1. e \in E /\ e[1] \in L /\ e[2] \in L
      BY <1>2
    <3> QED
      BY <1>3, <3>1 DEF Without
  <2> QED
    BY <2>1
<1>5. w \in ReachableFrom(d, N, F)
  BY <1>1, <1>2, <1>4, ReachesWider
<1>6. <<v, d>> \in F
  BY <1>1, <1>3 DEF Without
<1> QED
  BY <1>1, <1>2, <1>5, <1>6, ReachesFirst

\* The dominators of a block are above it.
LEMMA DominatorAbove ==
  ASSUME NEW N, NEW E, NEW root, NEW up, NEW num, SearchTree(N, E, root, up, num),
         NEW w \in N, NEW a, Dominates(a, w, root, N, E)
  PROVE  a \in Chain(w, N, up)
<1> SUFFICES ASSUME a \notin Chain(w, N, up)
             PROVE  FALSE
  OBVIOUS
<1>1. w \in Chain(w, N, up) /\ root \in Chain(w, N, up) /\ Chain(w, N, up) \subseteq N
  BY ChainParts, RootAbove
<1>2. w \notin ReachableFrom(root, N, Without({a}, E))
  BY <1>1 DEF Dominates
<1>3. ASSUME NEW y \in Chain(w, N, up), y # root
      PROVE  <<up[y], y>> \in Without({a}, E)
  <2>1. y \in N /\ up[y] \in N /\ <<up[y], y>> \in E
    BY <1>1, <1>3 DEF SearchTree
  <2>2. up[y] \in Chain(w, N, up)
    BY <2>1, ChainParts
  <2> QED
    BY <1>3, <2>1, <2>2 DEF Without
<1>4. w \in ReachableFrom(root, N, Without({a}, E))
  BY <1>1, <1>3, TreePath
<1> QED
  BY <1>2, <1>4

\* They dominate the sources of the block that were found before it,
LEMMA DominatorOfSource ==
  ASSUME NEW N, NEW E, E \subseteq N \X N, NEW root, NEW up, NEW num,
         SearchTree(N, E, root, up, num),
         NEW w \in N, NEW v \in N, IsSource(v, w, N, E, num),
         NEW a, a # w, Dominates(a, w, root, N, E)
  PROVE  Dominates(a, v, root, N, E)
<1>1. a \in Chain(w, N, up)
  BY DominatorAbove
<1>2. a \in N /\ num[a] < num[w]
  BY <1>1, AboveBelow
<1> SUFFICES ASSUME a # v, a # root, v \in ReachableFrom(root, N, Without({a}, E))
             PROVE  FALSE
  BY DEF Dominates
<1>3. w \in ReachableFrom(v, N, Without({a}, E))
  BY <1>2, SourcePath
<1>4. w \in ReachableFrom(root, N, Without({a}, E))
  BY <1>3, ReachesTransitive
<1> QED
  BY <1>4 DEF Dominates

\* and the blocks above it that were found after the dominator.
LEMMA DominatorOfBetween ==
  ASSUME NEW N, NEW E, E \subseteq N \X N, NEW root, NEW up, NEW num,
         SearchTree(N, E, root, up, num),
         NEW w \in N, NEW u \in Chain(w, N, up),
         NEW a \in N, num[a] < num[u], Dominates(a, w, root, N, E)
  PROVE  Dominates(a, u, root, N, E)
<1>1. u \in N /\ num[u] <= num[w] /\ \A b \in N : num[b] \in Nat
  <2>1. u \in N /\ num[u] <= num[w]
    BY AboveBelow
  <2> QED
    BY <2>1 DEF SearchTree
<1> SUFFICES ASSUME a # u, a # root, u \in ReachableFrom(root, N, Without({a}, E))
             PROVE  FALSE
  BY DEF Dominates
<1>2. ASSUME NEW y \in Chain(w, N, up), u \in Chain(y, N, up)
      PROVE  y \in N /\ (y # u => <<up[y], y>> \in Without({a}, E))
  <2>1. y \in N /\ num[u] <= num[y]
    BY <1>2, AboveBelow
  <2>2. ASSUME y # u
        PROVE  <<up[y], y>> \in Without({a}, E)
    <3>1. y # root
      <4>1. Chain(root, N, up) = {root}
        BY <2>1, ChainSteps DEF SearchTree
      <4> QED
        BY <1>2, <2>2, <4>1
    <3>2. up[y] \in N /\ u \in Chain(up[y], N, up) /\ <<up[y], y>> \in E
      BY <1>2, <2>1, <2>2, <3>1, AboveParent DEF SearchTree
    <3>3. num[u] <= num[up[y]]
      BY <3>2, AboveBelow
    <3>4. a # y /\ a # up[y]
      BY <1>1, <2>1, <3>2, <3>3
    <3> QED
      BY <3>2, <3>4 DEF Without
  <2> QED
    BY <2>1, <2>2
<1>3. w \in ReachableFrom(u, N, Without({a}, E))
  BY <1>2, TreePath
<1>4. w \in ReachableFrom(root, N, Without({a}, E))
  BY <1>3, ReachesTransitive
<1>5. a # w
  BY <1>1
<1> QED
  BY <1>4, <1>5 DEF Dominates

-----------------------------------------------------------------------------
(* The two Derive functions keep TInv.                                       *)

LEMMA PhaseParts ==
  ASSUME IInv, TInv, pc \notin {"dfs", "aborted"}
  PROVE  /\ graph \in Graphs /\ TypeOK /\ Numbered /\ Counters /\ Uniting
         /\ SemiState /\ BucketState /\ DominatorState
         /\ Bound \in Nat /\ Bound > 0 /\ i \in Nat /\ BBCount \in Nat
         /\ SearchTree(BBs, graph.edges, graph.first, parent, Num)
         /\ graph.edges \subseteq BBs \X BBs /\ NoBB \notin BBs /\ graph.first \in BBs
         /\ \A b \in BBs : Num[b] \in Nat /\ semi[b] \in Nat
         /\ \A b \in BBs : link[b] # NoBB <=> Bound <= Num[b]
<1>1. /\ graph \in Graphs /\ TypeOK /\ Numbered /\ Counters
      /\ SemiState /\ BucketState /\ DominatorState
      /\ Compressing(BBs, parent, Num, NoBB, Bound, link, label, semi)
  BY DEF IInv, TInv
<1>2. /\ graph.edges \subseteq BBs \X BBs /\ NoBB \notin BBs /\ graph.first \in BBs
      /\ BBCount \in Nat
  BY <1>1, GraphParts
<1>3. i \in Nat /\ \A b \in BBs : semi[b] \in Nat
  BY <1>1, <1>2 DEF TypeOK
<1>4. Bound \in Nat /\ Bound > 0
  BY <1>3 DEF Bound
<1>5. SearchTree(BBs, graph.edges, graph.first, parent, Num)
  BY <1>1 DEF Numbered
<1>6. \A b \in BBs : Num[b] \in Nat
  BY <1>5 DEF SearchTree
<1>7. Uniting
  BY <1>1, <1>3, <1>5 DEF Uniting, Unites
<1>8. \A b \in BBs : link[b] # NoBB <=> Bound <= Num[b]
  BY <1>1 DEF Compressing
<1> QED
  BY <1>1, <1>2, <1>3, <1>4, <1>5, <1>6, <1>7, <1>8

\* The labels do not depend on semidominators that are still to change.
LEMMA RankChanges ==
  ASSUME NEW N, NEW E, NEW root, NEW up, NEW num, NEW none, NEW k \in Nat, NEW jump, NEW least,
         NEW rank, Unites(N, E, root, up, num, none, k, jump, least, rank), NEW rank2,
         \A v \in N : rank2[v] \in Nat /\ (k <= num[v] => rank2[v] = rank[v])
  PROVE  Unites(N, E, root, up, num, none, k, jump, least, rank2)
<1>1. ASSUME NEW v \in N, jump[v] # none
      PROVE  \A u \in Segment(v, N, up, num, jump) :
               k <= num[u] /\ rank2[least[v]] <= rank2[u]
  <2>1. Segment(v, N, up, num, jump) \subseteq N
    BY ChainParts DEF Segment
  <2> QED
    BY <1>1, <2>1 DEF Unites, Compressing
<1> QED
  BY <1>1 DEF Unites, Compressing

\* What is known of the current block.
LEMMA CurrentParts ==
  ASSUME IInv, TInv, pc \in {"semi", "bucket", "idom"}
  PROVE  /\ Current \in BBs /\ Num[Current] = i /\ i \in 0..BBCount - 1
         /\ \A b \in BBs : Num[b] = i <=> b = Current
<1>1. Numbered /\ Counters /\ i \in Nat /\ BBCount \in Nat
  BY PhaseParts
<1>2. i \in 0..BBCount - 1
  BY <1>1 DEF Counters
<1>3. Current \in BBs /\ Num[Current] = i
  BY <1>1, <1>2 DEF Numbered, Current
<1>4. \A b \in BBs : Num[b] = i => b = Current
  BY <1>1 DEF Numbered, Current
<1> QED
  BY <1>2, <1>3, <1>4

\* What the loop over the predecessors learns from one of them.
LEMMA PredParts ==
  ASSUME IInv, TInv, pc = "semi", NEW p \in todo
  PROVE  /\ p \in BBs /\ <<p, Current>> \in graph.edges /\ Find(p) \in BBs
         /\ Num[p] < i => semi[Find(p)] = Num[p]
         /\ \A u \in Above(p) : i < Num[u] => semi[Find(p)] <= semi[u]
         /\ \/ semi[Find(p)] = semi[Current]
            \/ \E v \in SemiSources(Current) : semi[Find(p)] = Num[v]
<1>1. /\ graph \in Graphs /\ TypeOK /\ Uniting /\ SemiState /\ BucketState
      /\ Bound \in Nat /\ i \in Nat
      /\ SearchTree(BBs, graph.edges, graph.first, parent, Num)
      /\ graph.edges \subseteq BBs \X BBs
      /\ \A b \in BBs : Num[b] \in Nat /\ semi[b] \in Nat
      /\ \A b \in BBs : link[b] # NoBB <=> Bound <= Num[b]
  BY PhaseParts
<1>2. /\ Current \in BBs /\ Num[Current] = i
      /\ \A b \in BBs : Num[b] = i <=> b = Current
  BY CurrentParts
<1>3. Bound = i + 1
  BY DEF Bound
<1>4. p \in BBs /\ <<p, Current>> \in graph.edges
  BY <1>1 DEF BucketState, Preds
<1>5. /\ link[p] = NoBB => Find(p) = p
      /\ link[p] # NoBB =>
           /\ Find(p) \in Above(p) /\ Bound <= Num[Find(p)]
           /\ \A y \in Above(p) : Bound <= Num[y] => semi[Find(p)] <= semi[y]
      /\ Find(p) \in BBs
  BY <1>1, <1>4, FindParts
<1>6. CASE link[p] = NoBB
  <2>1. Find(p) = p /\ Num[p] <= i
    BY <1>1, <1>3, <1>4, <1>5, <1>6
  <2>2. Num[p] < i => semi[p] = Num[p]
    BY <1>1, <1>4 DEF SemiState
  <2>3. ASSUME NEW u \in Above(p)
        PROVE  ~(i < Num[u])
    <3>1. u \in BBs /\ Num[u] <= Num[p]
      BY <1>1, <1>4, AboveBelow DEF Above
    <3> QED
      BY <1>1, <1>4, <2>1, <3>1
  <2>4. p = Current \/ Num[p] < i
    BY <1>1, <1>2, <1>4, <2>1
  <2>5. p \in SemiSources(Current)
    <3>1. IsSource(p, Current, BBs, graph.edges, Num)
      BY <1>1, <1>2, <1>4, SourceEdge
    <3> QED
      BY <1>1, <1>2, <1>4, <3>1, SemiSourcesAre
  <2> QED
    BY <1>4, <2>1, <2>2, <2>3, <2>4, <2>5
<1>7. CASE link[p] # NoBB
  <2> DEFINE u == Find(p)
  <2>1. /\ u \in Above(p) /\ Bound <= Num[u] /\ u \in BBs
        /\ \A y \in Above(p) : Bound <= Num[y] => semi[u] <= semi[y]
    BY <1>5, <1>7
  <2>2. ~(Num[p] < i)
    BY <1>1, <1>3, <1>4, <1>7
  <2>3. \A y \in Above(p) : i < Num[y] => semi[u] <= semi[y]
    <3>1. \A y \in Above(p) : y \in BBs
      BY <1>4, ChainParts DEF Above
    <3> QED
      BY <1>1, <1>3, <2>1, <3>1
  <2> HIDE DEF u
  <2>4. semi[u] < Num[u]
    BY <1>1, <2>1 DEF SemiState
  <2>5. PICK v \in SemiSources(u) : semi[u] = Num[v]
    BY <1>1, <2>1, <2>4 DEF SemiState
  <2>6. v \in BBs /\ IsSource(v, u, BBs, graph.edges, Num)
    BY <1>1, <2>1, SemiSourcesAre
  <2>7. Num[Current] <= Num[u]
    BY <1>1, <1>2, <1>3, <2>1
  <2>8. IsSource(v, Current, BBs, graph.edges, Num)
    BY <1>1, <1>2, <1>4, <2>1, <2>6, <2>7, SourceFrom DEF Above
  <2>9. v \in SemiSources(Current)
    BY <1>1, <1>2, <2>6, <2>8, SemiSourcesAre
  <2> QED
    BY <1>4, <2>1, <2>2, <2>3, <2>5, <2>9 DEF u
<1> QED
  BY <1>6, <1>7

LEMMA SemiOfPredTree ==
  ASSUME IInv, TInv, NEW p \in BBs, SemiOfPred(p)
  PROVE  TInv'
<1> DEFINE c == Current
<1>1. /\ pc = "semi" /\ p \in todo /\ todo' = todo \ {p} /\ Compress(p)
      /\ semi' = [semi EXCEPT ![c] = Min({semi[c], semi[Find(p)]})]
      /\ UNCHANGED <<graph, pc, stack, order, parent, semiDomSet, idom, i, dominator, dominated>>
  BY DEF SemiOfPred
<1>2. /\ graph \in Graphs /\ TypeOK /\ Numbered /\ Counters /\ Uniting
      /\ SemiState /\ BucketState /\ DominatorState
      /\ Bound \in Nat /\ i \in Nat /\ BBCount \in Nat
      /\ \A b \in BBs : Num[b] \in Nat /\ semi[b] \in Nat
  BY <1>1, PhaseParts
<1>3. /\ c \in BBs /\ Num[c] = i /\ i \in 0..BBCount - 1
      /\ \A b \in BBs : Num[b] = i <=> b = c
  BY <1>1, CurrentParts
<1>4. /\ <<p, c>> \in graph.edges /\ Find(p) \in BBs
      /\ Num[p] < i => semi[Find(p)] = Num[p]
      /\ \A u \in Above(p) : i < Num[u] => semi[Find(p)] <= semi[u]
      /\ \/ semi[Find(p)] = semi[c]
         \/ \E v \in SemiSources(c) : semi[Find(p)] = Num[v]
  BY <1>1, PredParts
<1>5. /\ BBs' = BBs /\ BBCount' = BBCount /\ Num' = Num
      /\ \A b : Above(b)' = Above(b) /\ Preds(b)' = Preds(b) /\ Ordered(b)' = Ordered(b)
      /\ \A w : SemiSources(w)' = SemiSources(w)
  BY <1>1, SameSearch
<1>6. c' = c /\ Bound' = Bound /\ Bound = i + 1
  BY <1>1 DEF Current, Ordered, Bound
<1>7. /\ semi' \in [BBs -> 0..BBCount]
      /\ semi'[c] <= semi[c] /\ semi'[c] <= semi[Find(p)]
      /\ semi'[c] = semi[c] \/ semi'[c] = semi[Find(p)]
      /\ \A b \in BBs : b # c => semi'[b] = semi[b]
  <2> DEFINE m == Min({semi[c], semi[Find(p)]})
  <2>1. m = semi[c] \/ m = semi[Find(p)]
    <3>1. CASE semi[c] <= semi[Find(p)]
      BY <1>2, <1>3, <1>4, <3>1, MinIs
    <3>2. CASE semi[Find(p)] <= semi[c]
      BY <1>2, <1>3, <1>4, <3>2, MinIs
    <3> QED
      BY <1>2, <1>3, <1>4, <3>1, <3>2
  <2>2. m <= semi[c] /\ m <= semi[Find(p)]
    <3>1. CASE semi[c] <= semi[Find(p)]
      BY <1>2, <1>3, <1>4, <3>1, MinIs
    <3>2. CASE semi[Find(p)] <= semi[c]
      BY <1>2, <1>3, <1>4, <3>2, MinIs
    <3> QED
      BY <1>2, <1>3, <1>4, <3>1, <3>2
  <2>3. semi \in [BBs -> 0..BBCount]
    BY <1>2 DEF TypeOK
  <2>4. m \in 0..BBCount
    BY <1>3, <1>4, <2>1, <2>3
  <2> HIDE DEF m, c
  <2>5. semi' = [semi EXCEPT ![c] = m]
    BY <1>1 DEF m
  <2> QED
    BY <1>3, <2>1, <2>2, <2>3, <2>4, <2>5
<1> HIDE DEF c
<1>8. \A b \in BBs : semi'[b] \in Nat
  BY <1>2, <1>7
<1>9. /\ Unites(BBs, graph.edges, graph.first, parent, Num, NoBB, Bound, link', label', semi)
      /\ link' \in [BBs -> BBs \cup {NoBB}] /\ label' \in [BBs -> BBs \cup {NoBB}]
  BY <1>1, <1>2, CompressUnites
<1>10. Unites(BBs, graph.edges, graph.first, parent, Num, NoBB, Bound, link', label', semi')
  <2>1. \A b \in BBs : semi'[b] \in Nat /\ (Bound <= Num[b] => semi'[b] = semi[b])
    BY <1>2, <1>3, <1>6, <1>7, <1>8
  <2> QED
    BY <1>2, <1>9, <2>1, RankChanges
<1>11. Compressing(BBs, parent, Num, NoBB, Bound, link, label, semi)'
  BY <1>1, <1>5, <1>6, <1>10 DEF Unites
<1>12. TypeOK'
  BY <1>1, <1>2, <1>5, <1>7, <1>9 DEF TypeOK
<1>13. SemiState'
  <2>1. ASSUME NEW w \in BBs
        PROVE  semi'[w] <= Num[w]
    BY <1>2, <1>3, <1>7, <1>8 DEF SemiState
  <2>2. ASSUME NEW w \in BBs, Num[w] < i
        PROVE  semi'[w] = Num[w]
    <3>1. w # c
      BY <1>2, <1>3, <2>2
    <3> QED
      BY <1>1, <1>2, <1>7, <2>2, <3>1 DEF SemiState
  <2>3. ASSUME NEW w \in BBs
        PROVE  semi'[w] = Num[w] \/ \E v \in SemiSources(w) : semi'[w] = Num[v]
    <3>1. semi[w] = Num[w] \/ \E v \in SemiSources(w) : semi[w] = Num[v]
      BY <1>2 DEF SemiState
    <3>2. CASE semi'[w] = semi[w]
      BY <3>1, <3>2
    <3>3. CASE semi'[w] # semi[w]
      <4>1. w = c /\ semi'[w] = semi[Find(p)] /\ semi[Find(p)] # semi[c]
        BY <1>7, <3>3
      <4> QED
        BY <1>4, <4>1
    <3> QED
      BY <3>2, <3>3
  <2>4. ASSUME NEW w \in BBs, Bound <= Num[w]
        PROVE  semi'[w] < Num[w] /\ \A v \in SemiSources(w) : semi'[w] <= Num[v]
    <3>1. w # c
      BY <1>2, <1>3, <1>6, <2>4
    <3> QED
      BY <1>2, <1>7, <2>4, <3>1 DEF SemiState
  <2>5. ASSUME NEW q \in Preds(c) \ todo'
        PROVE  /\ Num[q] < i => semi'[c] <= Num[q]
               /\ \A u \in Above(q) : i < Num[u] => semi'[c] <= semi'[u]
    <3>1. q \in BBs /\ \A u \in Above(q) : u \in BBs
      BY ChainParts DEF Preds, Above
    <3>2. \A u \in BBs : i < Num[u] => u # c /\ semi'[u] = semi[u]
      BY <1>2, <1>3, <1>7
    <3>3. CASE q = p
      <4>1. \A u \in Above(p) : i < Num[u] => semi[Find(p)] <= semi[u]
        BY <1>4
      <4>2. ASSUME Num[q] < i
            PROVE  semi'[c] <= Num[q]
        BY <1>4, <1>7, <3>3, <4>2
      <4>3. ASSUME NEW u \in Above(q), i < Num[u]
            PROVE  semi'[c] <= semi'[u]
        <5>1. semi[Find(p)] <= semi[u] /\ semi'[u] = semi[u]
          BY <3>1, <3>2, <3>3, <4>1, <4>3
        <5> QED
          BY <1>2, <1>3, <1>4, <1>7, <1>8, <3>1, <5>1
      <4> QED
        BY <4>2, <4>3
    <3>4. CASE q # p
      <4>1. q \in Preds(Current) \ todo
        BY <1>1, <2>5, <3>4 DEF c
      <4>2. /\ Num[q] < i => semi[c] <= Num[q]
            /\ \A u \in Above(q) : i < Num[u] => semi[c] <= semi[u]
        BY <1>1, <1>2, <4>1 DEF SemiState, c
      <4>3. \A u \in Above(q) : i < Num[u] => semi'[c] <= semi'[u]
        <5>1. \A u \in Above(q) : i < Num[u] => semi'[u] = semi[u]
          BY <3>1, <3>2
        <5>2. \A u \in Above(q) : semi[u] \in Nat
          BY <1>2, <3>1
        <5> QED
          BY <1>2, <1>3, <1>7, <1>8, <4>2, <5>1, <5>2
      <4>4. Num[q] < i => semi'[c] <= Num[q]
        BY <1>2, <1>3, <1>7, <1>8, <3>1, <4>2
      <4> QED
        BY <4>3, <4>4
    <3> QED
      BY <3>3, <3>4
  <2>6. \A q \in Preds(Current)' : q \in Preds(c)
    BY <1>5, <1>6 DEF c
  <2>7. Current' = c
    BY <1>6 DEF c
  <2> QED
    BY <1>1, <1>5, <1>6, <2>1, <2>2, <2>3, <2>4, <2>5, <2>6, <2>7 DEF SemiState
<1>14. BucketState'
  <2>1. \A w \in BBs : Bound <= Num[w] => w # c /\ semi'[w] = semi[w]
    BY <1>2, <1>3, <1>6, <1>7
  <2>2. ASSUME NEW b \in BBs, NEW w \in BBs, w \in semiDomSet[b]
        PROVE  Bound <= Num[w] /\ Num[b] = semi'[w]
    <3>1. Bound <= Num[w] /\ Num[b] = semi[w]
      BY <1>2, <2>2 DEF BucketState
    <3> QED
      BY <2>1, <3>1
  <2>3. ASSUME NEW w \in BBs, Bound <= Num[w]
        PROVE  w \in semiDomSet[Ordered(semi'[w])]
    <3>1. semi'[w] = semi[w]
      BY <2>1, <2>3
    <3> QED
      BY <1>2, <2>3, <3>1 DEF BucketState
  <2>4. todo' \subseteq Preds(Current)'
    <3>1. Preds(Current)' = Preds(Current)
      BY <1>1, <1>5, <1>6 DEF c, Preds
    <3> QED
      BY <1>1, <1>2, <3>1 DEF BucketState
  <2>5. ASSUME NEW w \in BBs, Handled(w)'
        PROVE  idom[w] \in Above(w) /\ idom[w] # w /\ semi'[w] <= Num[idom[w]]
    <3>1. Bound <= Num[w] /\ i < semi'[w]
      BY <1>1, <1>5, <1>6, <2>5 DEF Handled
    <3>2. semi'[w] = semi[w]
      BY <2>1, <3>1
    <3>3. Handled(w)
      BY <1>1, <3>1, <3>2 DEF Handled
    <3> QED
      BY <1>2, <3>2, <3>3 DEF BucketState
  <2>6. \A w \in BBs : Ordered(semi[w])' = Ordered(semi'[w])
    BY <1>1 DEF Ordered
  <2> QED
    BY <1>1, <1>5, <1>6, <2>2, <2>3, <2>4, <2>5, <2>6 DEF BucketState
<1>15. DominatorState'
  <2>1. \A w : ~Settled(w) /\ ~Settled(w)'
    BY <1>1 DEF Settled
  <2> QED
    BY <1>1, <1>2, <1>5, <2>1 DEF DominatorState
<1>16. Numbered' /\ Counters'
  BY <1>1, <1>2, <1>5 DEF Numbered, Counters
<1> QED
  BY <1>1, <1>11, <1>12, <1>13, <1>14, <1>15, <1>16 DEF TInv

\* A block whose predecessors have all been seen is finished.
LEMMA CurrentFinished ==
  ASSUME IInv, TInv, pc = "semi", todo = {}, i > 0
  PROVE  /\ Current # graph.first /\ semi[Current] < i
         /\ \A v \in SemiSources(Current) : semi[Current] <= Num[v]
<1>1. /\ graph \in Graphs /\ Numbered /\ SemiState /\ i \in Nat
      /\ SearchTree(BBs, graph.edges, graph.first, parent, Num)
      /\ graph.edges \subseteq BBs \X BBs
      /\ \A b \in BBs : Num[b] \in Nat /\ semi[b] \in Nat
  BY PhaseParts
<1>2. Current \in BBs /\ Num[Current] = i
  BY CurrentParts
<1>3. Bound = i + 1
  BY DEF Bound
<1>4. \A p \in BBs : <<p, Current>> \in graph.edges =>
        /\ Num[p] < i => semi[Current] <= Num[p]
        /\ \A u \in Above(p) : i < Num[u] => semi[Current] <= semi[u]
  BY <1>1 DEF SemiState, Preds
<1>5. Current # graph.first
  BY <1>1, <1>2 DEF Numbered
<1>6. semi[Current] < i
  <2>1. /\ parent[Current] \in BBs /\ Num[parent[Current]] < Num[Current]
        /\ <<parent[Current], Current>> \in graph.edges
    BY <1>1, <1>2, <1>5 DEF SearchTree
  <2>2. semi[Current] <= Num[parent[Current]]
    BY <1>2, <1>4, <2>1
  <2> QED
    BY <1>1, <1>2, <2>1, <2>2
<1>7. ASSUME NEW v \in SemiSources(Current)
      PROVE  semi[Current] <= Num[v]
  <2>1. v \in BBs /\ IsSource(v, Current, BBs, graph.edges, Num)
    BY <1>1, <1>2, SemiSourcesAre
  <2>2. CASE i <= Num[v]
    BY <1>1, <1>2, <1>6, <2>1, <2>2
  <2>3. CASE Num[v] < i /\ <<v, Current>> \in graph.edges
    BY <1>4, <2>1, <2>3
  <2>4. CASE Num[v] < i /\ <<v, Current>> \notin graph.edges
    <3>1. PICK x \in BBs : \E y \in Chain(x, BBs, parent) :
            /\ <<x, Current>> \in graph.edges /\ Num[Current] < Num[y]
            /\ IsSource(v, y, BBs, graph.edges, Num)
      BY <1>1, <1>2, <2>1, <2>4, SourceComplete
    <3>2. PICK y \in Chain(x, BBs, parent) :
            /\ <<x, Current>> \in graph.edges /\ Num[Current] < Num[y]
            /\ IsSource(v, y, BBs, graph.edges, Num)
      BY <3>1
    <3>3. y \in BBs
      BY ChainParts
    <3>4. semi[Current] <= semi[y]
      BY <1>2, <1>4, <3>2 DEF Above
    <3>5. Bound <= Num[y]
      BY <1>1, <1>2, <1>3, <3>2, <3>3
    <3>6. v \in SemiSources(y)
      BY <1>1, <2>1, <3>2, <3>3, SemiSourcesAre
    <3>7. semi[y] <= Num[v]
      BY <1>1, <3>3, <3>5, <3>6 DEF SemiState
    <3> QED
      BY <1>1, <1>2, <2>1, <3>3, <3>4, <3>7
  <2> QED
    BY <1>1, <2>1, <2>2, <2>3, <2>4
<1> QED
  BY <1>5, <1>6, <1>7

\* One more block is united with its parent.
LEMMA LinkUnites ==
  ASSUME NEW N, NEW E, NEW root, NEW up, NEW num, NEW none, NEW k \in Nat, NEW jump, NEW least,
         NEW rank, Unites(N, E, root, up, num, none, k + 1, jump, least, rank),
         NEW c \in N, c # root, num[c] = k, NEW jump2,
         \A v \in N : jump2[v] = IF v = c THEN up[c] ELSE jump[v]
  PROVE  Unites(N, E, root, up, num, none, k, jump2, least, rank)
<1>1. /\ SearchTree(N, E, root, up, num)
      /\ Compressing(N, up, num, none, k + 1, jump, least, rank)
      /\ \A v \in N : rank[v] \in Nat
      /\ \A v \in N : num[v] \in Nat
      /\ \A v \in N : num[v] = k => v = c
  BY DEF Unites, SearchTree
<1>2. /\ up[c] \in N /\ up[c] \in Chain(c, N, up) /\ num[up[c]] < num[c]
      /\ \A u \in Chain(c, N, up) : u # c => u \in Chain(up[c], N, up)
  BY <1>1, AboveParent DEF SearchTree
<1>3. jump[c] = none /\ least[c] = c /\ none \notin N
  BY <1>1 DEF Compressing
<1>4. ASSUME NEW v \in N
      PROVE  /\ jump2[v] \in N \cup {none} /\ least[v] \in N
             /\ jump2[v] # none <=> k <= num[v]
             /\ jump2[v] = none => least[v] = v
  <2>1. CASE v = c
    BY <1>1, <1>2, <1>3, <2>1 DEF Compressing
  <2>2. CASE v # c
    <3>1. k + 1 <= num[v] <=> k <= num[v]
      BY <1>1, <2>2
    <3> QED
      BY <1>1, <2>2, <3>1 DEF Compressing
  <2> QED
    BY <2>1, <2>2
<1>5. Segment(c, N, up, num, jump2) = {c}
  <2>1. ASSUME NEW u \in Segment(c, N, up, num, jump2)
        PROVE  u = c
    <3>1. u \in Chain(c, N, up) /\ num[up[c]] < num[u]
      BY <2>1 DEF Segment
    <3> SUFFICES ASSUME u # c
                 PROVE  FALSE
      OBVIOUS
    <3>2. u \in Chain(up[c], N, up)
      BY <1>2, <3>1
    <3>3. u \in N /\ num[u] <= num[up[c]]
      BY <1>1, <1>2, <3>2, AboveBelow
    <3> QED
      BY <1>1, <1>2, <3>1, <3>3
  <2>2. c \in Segment(c, N, up, num, jump2)
    BY <1>2, ChainParts DEF Segment
  <2> QED
    BY <2>1, <2>2
<1>6. ASSUME NEW v \in N, jump2[v] # none
      PROVE  /\ jump2[v] \in Chain(v, N, up) /\ num[jump2[v]] < num[v]
             /\ least[v] \in Segment(v, N, up, num, jump2)
             /\ \A u \in Segment(v, N, up, num, jump2) :
                  k <= num[u] /\ rank[least[v]] <= rank[u]
  <2>1. CASE v = c
    BY <1>1, <1>2, <1>3, <1>5, <2>1
  <2>2. CASE v # c
    <3>1. jump2[v] = jump[v] /\ jump[v] # none
      BY <1>6, <2>2
    <3>2. Segment(v, N, up, num, jump2) = Segment(v, N, up, num, jump)
      BY <3>1 DEF Segment
    <3>3. Segment(v, N, up, num, jump) \subseteq N
      BY ChainParts DEF Segment
    <3>4. /\ jump[v] \in Chain(v, N, up) /\ num[jump[v]] < num[v]
          /\ least[v] \in Segment(v, N, up, num, jump)
          /\ \A u \in Segment(v, N, up, num, jump) :
               k + 1 <= num[u] /\ rank[least[v]] <= rank[u]
      BY <1>1, <3>1 DEF Compressing
    <3>5. \A u \in Segment(v, N, up, num, jump) : k <= num[u]
      BY <1>1, <3>3, <3>4
    <3> QED
      BY <3>1, <3>2, <3>4, <3>5
  <2> QED
    BY <2>1, <2>2
<1> QED
  BY <1>1, <1>3, <1>4, <1>6 DEF Unites, Compressing

LEMMA RegisterAndUniteTree ==
  ASSUME IInv, TInv, RegisterAndUnite
  PROVE  TInv'
<1> DEFINE c == Current
<1>1. /\ pc = "semi" /\ todo = {} /\ pc' = "bucket" /\ todo' = semiDomSet'[c]
      /\ UNCHANGED <<graph, stack, order, parent, semi, label, idom, i, dominator, dominated>>
      /\ i > 0 =>
           /\ semiDomSet' = [semiDomSet EXCEPT ![Ordered(semi[c])] = @ \cup {c}]
           /\ link' = [link EXCEPT ![c] = parent[c]]
      /\ ~(i > 0) => UNCHANGED <<semiDomSet, link>>
  BY DEF RegisterAndUnite
<1>2. /\ graph \in Graphs /\ TypeOK /\ Numbered /\ Counters /\ Uniting
      /\ SemiState /\ BucketState /\ DominatorState
      /\ Bound \in Nat /\ i \in Nat /\ BBCount \in Nat
      /\ SearchTree(BBs, graph.edges, graph.first, parent, Num)
      /\ \A b \in BBs : Num[b] \in Nat /\ semi[b] \in Nat
  BY <1>1, PhaseParts
<1>3. /\ c \in BBs /\ Num[c] = i /\ i \in 0..BBCount - 1
      /\ \A b \in BBs : Num[b] = i <=> b = c
  BY <1>1, CurrentParts
<1>4. i > 0 => /\ c # graph.first /\ semi[c] < i
               /\ \A v \in SemiSources(c) : semi[c] <= Num[v]
  BY <1>1, CurrentFinished
<1>5. /\ BBs' = BBs /\ BBCount' = BBCount /\ Num' = Num
      /\ \A b : Above(b)' = Above(b) /\ Preds(b)' = Preds(b) /\ Ordered(b)' = Ordered(b)
      /\ \A w : SemiSources(w)' = SemiSources(w)
  BY <1>1, SameSearch
<1>6. c' = c /\ Bound = i + 1
  BY <1>1 DEF Current, Ordered, Bound
<1>7. /\ i > 0 => Bound' = i
      /\ ~(i > 0) => i = 0 /\ Bound' = 1
  BY <1>1, <1>2 DEF Bound
<1> HIDE DEF c
<1>8. /\ Ordered(semi[c]) \in BBs
      /\ semi[c] \in 0..BBCount - 1 /\ Num[Ordered(semi[c])] = semi[c]
  <2>1. semi[c] <= Num[c]
    BY <1>2, <1>3 DEF SemiState
  <2>2. semi[c] \in 0..BBCount - 1
    BY <1>2, <1>3, <2>1
  <2> QED
    BY <1>2, <2>2 DEF Numbered
<1>9. /\ \A b \in BBs : semiDomSet[b] \subseteq semiDomSet'[b] /\ semiDomSet'[b] \subseteq BBs
      /\ \A b, w \in BBs : w \in semiDomSet'[b] =>
           \/ w \in semiDomSet[b]
           \/ i > 0 /\ w = c /\ b = Ordered(semi[c])
      /\ i > 0 => c \in semiDomSet'[Ordered(semi[c])]
      /\ semiDomSet' \in [BBs -> SUBSET BBs]
  <2>1. semiDomSet \in [BBs -> SUBSET BBs]
    BY <1>2 DEF TypeOK
  <2> QED
    BY <1>1, <1>3, <1>8, <2>1 DEF c
<1>10. /\ link' \in [BBs -> BBs \cup {NoBB}]
       /\ Unites(BBs, graph.edges, graph.first, parent, Num, NoBB, Bound', link', label, semi)
  <2>1. CASE i > 0
    <3>1. link \in [BBs -> BBs \cup {NoBB}] /\ parent \in [BBs -> BBs \cup {NoBB}]
      BY <1>2 DEF TypeOK
    <3>2. link' = [link EXCEPT ![c] = parent[c]]
      BY <1>1, <2>1 DEF c
    <3>3. \A v \in BBs : link'[v] = IF v = c THEN parent[c] ELSE link[v]
      BY <3>1, <3>2
    <3>4. Unites(BBs, graph.edges, graph.first, parent, Num, NoBB, i + 1, link, label, semi)
      BY <1>2, <1>6 DEF Uniting
    <3>5. Unites(BBs, graph.edges, graph.first, parent, Num, NoBB, i, link', label, semi)
      BY <1>2, <1>3, <1>4, <2>1, <3>3, <3>4, LinkUnites
    <3> QED
      BY <1>3, <1>7, <2>1, <3>1, <3>2, <3>5
  <2>2. CASE ~(i > 0)
    <3>1. link' = link /\ Bound' = Bound
      BY <1>1, <1>6, <1>7, <2>2
    <3> QED
      BY <1>2, <3>1 DEF Uniting, TypeOK
  <2> QED
    BY <2>1, <2>2
<1>11. Compressing(BBs, parent, Num, NoBB, Bound, link, label, semi)'
  BY <1>1, <1>5, <1>10 DEF Unites
<1>12. TypeOK'
  <2>1. todo' \subseteq BBs
    BY <1>1, <1>3, <1>9 DEF c
  <2> QED
    BY <1>1, <1>2, <1>5, <1>9, <1>10, <2>1 DEF TypeOK
<1>13. \A w \in BBs : Bound' <= Num[w] => Bound <= Num[w] \/ (i > 0 /\ w = c)
  BY <1>2, <1>3, <1>6, <1>7
<1>14. SemiState'
  <2>1. ASSUME NEW w \in BBs, Bound' <= Num[w]
        PROVE  semi[w] < Num[w] /\ \A v \in SemiSources(w) : semi[w] <= Num[v]
    <3>1. CASE Bound <= Num[w]
      BY <1>2, <2>1, <3>1 DEF SemiState
    <3>2. CASE i > 0 /\ w = c
      BY <1>3, <1>4, <3>2
    <3> QED
      BY <1>13, <2>1, <3>1, <3>2
  <2>2. /\ \A w \in BBs : semi[w] <= Num[w]
        /\ \A w \in BBs : Num[w] < i => semi[w] = Num[w]
        /\ \A w \in BBs : semi[w] = Num[w] \/ \E v \in SemiSources(w) : semi[w] = Num[v]
    BY <1>1, <1>2 DEF SemiState
  <2> QED
    BY <1>1, <1>5, <2>1, <2>2 DEF SemiState
<1>15. BucketState'
  <2>1. ASSUME NEW b \in BBs, NEW w \in BBs, w \in semiDomSet'[b]
        PROVE  Bound' <= Num[w] /\ Num[b] = semi[w]
    <3>1. CASE w \in semiDomSet[b]
      <4>1. Bound <= Num[w] /\ Num[b] = semi[w]
        BY <1>2, <3>1 DEF BucketState
      <4> QED
        BY <1>2, <1>6, <1>7, <4>1
    <3>2. CASE i > 0 /\ w = c /\ b = Ordered(semi[c])
      BY <1>2, <1>3, <1>7, <1>8, <3>2
    <3> QED
      BY <1>9, <2>1, <3>1, <3>2
  <2>2. ASSUME NEW w \in BBs, Bound' <= Num[w]
        PROVE  w \in semiDomSet'[Ordered(semi[w])]
    <3>1. CASE Bound <= Num[w]
      <4>1. w \in semiDomSet[Ordered(semi[w])]
        BY <1>2, <3>1 DEF BucketState
      <4>2. Ordered(semi[w]) \in BBs
        <5>1. semi[w] <= Num[w] /\ Num[w] \in 0..BBCount - 1
          BY <1>2 DEF SemiState, Numbered
        <5>2. semi[w] \in 0..BBCount - 1
          BY <1>2, <5>1
        <5> QED
          BY <1>2, <5>2 DEF Numbered
      <4> QED
        BY <1>9, <4>1, <4>2
    <3>2. CASE i > 0 /\ w = c
      BY <1>9, <3>2
    <3> QED
      BY <1>13, <2>2, <3>1, <3>2
  <2>3. ASSUME NEW w \in BBs, Handled(w)'
        PROVE  idom[w] \in Above(w) /\ idom[w] # w /\ semi[w] <= Num[idom[w]]
    <3>1. /\ Bound' <= Num[w]
          /\ i < semi[w] \/ (semi[w] = i /\ w \notin todo')
      BY <1>1, <1>5, <2>3 DEF Handled
    <3>2. semi[w] = i => w \in todo'
      <4>1. Ordered(i) = c
        BY DEF c, Current
      <4> QED
        BY <1>1, <2>2, <3>1, <4>1 DEF c
    <3>3. i < semi[w]
      BY <3>1, <3>2
    <3>4. Bound <= Num[w]
      BY <1>2, <1>3, <1>4, <1>13, <3>1, <3>3
    <3>5. Handled(w)
      BY <1>1, <3>3, <3>4 DEF Handled
    <3> QED
      BY <1>2, <3>5 DEF BucketState
  <2>4. todo' \subseteq semiDomSet'[Current]
    BY <1>1 DEF c
  <2>5. \A w \in BBs : Ordered(semi[w])' = Ordered(semi[w])
    BY <1>1 DEF Ordered
  <2>6. Current' = Current
    BY <1>6 DEF c
  <2> QED
    BY <1>1, <1>5, <2>1, <2>2, <2>3, <2>4, <2>5, <2>6 DEF BucketState
<1>16. DominatorState'
  <2>1. \A w : ~Settled(w) /\ ~Settled(w)'
    BY <1>1 DEF Settled
  <2> QED
    BY <1>1, <1>2, <1>5, <2>1 DEF DominatorState
<1>17. Numbered' /\ Counters'
  BY <1>1, <1>2, <1>5 DEF Numbered, Counters
<1> QED
  BY <1>1, <1>11, <1>12, <1>14, <1>15, <1>16, <1>17 DEF TInv

\* The current block is above those whose semidominator it is.
LEMMA SemiAbove ==
  ASSUME IInv, TInv, pc \notin {"dfs", "aborted"}, NEW w \in BBs, Bound <= Num[w]
  PROVE  /\ Ordered(semi[w]) \in BBs /\ Num[Ordered(semi[w])] = semi[w] /\ semi[w] < Num[w]
         /\ IsSource(Ordered(semi[w]), w, BBs, graph.edges, Num)
         /\ Ordered(semi[w]) \in Above(w)
<1>1. /\ graph \in Graphs /\ Numbered /\ SemiState
      /\ SearchTree(BBs, graph.edges, graph.first, parent, Num)
      /\ graph.edges \subseteq BBs \X BBs
      /\ \A b \in BBs : Num[b] \in Nat /\ semi[b] \in Nat
  BY PhaseParts
<1>2. semi[w] < Num[w] /\ (semi[w] = Num[w] \/ \E v \in SemiSources(w) : semi[w] = Num[v])
  BY <1>1 DEF SemiState
<1>3. PICK v \in SemiSources(w) : semi[w] = Num[v]
  BY <1>1, <1>2
<1>4. v \in BBs /\ IsSource(v, w, BBs, graph.edges, Num)
  BY <1>1, SemiSourcesAre
<1>5. Ordered(semi[w]) = v
  BY <1>1, <1>3, <1>4 DEF Numbered
<1>6. v \in Chain(w, BBs, parent)
  BY <1>1, <1>2, <1>3, <1>4, SourceAbove
<1> QED
  BY <1>2, <1>3, <1>4, <1>5, <1>6 DEF Above

LEMMA IdomOfDominateeTree ==
  ASSUME IInv, TInv, NEW w \in BBs, IdomOfDominatee(w)
  PROVE  TInv'
<1> DEFINE u == Find(w)
           d == IF semi[u] = semi[w] THEN Ordered(semi[w]) ELSE u
<1>1. /\ pc = "bucket" /\ w \in todo /\ todo' = todo \ {w} /\ Compress(w)
      /\ idom' = [idom EXCEPT ![w] = d]
      /\ UNCHANGED <<graph, pc, stack, order, parent, semi, semiDomSet, i, dominator, dominated>>
  BY DEF IdomOfDominatee
<1>2. /\ graph \in Graphs /\ TypeOK /\ Numbered /\ Counters /\ Uniting
      /\ SemiState /\ BucketState /\ DominatorState
      /\ Bound \in Nat /\ Bound > 0 /\ i \in Nat
      /\ SearchTree(BBs, graph.edges, graph.first, parent, Num)
      /\ \A b \in BBs : Num[b] \in Nat /\ semi[b] \in Nat
      /\ \A b \in BBs : link[b] # NoBB <=> Bound <= Num[b]
  BY <1>1, PhaseParts
<1>3. Current \in BBs /\ Num[Current] = i
  BY <1>1, CurrentParts
<1>4. Bound <= Num[w] /\ semi[w] = i
  BY <1>1, <1>2, <1>3 DEF BucketState
<1>5. /\ Ordered(semi[w]) \in BBs /\ Num[Ordered(semi[w])] = semi[w] /\ semi[w] < Num[w]
      /\ Ordered(semi[w]) \in Above(w)
  BY <1>1, <1>4, SemiAbove
<1>6. u \in Above(w) /\ Bound <= Num[u] /\ u \in BBs
  BY <1>2, <1>4, FindParts
<1> HIDE DEF u
<1>7. d \in BBs /\ d \in Above(w) /\ d # w /\ semi[w] <= Num[d]
  <2>1. CASE semi[u] = semi[w]
    BY <1>2, <1>5, <2>1
  <2>2. CASE semi[u] # semi[w]
    <3>1. u # w
      BY <2>2
    <3>2. i <= Num[u]
      BY <1>1, <1>2, <1>6 DEF Bound
    <3> QED
      BY <1>4, <1>6, <2>2, <3>1, <3>2
  <2> QED
    BY <2>1, <2>2
<1> HIDE DEF d
<1>8. /\ idom' \in [BBs -> BBs \cup {NoBB}] /\ idom'[w] = d
      /\ \A x \in BBs : x # w => idom'[x] = idom[x]
  BY <1>1, <1>2, <1>7 DEF TypeOK
<1>9. /\ BBs' = BBs /\ BBCount' = BBCount /\ Num' = Num
      /\ \A b : Above(b)' = Above(b) /\ Preds(b)' = Preds(b) /\ Ordered(b)' = Ordered(b)
      /\ \A x : SemiSources(x)' = SemiSources(x)
  BY <1>1, SameSearch
<1>10. Current' = Current /\ Bound' = Bound
  BY <1>1 DEF Current, Ordered, Bound
<1>11. /\ Unites(BBs, graph.edges, graph.first, parent, Num, NoBB, Bound, link', label', semi)
       /\ link' \in [BBs -> BBs \cup {NoBB}] /\ label' \in [BBs -> BBs \cup {NoBB}]
  BY <1>1, <1>2, CompressUnites
<1>12. Compressing(BBs, parent, Num, NoBB, Bound, link, label, semi)'
  BY <1>1, <1>9, <1>10, <1>11 DEF Unites
<1>13. TypeOK'
  BY <1>1, <1>2, <1>8, <1>9, <1>11 DEF TypeOK
<1>14. SemiState'
  BY <1>1, <1>2, <1>9, <1>10 DEF SemiState
<1>15. BucketState'
  <2>1. ASSUME NEW x \in BBs, Handled(x)'
        PROVE  idom'[x] \in Above(x) /\ idom'[x] # x /\ semi[x] <= Num[idom'[x]]
    <3>1. CASE x = w
      BY <1>7, <1>8, <3>1
    <3>2. CASE x # w
      <4>1. Handled(x)
        BY <1>1, <1>9, <1>10, <2>1, <3>2 DEF Handled
      <4> QED
        BY <1>2, <1>8, <3>2, <4>1 DEF BucketState
    <3> QED
      BY <3>1, <3>2
  <2>2. todo' \subseteq semiDomSet[Current]
    BY <1>1, <1>2 DEF BucketState
  <2>3. /\ \A b, x \in BBs : x \in semiDomSet[b] => Bound <= Num[x] /\ Num[b] = semi[x]
        /\ \A x \in BBs : Bound <= Num[x] => x \in semiDomSet[Ordered(semi[x])]
    BY <1>2 DEF BucketState
  <2>4. \A x \in BBs : Ordered(semi[x])' = Ordered(semi[x])
    BY <1>1 DEF Ordered
  <2> QED
    BY <1>1, <1>9, <1>10, <2>1, <2>2, <2>3, <2>4 DEF BucketState
<1>16. DominatorState'
  <2>1. \A x : ~Settled(x) /\ ~Settled(x)'
    BY <1>1 DEF Settled
  <2> QED
    BY <1>1, <1>2, <1>9, <2>1 DEF DominatorState
<1>17. Numbered' /\ Counters'
  BY <1>1, <1>2, <1>9 DEF Numbered, Counters
<1> QED
  BY <1>1, <1>12, <1>13, <1>14, <1>15, <1>16, <1>17 DEF TInv

LEMMA NextBlockTree ==
  ASSUME IInv, TInv, NextBlock
  PROVE  TInv'
<1>1. /\ pc = "bucket" /\ todo = {}
      /\ i > 0 => pc' = "semi" /\ i' = i - 1 /\ todo' = Preds(Ordered(i - 1))
      /\ ~(i > 0) => /\ pc' = IF BBCount > 1 THEN "idom" ELSE "done"
                     /\ i' = 1 /\ todo' = todo
      /\ UNCHANGED <<graph, stack, order, parent, semi, label, link, semiDomSet,
                     idom, dominator, dominated>>
  BY DEF NextBlock
<1>2. /\ graph \in Graphs /\ TypeOK /\ Numbered /\ Counters /\ Uniting
      /\ SemiState /\ BucketState /\ DominatorState
      /\ Bound \in Nat /\ i \in Nat /\ BBCount \in Nat
      /\ \A b \in BBs : Num[b] \in Nat /\ semi[b] \in Nat
  BY <1>1, PhaseParts
<1>3. i \in 0..BBCount - 1
  BY <1>1, CurrentParts
<1>4. /\ BBs' = BBs /\ BBCount' = BBCount /\ Num' = Num
      /\ \A b : Above(b)' = Above(b) /\ Preds(b)' = Preds(b) /\ Ordered(b)' = Ordered(b)
      /\ \A w : SemiSources(w)' = SemiSources(w)
  BY <1>1, SameSearch
<1>5. Bound' = Bound
  BY <1>1, <1>2 DEF Bound
<1>6. /\ i' \in 0..BBCount /\ todo' \subseteq BBs
      /\ pc' \in {"semi", "idom", "done"} /\ i' \in Nat
  <2>1. CASE i > 0
    <3>1. todo' \subseteq BBs
      BY <1>1, <2>1 DEF Preds
    <3> QED
      BY <1>1, <1>2, <1>3, <2>1, <3>1
  <2>2. CASE ~(i > 0)
    BY <1>1, <1>2, <1>3, <2>2
  <2> QED
    BY <2>1, <2>2
<1>7. TypeOK'
  BY <1>1, <1>2, <1>4, <1>6 DEF TypeOK
<1>8. Counters'
  BY <1>1, <1>2, <1>3, <1>4 DEF Counters
<1>9. Compressing(BBs, parent, Num, NoBB, Bound, link, label, semi)'
  BY <1>1, <1>2, <1>4, <1>5 DEF Uniting, Unites
<1>10. pc' = "semi" => todo' = Preds(Current)'
  <2>1. i > 0 => Current' = Ordered(i - 1)
    BY <1>1 DEF Current, Ordered
  <2> QED
    BY <1>1, <1>4, <2>1 DEF Preds
<1>11. SemiState'
  <2>1. pc' = "semi" => \A w \in BBs : Num[w] < i' => semi[w] = Num[w]
    BY <1>1, <1>2 DEF SemiState
  <2>2. pc' = "semi" => Preds(Current)' \ todo' = {}
    BY <1>10
  <2>3. pc' # "bucket"
    BY <1>6
  <2>4. /\ \A w \in BBs : semi[w] <= Num[w]
        /\ \A w \in BBs : semi[w] = Num[w] \/ \E v \in SemiSources(w) : semi[w] = Num[v]
        /\ \A w \in BBs : Bound <= Num[w] =>
             semi[w] < Num[w] /\ \A v \in SemiSources(w) : semi[w] <= Num[v]
    BY <1>2 DEF SemiState
  <2> QED
    BY <1>1, <1>4, <1>5, <2>1, <2>2, <2>3, <2>4 DEF SemiState
<1>12. BucketState'
  <2>1. ASSUME NEW w \in BBs, Handled(w)'
        PROVE  Handled(w)
    <3>1. Bound <= Num[w] /\ (pc' = "semi" => i' < semi[w])
      BY <1>1, <1>4, <1>5, <1>6, <2>1 DEF Handled
    <3>2. i < semi[w] \/ semi[w] = i
      BY <1>1, <1>2, <1>6, <3>1
    <3> QED
      BY <1>1, <3>1, <3>2 DEF Handled
  <2>2. \A w \in BBs : Handled(w)' =>
          idom[w] \in Above(w) /\ idom[w] # w /\ semi[w] <= Num[idom[w]]
    BY <1>2, <2>1 DEF BucketState
  <2>3. /\ \A b, w \in BBs : w \in semiDomSet[b] => Bound <= Num[w] /\ Num[b] = semi[w]
        /\ \A w \in BBs : Bound <= Num[w] => w \in semiDomSet[Ordered(semi[w])]
    BY <1>2 DEF BucketState
  <2>4. \A w \in BBs : Ordered(semi[w])' = Ordered(semi[w])
    BY <1>1 DEF Ordered
  <2>5. pc' # "bucket"
    BY <1>6
  <2> QED
    BY <1>1, <1>4, <1>5, <1>10, <2>2, <2>3, <2>4, <2>5 DEF BucketState
<1>13. DominatorState'
  <2>1. ASSUME NEW w \in BBs
        PROVE  ~Settled(w) /\ ~Settled(w)'
    <3>1. ~Settled(w)
      BY <1>1 DEF Settled
    <3>2. pc' \in {"idom", "done"} => i' = 1
      BY <1>1, <1>2
    <3> QED
      BY <1>2, <1>4, <3>1, <3>2 DEF Settled
  <2> QED
    BY <1>1, <1>2, <1>4, <2>1 DEF DominatorState
<1>14. Numbered'
  BY <1>1, <1>2, <1>4 DEF Numbered
<1> QED
  BY <1>6, <1>7, <1>8, <1>9, <1>11, <1>12, <1>13, <1>14 DEF TInv

\* What the last loop finds for a block is above it, and no block that
\* dominates the block is lost.
LEMMA RefineRight ==
  ASSUME IInv, TInv, pc = "idom",
         NEW d, d = IF idom[Current] # Ordered(semi[Current]) THEN idom[idom[Current]]
                    ELSE idom[Current]
  PROVE  /\ d \in BBs /\ d \in Above(Current) /\ d # Current
         /\ \A a \in BBs :
              a # Current /\ Dominates(a, Current, graph.first, BBs, graph.edges) =>
                Dominates(a, d, graph.first, BBs, graph.edges)
<1> DEFINE c == Current
           s == Ordered(semi[c])
           q == idom[c]
<1>1. /\ graph \in Graphs /\ Numbered /\ BucketState /\ DominatorState /\ Counters /\ i \in Nat
      /\ SearchTree(BBs, graph.edges, graph.first, parent, Num)
      /\ graph.edges \subseteq BBs \X BBs
      /\ \A b \in BBs : Num[b] \in Nat /\ semi[b] \in Nat
  BY PhaseParts
<1>2. c \in BBs /\ Num[c] = i /\ i > 0
  BY <1>1, CurrentParts DEF Counters
<1>3. Bound = 1
  BY DEF Bound
<1>4. /\ s \in BBs /\ Num[s] = semi[c] /\ semi[c] < i
      /\ IsSource(s, c, BBs, graph.edges, Num) /\ s \in Above(c)
  BY <1>1, <1>2, <1>3, SemiAbove
<1>5. q \in Above(c) /\ q # c /\ semi[c] <= Num[q]
  BY <1>1, <1>2, <1>3 DEF Handled, BucketState
<1> HIDE DEF c, s
<1>6. q \in BBs /\ Num[q] < i
  BY <1>1, <1>2, <1>5, AboveBelow DEF Above
<1>7. ASSUME NEW a \in BBs, a # c, Dominates(a, c, graph.first, BBs, graph.edges)
      PROVE  /\ Dominates(a, s, graph.first, BBs, graph.edges)
             /\ Num[a] <= semi[c]
  <2>1. Dominates(a, s, graph.first, BBs, graph.edges)
    BY <1>1, <1>2, <1>4, <1>7, DominatorOfSource
  <2>2. a \in Chain(s, BBs, parent)
    BY <1>1, <1>4, <2>1, DominatorAbove
  <2>3. Num[a] <= Num[s]
    BY <1>1, <1>4, <2>2, AboveBelow
  <2> QED
    BY <1>4, <2>1, <2>3
<1>8. CASE q = s
  <2>1. d = q
    BY <1>8 DEF c, s
  <2> QED
    BY <1>5, <1>6, <1>7, <1>8, <2>1 DEF c
<1>9. CASE q # s
  <2>1. d = idom[q]
    BY <1>9 DEF c, s
  <2>2. Num[q] # semi[c]
    BY <1>1, <1>4, <1>6, <1>9 DEF SearchTree
  <2>3. semi[c] < Num[q] /\ 0 < Num[q]
    BY <1>1, <1>2, <1>5, <1>6, <2>2
  <2>4. Settled(q)
    BY <1>6, <2>3 DEF Settled
  <2>5. /\ idom[q] \in Above(q) /\ idom[q] # q
        /\ \A a \in BBs :
             a # q /\ Dominates(a, q, graph.first, BBs, graph.edges) =>
               Dominates(a, idom[q], graph.first, BBs, graph.edges)
    BY <1>1, <1>6, <2>4 DEF DominatorState
  <2>6. idom[q] \in BBs /\ Num[idom[q]] < Num[q]
    BY <1>1, <1>6, <2>5, AboveBelow DEF Above
  <2>7. d \in Above(c)
    BY <1>5, <2>1, <2>5, AboveTransitive DEF Above
  <2>8. d # c
    BY <1>1, <1>2, <1>6, <2>1, <2>6
  <2>9. ASSUME NEW a \in BBs, a # c, Dominates(a, c, graph.first, BBs, graph.edges)
        PROVE  Dominates(a, d, graph.first, BBs, graph.edges)
    <3>1. Num[a] < Num[q]
      BY <1>1, <1>2, <1>6, <1>7, <2>3, <2>9
    <3>2. Dominates(a, q, graph.first, BBs, graph.edges)
      BY <1>1, <1>2, <1>5, <2>9, <3>1, DominatorOfBetween DEF Above
    <3>3. a # q
      BY <1>1, <1>6, <3>1
    <3> QED
      BY <2>1, <2>5, <3>2, <3>3
  <2> QED
    BY <2>1, <2>6, <2>7, <2>8, <2>9 DEF c
<1> QED
  BY <1>8, <1>9

LEMMA RefineTree ==
  ASSUME IInv, TInv, Refine
  PROVE  TInv'
<1> DEFINE c == Current
           d == IF idom[c] # Ordered(semi[c]) THEN idom[idom[c]] ELSE idom[c]
<1>1. /\ pc = "idom" /\ idom' = [idom EXCEPT ![c] = d]
      /\ dominator' = [dominator EXCEPT ![c] = idom'[c]]
      /\ dominated' = [dominated EXCEPT ![idom'[c]] = @ \cup {c}]
      /\ i' = i + 1 /\ pc' = IF i + 1 = BBCount THEN "done" ELSE "idom"
      /\ UNCHANGED <<graph, stack, order, parent, semi, label, link, semiDomSet, todo>>
  BY DEF Refine
<1>2. /\ graph \in Graphs /\ TypeOK /\ Numbered /\ Counters /\ Uniting
      /\ SemiState /\ BucketState /\ DominatorState
      /\ Bound \in Nat /\ i \in Nat /\ BBCount \in Nat /\ NoBB \notin BBs
      /\ \A b \in BBs : Num[b] \in Nat /\ semi[b] \in Nat
  BY <1>1, PhaseParts
<1>3. /\ c \in BBs /\ Num[c] = i /\ i \in 1..BBCount - 1
      /\ \A b \in BBs : Num[b] = i <=> b = c
  BY <1>1, <1>2, CurrentParts DEF Counters
<1>4. /\ d \in BBs /\ d \in Above(c) /\ d # c
      /\ \A a \in BBs :
           a # c /\ Dominates(a, c, graph.first, BBs, graph.edges) =>
             Dominates(a, d, graph.first, BBs, graph.edges)
  BY <1>1, RefineRight
<1> HIDE DEF c, d
<1>5. /\ idom' \in [BBs -> BBs \cup {NoBB}] /\ idom'[c] = d
      /\ \A x \in BBs : x # c => idom'[x] = idom[x]
  BY <1>1, <1>2, <1>3, <1>4 DEF TypeOK
<1>6. /\ dominator' \in [BBs -> BBs \cup {NoBB}] /\ dominator'[c] = d
      /\ \A x \in BBs : x # c => dominator'[x] = dominator[x]
  BY <1>1, <1>2, <1>3, <1>4, <1>5 DEF TypeOK
<1>7. /\ dominated' \in [BBs -> SUBSET BBs] /\ dominated'[d] = dominated[d] \cup {c}
      /\ \A x \in BBs : x # d => dominated'[x] = dominated[x]
  <2>1. dominated \in [BBs -> SUBSET BBs]
    BY <1>2 DEF TypeOK
  <2>2. dominated' = [dominated EXCEPT ![d] = dominated[d] \cup {c}]
    BY <1>1, <1>5
  <2> QED
    BY <1>3, <1>4, <2>1, <2>2
<1>8. /\ BBs' = BBs /\ BBCount' = BBCount /\ Num' = Num
      /\ \A b : Above(b)' = Above(b) /\ Preds(b)' = Preds(b) /\ Ordered(b)' = Ordered(b)
      /\ \A w : SemiSources(w)' = SemiSources(w)
  BY <1>1, SameSearch
<1>9. Bound = 1 /\ Bound' = 1
  BY <1>1 DEF Bound
<1>10. TypeOK'
  BY <1>1, <1>2, <1>3, <1>5, <1>6, <1>7, <1>8 DEF TypeOK
<1>11. Counters'
  BY <1>1, <1>2, <1>3, <1>8 DEF Counters
<1>12. Compressing(BBs, parent, Num, NoBB, Bound, link, label, semi)'
  BY <1>1, <1>2, <1>8, <1>9 DEF Uniting, Unites
<1>13. SemiState'
  BY <1>1, <1>2, <1>8, <1>9 DEF SemiState
<1>14. BucketState'
  <2>1. ASSUME NEW w \in BBs, Handled(w)'
        PROVE  idom'[w] \in Above(w) /\ idom'[w] # w /\ semi[w] <= Num[idom'[w]]
    <3>1. i + 1 <= Num[w] /\ 1 <= Num[w]
      BY <1>1, <1>8, <1>9, <2>1 DEF Handled
    <3>2. w # c /\ i <= Num[w]
      BY <1>2, <1>3, <3>1
    <3>3. Handled(w)
      BY <1>1, <1>9, <3>1, <3>2 DEF Handled
    <3> QED
      BY <1>2, <1>5, <3>2, <3>3 DEF BucketState
  <2>2. /\ \A b, x \in BBs : x \in semiDomSet[b] => Bound <= Num[x] /\ Num[b] = semi[x]
        /\ \A x \in BBs : Bound <= Num[x] => x \in semiDomSet[Ordered(semi[x])]
    BY <1>2 DEF BucketState
  <2>3. \A x \in BBs : Ordered(semi[x])' = Ordered(semi[x])
    BY <1>1 DEF Ordered
  <2>4. pc' # "semi" /\ pc' # "bucket"
    BY <1>1
  <2> QED
    BY <1>1, <1>8, <1>9, <2>1, <2>2, <2>3, <2>4 DEF BucketState
<1>15. DominatorState'
  <2>1. ASSUME NEW w \in BBs
        PROVE  Settled(w)' <=> Settled(w) \/ w = c
    BY <1>1, <1>2, <1>3, <1>8 DEF Settled
  <2>2. ~Settled(c) /\ dominator[c] = NoBB
    BY <1>2, <1>3 DEF Settled, DominatorState
  <2>3. ASSUME NEW w \in BBs, Settled(w)'
        PROVE  /\ dominator'[w] = idom'[w] /\ idom'[w] \in Above(w) /\ idom'[w] # w
               /\ \A a \in BBs :
                    a # w /\ Dominates(a, w, graph.first, BBs, graph.edges) =>
                      Dominates(a, idom'[w], graph.first, BBs, graph.edges)
    <3>1. CASE w = c
      BY <1>4, <1>5, <1>6, <3>1
    <3>2. CASE w # c
      <4>1. Settled(w)
        BY <2>1, <2>3, <3>2
      <4> QED
        BY <1>2, <1>5, <1>6, <3>2, <4>1 DEF DominatorState
    <3> QED
      BY <3>1, <3>2
  <2>4. ASSUME NEW w \in BBs, ~Settled(w)'
        PROVE  dominator'[w] = NoBB
    BY <1>2, <1>6, <2>1, <2>4 DEF DominatorState
  <2>5. ASSUME NEW a \in BBs, NEW b \in BBs
        PROVE  b \in dominated'[a] <=> dominator'[b] = a
    <3>1. b \in dominated[a] <=> dominator[b] = a
      BY <1>2 DEF DominatorState
    <3>2. CASE b = c
      BY <1>2, <1>6, <1>7, <2>2, <3>1, <3>2
    <3>3. CASE b # c
      BY <1>6, <1>7, <3>1, <3>3
    <3> QED
      BY <3>2, <3>3
  <2> QED
    BY <1>1, <1>8, <2>3, <2>4, <2>5 DEF DominatorState
<1>16. Numbered'
  BY <1>1, <1>2, <1>8 DEF Numbered
<1> QED
  BY <1>1, <1>10, <1>11, <1>12, <1>13, <1>14, <1>15, <1>16 DEF TInv

LEMMA StutterTree ==
  ASSUME IInv, TInv, UNCHANGED vars
  PROVE  TInv'
<1>1. UNCHANGED <<graph, pc, stack, order, parent, semi, label, link, semiDomSet,
                  idom, i, todo, dominator, dominated>>
  BY DEF vars
<1>2. /\ BBs' = BBs /\ BBCount' = BBCount /\ Num' = Num
      /\ \A b : Above(b)' = Above(b) /\ Preds(b)' = Preds(b) /\ Ordered(b)' = Ordered(b)
      /\ \A w : SemiSources(w)' = SemiSources(w)
  BY <1>1, SameSearch
<1>3. TypeOK'
  BY <1>1, <1>2 DEF TInv, TypeOK
<1>4. pc = "dfs" => SearchRuns'
  <2> SUFFICES ASSUME pc = "dfs"
               PROVE  SearchRuns'
    OBVIOUS
  <2>1. Found' = Found
    BY <1>1, <1>2 DEF Found
  <2>2. SearchRuns
    BY DEF TInv
  <2>3. \A k \in 1..Len(stack) :
          /\ Chain(stack[k], Found, parent) = {stack[j] : j \in 1..k}
          /\ \A y \in Found : semi[stack[k]] <= semi[y] => stack[k] \in Chain(y, Found, parent)
    BY <2>2 DEF SearchRuns
  <2>4. (\A k \in 1..Len(stack) :
          /\ Chain(stack[k], Found, parent) = {stack[j] : j \in 1..k}
          /\ \A y \in Found : semi[stack[k]] <= semi[y] => stack[k] \in Chain(y, Found, parent))'
    BY <1>1, <2>1, <2>3
  <2> QED
    BY <1>1, <1>2, <2>1, <2>2, <2>4 DEF SearchRuns
<1>5. ASSUME pc \notin {"dfs", "aborted"}
      PROVE  /\ Numbered' /\ Counters'
             /\ Compressing(BBs, parent, Num, NoBB, Bound, link, label, semi)'
             /\ SemiState' /\ BucketState' /\ DominatorState'
  <2>1. /\ Numbered /\ Counters /\ SemiState /\ BucketState /\ DominatorState
        /\ Compressing(BBs, parent, Num, NoBB, Bound, link, label, semi)
    BY <1>5 DEF TInv
  <2>2. /\ Bound' = Bound /\ Current' = Current
        /\ \A w : Handled(w)' = Handled(w) /\ Settled(w)' = Settled(w)
        /\ \A w : Ordered(semi[w])' = Ordered(semi[w])
        /\ Preds(Current)' = Preds(Current)
    BY <1>1, <1>2 DEF Bound, Current, Handled, Settled, Ordered, Preds
  <2>3. Numbered' /\ Counters'
    BY <1>1, <1>2, <2>1 DEF Numbered, Counters
  <2>4. Compressing(BBs, parent, Num, NoBB, Bound, link, label, semi)'
    BY <1>1, <1>2, <2>1, <2>2
  <2>5. SemiState'
    BY <1>1, <1>2, <2>1, <2>2 DEF SemiState
  <2>6. BucketState'
    BY <1>1, <1>2, <2>1, <2>2 DEF BucketState
  <2>7. DominatorState'
    BY <1>1, <1>2, <2>1, <2>2 DEF DominatorState
  <2> QED
    BY <2>3, <2>4, <2>5, <2>6, <2>7
<1> QED
  BY <1>1, <1>3, <1>4, <1>5 DEF TInv

LEMMA TreeInvariance == Spec => []TInv
<1>1. ASSUME IInv, TInv, [Next]_vars
      PROVE  TInv'
  BY <1>1, VisitTree, SemiOfPredTree, IdomOfDominateeTree, IdOutOfRangeTree, ReturnTree,
     ReturnFromFirstTree, RegisterAndUniteTree, NextBlockTree, RefineTree, StutterTree DEF Next
<1> QED
  BY <1>1, InitTree, Invariance, PTL DEF Spec

-----------------------------------------------------------------------------
(* What follows for the runs' properties.                                    *)

\* Once DeriveSemiDominators has been through a block, semiDoms_ holds the
\* number of its semidominator, for every graph and every order in which the
\* search, the predecessors and the dominatees are taken.
THEOREM SemiDominators == Spec => []SemiDominatorsRight
<1>1. ASSUME IInv, TInv
      PROVE  SemiDominatorsRight
  <2>1. TypeOK
    BY <1>1 DEF TInv
  <2>2. ASSUME NEW w \in BBs, SemiFinished(w)
        PROVE  semi[w] = Min({Number(v) : v \in SemiSources(w)})
    <3>1. pc \in {"semi", "bucket", "idom", "done"} /\ w # graph.first
      BY <2>2 DEF SemiFinished
    <3>2. /\ graph \in Graphs /\ Numbered /\ SemiState /\ i \in Nat
          /\ \A b \in BBs : Num[b] \in Nat
          /\ SearchTree(BBs, graph.edges, graph.first, parent, Num)
      BY <1>1, <3>1, PhaseParts
    <3>3. \A b \in BBs : Number(b) = Num[b]
      BY DEF Num
    <3>4. 0 < Num[w]
      <4>1. Num[graph.first] = 0 /\ graph.first \in BBs
        BY <3>2, GraphParts DEF Numbered
      <4>2. Num[w] # 0
        BY <3>1, <3>2, <4>1 DEF SearchTree
      <4> QED
        BY <3>2, <4>2
    <3>5. Bound <= Num[w]
      BY <2>2, <3>1, <3>2, <3>3, <3>4 DEF SemiFinished, Bound
    <3>6. /\ semi[w] < Num[w] /\ \A v \in SemiSources(w) : semi[w] <= Num[v]
          /\ semi[w] = Num[w] \/ \E v \in SemiSources(w) : semi[w] = Num[v]
      BY <3>2, <3>5 DEF SemiState
    <3>7. PICK v \in SemiSources(w) : semi[w] = Num[v]
      BY <2>1, <3>2, <3>6
    <3>8. SemiSources(w) \subseteq BBs
      BY <3>2, SemiSourcesAre
    <3> DEFINE T == {Number(x) : x \in SemiSources(w)}
    <3>9. T \in SUBSET Nat
      BY <3>2, <3>3, <3>8
    <3>10. semi[w] \in T /\ \A n \in T : semi[w] <= n
      BY <3>3, <3>6, <3>7, <3>8
    <3> HIDE DEF T
    <3>11. Min(T) = semi[w]
      BY <3>9, <3>10, MinIs
    <3> QED
      BY <3>11 DEF T
  <2> QED
    BY <2>1, <2>2 DEF SemiDominatorsRight
<1> QED
  BY <1>1, Invariance, TreeInvariance, PTL

\* DSU::Find answers from the compressed links what the uncompressed forest
\* would: a block of the least semidominator on the way to the root.
THEOREM FindRight == Spec => []FindIsForestMinimum
<1>1. ASSUME IInv, TInv
      PROVE  FindIsForestMinimum
  <2> SUFFICES ASSUME pc \in {"semi", "bucket"}, NEW v \in BBs, link[v] # NoBB
               PROVE  /\ Find(v) \in Forest(v)
                      /\ semi[Find(v)] = Min({semi[u] : u \in Forest(v)})
    BY DEF FindIsForestMinimum
  <2>1. /\ graph \in Graphs /\ TypeOK /\ Numbered /\ Uniting /\ Bound \in Nat /\ Bound > 0
        /\ \A b \in BBs : semi[b] \in Nat
        /\ \A b \in BBs : link[b] # NoBB <=> Bound <= Num[b]
    BY <1>1, PhaseParts
  <2>2. Forest(v) = {u \in Above(v) : link[u] # NoBB}
    BY <2>1, ForestRight DEF Numbered
  <2>3. /\ Find(v) \in Above(v) /\ Bound <= Num[Find(v)] /\ Find(v) \in BBs
        /\ \A y \in Above(v) : Bound <= Num[y] => semi[Find(v)] <= semi[y]
    BY <2>1, FindParts
  <2>4. \A u \in Above(v) : u \in BBs
    BY ChainParts DEF Above
  <2> DEFINE T == {semi[u] : u \in Forest(v)}
  <2>5. Find(v) \in Forest(v)
    BY <2>1, <2>2, <2>3
  <2>6. T \in SUBSET Nat
    BY <2>1, <2>2, <2>4
  <2>7. semi[Find(v)] \in T /\ \A n \in T : semi[Find(v)] <= n
    BY <2>1, <2>2, <2>3, <2>4, <2>5
  <2> HIDE DEF T
  <2>8. Min(T) = semi[Find(v)]
    BY <2>6, <2>7, MinIs
  <2> QED
    BY <2>5, <2>8 DEF T
<1> QED
  BY <1>1, Invariance, TreeInvariance, PTL

\* The recursion of DominatorChain has a solution.
LEMMA DominatorChainSteps ==
  ASSUME graph \in Graphs, TypeOK, NEW b \in BBs
  PROVE  /\ b \in DominatorChain(b)
         /\ dominator[b] # NoBB =>
              dominator[b] \in BBs /\ DominatorChain(dominator[b]) \subseteq DominatorChain(b)
<1> DEFINE K == CHOOSE F : F = [c \in BBs |->
                  {c} \cup IF dominator[c] = NoBB THEN {} ELSE F[dominator[c]]]
           G == [c \in BBs |-> Chain(c, BBs, dominator)]
<1>1. NoBB \notin BBs /\ \A c \in BBs : dominator[c] \in BBs \cup {NoBB}
  BY GraphParts DEF TypeOK
<1>2. ASSUME NEW c \in BBs
      PROVE  G[c] = {c} \cup IF dominator[c] = NoBB THEN {} ELSE G[dominator[c]]
  <2>1. CASE dominator[c] = NoBB
    <3>1. Chain(c, BBs, dominator) = {c}
      BY <1>1, <2>1, ChainSteps
    <3> QED
      BY <2>1, <3>1
  <2>2. CASE dominator[c] # NoBB
    <3>1. dominator[c] \in BBs
      BY <1>1, <2>2
    <3>2. Chain(c, BBs, dominator) = {c} \cup Chain(dominator[c], BBs, dominator)
      BY <3>1, ChainSteps
    <3> QED
      BY <2>2, <3>1, <3>2
  <2> QED
    BY <2>1, <2>2
<1>3. G = [c \in BBs |-> {c} \cup IF dominator[c] = NoBB THEN {} ELSE G[dominator[c]]]
  <2>1. G = [c \in BBs |-> G[c]]
    OBVIOUS
  <2> HIDE DEF G
  <2> QED
    BY <1>2, <2>1
<1> HIDE DEF G
<1>4. K = [c \in BBs |-> {c} \cup IF dominator[c] = NoBB THEN {} ELSE K[dominator[c]]]
  <2>1. \E F : F = [c \in BBs |-> {c} \cup IF dominator[c] = NoBB THEN {} ELSE F[dominator[c]]]
    BY <1>3, Zenon
  <2> QED
    BY <2>1, Zenon
<1>5. \A c \in BBs : DominatorChain(c) = K[c]
  BY Zenon DEF DominatorChain
<1> HIDE DEF K
<1>6. K[b] = {b} \cup IF dominator[b] = NoBB THEN {} ELSE K[dominator[b]]
  BY <1>4
<1> QED
  BY <1>1, <1>5, <1>6

\* dominator_ is a tree that hangs from the first block, dominated_ its
\* inverse, and the chain BB::Domites follows from a block passes every
\* dominator of that block: the answer yes is never missed.
THEOREM DominatorTree == Spec => []DominatorsFormTree
<1>1. ASSUME IInv, TInv
      PROVE  DominatorsFormTree
  <2> SUFFICES ASSUME pc = "done"
               PROVE  /\ \A b \in BBs \ {graph.first} :
                           dominator[b] \in BBs /\ Number(dominator[b]) < Number(b)
                      /\ \A a, b \in BBs : b \in dominated[a] <=> dominator[b] = a
                      /\ \A a, b \in BBs : Dominates(a, b, graph.first, BBs, graph.edges)
                                             => a \in DominatorChain(b)
    BY DEF DominatorsFormTree
  <2>1. /\ graph \in Graphs /\ TypeOK /\ Numbered /\ Counters /\ DominatorState /\ BBCount \in Nat
        /\ SearchTree(BBs, graph.edges, graph.first, parent, Num)
        /\ graph.first \in BBs /\ NoBB \notin BBs
        /\ \A b \in BBs : Num[b] \in Nat
    BY <1>1, PhaseParts
  <2>2. \A b \in BBs : Number(b) = Num[b]
    BY DEF Num
  <2>3. ASSUME NEW b \in BBs, b # graph.first
        PROVE  /\ dominator[b] \in BBs /\ Num[dominator[b]] < Num[b]
               /\ \A a \in BBs :
                    a # b /\ Dominates(a, b, graph.first, BBs, graph.edges) =>
                      Dominates(a, dominator[b], graph.first, BBs, graph.edges)
    <3>1. Num[b] # 0 /\ Num[b] \in 0..BBCount - 1 /\ i = BBCount
      BY <2>1, <2>3 DEF Numbered, Counters, SearchTree
    <3>2. Settled(b)
      BY <2>1, <3>1 DEF Settled
    <3>3. /\ dominator[b] = idom[b] /\ idom[b] \in Above(b) /\ idom[b] # b
          /\ \A a \in BBs :
               a # b /\ Dominates(a, b, graph.first, BBs, graph.edges) =>
                 Dominates(a, idom[b], graph.first, BBs, graph.edges)
      BY <2>1, <3>2 DEF DominatorState
    <3>4. idom[b] \in BBs /\ Num[idom[b]] < Num[b]
      BY <2>1, <3>3, AboveBelow DEF Above
    <3> QED
      BY <3>3, <3>4
  <2>4. \A a, b \in BBs : b \in dominated[a] <=> dominator[b] = a
    BY <2>1 DEF DominatorState
  <2>5. ASSUME NEW a \in BBs, NEW b \in BBs, Dominates(a, b, graph.first, BBs, graph.edges)
        PROVE  a \in DominatorChain(b)
    <3> DEFINE S == {x \in BBs : /\ Dominates(a, x, graph.first, BBs, graph.edges)
                                 /\ a \notin DominatorChain(x)}
    <3> SUFFICES ASSUME S # {}
                 PROVE  FALSE
      BY <2>5
    <3>1. S \in SUBSET BBs
      OBVIOUS
    <3> HIDE DEF S
    <3>2. PICK x \in S : \A y \in S : Num[x] <= Num[y]
      BY <2>1, <3>1, FirstFound
    <3>3. /\ x \in BBs /\ Dominates(a, x, graph.first, BBs, graph.edges)
          /\ a \notin DominatorChain(x)
      BY DEF S
    <3>4. a # x
      BY <2>1, <3>3, DominatorChainSteps
    <3>5. x # graph.first
      BY <2>1, <3>3, <3>4, RootDominators
    <3>6. /\ dominator[x] \in BBs /\ Num[dominator[x]] < Num[x]
          /\ Dominates(a, dominator[x], graph.first, BBs, graph.edges)
      BY <2>3, <3>3, <3>4, <3>5
    <3>7. dominator[x] \notin S
      BY <2>1, <3>2, <3>3, <3>6
    <3>8. a \in DominatorChain(dominator[x])
      BY <3>6, <3>7 DEF S
    <3>9. dominator[x] # NoBB
      BY <2>1, <3>6
    <3>10. DominatorChain(dominator[x]) \subseteq DominatorChain(x)
      BY <2>1, <3>3, <3>9, DominatorChainSteps
    <3> QED
      BY <3>3, <3>8, <3>10
  <2> QED
    BY <2>2, <2>3, <2>4, <2>5
<1> QED
  BY <1>1, Invariance, TreeInvariance, PTL
=============================================================================
