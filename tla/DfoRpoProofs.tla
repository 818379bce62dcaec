---------------------------- MODULE DfoRpoProofs ----------------------------
EXTENDS DfoRpo, FlowGraphProofs, FiniteSetTheorems, SequenceTheorems

(***************************************************************************)
(* Sequences.                                                              *)
(***************************************************************************)

\* An element more.
LEMMA AppendParts ==
  ASSUME NEW S, NEW seq \in Seq(S), NEW e \in S
  PROVE  /\ Append(seq, e) \in Seq(S)
         /\ Len(Append(seq, e)) = Len(seq) + 1
         /\ DOMAIN Append(seq, e) = 1..Len(seq) + 1
         /\ \A i \in 1..Len(seq) : Append(seq, e)[i] = seq[i]
         /\ Append(seq, e)[Len(seq) + 1] = e
         /\ ToSet(Append(seq, e)) = ToSet(seq) \cup {e}
<1>1. /\ Append(seq, e) \in Seq(S)
      /\ Len(Append(seq, e)) = Len(seq) + 1
      /\ DOMAIN Append(seq, e) = 1..Len(seq) + 1
      /\ \A i \in 1..Len(seq) : Append(seq, e)[i] = seq[i]
      /\ Append(seq, e)[Len(seq) + 1] = e
  OBVIOUS
<1>2. Len(seq) \in Nat /\ DOMAIN seq = 1..Len(seq)
  BY LenProperties
<1>3. 1..Len(seq) + 1 = (1..Len(seq)) \cup {Len(seq) + 1}
  BY <1>2
<1> QED
  BY <1>1, <1>2, <1>3 DEF ToSet

\* The last element is taken off.
LEMMA FrontParts ==
  ASSUME NEW S, NEW seq \in Seq(S), seq # <<>>
  PROVE  /\ Len(seq) \in Nat \ {0} /\ DOMAIN seq = 1..Len(seq)
         /\ Front(seq) \in Seq(S)
         /\ Len(Front(seq)) = Len(seq) - 1
         /\ DOMAIN Front(seq) = 1..Len(seq) - 1
         /\ \A i \in 1..Len(seq) - 1 : Front(seq)[i] = seq[i]
         /\ ToSet(seq) = ToSet(Front(seq)) \cup {seq[Len(seq)]}
<1>1. Len(seq) \in Nat \ {0} /\ DOMAIN seq = 1..Len(seq)
  BY EmptySeq, LenProperties
<1>2. \A i \in 1..Len(seq) - 1 : seq[i] \in S
  BY <1>1, ElementOfSeq
<1>3. /\ Front(seq) \in Seq(S)
      /\ Len(Front(seq)) = Len(seq) - 1
      /\ \A i \in 1..Len(seq) - 1 : Front(seq)[i] = seq[i]
  BY <1>1, <1>2, SubSeqProperties DEF Front
<1>4. DOMAIN Front(seq) = 1..Len(seq) - 1
  BY <1>3, LenProperties
<1>5. 1..Len(seq) = (1..Len(seq) - 1) \cup {Len(seq)}
  BY <1>1
<1> QED
  BY <1>1, <1>3, <1>4, <1>5 DEF ToSet

\* RPO's reversal keeps the elements and turns their order round.
LEMMA ReverseParts ==
  ASSUME NEW S, NEW seq \in Seq(S)
  PROVE  /\ Reverse(seq) \in Seq(S)
         /\ DOMAIN Reverse(seq) = 1..Len(seq)
         /\ \A i \in 1..Len(seq) : Reverse(seq)[Len(seq) - i + 1] = seq[i]
         /\ ToSet(Reverse(seq)) = ToSet(seq)
         /\ IsInjective(seq) => IsInjective(Reverse(seq))
<1>1. Len(seq) \in Nat /\ DOMAIN seq = 1..Len(seq)
  BY LenProperties
<1>2. \A i \in 1..Len(seq) : Len(seq) - i + 1 \in 1..Len(seq)
  BY <1>1
<1>3. /\ DOMAIN Reverse(seq) = 1..Len(seq)
      /\ \A i \in 1..Len(seq) : Reverse(seq)[i] = seq[Len(seq) - i + 1]
  BY DEF Reverse
<1>4. Reverse(seq) \in Seq(S)
  <2>1. \A i \in 1..Len(seq) : seq[Len(seq) - i + 1] \in S
    BY <1>2, ElementOfSeq
  <2>2. Reverse(seq) \in [1..Len(seq) -> S]
    BY <2>1 DEF Reverse
  <2> QED
    BY <1>1, <2>2, SeqDef
<1>5. \A i \in 1..Len(seq) : Reverse(seq)[Len(seq) - i + 1] = seq[i]
  BY <1>1, <1>2, <1>3
<1>6. ToSet(Reverse(seq)) = ToSet(seq)
  BY <1>1, <1>2, <1>3, <1>5 DEF ToSet
<1>7. ASSUME IsInjective(seq)
      PROVE  IsInjective(Reverse(seq))
  BY <1>1, <1>2, <1>3, <1>7 DEF IsInjective
<1> QED
  BY <1>3, <1>4, <1>5, <1>6, <1>7

(***************************************************************************)
(* The invariant.                                                          *)
(***************************************************************************)

\* The search began at the first block, which is the last to return.
StackFromFirst == stack # <<>> => stack[1] = graph.first

\* An activation was reached from those around it.
StackIsPath ==
  \A i, j \in DOMAIN stack : i <= j => stack[j] \in ReachableFrom(stack[i], BBs, graph.edges)

\* The dominators of a block on the stack are the block or around it.
DominatorsAround ==
  \A j \in DOMAIN stack, a \in BBs :
    Dominates(a, stack[j], graph.first, BBs, graph.edges) =>
      \E i \in 1..j : stack[i] = a

\* When a block is given to the callback its successors have been visited, and
\* those that are not in the result yet are on a cycle with it.
SuccessorsVisited ==
  \A n \in DOMAIN result, s \in BBs :
    <<result[n], s>> \in graph.edges =>
      \/ result[n] \in ReachableFrom(s, BBs, graph.edges)
      \/ \E m \in 1..n - 1 : result[m] = s

\* The other dominators of a block come after it, or are still active.
DominatorsLater ==
  \A n \in DOMAIN result, a \in BBs :
    a # result[n] /\ Dominates(a, result[n], graph.first, BBs, graph.edges) =>
      \/ a \in ToSet(stack)
      \/ \E m \in DOMAIN result : n < m /\ result[m] = a

IInv ==
  /\ graph \in Graphs
  /\ EachOnce
  /\ pc = "dfs" => /\ StackFromFirst /\ StackIsPath /\ DominatorsAround
                   /\ SuccessorsVisited /\ DominatorsLater
  /\ SourcesFirst

\* The facts about the graph and the search the steps below start from.
LEMMA SearchParts ==
  ASSUME IInv
  PROVE  /\ graph \in Graphs
         /\ IsFiniteSet(BBs) /\ graph.first \in BBs /\ graph.edges \subseteq BBs \X BBs
         /\ stack \in Seq(BBs) /\ Len(stack) \in Nat /\ DOMAIN stack = 1..Len(stack)
         /\ result \in Seq(BBs) /\ Len(result) \in Nat /\ DOMAIN result = 1..Len(result)
         /\ visited \subseteq BBs
<1>1. graph \in Graphs /\ TypeOK
  BY DEF IInv, EachOnce
<1>2. IsFiniteSet(BBs) /\ graph.first \in BBs /\ graph.edges \subseteq BBs \X BBs
  BY <1>1, GraphAssumption DEF BBs
<1> QED
  BY <1>1, <1>2, LenProperties DEF TypeOK

\* The block of the innermost activation.
LEMMA TopParts ==
  ASSUME IInv, stack # <<>>
  PROVE  Len(stack) \in Nat \ {0} /\ Len(stack) \in DOMAIN stack
         /\ Top = stack[Len(stack)] /\ Top \in BBs
<1>1. Len(stack) \in Nat \ {0}
  BY SearchParts, EmptySeq
<1>2. Len(stack) \in 1..Len(stack)
  BY <1>1
<1> QED
  BY <1>1, <1>2, SearchParts, ElementOfSeq DEF Top

LEMMA InitIInv == Init => IInv
<1> SUFFICES ASSUME Init
             PROVE  IInv
  OBVIOUS
<1>1. graph \in Graphs /\ graph.first \in BBs
  BY GraphAssumption DEF Init, BBs
<1>2. /\ stack = <<graph.first>> /\ visited = {graph.first} /\ result = <<>> /\ pc = "dfs"
  BY DEF Init
<1>3. /\ stack \in Seq(BBs) /\ Len(stack) = 1 /\ DOMAIN stack = {1} /\ stack[1] = graph.first
      /\ ToSet(stack) = {graph.first}
  BY <1>1, <1>2 DEF ToSet
<1>4. result \in Seq(BBs) /\ DOMAIN result = {} /\ ToSet(result) = {}
  BY <1>2 DEF ToSet
<1>5. EachOnce
  BY <1>1, <1>2, <1>3, <1>4 DEF EachOnce, TypeOK, IsInjective
<1>6. StackFromFirst
  BY <1>3 DEF StackFromFirst
<1>7. StackIsPath
  BY <1>1, <1>3, ReachesItself DEF StackIsPath
<1>8. DominatorsAround
  <2> SUFFICES ASSUME NEW a \in BBs,
                      Dominates(a, graph.first, graph.first, BBs, graph.edges)
               PROVE  \E i \in 1..1 : stack[i] = a
    BY <1>3 DEF DominatorsAround
  <2>1. a = graph.first
    BY <1>1, RootDominators
  <2> QED
    BY <2>1, <1>3
<1>9. SuccessorsVisited /\ DominatorsLater
  BY <1>4 DEF SuccessorsVisited, DominatorsLater
<1>10. SourcesFirst
  BY <1>2 DEF SourcesFirst
<1> QED
  BY <1>1, <1>5, <1>6, <1>7, <1>8, <1>9, <1>10 DEF IInv

-----------------------------------------------------------------------------
\* A call for a successor that has not been visited: the stack grows by it.
LEMMA ExecuteDFSIInv ==
  ASSUME IInv, NEW s \in BBs, ExecuteDFS(s)
  PROVE  IInv'
<1>1. /\ pc = "dfs" /\ pc' = "dfs" /\ graph' = graph /\ result' = result
      /\ stack # <<>> /\ stack' = Append(stack, s) /\ visited' = visited \cup {s}
      /\ <<Top, s>> \in graph.edges /\ s \notin visited
  BY DEF ExecuteDFS, Unvisited
<1> DEFINE n == Len(stack)
<1>2. /\ n \in Nat \ {0} /\ n \in DOMAIN stack /\ DOMAIN stack = 1..n
      /\ Top = stack[n] /\ Top \in BBs
  BY <1>1, TopParts, SearchParts
<1>3. BBs' = BBs
  BY <1>1 DEF BBs
<1>4. /\ stack' \in Seq(BBs) /\ DOMAIN stack' = 1..n + 1
      /\ \A i \in 1..n : stack'[i] = stack[i]
      /\ stack'[n + 1] = s
      /\ ToSet(stack') = ToSet(stack) \cup {s}
  BY <1>1, SearchParts, AppendParts
<1>5. /\ visited = ToSet(result) \cup ToSet(stack)
      /\ IsInjective(result) /\ IsInjective(stack)
      /\ ToSet(result) \cap ToSet(stack) = {}
  BY DEF IInv, EachOnce
<1>6. StackFromFirst /\ StackIsPath /\ DominatorsAround /\ SuccessorsVisited /\ DominatorsLater
  BY <1>1 DEF IInv
<1>7. EachOnce'
  <2>1. TypeOK'
    BY <1>1, <1>3, <1>4, SearchParts DEF TypeOK
  <2>2. \A i \in 1..n : stack[i] # s
    BY <1>1, <1>2, <1>5 DEF ToSet
  <2>3. IsInjective(stack')
    BY <1>2, <1>4, <1>5, <2>2 DEF IsInjective
  <2>4. visited' = ToSet(result') \cup ToSet(stack') /\ ToSet(result') \cap ToSet(stack') = {}
    BY <1>1, <1>4, <1>5
  <2> QED
    BY <1>1, <1>5, <2>1, <2>3, <2>4 DEF EachOnce
<1>8. StackFromFirst'
  BY <1>1, <1>2, <1>4, <1>6 DEF StackFromFirst
<1>9. StackIsPath'
  <2> SUFFICES ASSUME NEW i \in 1..n + 1, NEW j \in 1..n + 1, i <= j
               PROVE  stack'[j] \in ReachableFrom(stack'[i], BBs, graph.edges)
    BY <1>1, <1>3, <1>4 DEF StackIsPath
  <2>1. CASE j <= n
    BY <1>2, <1>4, <1>6, <2>1 DEF StackIsPath
  <2>2. CASE j = n + 1 /\ i <= n
    <3>1. stack[n] \in ReachableFrom(stack[i], BBs, graph.edges)
      BY <1>2, <1>6, <2>2 DEF StackIsPath
    <3>2. s \in ReachableFrom(stack[i], BBs, graph.edges)
      BY <1>1, <1>2, <3>1, ReachesNext
    <3> QED
      BY <1>4, <2>2, <3>2
  <2>3. CASE j = n + 1 /\ i = n + 1
    BY <1>4, <2>3, ReachesItself
  <2> QED
    BY <1>2, <2>1, <2>2, <2>3
<1>10. DominatorsAround'
  <2> SUFFICES ASSUME NEW j \in 1..n + 1, NEW a \in BBs,
                      Dominates(a, stack'[j], graph.first, BBs, graph.edges)
               PROVE  \E i \in 1..j : stack'[i] = a
    BY <1>1, <1>3, <1>4 DEF DominatorsAround
  <2>1. CASE j <= n
    <3>1. PICK i \in 1..j : stack[i] = a
      BY <1>2, <1>4, <1>6, <2>1 DEF DominatorsAround
    <3> QED
      BY <1>2, <1>4, <2>1, <3>1
  <2>2. CASE j = n + 1 /\ a # s
    <3>1. Dominates(a, s, graph.first, BBs, graph.edges)
      BY <1>4, <2>2
    <3>2. Dominates(a, Top, graph.first, BBs, graph.edges)
      BY <1>1, <2>2, <3>1, DominatesPredecessor
    <3>3. PICK i \in 1..n : stack[i] = a
      BY <1>2, <1>6, <3>2 DEF DominatorsAround
    <3> QED
      BY <1>2, <1>4, <2>2, <3>3
  <2>3. CASE j = n + 1 /\ a = s
    BY <1>2, <1>4, <2>3
  <2> QED
    BY <1>2, <2>1, <2>2, <2>3
<1>11. SuccessorsVisited'
  BY <1>1, <1>3, <1>6 DEF SuccessorsVisited
<1>12. DominatorsLater'
  BY <1>1, <1>3, <1>4, <1>6 DEF DominatorsLater
<1>13. SourcesFirst'
  BY <1>1 DEF SourcesFirst
<1> QED
  BY <1>1, <1>7, <1>8, <1>9, <1>10, <1>11, <1>12, <1>13 DEF IInv

\* The innermost call returns: its block goes from the stack to the result, all
\* its successors visited.
LEMMA CallbackIInv ==
  ASSUME IInv, Callback
  PROVE  IInv'
<1>1. /\ pc = "dfs" /\ pc' = "dfs" /\ graph' = graph /\ visited' = visited
      /\ stack # <<>> /\ stack' = Front(stack) /\ result' = Append(result, Top)
      /\ \A s \in BBs : <<Top, s>> \in graph.edges => s \in visited
  BY DEF Callback, Unvisited
<1> DEFINE n == Len(stack)
           k == Len(result)
<1>2. /\ n \in Nat \ {0} /\ n \in DOMAIN stack /\ DOMAIN stack = 1..n
      /\ Top = stack[n] /\ Top \in BBs
  BY <1>1, TopParts, SearchParts
<1>3. BBs' = BBs
  BY <1>1 DEF BBs
<1>4. /\ stack' \in Seq(BBs) /\ DOMAIN stack' = 1..n - 1 /\ Len(stack') = n - 1
      /\ \A i \in 1..n - 1 : stack'[i] = stack[i]
      /\ ToSet(stack) = ToSet(stack') \cup {Top}
  BY <1>1, <1>2, SearchParts, FrontParts
<1>5. /\ result' \in Seq(BBs) /\ DOMAIN result' = 1..k + 1
      /\ k \in Nat /\ DOMAIN result = 1..k
      /\ \A i \in 1..k : result'[i] = result[i]
      /\ result'[k + 1] = Top
      /\ ToSet(result') = ToSet(result) \cup {Top}
  BY <1>1, <1>2, SearchParts, AppendParts
<1>6. /\ visited = ToSet(result) \cup ToSet(stack)
      /\ IsInjective(result) /\ IsInjective(stack)
      /\ ToSet(result) \cap ToSet(stack) = {}
  BY DEF IInv, EachOnce
<1>7. StackFromFirst /\ StackIsPath /\ DominatorsAround /\ SuccessorsVisited /\ DominatorsLater
  BY <1>1 DEF IInv
<1>8. EachOnce'
  <2>1. TypeOK'
    BY <1>1, <1>3, <1>4, <1>5, SearchParts DEF TypeOK
  <2>2. \A i \in 1..n - 1 : stack[i] # Top
    BY <1>2, <1>6 DEF IsInjective
  <2>3. Top \notin ToSet(stack')
    BY <1>4, <2>2 DEF ToSet
  <2>4. \A i \in 1..k : result[i] # Top
    BY <1>2, <1>5, <1>6 DEF ToSet
  <2>5. IsInjective(stack')
    BY <1>2, <1>4, <1>6 DEF IsInjective
  <2>6. IsInjective(result')
    BY <1>5, <1>6, <2>4 DEF IsInjective
  <2>7. /\ visited' = ToSet(result') \cup ToSet(stack')
        /\ ToSet(result') \cap ToSet(stack') = {}
    BY <1>1, <1>4, <1>5, <1>6, <2>3
  <2> QED
    BY <2>1, <2>5, <2>6, <2>7 DEF EachOnce
<1>9. StackFromFirst'
  <2> SUFFICES ASSUME stack' # <<>>
               PROVE  stack'[1] = graph.first
    BY <1>1 DEF StackFromFirst
  <2>1. 1 \in 1..n - 1
    BY <1>2, <1>4, EmptySeq
  <2> QED
    BY <1>1, <1>4, <1>7, <2>1 DEF StackFromFirst
<1>10. StackIsPath'
  BY <1>1, <1>2, <1>3, <1>4, <1>7 DEF StackIsPath
<1>11. DominatorsAround'
  <2>1. ASSUME NEW j \in 1..n - 1, NEW a \in BBs,
               Dominates(a, stack[j], graph.first, BBs, graph.edges)
        PROVE  \E i \in 1..j : stack'[i] = a
    <3>1. j \in 1..n /\ j \in DOMAIN stack
      BY <1>2
    <3>2. PICK i \in 1..j : stack[i] = a
      BY <1>7, <2>1, <3>1 DEF DominatorsAround
    <3>3. i \in 1..n - 1
      BY <1>2, <2>1, <3>2
    <3>4. stack'[i] = a
      BY <1>4, <3>2, <3>3
    <3> QED
      BY <3>2, <3>4
  <2>2. \A j \in DOMAIN stack' : j \in 1..n - 1 /\ stack'[j] = stack[j]
    BY <1>4
  <2> QED
    BY <1>1, <1>3, <2>1, <2>2 DEF DominatorsAround
<1>12. SuccessorsVisited'
  <2> SUFFICES ASSUME NEW m \in 1..k + 1, NEW s \in BBs,
                      <<result'[m], s>> \in graph.edges,
                      result'[m] \notin ReachableFrom(s, BBs, graph.edges)
               PROVE  \E l \in 1..m - 1 : result'[l] = s
    BY <1>1, <1>3, <1>5 DEF SuccessorsVisited
  <2>1. CASE m <= k
    <3>1. PICK l \in 1..m - 1 : result[l] = s
      BY <1>5, <1>7, <2>1 DEF SuccessorsVisited
    <3> QED
      BY <1>5, <2>1, <3>1
  <2>2. CASE m = k + 1
    <3>1. s \in ToSet(result) \cup ToSet(stack)
      BY <1>1, <1>5, <1>6, <2>2
    <3>2. ASSUME NEW i \in 1..n, stack[i] = s
          PROVE  FALSE
      BY <1>2, <1>5, <1>7, <2>2, <3>2 DEF StackIsPath
    <3>3. PICK l \in 1..k : result[l] = s
      BY <1>2, <1>5, <3>1, <3>2 DEF ToSet
    <3> QED
      BY <1>5, <2>2, <3>3
  <2> QED
    BY <1>5, <2>1, <2>2
<1>13. DominatorsLater'
  <2> SUFFICES ASSUME NEW m \in 1..k + 1, NEW a \in BBs, a # result'[m],
                      Dominates(a, result'[m], graph.first, BBs, graph.edges),
                      a \notin ToSet(stack')
               PROVE  \E l \in 1..k + 1 : m < l /\ result'[l] = a
    BY <1>1, <1>3, <1>5 DEF DominatorsLater
  <2>1. CASE m <= k
    <3>1. CASE a = Top
      BY <1>5, <2>1, <3>1
    <3>2. CASE a # Top
      <4>1. a \notin ToSet(stack)
        BY <1>4, <3>2
      <4>2. PICK l \in 1..k : m < l /\ result[l] = a
        BY <1>5, <1>7, <2>1, <4>1 DEF DominatorsLater
      <4> QED
        BY <1>5, <4>2
    <3> QED
      BY <3>1, <3>2
  <2>2. CASE m = k + 1
    <3>1. PICK i \in 1..n : stack[i] = a
      BY <1>2, <1>5, <1>7, <2>2 DEF DominatorsAround
    <3>2. i \in 1..n - 1
      BY <1>2, <1>5, <2>2, <3>1
    <3> QED
      BY <1>4, <3>1, <3>2 DEF ToSet
  <2> QED
    BY <1>5, <2>1, <2>2
<1>14. SourcesFirst'
  BY <1>1 DEF SourcesFirst
<1> QED
  BY <1>1, <1>8, <1>9, <1>10, <1>11, <1>12, <1>13, <1>14, SearchParts DEF IInv

\* The whole graph has been visited and RPO turns the result round: what came
\* later in it now comes before.
LEMMA FinishIInv ==
  ASSUME IInv, Finish
  PROVE  IInv'
<1>1. /\ pc = "dfs" /\ stack = <<>> /\ graph' = graph /\ stack' = stack /\ visited' = visited
  BY DEF Finish
<1>2. BBs' = BBs
  BY <1>1 DEF BBs
<1> DEFINE k == Len(result)
<1>3. /\ result \in Seq(BBs) /\ k \in Nat /\ DOMAIN result = 1..k
      /\ graph \in Graphs /\ visited \subseteq BBs /\ stack \in Seq(BBs)
  BY SearchParts
<1>4. /\ visited = ToSet(result) \cup ToSet(stack) /\ ToSet(stack) = {}
      /\ IsInjective(result) /\ IsInjective(stack)
      /\ ToSet(result) \cap ToSet(stack) = {}
  BY <1>1 DEF IInv, EachOnce, ToSet
<1>5. CASE Cardinality(visited) = Cardinality(BBs)
  <2>1. pc' = "done" /\ result' = Reverse(result)
    BY <1>5 DEF Finish
  <2>2. /\ result' \in Seq(BBs) /\ DOMAIN result' = 1..k
        /\ \A i \in 1..k : result'[k - i + 1] = result[i]
        /\ ToSet(result') = ToSet(result)
        /\ IsInjective(result')
    BY <1>3, <1>4, <2>1, ReverseParts
  <2>3. BBs = ToSet(result)
    BY <1>4, <1>5, SearchParts, FS_Subset
  <2>4. EachOnce'
    BY <1>1, <1>2, <1>3, <1>4, <2>1, <2>2 DEF EachOnce, TypeOK
  <2>5. ASSUME NEW a, NEW b, NEW m \in 1..k, NEW l \in 1..k,
               l < m, result[m] = a, result[l] = b
        PROVE  Before(a, b)'
    <3>1. /\ k - m + 1 \in 1..k /\ k - l + 1 \in 1..k /\ k - m + 1 < k - l + 1
      BY <1>3, <2>5
    <3>2. result'[k - m + 1] = a /\ result'[k - l + 1] = b
      BY <2>2, <2>5
    <3>3. \E x, y \in DOMAIN result' : x < y /\ result'[x] = a /\ result'[y] = b
      BY <2>2, <3>1, <3>2
    <3> QED
      BY <3>3 DEF Before
  <2>6. ASSUME NEW e \in graph.edges, e[1] \notin ReachableFrom(e[2], BBs, graph.edges)
        PROVE  Before(e[1], e[2])'
    <3>1. PICK a \in BBs, b \in BBs : e = <<a, b>>
      BY SearchParts
    <3>2. PICK m \in 1..k : result[m] = a
      BY <1>3, <2>3 DEF ToSet
    <3>3. PICK l \in 1..m - 1 : result[l] = b
      BY <1>1, <1>3, <2>6, <3>1, <3>2 DEF IInv, SuccessorsVisited
    <3>4. l \in 1..k /\ l < m
      BY <1>3, <3>3
    <3>5. Before(a, b)'
      BY <2>5, <3>2, <3>3, <3>4
    <3> QED
      BY <3>1, <3>5
  <2>7. ASSUME NEW a \in BBs, NEW b \in BBs, a # b,
               Dominates(a, b, graph.first, BBs, graph.edges)
        PROVE  Before(a, b)'
    <3>1. PICK l \in 1..k : result[l] = b
      BY <1>3, <2>3 DEF ToSet
    <3>2. PICK m \in 1..k : l < m /\ result[m] = a
      BY <1>1, <1>3, <1>4, <2>7, <3>1 DEF IInv, DominatorsLater
    <3> QED
      BY <2>5, <3>1, <3>2
  <2>8. SourcesFirst'
    BY <1>1, <1>2, <2>6, <2>7 DEF SourcesFirst
  <2> QED
    BY <1>1, <1>3, <2>1, <2>4, <2>8 DEF IInv
<1>6. CASE Cardinality(visited) # Cardinality(BBs)
  BY <1>1, <1>2, <1>3, <1>4, <1>6 DEF Finish, IInv, EachOnce, TypeOK, SourcesFirst
<1> QED
  BY <1>5, <1>6

-----------------------------------------------------------------------------
LEMMA StutterIInv ==
  ASSUME IInv, UNCHANGED vars
  PROVE  IInv'
<1>1. /\ graph' = graph /\ stack' = stack /\ visited' = visited /\ result' = result /\ pc' = pc
  BY DEF vars
<1>2. BBs' = BBs
  BY <1>1 DEF BBs
<1>3. EachOnce'
  BY <1>1, <1>2 DEF IInv, EachOnce, TypeOK
<1>4. pc' = "dfs" => /\ StackFromFirst' /\ StackIsPath' /\ DominatorsAround'
                     /\ SuccessorsVisited' /\ DominatorsLater'
  BY <1>1, <1>2
  DEF IInv, StackFromFirst, StackIsPath, DominatorsAround, SuccessorsVisited, DominatorsLater
<1>5. SourcesFirst'
  BY <1>1, <1>2 DEF IInv, SourcesFirst, Before
<1> QED
  BY <1>1, <1>3, <1>4, <1>5 DEF IInv

\* The invariant is inductive.
THEOREM Invariance == Spec => []IInv
<1>1. Init => IInv
  BY InitIInv
<1>2. IInv /\ [Next]_vars => IInv'
  <2> SUFFICES ASSUME IInv, [Next]_vars
               PROVE  IInv'
    OBVIOUS
  <2>1. ASSUME NEW s \in BBs, ExecuteDFS(s)
        PROVE  IInv'
    BY <2>1, ExecuteDFSIInv
  <2>2. CASE Callback
    BY <2>2, CallbackIInv
  <2>3. CASE Finish
    BY <2>3, FinishIInv
  <2>4. CASE UNCHANGED vars
    BY <2>4, StutterIInv
  <2> QED
    BY <2>1, <2>2, <2>3, <2>4 DEF Next
<1> QED
  BY <1>1, <1>2, PTL DEF Spec

\* ExecuteDFS gives the callback no block twice, on any graph.
THEOREM VisitedOnce == Spec => []EachOnce
<1>1. IInv => EachOnce
  BY DEF IInv
<1> QED
  BY <1>1, Invariance, PTL

\* RPO puts sources of edges that close no cycle, and dominators, first, for
\* every graph and every order of successors.
THEOREM OrderCorrect == Spec => []SourcesFirst
<1>1. IInv => SourcesFirst
  BY DEF IInv
<1> QED
  BY <1>1, Invariance, PTL
=============================================================================
