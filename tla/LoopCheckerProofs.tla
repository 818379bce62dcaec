------------------------- MODULE LoopCheckerProofs -------------------------
EXTENDS LoopChecker, FlowGraphProofs, SequenceTheorems

Activation == [bb : BBs, next : Nat \ {0}]

\* Before the first call there is no loop.
NothingYet == runs = 0 => pc = "idle" /\ loops = <<>> /\ loopOf = [b \in BBs |-> NoLoop]

\* During the search a block is on the stack once, and grey while it is.
SearchState ==
  /\ grey = {stack[k].bb : k \in DOMAIN stack}
  /\ grey \cap black = {}
  /\ \A j, k \in DOMAIN stack : stack[j].bb = stack[k].bb => j = k

\* The search has looked at an edge from s to the header: if s is still on the
\* stack it looks at a later successor.
Passed(s, header) ==
  \E i \in DOMAIN graph.succs[s] :
    /\ graph.succs[s][i] = header
    /\ \A k \in DOMAIN stack : stack[k].bb = s => i < stack[k].next

\* In the first call, a block that points to a loop is its header, and what is
\* recorded as a back edge has been passed.
BackEdgesPassed ==
  /\ \A b \in BBs : loopOf[b] # NoLoop => loops[loopOf[b]].header = b
  /\ \A l \in DOMAIN loops : \A s \in loops[l].backEdges :
       s \in grey \cup black /\ Passed(s, loops[l].header)

IInv ==
  /\ graph \in Graphs
  /\ TypeOK
  /\ stack \in Seq(Activation) /\ loops \in Seq(LoopRec)
  /\ NothingYet
  /\ pc = "dfs" => SearchState
  /\ pc = "dfs" /\ runs = 1 => BackEdgesPassed
  /\ AbortsExplained

\* The facts about the state the steps below start from.
LEMMA StateParts ==
  ASSUME IInv
  PROVE  /\ graph \in Graphs /\ BBs \subseteq Nat /\ graph.first \in BBs
         /\ graph.succs \in [BBs -> Seq(BBs)] /\ NoBB \notin BBs
         /\ runs \in 0..MaxRuns /\ MaxRuns \in Nat
         /\ stack \in Seq(Activation) /\ Len(stack) \in Nat /\ DOMAIN stack = 1..Len(stack)
         /\ \A k \in DOMAIN stack : stack[k] \in Activation
         /\ grey \subseteq BBs /\ black \subseteq BBs /\ dfsBlocks \in Seq(BBs)
         /\ loops \in Seq(LoopRec) /\ Len(loops) \in Nat /\ DOMAIN loops = 1..Len(loops)
         /\ \A l \in DOMAIN loops : loops[l] \in LoopRec
         /\ firstLoop \in 0..Len(loops) /\ loopOf \in [BBs -> 0..Len(loops)]
<1>1. graph \in Graphs /\ TypeOK /\ stack \in Seq(Activation) /\ loops \in Seq(LoopRec)
  BY DEF IInv
<1>2. /\ BBs \subseteq Nat /\ graph.first \in BBs
      /\ graph.succs \in [BBs -> Seq(BBs)] /\ NoBB \notin BBs
  BY <1>1, GraphAssumption DEF BBs
<1>3. /\ Len(stack) \in Nat /\ DOMAIN stack = 1..Len(stack)
      /\ Len(loops) \in Nat /\ DOMAIN loops = 1..Len(loops)
  BY <1>1, LenProperties
<1>4. /\ \A k \in DOMAIN stack : stack[k] \in Activation
      /\ \A l \in DOMAIN loops : loops[l] \in LoopRec
  BY <1>1, <1>3, ElementOfSeq
<1> QED
  BY <1>1, <1>2, <1>3, <1>4, RunsAssumption DEF TypeOK

\* The innermost activation.
LEMMA TopParts ==
  ASSUME IInv, Searching
  PROVE  /\ Len(stack) \in Nat \ {0} /\ Len(stack) \in DOMAIN stack
         /\ Top = stack[Len(stack)] /\ Top \in Activation
         /\ Top.bb \in BBs /\ Top.next \in Nat \ {0}
<1>1. Len(stack) \in Nat \ {0} /\ Len(stack) \in DOMAIN stack
  <2>1. Len(stack) # 0
    BY StateParts, EmptySeq DEF Searching
  <2> QED
    BY <2>1, StateParts
<1>2. Top = stack[Len(stack)] /\ Top \in Activation
  BY <1>1, StateParts DEF Top
<1> QED
  BY <1>1, <1>2 DEF Activation

\* The successor it looks at.
LEMMA SuccParts ==
  ASSUME IInv, Searching, HasNext
  PROVE  /\ graph.succs[Top.bb] \in Seq(BBs)
         /\ Top.next \in DOMAIN graph.succs[Top.bb]
         /\ Succ = graph.succs[Top.bb][Top.next] /\ Succ \in BBs
<1>1. graph.succs[Top.bb] \in Seq(BBs)
  BY TopParts, StateParts
<1>2. Top.next \in 1..Len(graph.succs[Top.bb])
  BY <1>1, TopParts, LenProperties DEF HasNext
<1> QED
  BY <1>1, <1>2, LenProperties, ElementOfSeq DEF Succ

\* It goes to its next successor.
LEMMA AdvancedParts ==
  ASSUME IInv, Searching
  PROVE  /\ Advanced \in Seq(Activation)
         /\ Len(Advanced) = Len(stack) /\ DOMAIN Advanced = DOMAIN stack
         /\ \A k \in DOMAIN stack : /\ Advanced[k].bb = stack[k].bb
                                    /\ Advanced[k].next \in Nat
                                    /\ stack[k].next <= Advanced[k].next
         /\ Advanced[Len(stack)].next = Top.next + 1
<1> DEFINE n == Len(stack)
           e == [stack[n] EXCEPT !.next = @ + 1]
<1>1. /\ n \in Nat \ {0} /\ n \in DOMAIN stack /\ DOMAIN stack = 1..n
      /\ stack[n] \in Activation /\ Top = stack[n]
  BY TopParts, StateParts
<1>2. e \in Activation /\ e.bb = stack[n].bb /\ e.next = stack[n].next + 1
  BY <1>1 DEF Activation
<1>3. Advanced = [stack EXCEPT ![n] = e]
  BY DEF Advanced
<1>4. /\ Advanced \in Seq(Activation) /\ Len(Advanced) = n
      /\ \A k \in 1..n : Advanced[k] = IF k = n THEN e ELSE stack[k]
  BY <1>1, <1>2, <1>3, StateParts, ExceptSeq
<1>5. DOMAIN Advanced = 1..n
  BY <1>4, LenProperties
<1>6. \A k \in 1..n : stack[k].next \in Nat
  BY <1>1, StateParts DEF Activation
<1>7. \A k \in 1..n : /\ Advanced[k].bb = stack[k].bb /\ Advanced[k].next \in Nat
                      /\ stack[k].next <= Advanced[k].next
  <2> TAKE k \in 1..n
  <2>1. CASE k = n
    <3>1. Advanced[k] = e /\ stack[k].next \in Nat /\ stack[k].bb = stack[n].bb
      BY <1>1, <1>4, <1>6, <2>1
    <3> HIDE DEF e
    <3> QED
      BY <1>2, <2>1, <3>1
  <2>2. CASE k # n
    <3>1. Advanced[k] = stack[k]
      BY <1>4, <2>2
    <3> QED
      BY <1>6, <3>1
  <2> QED
    BY <2>1, <2>2
<1>8. Advanced[n].next = Top.next + 1
  BY <1>1, <1>2, <1>4
<1> QED
  BY <1>1, <1>4, <1>5, <1>7, <1>8

LEMMA InitIInv == Init => IInv
<1> SUFFICES ASSUME Init
             PROVE  IInv
  OBVIOUS
<1>1. /\ graph \in Graphs /\ runs = 0 /\ pc = "idle" /\ stack = <<>>
      /\ grey = {} /\ black = {} /\ dfsBlocks = <<>>
      /\ loops = <<>> /\ firstLoop = 0 /\ loopOf = [b \in BBs |-> NoLoop]
  BY DEF Init
<1>2. /\ stack \in Seq(Activation) /\ loops \in Seq(LoopRec) /\ dfsBlocks \in Seq(BBs)
      /\ DOMAIN stack = {} /\ DOMAIN loops = {} /\ Len(loops) = 0
  BY <1>1
<1>3. TypeOK
  BY <1>1, <1>2, RunsAssumption DEF TypeOK, NoLoop
<1> QED
  BY <1>1, <1>2, <1>3 DEF IInv, NothingYet, AbortsExplained

-----------------------------------------------------------------------------
\* A new call starts from a stack of one activation; it is the first one only if
\* nothing has been found yet.
LEMMA VerifyGraphLoopsIInv ==
  ASSUME IInv, VerifyGraphLoops
  PROVE  IInv'
<1>1. /\ runs < MaxRuns /\ runs' = runs + 1
      /\ graph' = graph /\ loops' = loops /\ loopOf' = loopOf
      /\ pc' = IF Accepted THEN "dfs" ELSE "aborted"
      /\ stack' = <<[bb |-> graph.first, next |-> 1]>>
      /\ grey' = {graph.first} /\ black' = {} /\ dfsBlocks' = <<>> /\ firstLoop' = Len(loops)
  BY DEF VerifyGraphLoops, Start
<1>2. BBs' = BBs /\ LoopRec' = LoopRec /\ Activation' = Activation
  BY <1>1 DEF BBs, LoopRec, Activation
<1>3. /\ stack' \in Seq(Activation) /\ DOMAIN stack' = {1} /\ stack'[1].bb = graph.first
      /\ stack'[1] \in Activation
  <2>1. [bb |-> graph.first, next |-> 1] \in Activation
    BY StateParts DEF Activation
  <2> QED
    BY <1>1, <2>1
<1>4. TypeOK'
  <2>1. runs' \in 0..MaxRuns /\ firstLoop' \in 0..Len(loops')
    BY <1>1, StateParts
  <2>2. \A k \in DOMAIN stack' : stack'[k].bb \in BBs /\ stack'[k].next \in Nat
    BY <1>3 DEF Activation
  <2> QED
    BY <1>1, <1>2, <2>1, <2>2, StateParts DEF TypeOK
<1>5. NothingYet'
  BY <1>1, StateParts DEF NothingYet
<1>6. SearchState'
  BY <1>1, <1>3 DEF SearchState
<1>7. runs' = 1 => BackEdgesPassed'
  BY <1>1, <1>2, StateParts DEF IInv, NothingYet, BackEdgesPassed, NoLoop
<1>8. AbortsExplained'
  BY <1>1, <1>2 DEF AbortsExplained, Accepted, Whole, EdgesOf
<1> QED
  BY <1>1, <1>2, <1>3, <1>4, <1>5, <1>6, <1>7, <1>8, StateParts DEF IInv

-----------------------------------------------------------------------------
(* The steps of the search that stay in the same activation.                 *)

LEMMA AdvancedSearchState ==
  ASSUME IInv, Searching, stack' = Advanced, grey' = grey, black' = black
  PROVE  SearchState'
<1>1. SearchState
  BY DEF IInv, Searching
<1>2. DOMAIN Advanced = DOMAIN stack /\ \A k \in DOMAIN stack : Advanced[k].bb = stack[k].bb
  BY AdvancedParts
<1> QED
  BY <1>1, <1>2 DEF SearchState

LEMMA AdvancedPast ==
  ASSUME IInv, Searching, NEW s \in BBs, NEW header, Passed(s, header)
  PROVE  \E i \in DOMAIN graph.succs[s] :
           /\ graph.succs[s][i] = header
           /\ \A k \in DOMAIN Advanced : Advanced[k].bb = s => i < Advanced[k].next
<1>1. PICK i \in DOMAIN graph.succs[s] :
        /\ graph.succs[s][i] = header
        /\ \A k \in DOMAIN stack : stack[k].bb = s => i < stack[k].next
  BY DEF Passed
<1>2. i \in Nat
  <2>1. graph.succs[s] \in Seq(BBs)
    BY StateParts
  <2>2. DOMAIN graph.succs[s] = 1..Len(graph.succs[s])
    BY <2>1, LenProperties
  <2> QED
    BY <1>1, <2>2
<1>3. ASSUME NEW k \in DOMAIN stack, Advanced[k].bb = s
      PROVE  i < Advanced[k].next
  <2>1. /\ stack[k].bb = s /\ stack[k].next \in Nat /\ Advanced[k].next \in Nat
        /\ stack[k].next <= Advanced[k].next
    BY <1>3, AdvancedParts, StateParts DEF Activation
  <2>2. i < stack[k].next
    BY <1>1, <2>1
  <2> QED
    BY <1>2, <2>1, <2>2
<1> QED
  BY <1>1, <1>3, AdvancedParts

LEMMA AdvancedPassed ==
  ASSUME IInv, Searching, stack' = Advanced, graph' = graph,
         NEW s \in BBs, NEW header, Passed(s, header)
  PROVE  Passed(s, header)'
BY AdvancedPast DEF Passed

LEMMA AdvancedBackEdges ==
  ASSUME IInv, Searching, stack' = Advanced, graph' = graph, runs = 1,
         NEW l \in DOMAIN loops, NEW s \in loops[l].backEdges,
         NEW header, header = loops[l].header
  PROVE  s \in BBs /\ s \in grey \cup black /\ Passed(s, header)'
<1>1. BackEdgesPassed
  BY DEF IInv, Searching
<1>2. s \in BBs /\ s \in grey \cup black /\ Passed(s, header)
  BY <1>1, StateParts DEF BackEdgesPassed, LoopRec
<1> QED
  BY <1>2, AdvancedPassed

LEMMA SkipBlackIInv ==
  ASSUME IInv, SkipBlack
  PROVE  IInv'
<1>1. /\ Searching /\ stack' = Advanced
      /\ graph' = graph /\ runs' = runs /\ pc' = pc /\ grey' = grey /\ black' = black
      /\ dfsBlocks' = dfsBlocks /\ loops' = loops /\ firstLoop' = firstLoop /\ loopOf' = loopOf
  BY DEF SkipBlack
<1>2. BBs' = BBs /\ LoopRec' = LoopRec /\ Activation' = Activation /\ pc = "dfs"
  BY <1>1 DEF BBs, LoopRec, Activation, Searching
<1>3. stack' \in Seq(Activation)
  BY <1>1, AdvancedParts
<1>4. TypeOK'
  BY <1>1, <1>2, AdvancedParts, StateParts DEF TypeOK, Activation, IInv
<1>5. SearchState'
  BY <1>1, AdvancedSearchState
<1>6. runs = 1 => BackEdgesPassed'
  <2> SUFFICES ASSUME runs = 1
               PROVE  BackEdgesPassed'
    OBVIOUS
  <2>1. BackEdgesPassed
    BY <1>2 DEF IInv
  <2>2. ASSUME NEW l \in DOMAIN loops, NEW s \in loops[l].backEdges,
               NEW header, header = loops[l].header
        PROVE  s \in grey \cup black /\ Passed(s, header)'
    BY <1>1, <2>2, AdvancedBackEdges
  <2> QED
    BY <1>1, <1>2, <2>1, <2>2 DEF BackEdgesPassed
<1> QED
  BY <1>1, <1>2, <1>3, <1>4, <1>5, <1>6, StateParts DEF IInv, NothingYet, AbortsExplained

-----------------------------------------------------------------------------
\* A block that was not met before goes on the stack; no back edge that was
\* recorded starts there.
LEMMA DiscoverBackEdgesIInv ==
  ASSUME IInv, DiscoverBackEdges
  PROVE  IInv'
<1>1. /\ Searching /\ HasNext /\ Succ \notin grey /\ Succ \notin black
      /\ stack' = Append(Advanced, [bb |-> Succ, next |-> 1]) /\ grey' = grey \cup {Succ}
      /\ graph' = graph /\ runs' = runs /\ pc' = pc /\ black' = black
      /\ dfsBlocks' = dfsBlocks /\ loops' = loops /\ firstLoop' = firstLoop /\ loopOf' = loopOf
  BY DEF DiscoverBackEdges
<1> DEFINE n == Len(stack)
           new == [bb |-> Succ, next |-> 1]
<1>2. BBs' = BBs /\ LoopRec' = LoopRec /\ Activation' = Activation /\ pc = "dfs"
  BY <1>1 DEF BBs, LoopRec, Activation, Searching
<1>3. /\ n \in Nat \ {0} /\ DOMAIN stack = 1..n /\ Succ \in BBs
  BY <1>1, TopParts, StateParts, SuccParts
<1>4. new \in Activation /\ new.bb = Succ
  BY <1>3 DEF Activation
<1>5. /\ stack' \in Seq(Activation) /\ Len(stack') = n + 1 /\ DOMAIN stack' = 1..n + 1
      /\ \A k \in 1..n : stack'[k] = Advanced[k] /\ stack'[k].bb = stack[k].bb
      /\ stack'[n + 1].bb = Succ
  <2>1. Advanced \in Seq(Activation) /\ Len(Advanced) = n
    BY <1>1, AdvancedParts
  <2>2. /\ stack' \in Seq(Activation) /\ Len(stack') = n + 1
        /\ \A k \in 1..n : stack'[k] = Advanced[k]
        /\ stack'[n + 1] = new
    <3> HIDE DEF new
    <3> QED
      BY <1>1, <1>4, <2>1 DEF new
  <2>3. DOMAIN stack' = 1..n + 1
    BY <2>2, LenProperties
  <2> QED
    BY <1>1, <1>3, <1>4, <2>2, <2>3, AdvancedParts
<1>6. TypeOK'
  <2>1. \A k \in DOMAIN stack' : stack'[k] \in Activation
    BY <1>3, <1>5, ElementOfSeq
  <2>2. \A k \in DOMAIN stack' : stack'[k].bb \in BBs /\ stack'[k].next \in Nat
    BY <2>1 DEF Activation
  <2> QED
    BY <1>1, <1>2, <1>3, <2>2, StateParts DEF TypeOK, IInv
<1>7. SearchState'
  <2>1. SearchState
    BY <1>2 DEF IInv
  <2>2. grey' = {stack'[k].bb : k \in DOMAIN stack'}
    <3>1. 1..n + 1 = (1..n) \cup {n + 1}
      BY <1>3
    <3> QED
      BY <1>1, <1>3, <1>5, <2>1, <3>1 DEF SearchState
  <2>3. grey' \cap black' = {}
    BY <1>1, <2>1 DEF SearchState
  <2>4. \A k \in 1..n : stack[k].bb # Succ
    BY <1>1, <1>3, <2>1 DEF SearchState
  <2>5. \A j, k \in DOMAIN stack' : stack'[j].bb = stack'[k].bb => j = k
    BY <1>3, <1>5, <2>1, <2>4 DEF SearchState
  <2> QED
    BY <2>2, <2>3, <2>5 DEF SearchState
<1>8. runs = 1 => BackEdgesPassed'
  <2> SUFFICES ASSUME runs = 1
               PROVE  BackEdgesPassed'
    OBVIOUS
  <2>1. BackEdgesPassed
    BY <1>2 DEF IInv
  <2>2. ASSUME NEW l \in DOMAIN loops, NEW s \in loops[l].backEdges
        PROVE  s \in grey' \cup black' /\ Passed(s, loops[l].header)'
    <3>1. s \in BBs /\ s \in grey \cup black /\ Passed(s, loops[l].header)
      BY <2>1, StateParts DEF BackEdgesPassed, LoopRec
    <3>2. s # Succ
      BY <1>1, <3>1
    <3>3. PICK i \in DOMAIN graph.succs[s] :
            /\ graph.succs[s][i] = loops[l].header
            /\ \A k \in DOMAIN Advanced : Advanced[k].bb = s => i < Advanced[k].next
      BY <1>1, <3>1, AdvancedPast
    <3>4. \A k \in DOMAIN stack' : stack'[k].bb = s => i < stack'[k].next
      BY <1>1, <1>3, <1>5, <3>2, <3>3, AdvancedParts
    <3> QED
      BY <1>1, <3>1, <3>3, <3>4 DEF Passed
  <2> QED
    BY <1>1, <1>2, <2>1, <2>2 DEF BackEdgesPassed
<1> QED
  BY <1>1, <1>2, <1>5, <1>6, <1>7, <1>8, StateParts DEF IInv, NothingYet, AbortsExplained

\* The innermost block passes the edge to its current successor.
LEMMA TopPasses ==
  ASSUME IInv, Searching, HasNext, stack' = Advanced, graph' = graph
  PROVE  Top.bb \in grey /\ \A s, header : s = Top.bb /\ header = Succ => Passed(s, header)'
<1>1. /\ Len(stack) \in DOMAIN stack /\ Top = stack[Len(stack)] /\ Top.next \in Nat
      /\ Top.next \in DOMAIN graph.succs[Top.bb] /\ Succ = graph.succs[Top.bb][Top.next]
  BY TopParts, SuccParts
<1>2. SearchState
  BY DEF IInv, Searching
<1>3. \A k \in DOMAIN stack : Advanced[k].bb = Top.bb => k = Len(stack)
  BY <1>1, <1>2, AdvancedParts DEF SearchState
<1>4. \A k \in DOMAIN Advanced : Advanced[k].bb = Top.bb => Top.next < Advanced[k].next
  BY <1>1, <1>3, AdvancedParts
<1>5. Top.bb \in grey
  BY <1>1, <1>2 DEF SearchState
<1>6. ASSUME NEW s, NEW header, s = Top.bb, header = Succ
      PROVE  Passed(s, header)'
  BY <1>1, <1>4, <1>6 DEF Passed
<1> QED
  BY <1>5, <1>6

\* The first back edge to a header: the new loop is the header's.
LEMMA NewLoopIInv ==
  ASSUME IInv, NewLoop
  PROVE  IInv'
<1> DEFINE m == Len(loops)
           new == [header |-> Succ, backEdges |-> {Top.bb}, basicBlocks |-> {Succ},
                   outer |-> NoLoop, inner |-> {},
                   irreducible |-> IsLoopIrreducible(Succ, Top.bb)]
<1>1. /\ Searching /\ HasNext /\ Succ \in grey /\ loopOf[Succ] = NoLoop
      /\ loops' = Append(loops, new)
      /\ loopOf' = [loopOf EXCEPT ![Succ] = Len(loops')]
      /\ stack' = Advanced
      /\ graph' = graph /\ runs' = runs /\ pc' = pc /\ grey' = grey /\ black' = black
      /\ dfsBlocks' = dfsBlocks /\ firstLoop' = firstLoop
  BY DEF NewLoop
<1>2. BBs' = BBs /\ LoopRec' = LoopRec /\ Activation' = Activation /\ pc = "dfs"
  BY <1>1 DEF BBs, LoopRec, Activation, Searching
<1>3. Succ \in BBs /\ Top.bb \in BBs
  BY <1>1, SuccParts, TopParts
<1>4. new \in LoopRec /\ new.header = Succ /\ new.backEdges = {Top.bb}
  BY <1>3 DEF LoopRec, NoLoop, IsLoopIrreducible
<1>5. /\ loops' \in Seq(LoopRec) /\ Len(loops') = m + 1 /\ DOMAIN loops' = 1..m + 1
      /\ \A l \in 1..m : loops'[l] = loops[l]
      /\ loops'[m + 1] = new
      /\ m \in Nat /\ DOMAIN loops = 1..m
  <2>1. loops \in Seq(LoopRec) /\ m \in Nat /\ DOMAIN loops = 1..m
    BY StateParts
  <2> HIDE DEF new
  <2> QED
    BY <1>1, <1>4, <2>1
<1>6. /\ stack' \in Seq(Activation)
      /\ \A k \in DOMAIN stack' : stack'[k].bb \in BBs /\ stack'[k].next \in Nat
  BY <1>1, AdvancedParts, StateParts DEF Activation
<1>7. TypeOK'
  <2>1. \A l \in DOMAIN loops' : loops'[l] \in LoopRec
    BY <1>4, <1>5, StateParts
  <2>2. loopOf' \in [BBs -> 0..Len(loops')] /\ firstLoop' \in 0..Len(loops')
    <3>1. /\ loopOf \in [BBs -> 0..m] /\ firstLoop \in 0..m
          /\ loopOf' = [loopOf EXCEPT ![Succ] = m + 1]
      BY <1>1, <1>5, StateParts
    <3>2. 0..m \subseteq 0..m + 1 /\ m + 1 \in 0..m + 1
      BY <1>5
    <3> HIDE DEF new
    <3>3. loopOf' \in [BBs -> 0..m + 1]
      BY <3>1, <3>2
    <3>4. firstLoop' \in 0..m + 1
      BY <1>1, <3>1, <3>2
    <3> QED
      BY <1>5, <3>3, <3>4
  <2> QED
    BY <1>1, <1>2, <1>6, <2>1, <2>2, StateParts DEF TypeOK, IInv
<1>8. SearchState'
  BY <1>1, AdvancedSearchState
<1>9. runs = 1 => BackEdgesPassed'
  <2> SUFFICES ASSUME runs = 1
               PROVE  BackEdgesPassed'
    OBVIOUS
  <2>1. BackEdgesPassed
    BY <1>2 DEF IInv
  <2>2. ASSUME NEW b \in BBs, loopOf'[b] # NoLoop
        PROVE  loops'[loopOf'[b]].header = b
    <3>1. CASE b = Succ
      BY <1>1, <1>3, <1>4, <1>5, <3>1, StateParts
    <3>2. CASE b # Succ
      <4>1. loopOf'[b] = loopOf[b]
        BY <1>1, <3>2, StateParts
      <4>2. loopOf[b] \in 1..m
        BY <1>5, <2>2, <4>1, StateParts DEF NoLoop
      <4>3. loops[loopOf[b]].header = b
        BY <2>1, <2>2, <4>1 DEF BackEdgesPassed
      <4> QED
        BY <1>5, <4>1, <4>2, <4>3
    <3> QED
      BY <3>1, <3>2
  <2>3. ASSUME NEW l \in 1..m, NEW s \in loops[l].backEdges,
               NEW header, header = loops[l].header
        PROVE  s \in grey \cup black /\ Passed(s, header)'
    BY <1>1, <1>5, <2>3, AdvancedBackEdges
  <2>4. ASSUME NEW s, NEW header, s = Top.bb, header = Succ
        PROVE  s \in grey \cup black /\ Passed(s, header)'
    BY <1>1, <2>4, TopPasses
  <2>5. ASSUME NEW l \in 1..m + 1, NEW s \in loops'[l].backEdges,
               NEW header, header = loops'[l].header
        PROVE  s \in grey \cup black /\ Passed(s, header)'
    <3>1. CASE l = m + 1
      BY <1>4, <1>5, <2>4, <2>5, <3>1
    <3>2. CASE l \in 1..m
      <4>1. s \in loops[l].backEdges /\ header = loops[l].header
        BY <1>5, <2>5, <3>2
      <4> QED
        BY <2>3, <3>2, <4>1
    <3> QED
      BY <1>5, <3>1, <3>2
  <2>6. \A b \in BBs' : loopOf'[b] # NoLoop => loops'[loopOf'[b]].header = b
    BY <1>2, <2>2
  <2>7. ASSUME NEW k \in DOMAIN loops', NEW s \in loops'[k].backEdges
        PROVE  s \in grey' \cup black' /\ Passed(s, loops[k].header)'
    <3>1. k \in 1..m + 1
      BY <1>5
    <3> QED
      BY <1>1, <2>5, <3>1
  <2> QED
    BY <2>6, <2>7 DEF BackEdgesPassed
<1> QED
  BY <1>1, <1>2, <1>5, <1>6, <1>7, <1>8, <1>9, StateParts
  DEF IInv, NothingYet, AbortsExplained

\* A further back edge to a header.
LEMMA AddBackEdgeIInv ==
  ASSUME IInv, AddBackEdge
  PROVE  IInv'
<1> DEFINE l == loopOf[Succ]
           m == Len(loops)
<1>1. /\ Searching /\ HasNext /\ Succ \in grey /\ l # NoLoop
      /\ loops' = [loops EXCEPT ![l].backEdges = @ \cup {Top.bb},
                                ![l].irreducible = @ \/ IsLoopIrreducible(Succ, Top.bb)]
      /\ stack' = Advanced
      /\ graph' = graph /\ runs' = runs /\ pc' = pc /\ grey' = grey /\ black' = black
      /\ dfsBlocks' = dfsBlocks /\ firstLoop' = firstLoop /\ loopOf' = loopOf
  BY DEF AddBackEdge
<1>2. BBs' = BBs /\ LoopRec' = LoopRec /\ Activation' = Activation /\ pc = "dfs"
  BY <1>1 DEF BBs, LoopRec, Activation, Searching
<1>3. /\ Succ \in BBs /\ Top.bb \in BBs /\ l \in 1..m /\ m \in Nat /\ DOMAIN loops = 1..m
      /\ loops[l] \in LoopRec
  <2>1. m \in Nat /\ DOMAIN loops = 1..m /\ loopOf \in [BBs -> 0..m]
    BY StateParts
  <2>2. Succ \in BBs /\ Top.bb \in BBs
    BY <1>1, SuccParts, TopParts
  <2>3. l \in 0..m /\ l # 0
    BY <1>1, <2>1, <2>2 DEF NoLoop
  <2>4. l \in 1..m
    BY <2>1, <2>3
  <2> QED
    BY <2>1, <2>2, <2>4, StateParts
<1>4. PICK new : /\ loops' = [loops EXCEPT ![l] = new] /\ new \in LoopRec
                 /\ new.header = loops[l].header
                 /\ new.backEdges = loops[l].backEdges \cup {Top.bb}
  <2> DEFINE new == [loops[l] EXCEPT !.backEdges = @ \cup {Top.bb},
                                     !.irreducible = @ \/ IsLoopIrreducible(Succ, Top.bb)]
  <2>1. /\ new \in LoopRec /\ new.header = loops[l].header
        /\ new.backEdges = loops[l].backEdges \cup {Top.bb}
    BY <1>3 DEF LoopRec
  <2>2. loops' = [loops EXCEPT ![l] = new]
    BY <1>1, <1>3, StateParts
  <2> HIDE DEF new
  <2> QED
    BY <2>1, <2>2
<1>5. /\ loops' \in Seq(LoopRec) /\ Len(loops') = m /\ DOMAIN loops' = 1..m
      /\ \A k \in 1..m : loops'[k] = IF k = l THEN new ELSE loops[k]
  <2>1. /\ loops' \in Seq(LoopRec) /\ Len(loops') = m
        /\ \A k \in 1..m : loops'[k] = IF k = l THEN new ELSE loops[k]
    BY <1>3, <1>4, StateParts, ExceptSeq
  <2> QED
    BY <2>1, LenProperties
<1>6. /\ stack' \in Seq(Activation)
      /\ \A k \in DOMAIN stack' : stack'[k].bb \in BBs /\ stack'[k].next \in Nat
  BY <1>1, AdvancedParts, StateParts DEF Activation
<1>7. TypeOK'
  <2>1. \A k \in DOMAIN loops' : loops'[k] \in LoopRec
    BY <1>4, <1>5, StateParts
  <2> QED
    BY <1>1, <1>2, <1>5, <1>6, <2>1, StateParts DEF TypeOK, IInv
<1>8. SearchState'
  BY <1>1, AdvancedSearchState
<1>9. runs = 1 => BackEdgesPassed'
  <2> SUFFICES ASSUME runs = 1
               PROVE  BackEdgesPassed'
    OBVIOUS
  <2>1. BackEdgesPassed
    BY <1>2 DEF IInv
  <2>2. ASSUME NEW b \in BBs, loopOf[b] # NoLoop
        PROVE  loops'[loopOf[b]].header = b
    <3>1. loopOf[b] \in 1..m /\ loops[loopOf[b]].header = b
      <4>1. loopOf[b] \in 0..m
        BY <2>2, StateParts
      <4>2. loops[loopOf[b]].header = b
        BY <2>1, <2>2 DEF BackEdgesPassed
      <4> QED
        BY <1>3, <2>2, <4>1, <4>2 DEF NoLoop
    <3> QED
      BY <1>4, <1>5, <3>1
  <2>3. ASSUME NEW k \in 1..m, NEW s \in loops[k].backEdges,
               NEW header, header = loops[k].header
        PROVE  s \in grey \cup black /\ Passed(s, header)'
    BY <1>1, <1>3, <2>3, AdvancedBackEdges
  <2>4. ASSUME NEW s, NEW header, s = Top.bb, header = loops[l].header
        PROVE  s \in grey \cup black /\ Passed(s, header)'
    <3>1. header = Succ
      BY <1>1, <1>3, <2>1, <2>4 DEF BackEdgesPassed
    <3> QED
      BY <1>1, <2>4, <3>1, TopPasses
  <2>5. ASSUME NEW k \in 1..m, NEW s \in loops'[k].backEdges,
               NEW header, header = loops'[k].header
        PROVE  s \in grey \cup black /\ Passed(s, header)'
    <3>1. header = loops[k].header
      BY <1>4, <1>5, <2>5
    <3>2. s \in loops[k].backEdges \/ (k = l /\ s = Top.bb)
      BY <1>4, <1>5, <2>5
    <3> QED
      BY <2>3, <2>4, <3>1, <3>2
  <2>6. \A b \in BBs' : loopOf'[b] # NoLoop => loops'[loopOf'[b]].header = b
    BY <1>1, <1>2, <2>2
  <2>7. ASSUME NEW k \in DOMAIN loops', NEW s \in loops'[k].backEdges
        PROVE  s \in grey' \cup black' /\ Passed(s, loops[k].header)'
    <3>1. k \in 1..m
      BY <1>5
    <3> QED
      BY <1>1, <2>5, <3>1
  <2> QED
    BY <2>6, <2>7 DEF BackEdgesPassed
<1>10. NothingYet'
  BY <1>1, <1>3, StateParts DEF IInv, NothingYet, NoLoop
<1> QED
  BY <1>1, <1>2, <1>5, <1>6, <1>7, <1>8, <1>9, <1>10, StateParts
  DEF IInv, AbortsExplained

\* A back edge that is recorded already and met again: in the first call it was
\* met at an earlier place among the successors.
LEMMA AddBackEdgeFailsIInv ==
  ASSUME IInv, AddBackEdgeFails
  PROVE  IInv'
<1> DEFINE l == loopOf[Succ]
<1>1. /\ Searching /\ HasNext /\ Succ \in grey
      /\ l # NoLoop /\ Top.bb \in loops[l].backEdges /\ pc' = "aborted"
      /\ graph' = graph /\ runs' = runs /\ stack' = stack /\ grey' = grey /\ black' = black
      /\ dfsBlocks' = dfsBlocks /\ loops' = loops /\ firstLoop' = firstLoop /\ loopOf' = loopOf
  BY DEF AddBackEdgeFails
<1>2. BBs' = BBs /\ LoopRec' = LoopRec /\ Activation' = Activation /\ pc = "dfs"
  BY <1>1 DEF BBs, LoopRec, Activation, Searching
<1>3. TypeOK'
  BY <1>1, <1>2 DEF TypeOK, IInv
<1>4. Succ \in BBs /\ Top.bb \in BBs
  BY <1>1, SuccParts, TopParts
<1>5. l \in DOMAIN loops /\ loops # <<>>
  <2>1. Len(loops) \in Nat /\ DOMAIN loops = 1..Len(loops) /\ l \in 0..Len(loops)
    BY <1>4, StateParts
  <2>2. l \in 1..Len(loops)
    BY <1>1, <2>1 DEF NoLoop
  <2> QED
    BY <2>1, <2>2
<1>6. runs # 0 /\ runs \in Nat
  BY <1>2, StateParts DEF IInv, NothingYet
<1>7. CASE runs = 1
  <2>1. BackEdgesPassed
    BY <1>2, <1>7 DEF IInv
  <2>2. loops[l].header = Succ /\ Passed(Top.bb, loops[l].header)
    BY <1>1, <1>4, <1>5, <2>1 DEF BackEdgesPassed
  <2>3. PICK i \in DOMAIN graph.succs[Top.bb] :
          /\ graph.succs[Top.bb][i] = Succ
          /\ \A k \in DOMAIN stack : stack[k].bb = Top.bb => i < stack[k].next
    BY <2>2 DEF Passed
  <2>4. i < Top.next
    BY <1>1, <2>3, TopParts
  <2>5. i \in 1..Top.next - 1
    <3>1. DOMAIN graph.succs[Top.bb] = 1..Len(graph.succs[Top.bb])
      BY <1>4, StateParts, LenProperties
    <3> QED
      BY <1>1, <2>3, <2>4, <3>1, TopParts
  <2>6. ParallelBackEdges
    BY <1>1, <2>3, <2>5 DEF ParallelBackEdges
  <2>7. ParallelBackEdges'
    BY <1>1, <2>6 DEF ParallelBackEdges, Top, Succ
  <2> QED
    BY <1>1, <1>2, <1>3, <1>6, <2>7, StateParts DEF IInv, NothingYet, AbortsExplained
<1>8. CASE runs # 1
  <2>1. runs > 1
    BY <1>6, <1>8
  <2> QED
    BY <1>1, <1>2, <1>3, <1>5, <1>6, <2>1, StateParts DEF IInv, NothingYet, AbortsExplained
<1> QED
  BY <1>7, <1>8

\* A block is left: it is black instead of grey.
LEMMA LeaveIInv ==
  ASSUME IInv, Leave
  PROVE  IInv'
<1> DEFINE n == Len(stack)
<1>1. /\ Searching /\ grey' = grey \ {Top.bb} /\ black' = black \cup {Top.bb}
      /\ dfsBlocks' = Append(dfsBlocks, Top.bb) /\ stack' = Front(stack)
      /\ pc' \in {"organize", pc}
      /\ graph' = graph /\ runs' = runs
      /\ loops' = loops /\ firstLoop' = firstLoop /\ loopOf' = loopOf
  BY DEF Leave
<1>2. BBs' = BBs /\ LoopRec' = LoopRec /\ Activation' = Activation /\ pc = "dfs"
  BY <1>1 DEF BBs, LoopRec, Activation, Searching
<1>3. /\ n \in Nat \ {0} /\ DOMAIN stack = 1..n /\ Top = stack[n] /\ Top.bb \in BBs
  BY <1>1, TopParts, StateParts
<1>4. /\ stack' \in Seq(Activation) /\ DOMAIN stack' = 1..n - 1
      /\ \A k \in 1..n - 1 : stack'[k] = stack[k]
  <2>1. \A k \in 1..n - 1 : stack[k] \in Activation
    BY <1>3, StateParts
  <2>2. /\ stack' \in Seq(Activation) /\ Len(stack') = n - 1
        /\ \A k \in 1..n - 1 : stack'[k] = stack[k]
    BY <1>1, <1>3, <2>1, SubSeqProperties DEF Front
  <2> QED
    BY <2>2, LenProperties
<1>5. TypeOK'
  <2>1. \A k \in DOMAIN stack' : stack'[k].bb \in BBs /\ stack'[k].next \in Nat
    <3>1. \A k \in 1..n - 1 : stack'[k] \in Activation
      BY <1>3, <1>4, StateParts
    <3> QED
      BY <1>4, <3>1 DEF Activation
  <2>2. dfsBlocks' \in Seq(BBs) /\ grey' \subseteq BBs /\ black' \subseteq BBs
    BY <1>1, <1>3, StateParts
  <2> QED
    BY <1>1, <1>2, <2>1, <2>2, StateParts DEF TypeOK, IInv
<1>6. SearchState
  BY <1>2 DEF IInv
<1>7. SearchState'
  <2>1. \A k \in 1..n - 1 : stack[k].bb # Top.bb
    BY <1>3, <1>6 DEF SearchState
  <2>2. grey' = {stack'[k].bb : k \in DOMAIN stack'}
    <3>1. 1..n = (1..n - 1) \cup {n}
      BY <1>3
    <3>2. {stack'[k].bb : k \in DOMAIN stack'} = {stack[k].bb : k \in 1..n - 1}
      BY <1>4
    <3>3. grey = {stack[k].bb : k \in 1..n - 1} \cup {Top.bb}
      BY <1>3, <1>6, <3>1 DEF SearchState
    <3>4. Top.bb \notin {stack[k].bb : k \in 1..n - 1}
      BY <2>1
    <3> QED
      BY <1>1, <3>2, <3>3, <3>4
  <2>3. grey' \cap black' = {}
    BY <1>1, <1>6 DEF SearchState
  <2>4. \A j, k \in DOMAIN stack' : stack'[j].bb = stack'[k].bb => j = k
    BY <1>3, <1>4, <1>6 DEF SearchState
  <2> QED
    BY <2>2, <2>3, <2>4 DEF SearchState
<1>8. runs = 1 => BackEdgesPassed'
  <2> SUFFICES ASSUME runs = 1
               PROVE  BackEdgesPassed'
    OBVIOUS
  <2>1. BackEdgesPassed
    BY <1>2 DEF IInv
  <2>2. ASSUME NEW l \in DOMAIN loops, NEW s \in loops[l].backEdges
        PROVE  s \in grey' \cup black' /\ Passed(s, loops[l].header)'
    <3>1. s \in grey \cup black /\ Passed(s, loops[l].header)
      BY <2>1 DEF BackEdgesPassed
    <3> QED
      BY <1>1, <1>3, <1>4, <3>1 DEF Passed
  <2> QED
    BY <1>1, <1>2, <2>1, <2>2 DEF BackEdgesPassed
<1> QED
  BY <1>1, <1>2, <1>4, <1>5, <1>7, <1>8, StateParts DEF IInv, NothingYet, AbortsExplained

-----------------------------------------------------------------------------
(* After the search only types are left to preserve.                         *)

\* What all steps of OrganizeLoops do.
LEMMA OrganizeParts ==
  ASSUME IInv, NEW b \in BBs, Organize(b)
  PROVE  /\ graph' = graph /\ runs' = runs /\ grey' = grey /\ black' = black
         /\ dfsBlocks' = dfsBlocks /\ firstLoop' = firstLoop
         /\ pc = "organize" /\ pc' \in {"organize", "tree"}
         /\ BBs' = BBs /\ LoopRec' = LoopRec /\ Activation' = Activation
         /\ stack' \in Seq(Activation)
         /\ \A k \in DOMAIN stack' : stack'[k].bb \in BBs /\ stack'[k].next \in Nat
<1> DEFINE new == [bb |-> b, next |-> 1]
<1>1. /\ graph' = graph /\ runs' = runs /\ grey' = grey /\ black' = black
      /\ dfsBlocks' = dfsBlocks /\ firstLoop' = firstLoop
      /\ pc = "organize" /\ pc' \in {"organize", "tree"}
      /\ stack' = Append(stack, new)
  BY DEF Organize
<1>2. BBs' = BBs /\ LoopRec' = LoopRec /\ Activation' = Activation
  BY <1>1 DEF BBs, LoopRec, Activation
<1>3. new \in Activation
  BY DEF Activation
<1>4. stack' \in Seq(Activation)
  <2> HIDE DEF new
  <2> QED
    BY <1>1, <1>3, StateParts
<1>5. \A k \in DOMAIN stack' : stack'[k] \in Activation
  BY <1>4, LenProperties, ElementOfSeq
<1>6. \A k \in DOMAIN stack' : stack'[k].bb \in BBs /\ stack'[k].next \in Nat
  BY <1>5 DEF Activation
<1> QED
  BY <1>1, <1>2, <1>4, <1>6

\* A step of it that leaves the types of loops and of loopOf as they were.
LEMMA OrganizeIInv ==
  ASSUME IInv, NEW b \in BBs, Organize(b),
         loops' \in Seq(LoopRec), Len(loops') = Len(loops),
         loopOf' \in [BBs -> 0..Len(loops)]
  PROVE  IInv'
<1>1. \A l \in DOMAIN loops' : loops'[l] \in LoopRec
  BY LenProperties, ElementOfSeq
<1>2. TypeOK'
  BY <1>1, OrganizeParts, StateParts DEF TypeOK
<1>3. NothingYet' /\ AbortsExplained'
  BY OrganizeParts, StateParts DEF IInv, NothingYet, AbortsExplained
<1> QED
  BY <1>2, <1>3, OrganizeParts, StateParts DEF IInv

\* A sequence of loops put together loop by loop.
LEMMA LoopSeq ==
  ASSUME NEW n \in Nat, NEW seq, DOMAIN seq = 1..n, seq = [l \in 1..n |-> seq[l]],
         \A l \in 1..n : seq[l] \in LoopRec
  PROVE  seq \in Seq(LoopRec) /\ Len(seq) = n
<1>1. seq \in [1..n -> LoopRec]
  OBVIOUS
<1>2. seq \in Seq(LoopRec)
  BY <1>1, SeqDef
<1>3. Len(seq) \in Nat /\ DOMAIN seq = 1..Len(seq)
  BY <1>2, LenProperties
<1>4. Len(seq) = n
  BY <1>3
<1> QED
  BY <1>2, <1>4

\* The loop of a block, or none.
LEMMA LoopOfParts ==
  ASSUME IInv, NEW b \in BBs
  PROVE  /\ Len(loops) \in Nat /\ loopOf[b] \in 0..Len(loops) /\ loopOf[b] \in Nat
         /\ loopOf[b] # NoLoop => loopOf[b] \in DOMAIN loops
<1>1. /\ Len(loops) \in Nat /\ DOMAIN loops = 1..Len(loops)
      /\ loopOf[b] \in 0..Len(loops)
  BY StateParts
<1> QED
  BY <1>1 DEF NoLoop

LEMMA OrganizeIrreducibleIInv ==
  ASSUME IInv, NEW b \in BBs, OrganizeIrreducible(b)
  PROVE  IInv'
<1>1. /\ Organize(b) /\ loops' = loops
      /\ loopOf' = [s \in BBs |-> IF s \in loops[loopOf[b]].backEdges /\ loopOf[s] = NoLoop
                                  THEN loopOf[b] ELSE loopOf[s]]
  BY DEF OrganizeIrreducible
<1>2. loopOf' \in [BBs -> 0..Len(loops)]
  BY <1>1, LoopOfParts
<1> QED
  BY <1>1, <1>2, StateParts, OrganizeIInv

LEMMA ClassifyReducibleLoopIInv ==
  ASSUME IInv, NEW b \in BBs, ClassifyReducibleLoop(b)
  PROVE  IInv'
<1> DEFINE l == loopOf[b]
           own == {c \in Collected(l) : loopOf[c] = NoLoop}
           inner == {loopOf[c] : c \in Collected(l) \ own} \ {l}
           adopted == Orphans(inner)
<1>1. /\ Organize(b) /\ HeadsLoop(b)
      /\ loopOf' = [c \in BBs |-> IF c \in own THEN l ELSE loopOf[c]]
      /\ loops' = [m \in DOMAIN loops |->
           IF m = l THEN [loops[m] EXCEPT !.basicBlocks = @ \cup own, !.inner = @ \cup adopted]
           ELSE IF m \in adopted THEN [loops[m] EXCEPT !.outer = l]
           ELSE loops[m]]
  BY DEF ClassifyReducibleLoop
<1>2. Collected(l) \subseteq BBs
  BY DEF Collected, ReachableFrom
<1>3. own \subseteq BBs /\ adopted \subseteq Nat
  BY <1>2, LoopOfParts DEF Orphans
<1>4. l \in Nat
  BY LoopOfParts
<1>5. loopOf' \in [BBs -> 0..Len(loops)]
  <2>1. l \in 0..Len(loops) /\ \A c \in BBs : loopOf[c] \in 0..Len(loops)
    BY LoopOfParts
  <2> HIDE DEF own, l
  <2> QED
    BY <1>1, <2>1
<1>6. \A m \in DOMAIN loops : loops'[m] \in LoopRec
  <2> TAKE m \in DOMAIN loops
  <2>1. loops[m] \in LoopRec
    BY StateParts
  <2> HIDE DEF own, adopted, l
  <2>2. [loops[m] EXCEPT !.basicBlocks = @ \cup own, !.inner = @ \cup adopted] \in LoopRec
    BY <1>3, <2>1 DEF LoopRec
  <2>3. [loops[m] EXCEPT !.outer = l] \in LoopRec
    BY <1>4, <2>1 DEF LoopRec
  <2> QED
    BY <1>1, <2>1, <2>2, <2>3
<1>7. /\ Len(loops) \in Nat /\ DOMAIN loops = 1..Len(loops)
      /\ DOMAIN loops' = DOMAIN loops
      /\ loops' = [m \in DOMAIN loops |-> loops'[m]]
  BY <1>1, StateParts
<1>8. loops' \in Seq(LoopRec) /\ Len(loops') = Len(loops)
  BY <1>6, <1>7, LoopSeq
<1> QED
  BY <1>1, <1>5, <1>8, OrganizeIInv

LEMMA ConstructLoopTreeIInv ==
  ASSUME IInv, ConstructLoopTree
  PROVE  IInv'
<1> DEFINE n == Len(loops)
           own == {b \in BBs : loopOf[b] = NoLoop}
           adopted == Orphans({loopOf[b] : b \in BBs \ own})
           kept == [m \in DOMAIN loops |->
                      IF m \in adopted THEN [loops[m] EXCEPT !.outer = n + 1] ELSE loops[m]]
           root == [header |-> NoBB, backEdges |-> {}, basicBlocks |-> own,
                    outer |-> NoLoop, inner |-> adopted, irreducible |-> FALSE]
<1>1. /\ loops' = Append(kept, root)
      /\ loopOf' = [b \in BBs |-> IF b \in own THEN n + 1 ELSE loopOf[b]]
      /\ pc = "tree" /\ pc' = "done" /\ stack' = <<>>
      /\ graph' = graph /\ runs' = runs /\ grey' = grey /\ black' = black
      /\ dfsBlocks' = dfsBlocks /\ firstLoop' = firstLoop
  BY DEF ConstructLoopTree
<1>2. BBs' = BBs /\ LoopRec' = LoopRec /\ Activation' = Activation
  BY <1>1 DEF BBs, LoopRec, Activation
<1>3. n \in Nat /\ DOMAIN loops = 1..n
  BY StateParts
<1>4. adopted \subseteq Nat /\ own \subseteq BBs
  BY LoopOfParts DEF Orphans
<1>5. kept \in Seq(LoopRec) /\ Len(kept) = n
  <2>1. \A m \in 1..n : kept[m] \in LoopRec
    <3> TAKE m \in 1..n
    <3>1. loops[m] \in LoopRec
      BY <1>3, StateParts
    <3>2. [loops[m] EXCEPT !.outer = n + 1] \in LoopRec
      BY <1>3, <3>1 DEF LoopRec
    <3> HIDE DEF adopted
    <3> QED
      BY <1>3, <3>1, <3>2
  <2>2. DOMAIN kept = 1..n /\ kept = [m \in 1..n |-> kept[m]]
    BY <1>3
  <2> HIDE DEF kept
  <2> QED
    BY <1>3, <2>1, <2>2, LoopSeq
<1>6. root \in LoopRec
  BY <1>4 DEF LoopRec, NoLoop
<1>7. loops' \in Seq(LoopRec) /\ Len(loops') = n + 1
  <2> HIDE DEF kept, root
  <2> QED
    BY <1>1, <1>3, <1>5, <1>6
<1>8. \A l \in DOMAIN loops' : loops'[l] \in LoopRec
  BY <1>7, LenProperties, ElementOfSeq
<1>9. loopOf' \in [BBs -> 0..Len(loops')]
  <2>1. n + 1 \in 0..n + 1 /\ \A b \in BBs : loopOf[b] \in 0..n + 1
    BY <1>3, LoopOfParts
  <2> HIDE DEF own
  <2> QED
    BY <1>1, <1>7, <2>1
<1>10. firstLoop' \in 0..Len(loops')
  BY <1>1, <1>3, <1>7, StateParts
<1>11. stack' \in Seq(Activation) /\ DOMAIN stack' = {}
  BY <1>1
<1>12. TypeOK'
  BY <1>1, <1>2, <1>8, <1>9, <1>10, <1>11, StateParts DEF TypeOK
<1>13. NothingYet' /\ AbortsExplained'
  BY <1>1, StateParts DEF IInv, NothingYet, AbortsExplained
<1> QED
  BY <1>1, <1>2, <1>7, <1>11, <1>12, <1>13, StateParts DEF IInv

-----------------------------------------------------------------------------
LEMMA StutterIInv ==
  ASSUME IInv, UNCHANGED vars
  PROVE  IInv'
<1>1. /\ graph' = graph /\ runs' = runs /\ pc' = pc /\ stack' = stack
      /\ grey' = grey /\ black' = black /\ dfsBlocks' = dfsBlocks
      /\ loops' = loops /\ firstLoop' = firstLoop /\ loopOf' = loopOf
  BY DEF vars
<1>2. BBs' = BBs /\ LoopRec' = LoopRec /\ Activation' = Activation
  BY <1>1 DEF BBs, LoopRec, Activation
<1>3. TypeOK' /\ NothingYet'
  BY <1>1, <1>2 DEF IInv, TypeOK, NothingYet
<1>4. SearchState => SearchState'
  BY <1>1 DEF SearchState
<1>5. BackEdgesPassed => BackEdgesPassed'
  BY <1>1, <1>2 DEF BackEdgesPassed, Passed
<1>6. AbortsExplained'
  BY <1>1, <1>2 DEF IInv, AbortsExplained, Accepted, Whole, EdgesOf, ParallelBackEdges, Top, Succ
<1> QED
  BY <1>1, <1>2, <1>3, <1>4, <1>5, <1>6 DEF IInv

\* The invariant is inductive.
THEOREM Invariance == Spec => []IInv
<1>1. Init => IInv
  BY InitIInv
<1>2. IInv /\ [Next]_vars => IInv'
  <2> SUFFICES ASSUME IInv, [Next]_vars
               PROVE  IInv'
    OBVIOUS
  <2>1. CASE VerifyGraphLoops
    BY <2>1, VerifyGraphLoopsIInv
  <2>2. CASE DiscoverBackEdges
    BY <2>2, DiscoverBackEdgesIInv
  <2>3. CASE SkipBlack
    BY <2>3, SkipBlackIInv
  <2>4. CASE NewLoop
    BY <2>4, NewLoopIInv
  <2>5. CASE AddBackEdge
    BY <2>5, AddBackEdgeIInv
  <2>6. CASE AddBackEdgeFails
    BY <2>6, AddBackEdgeFailsIInv
  <2>7. CASE Leave
    BY <2>7, LeaveIInv
  <2>8. ASSUME NEW b \in BBs, NotAHeader(b)
        PROVE  IInv'
    BY <2>8, StateParts, OrganizeIInv DEF NotAHeader
  <2>9. ASSUME NEW b \in BBs, OrganizeIrreducible(b)
        PROVE  IInv'
    BY <2>9, OrganizeIrreducibleIInv
  <2>10. ASSUME NEW b \in BBs, ClassifyReducibleLoop(b)
         PROVE  IInv'
    BY <2>10, ClassifyReducibleLoopIInv
  <2>11. CASE ConstructLoopTree
    BY <2>11, ConstructLoopTreeIInv
  <2>12. CASE UNCHANGED vars
    BY <2>12, StutterIInv
  <2> QED
    BY <2>1, <2>2, <2>3, <2>4, <2>5, <2>6, <2>7, <2>8, <2>9, <2>10, <2>11, <2>12 DEF Next
<1> QED
  BY <1>1, <1>2, PTL DEF Spec

\* The blocks the grey marker is set on are the ones the recursion of
\* DiscoverBackEdges is in, for every graph and any number of calls.
THEOREM ColoursCorrect == Spec => []GreyIsStack
<1>1. IInv => GreyIsStack
  BY DEF IInv, GreyIsStack, SearchState
<1> QED
  BY <1>1, Invariance, PTL

\* The analysis of a graph it can see whole gives up at the second of two parallel
\* back edges, at nothing else in its first call, and in later calls only if an
\* earlier one found a loop.
THEOREM AbortsAreExplained == Spec => []AbortsExplained
<1>1. IInv => AbortsExplained
  BY DEF IInv
<1> QED
  BY <1>1, Invariance, PTL

-----------------------------------------------------------------------------
(* Dominators and natural loops of a graph.                                  *)

\* The edges of Reducible: those whose target does not dominate their source.
Forward == {e \in Edges : ~IsDominator(e[2], e[1])}

Inside(h) == Without({h}, Edges)
Sources(h) == {a \in BBs : <<a, h>> \in Edges /\ IsDominator(h, a)}

LEMMA GraphParts ==
  ASSUME graph \in Graphs
  PROVE  /\ BBs \subseteq Nat /\ graph.first \in BBs /\ Edges \subseteq BBs \X BBs
         /\ \A b \in BBs : /\ graph.succs[b] \in Seq(BBs)
                           /\ DOMAIN graph.succs[b] = 1..Len(graph.succs[b])
                           /\ Len(graph.succs[b]) \in Nat
                           /\ \A i \in DOMAIN graph.succs[b] :
                                /\ graph.succs[b][i] \in BBs
                                /\ <<b, graph.succs[b][i]>> \in Edges
         /\ \A e \in Edges : \E i \in DOMAIN graph.succs[e[1]] : graph.succs[e[1]][i] = e[2]
<1>1. BBs \subseteq Nat /\ graph.first \in BBs /\ Edges \subseteq BBs \X BBs
  BY GraphAssumption DEF BBs, Edges, EdgesOf
<1>2. ASSUME NEW b \in BBs
      PROVE  /\ graph.succs[b] \in Seq(BBs)
             /\ DOMAIN graph.succs[b] = 1..Len(graph.succs[b])
             /\ Len(graph.succs[b]) \in Nat
             /\ \A i \in DOMAIN graph.succs[b] :
                  /\ graph.succs[b][i] \in BBs
                  /\ <<b, graph.succs[b][i]>> \in Edges
  <2>1. graph.succs[b] \in Seq(BBs)
    BY GraphAssumption DEF BBs
  <2>2. DOMAIN graph.succs[b] = 1..Len(graph.succs[b]) /\ Len(graph.succs[b]) \in Nat
    BY <2>1, LenProperties
  <2>3. \A i \in DOMAIN graph.succs[b] : graph.succs[b][i] \in BBs
    BY <2>1, <2>2, ElementOfSeq
  <2> QED
    BY <2>1, <2>2, <2>3 DEF Edges, EdgesOf, BBs, ToSet
<1>3. \A e \in Edges : \E i \in DOMAIN graph.succs[e[1]] : graph.succs[e[1]][i] = e[2]
  BY DEF Edges, EdgesOf, ToSet
<1> QED
  BY <1>1, <1>2, <1>3

\* One successor.
LEMMA SuccessorParts ==
  ASSUME graph \in Graphs, NEW b \in BBs, NEW i \in DOMAIN graph.succs[b]
  PROVE  graph.succs[b][i] \in BBs /\ <<b, graph.succs[b][i]>> \in Edges /\ i \in Nat \ {0}
<1>1. DOMAIN graph.succs[b] = 1..Len(graph.succs[b]) /\ Len(graph.succs[b]) \in Nat
  BY GraphParts
<1>2. i \in Nat \ {0}
  BY <1>1
<1> QED
  BY <1>2, GraphParts

\* Reducible says that no edge of Forward lies on a cycle of them.
LEMMA ReducibleParts ==
  ASSUME graph \in Graphs
  PROVE  /\ Forward \subseteq BBs \X BBs
         /\ Reducible <=> \A e \in Forward : e[1] \notin ReachableFrom(e[2], BBs, Forward)
<1> DEFINE forward == UNION {{<<a, b>> : b \in {c \in ToSet(graph.succs[a]) :
                                              ~IsDominator(c, a)}} : a \in BBs}
<1>1. \A a \in BBs : ToSet(graph.succs[a]) \subseteq BBs
  BY GraphParts DEF ToSet
<1>2. forward = Forward
  <2>1. ASSUME NEW e \in forward
        PROVE  e \in Forward
    <3>1. PICK a \in BBs : e \in {<<a, b>> : b \in {c \in ToSet(graph.succs[a]) : ~IsDominator(c, a)}}
      OBVIOUS
    <3>2. PICK b \in ToSet(graph.succs[a]) : ~IsDominator(b, a) /\ e = <<a, b>>
      BY <3>1
    <3> QED
      BY <1>1, <3>2 DEF Forward, Edges, EdgesOf, BBs
  <2>2. ASSUME NEW e \in Forward
        PROVE  e \in forward
    <3>1. /\ e = <<e[1], e[2]>> /\ e[1] \in BBs
          /\ e[2] \in {c \in ToSet(graph.succs[e[1]]) : ~IsDominator(c, e[1])}
      BY DEF Forward, Edges, EdgesOf, BBs
    <3> QED
      BY <3>1
  <2> QED
    BY <2>1, <2>2
<1> HIDE DEF forward
<1> QED
  BY <1>2, GraphParts DEF Reducible, Forward, forward

\* Dominance in a graph all of whose blocks can be reached.
LEMMA IsDominatorParts ==
  ASSUME graph \in Graphs, Accepted
  PROVE  /\ \A a \in BBs : IsDominator(a, a)
         /\ \A a, b \in BBs : IsDominator(a, b) /\ IsDominator(b, a) => a = b
         /\ \A a, b, c \in BBs : IsDominator(a, b) /\ IsDominator(b, c) => IsDominator(a, c)
         /\ \A a, b, c \in BBs : IsDominator(a, c) /\ IsDominator(b, c) => IsDominator(a, b) \/ IsDominator(b, a)
         /\ \A a, b \in BBs : IsDominator(a, b) /\ a # b =>
              \A d \in BBs : <<d, b>> \in Edges => IsDominator(a, d)
<1>1. graph.first \in BBs /\ Edges \subseteq BBs \X BBs
  BY GraphParts
<1>2. \A b \in BBs : b \in ReachableFrom(graph.first, BBs, Edges)
  BY DEF Accepted, Whole, BBs, Edges
<1>3. \A a \in BBs : IsDominator(a, a)
  BY DEF IsDominator, Dominates
<1>4. \A a, b \in BBs : IsDominator(a, b) /\ IsDominator(b, a) => a = b
  BY <1>1, <1>2, DominatesAntisymmetric DEF IsDominator
<1>5. \A a, b, c \in BBs : IsDominator(a, b) /\ IsDominator(b, c) => IsDominator(a, c)
  BY <1>1, DominatesTransitive DEF IsDominator
<1>6. \A a, b, c \in BBs : IsDominator(a, c) /\ IsDominator(b, c) => IsDominator(a, b) \/ IsDominator(b, a)
  BY <1>1, <1>2, DominatorsComparable DEF IsDominator
<1>7. \A a, b, d \in BBs : IsDominator(a, b) /\ a # b /\ <<d, b>> \in Edges => IsDominator(a, d)
  BY DominatesPredecessor DEF IsDominator
<1> QED
  BY <1>3, <1>4, <1>5, <1>6, <1>7

\* The body of a natural loop.
LEMMA NaturalLoopParts ==
  ASSUME graph \in Graphs, NEW h \in BBs
  PROVE  /\ Inside(h) \subseteq BBs \X BBs /\ Inside(h) \subseteq Edges
         /\ \A e \in Edges : e[1] # h /\ e[2] # h => e \in Inside(h)
         /\ h \in NaturalLoop(h) /\ NaturalLoop(h) \subseteq BBs
         /\ \A b \in BBs \ {h} : b \in NaturalLoop(h) <=>
              \E s \in Sources(h) : s \in ReachableFrom(b, BBs, Inside(h))
<1>1. /\ Inside(h) \subseteq BBs \X BBs /\ Inside(h) \subseteq Edges
      /\ \A e \in Edges : e[1] # h /\ e[2] # h => e \in Inside(h)
  BY GraphParts DEF Inside, Without
<1>2. NaturalLoop(h) = {h} \cup {b \in BBs \ {h} :
                         ReachableFrom(b, BBs, Inside(h)) \cap Sources(h) # {}}
  BY DEF NaturalLoop, Inside, Sources
<1> QED
  BY <1>1, <1>2

\* Its header dominates all of it.
LEMMA HeaderDominates ==
  ASSUME graph \in Graphs, NEW h \in BBs, NEW b \in NaturalLoop(h)
  PROVE  IsDominator(h, b)
<1>1. CASE b = h
  BY <1>1 DEF IsDominator, Dominates
<1>2. CASE b # h
  <2>1. PICK s \in Sources(h) : s \in ReachableFrom(b, BBs, Inside(h))
    BY <1>2, NaturalLoopParts
  <2>2. Dominates(h, s, graph.first, BBs, Edges)
    BY <2>1 DEF Sources, IsDominator
  <2>3. b \in BBs /\ graph.first \in BBs /\ Edges \subseteq BBs \X BBs
    BY GraphParts, NaturalLoopParts
  <2> QED
    BY <1>2, <2>1, <2>2, <2>3, DominatesBackwards DEF IsDominator, Inside
<1> QED
  BY <1>1, <1>2

\* Control gets from a dominator g of c to c without passing a block h that g
\* does not dominate.
LEMMA ReachesFromDominator ==
  ASSUME graph \in Graphs, Accepted, NEW h \in BBs, NEW g \in BBs, NEW c \in BBs,
         IsDominator(g, c), ~IsDominator(g, h)
  PROVE  c \in ReachableFrom(g, BBs, Inside(h))
<1> DEFINE W == ReachableFrom(graph.first, BBs, Inside(g))
           V == ReachableFrom(g, BBs, Inside(h))
           S == W \cup V
<1>1. graph.first \in BBs /\ Edges \subseteq BBs \X BBs
  BY GraphParts
<1>2. g # h /\ g # graph.first /\ h \in W
  BY DEF IsDominator, Dominates, Inside
<1>3. g \in V /\ graph.first \in W
  BY <1>1, ReachesItself
<1>4. h \notin V /\ g \notin W
  BY <1>1, <1>2, NotThrough DEF Inside
<1>5. ASSUME NEW e \in Edges, e[1] \in S
      PROVE  e[2] \in S
  <2>1. e = <<e[1], e[2]>> /\ e[1] \in BBs /\ e[2] \in BBs
    BY <1>1
  <2>2. CASE e[1] \in W /\ e[2] # g
    <3>1. e \in Inside(g)
      BY <1>4, <2>2, NaturalLoopParts
    <3> QED
      BY <2>1, <2>2, <3>1, ReachesNext
  <2>3. CASE e[1] \in V /\ e[2] # h
    <3>1. e \in Inside(h)
      BY <1>4, <2>3, NaturalLoopParts
    <3> QED
      BY <2>1, <2>3, <3>1, ReachesNext
  <2> QED
    BY <1>2, <1>3, <1>5, <2>2, <2>3
<1>6. c \in S
  <2>1. c \in ReachableFrom(graph.first, BBs, Edges) /\ graph.first \in S
    BY <1>3 DEF Accepted, Whole, BBs, Edges
  <2> HIDE DEF S
  <2> QED
    BY <1>1, <1>5, <2>1, ReachesInside
<1>7. c = g \/ c \notin W
  BY <1>2 DEF IsDominator, Dominates, Inside
<1> QED
  BY <1>3, <1>6, <1>7

\* A natural loop that shares a block with that of a header around it is part
\* of it.
LEMMA LoopsNested ==
  ASSUME graph \in Graphs, Accepted, NEW h \in BBs, NEW g \in BBs, g # h, IsDominator(h, g),
         NEW c \in NaturalLoop(h), c \in NaturalLoop(g), NEW b \in NaturalLoop(g)
  PROVE  b \in NaturalLoop(h)
<1> DEFINE V(x) == ReachableFrom(x, BBs, Inside(h))
<1>1. b \in BBs /\ c \in BBs /\ Edges \subseteq BBs \X BBs
  BY GraphParts, NaturalLoopParts
<1>2. ~IsDominator(g, h) /\ IsDominator(g, b) /\ IsDominator(g, c) /\ b # h /\ c # h
  BY <1>1, IsDominatorParts, HeaderDominates
<1>3. PICK s \in Sources(h) : s \in V(c)
  BY <1>1, <1>2, NaturalLoopParts
<1>4. s \in V(g)
  BY <1>1, <1>2, <1>3, ReachesFromDominator, ReachesTransitive
<1>5. g \in V(b)
  <2>1. CASE b = g
    BY <2>1, ReachesItself
  <2>2. CASE b # g
    <3>1. PICK t \in Sources(g) : t \in ReachableFrom(b, BBs, Inside(g))
      BY <1>1, <2>2, NaturalLoopParts
    <3>2. t \in BBs /\ <<t, g>> \in Edges /\ IsDominator(g, t)
      BY <3>1 DEF Sources
    <3> DEFINE S == V(b) \cup {x \in BBs : ~IsDominator(g, x)}
    <3>3. ASSUME NEW e \in Inside(g), e[1] \in S
          PROVE  e[2] \in S
      <4>1. e \in Edges /\ e = <<e[1], e[2]>> /\ e[1] \in BBs /\ e[2] \in BBs /\ e[2] # g
        BY <1>1 DEF Inside, Without
      <4>2. CASE e[1] \in V(b) /\ e[2] # h
        <5>1. e[1] # h
          BY <1>1, <1>2, <4>2, NotThrough DEF Inside
        <5>2. e \in Inside(h)
          BY <4>1, <4>2, <5>1, NaturalLoopParts
        <5> QED
          BY <4>1, <4>2, <5>2, ReachesNext
      <4>3. CASE e[2] = h
        BY <1>2, <4>3
      <4>4. CASE ~IsDominator(g, e[1])
        BY <4>1, <4>4, IsDominatorParts
      <4> QED
        BY <3>3, <4>2, <4>3, <4>4
    <3>4. b \in S /\ Inside(g) \subseteq BBs \X BBs
      BY <1>1, ReachesItself, NaturalLoopParts
    <3>5. t \in S
      <4> HIDE DEF S
      <4> QED
        BY <1>1, <3>1, <3>3, <3>4, ReachesInside
    <3>6. t \in V(b) /\ t # h
      BY <1>2, <3>2, <3>5
    <3>7. <<t, g>> \in Inside(h)
      BY <3>2, <3>6, NaturalLoopParts
    <3> QED
      BY <3>6, <3>7, ReachesNext
  <2> QED
    BY <2>1, <2>2
<1>6. s \in V(b)
  BY <1>4, <1>5, ReachesTransitive
<1> QED
  BY <1>1, <1>2, <1>3, <1>6, NaturalLoopParts

\* CollectLoopDetails goes back to blocks from which a back edge is reached
\* without passing the header.
LEMMA CollectedReaches ==
  ASSUME graph \in Graphs, NEW l, loops[l].header \in BBs, loops[l].backEdges \subseteq BBs,
         NEW c \in Collected(l)
  PROVE  /\ c \in BBs /\ c # loops[l].header
         /\ \E s \in loops[l].backEdges : s \in ReachableFrom(c, BBs, Inside(loops[l].header))
<1> DEFINE h == loops[l].header
           against == {<<e[2], e[1]>> : e \in {d \in Edges : d[2] # h}}
<1>1. PICK s \in loops[l].backEdges \ {h} : c \in ReachableFrom(s, BBs, against)
  BY DEF Collected
<1>2. c # h /\ c \in BBs /\ s \in BBs
  BY <1>1 DEF Collected, ReachableFrom
<1> DEFINE S == {x \in BBs : x = h \/ s \in ReachableFrom(x, BBs, Inside(h))}
<1>3. against \subseteq BBs \X BBs
  BY GraphParts
<1>4. ASSUME NEW d \in against, d[1] \in S
      PROVE  d[2] \in S
  <2>1. PICK e \in Edges : e[2] # h /\ d = <<e[2], e[1]>>
    OBVIOUS
  <2>2. /\ e = <<e[1], e[2]>> /\ e[1] \in BBs /\ e[2] \in BBs
        /\ d[1] = e[2] /\ d[2] = e[1]
    BY <2>1, GraphParts
  <2>3. CASE e[1] = h
    BY <2>2, <2>3
  <2>4. CASE e[1] # h
    <3>1. <<e[1], e[2]>> \in Inside(h)
      BY <2>1, <2>2, <2>4, NaturalLoopParts
    <3>2. s \in ReachableFrom(e[2], BBs, Inside(h))
      BY <1>4, <2>1, <2>2
    <3> QED
      BY <2>2, <3>1, <3>2, ReachesFirst
  <2> QED
    BY <2>3, <2>4
<1>5. c \in S
  <2>1. s \in S
    BY <1>2, ReachesItself
  <2> HIDE DEF S, against
  <2> QED
    BY <1>1, <1>2, <1>3, <1>4, <2>1, ReachesInside
<1> QED
  BY <1>1, <1>2, <1>5

\* When the back edges of a loop are those of its header, what is collected is
\* the body of the natural loop.
LEMMA CollectedIsBody ==
  ASSUME graph \in Graphs, NEW l, loops[l].header \in BBs,
         loops[l].backEdges = Sources(loops[l].header)
  PROVE  Collected(l) = NaturalLoop(loops[l].header) \ {loops[l].header}
<1> DEFINE h == loops[l].header
           against == {<<e[2], e[1]>> : e \in {d \in Edges : d[2] # h}}
<1>1. ASSUME NEW c \in Collected(l)
      PROVE  c \in NaturalLoop(h) \ {h}
  <2>1. Sources(h) \subseteq BBs
    BY DEF Sources
  <2> QED
    BY <1>1, <2>1, CollectedReaches, NaturalLoopParts
<1>2. ASSUME NEW b \in NaturalLoop(h) \ {h}
      PROVE  b \in Collected(l)
  <2>1. b \in BBs
    BY NaturalLoopParts
  <2>2. PICK s \in Sources(h) : s \in ReachableFrom(b, BBs, Inside(h))
    BY <2>1, NaturalLoopParts
  <2>3. s # h
    BY <2>1, <2>2, NotThrough, GraphParts DEF Inside
  <2>4. Inside(h) \subseteq BBs \X BBs /\ \A e \in Inside(h) : <<e[2], e[1]>> \in against
    BY NaturalLoopParts DEF Inside, Without
  <2>5. b \in ReachableFrom(s, BBs, against)
    <3> HIDE DEF against
    <3> QED
      BY <2>1, <2>2, <2>4, ReachesBack
  <2> QED
    BY <2>2, <2>3, <2>5 DEF Collected
<1> QED
  BY <1>1, <1>2

-----------------------------------------------------------------------------
(* What the search of the first call finds.                                  *)

\* a has left the search, and b had not by then.
LeftBefore(a, b) ==
  \E n \in DOMAIN dfsBlocks :
    dfsBlocks[n] = a /\ \A m \in DOMAIN dfsBlocks : dfsBlocks[m] = b => n < m

\* The edge from s to h is recorded as a back edge.
IsBackEdge(s, h) == loopOf[h] # NoLoop /\ s \in loops[loopOf[h]].backEdges

\* s was met after b, and both activations go on.
Above(b, s) ==
  \E j, k \in DOMAIN stack : j < k /\ stack[j].bb = b /\ stack[k].bb = s

LeftOnce ==
  /\ ToSet(dfsBlocks) = black
  /\ \A m, n \in DOMAIN dfsBlocks : dfsBlocks[m] = dfsBlocks[n] => m = n

\* An activation is reached from those around it by edges that close no loop.
StackIsPath ==
  \A j, k \in DOMAIN stack :
    j <= k => stack[k].bb \in ReachableFrom(stack[j].bb, BBs, Forward)

\* The dominators of a block on the stack are the block or around it.
DominatorsAround ==
  \A j \in DOMAIN stack, a \in BBs :
    IsDominator(a, stack[j].bb) => \E i \in 1..j : stack[i].bb = a

\* The other dominators of a block leave after it, or are still active.
DominatorsLater ==
  \A n \in DOMAIN dfsBlocks, a \in BBs :
    a # dfsBlocks[n] /\ IsDominator(a, dfsBlocks[n]) =>
      a \in grey \/ \E m \in DOMAIN dfsBlocks : n < m /\ dfsBlocks[m] = a

\* An edge the search has looked at leads to a block that leaves first, or is
\* recorded.
EdgesSeen ==
  \A b \in BBs : \A i \in DOMAIN graph.succs[b] :
    b \in black \/ (\E k \in DOMAIN stack : stack[k].bb = b /\ i < stack[k].next) =>
      \/ LeftBefore(graph.succs[b][i], b)
      \/ IsBackEdge(b, graph.succs[b][i])
      \/ Above(b, graph.succs[b][i])

\* A back edge closes a cycle with edges that close none.
ClosesCycle(s, header) ==
  <<s, header>> \in Edges /\ s \in ReachableFrom(header, BBs, Forward)

\* Each loop is that of its header, and irreducible when one of its back edges
\* says so.
LoopsRecorded ==
  \A l \in DOMAIN loops :
    /\ loops[l].header \in grey \cup black /\ loopOf[loops[l].header] = l
    /\ loops[l].backEdges # {}
    /\ \A s \in loops[l].backEdges : ClosesCycle(s, loops[l].header)
    /\ loops[l].irreducible <=> \E s \in loops[l].backEdges : ~Domites(loops[l].header, s)

\* Nothing has been organized yet.
LoopsFresh ==
  /\ firstLoop = 0
  /\ \A b \in BBs : loopOf[b] # NoLoop => loops[loopOf[b]].header = b
  /\ \A l \in DOMAIN loops :
       /\ loops[l].basicBlocks = {loops[l].header}
       /\ loops[l].outer = NoLoop /\ loops[l].inner = {}

SearchFacts ==
  /\ Accepted
  /\ LeftOnce /\ StackIsPath /\ DominatorsAround /\ DominatorsLater
  /\ EdgesSeen /\ LoopsRecorded /\ LoopsFresh

FromFirst == stack # <<>> /\ stack[1].bb = graph.first

\* A step does not change the graph.
LEMMA SameGraph ==
  ASSUME graph' = graph
  PROVE  /\ BBs' = BBs /\ Edges' = Edges /\ Forward' = Forward /\ Accepted' = Accepted
         /\ \A a, b : IsDominator(a, b)' = IsDominator(a, b)
         /\ \A a, b : Domites(a, b)' = Domites(a, b)
         /\ \A s, h : ClosesCycle(s, h)' = ClosesCycle(s, h)
BY DEF Domites, BBs, Edges, Forward, Accepted, IsDominator, ClosesCycle

\* A step of the search that does not colour a block.
LEMMA LoopsRecordedNext ==
  ASSUME graph' = graph, grey' = grey, black' = black,
         \A l \in DOMAIN loops' :
           /\ loops'[l].header \in grey \cup black /\ loopOf'[loops'[l].header] = l
           /\ loops'[l].backEdges # {}
           /\ \A s \in loops'[l].backEdges : ClosesCycle(s, loops'[l].header)
           /\ loops'[l].irreducible <=>
                \E s \in loops'[l].backEdges : ~Domites(loops'[l].header, s)
  PROVE  LoopsRecorded'
BY SameGraph DEF LoopsRecorded

LEMMA CallStarts ==
  ASSUME IInv, VerifyGraphLoops, runs' = 1, pc' = "dfs"
  PROVE  SearchFacts' /\ FromFirst'
<1>1. /\ runs = 0 /\ graph' = graph /\ loops' = loops /\ loopOf' = loopOf /\ Accepted
      /\ stack' = <<[bb |-> graph.first, next |-> 1]>>
      /\ grey' = {graph.first} /\ black' = {} /\ dfsBlocks' = <<>> /\ firstLoop' = Len(loops)
  BY StateParts DEF VerifyGraphLoops, Start
<1>2. loops = <<>> /\ loopOf = [b \in BBs |-> NoLoop]
  BY <1>1 DEF IInv, NothingYet
<1>3. DOMAIN stack' = {1} /\ stack'[1].bb = graph.first /\ stack'[1].next = 1 /\ stack' # <<>>
  BY <1>1
<1>4. DOMAIN dfsBlocks' = {} /\ DOMAIN loops' = {} /\ firstLoop' = 0
  BY <1>1, <1>2
<1>5. LeftOnce'
  BY <1>1, <1>4 DEF LeftOnce, ToSet
<1>6. graph \in Graphs /\ graph.first \in BBs
  BY StateParts
<1>7. StackIsPath'
  BY <1>1, <1>3, <1>6, SameGraph, ReachesItself DEF StackIsPath
<1>8. DominatorsAround'
  <2>1. \A a : IsDominator(a, graph.first) => a = graph.first
    BY <1>6, RootDominators DEF IsDominator
  <2> QED
    BY <1>1, <1>3, <2>1, SameGraph DEF DominatorsAround
<1>9. DominatorsLater'
  BY <1>4 DEF DominatorsLater
<1>10. EdgesSeen'
  <2>1. \A b \in BBs : \A i \in DOMAIN graph.succs[b] : ~(i < 1)
    BY <1>6, GraphParts
  <2> QED
    BY <1>1, <1>3, <2>1, SameGraph DEF EdgesSeen
<1>11. LoopsRecorded' /\ LoopsFresh'
  BY <1>1, <1>2, <1>4, SameGraph DEF LoopsRecorded, LoopsFresh
<1> QED
  BY <1>1, <1>3, <1>5, <1>7, <1>8, <1>9, <1>10, <1>11, SameGraph DEF SearchFacts, FromFirst

\* Going on to the next successor leaves the blocks on the stack as they are.
LEMMA AdvancedKeeps ==
  ASSUME IInv, Searching, SearchFacts, FromFirst,
         graph' = graph, stack' = Advanced, grey' = grey, black' = black, dfsBlocks' = dfsBlocks
  PROVE  FromFirst' /\ LeftOnce' /\ StackIsPath' /\ DominatorsAround' /\ DominatorsLater'
<1>1. /\ Len(stack) \in Nat \ {0} /\ DOMAIN stack = 1..Len(stack)
      /\ Advanced \in Seq(Activation) /\ Len(Advanced) = Len(stack) /\ DOMAIN Advanced = DOMAIN stack
      /\ \A k \in DOMAIN stack : Advanced[k].bb = stack[k].bb
  BY TopParts, StateParts, AdvancedParts
<1>2. FromFirst'
  BY <1>1, EmptySeq DEF FromFirst
<1>3. LeftOnce' /\ DominatorsLater'
  BY SameGraph DEF SearchFacts, LeftOnce, DominatorsLater
<1>4. StackIsPath'
  BY <1>1, SameGraph DEF SearchFacts, StackIsPath
<1>5. DominatorsAround'
  <2> SUFFICES ASSUME NEW j \in DOMAIN stack, NEW a \in BBs, IsDominator(a, stack[j].bb)
               PROVE  \E i \in 1..j : Advanced[i].bb = a
    BY <1>1, SameGraph DEF DominatorsAround
  <2>1. PICK i \in 1..j : stack[i].bb = a
    BY DEF SearchFacts, DominatorsAround
  <2>2. i \in DOMAIN stack
    BY <1>1
  <2> QED
    BY <1>1, <2>1, <2>2
<1> QED
  BY <1>2, <1>3, <1>4, <1>5

\* The edge it goes on from is one of those seen.
LEMMA AdvancedSees ==
  ASSUME IInv, Searching, HasNext, SearchFacts,
         graph' = graph, stack' = Advanced, black' = black, dfsBlocks' = dfsBlocks,
         \A s, h \in BBs : IsBackEdge(s, h) => IsBackEdge(s, h)',
         LeftBefore(Succ, Top.bb) \/ \A s, h : s = Top.bb /\ h = Succ => IsBackEdge(s, h)'
  PROVE  EdgesSeen'
<1>1. /\ Len(stack) \in DOMAIN stack /\ Top = stack[Len(stack)]
      /\ DOMAIN stack = 1..Len(stack) /\ Len(stack) \in Nat /\ Top.next \in Nat
      /\ DOMAIN Advanced = DOMAIN stack
      /\ \A k \in DOMAIN stack : Advanced[k].bb = stack[k].bb
      /\ Advanced[Len(stack)].next = Top.next + 1
      /\ Succ = graph.succs[Top.bb][Top.next]
  BY TopParts, StateParts, AdvancedParts, SuccParts
<1>2. \A k \in DOMAIN stack : k # Len(stack) => Advanced[k] = stack[k]
  BY <1>1, StateParts DEF Advanced
<1>3. \A a, b : LeftBefore(a, b)' = LeftBefore(a, b) /\ Above(a, b)' = Above(a, b)
  BY <1>1 DEF LeftBefore, Above
<1> SUFFICES ASSUME NEW b \in BBs, NEW i \in DOMAIN graph.succs[b],
                    b \in black \/ \E k \in DOMAIN stack : Advanced[k].bb = b /\ i < Advanced[k].next
             PROVE  \/ LeftBefore(graph.succs[b][i], b)
                    \/ \A h : h = graph.succs[b][i] => IsBackEdge(b, h)'
                    \/ Above(b, graph.succs[b][i])
  BY <1>1, <1>3, SameGraph DEF EdgesSeen
<1>4. graph.succs[b][i] \in BBs /\ i \in Nat
  BY SuccessorParts, StateParts
<1>5. CASE b \in black \/ \E k \in DOMAIN stack : stack[k].bb = b /\ i < stack[k].next
  <2>1. \/ LeftBefore(graph.succs[b][i], b)
        \/ IsBackEdge(b, graph.succs[b][i])
        \/ Above(b, graph.succs[b][i])
    BY <1>5 DEF SearchFacts, EdgesSeen
  <2>2. ASSUME IsBackEdge(b, graph.succs[b][i]), NEW h, h = graph.succs[b][i]
        PROVE  IsBackEdge(b, h)'
    BY <1>4, <2>2
  <2> QED
    BY <2>1, <2>2
<1>6. CASE ~(b \in black \/ \E k \in DOMAIN stack : stack[k].bb = b /\ i < stack[k].next)
  <2>1. PICK k \in DOMAIN stack : Advanced[k].bb = b /\ i < Advanced[k].next
    BY <1>6
  <2>2. k = Len(stack) /\ b = Top.bb
    BY <1>1, <1>2, <1>6, <2>1
  <2>3. i = Top.next
    BY <1>1, <1>4, <1>6, <2>1, <2>2
  <2> QED
    BY <1>1, <2>2, <2>3
<1> QED
  BY <1>5, <1>6

\* Loops and colours that do not change.
LEMMA LoopsKept ==
  ASSUME SearchFacts, graph' = graph, loops' = loops, loopOf' = loopOf, firstLoop' = firstLoop,
         grey \cup black \subseteq grey' \cup black'
  PROVE  LoopsRecorded' /\ LoopsFresh' /\ Accepted'
<1>1. LoopsRecorded'
  BY SameGraph DEF SearchFacts, LoopsRecorded
<1> QED
  BY <1>1, SameGraph DEF SearchFacts, LoopsFresh

\* The innermost block is grey and has not left.
LEMMA TopActive ==
  ASSUME IInv, Searching, SearchFacts
  PROVE  /\ Top.bb \in grey /\ Top.bb \notin ToSet(dfsBlocks)
         /\ grey = {stack[k].bb : k \in DOMAIN stack} /\ grey \cap black = {}
         /\ \A j, k \in DOMAIN stack : stack[j].bb = stack[k].bb => j = k
<1>1. SearchState
  BY DEF IInv, Searching
<1>2. Top.bb \in grey
  BY <1>1, TopParts DEF SearchState
<1> QED
  BY <1>1, <1>2 DEF SearchState, SearchFacts, LeftOnce

LEMMA SkipBlackFinds ==
  ASSUME IInv, SearchFacts, FromFirst, SkipBlack
  PROVE  SearchFacts' /\ FromFirst'
<1>1. /\ Searching /\ HasNext /\ Succ \in black /\ stack' = Advanced
      /\ graph' = graph /\ grey' = grey /\ black' = black
      /\ dfsBlocks' = dfsBlocks /\ loops' = loops /\ firstLoop' = firstLoop /\ loopOf' = loopOf
  BY DEF SkipBlack
<1>2. FromFirst' /\ LeftOnce' /\ StackIsPath' /\ DominatorsAround' /\ DominatorsLater'
  BY <1>1, AdvancedKeeps
<1>3. LeftBefore(Succ, Top.bb)
  <2>1. Succ \in ToSet(dfsBlocks) /\ Top.bb \notin ToSet(dfsBlocks)
    BY <1>1, TopActive DEF SearchFacts, LeftOnce
  <2> QED
    BY <2>1 DEF LeftBefore, ToSet
<1>4. EdgesSeen'
  <2>1. \A s, h : IsBackEdge(s, h) => IsBackEdge(s, h)'
    BY <1>1 DEF IsBackEdge
  <2> QED
    BY <1>1, <1>3, <2>1, AdvancedSees
<1>5. LoopsRecorded' /\ LoopsFresh' /\ Accepted'
  BY <1>1, LoopsKept
<1> QED
  BY <1>2, <1>4, <1>5 DEF SearchFacts

\* The edge to a block that was not met before closes no loop: what dominates
\* the innermost block is on the stack.
LEMMA DiscoverFinds ==
  ASSUME IInv, SearchFacts, FromFirst, DiscoverBackEdges
  PROVE  SearchFacts' /\ FromFirst'
<1> DEFINE n == Len(stack)
           new == [bb |-> Succ, next |-> 1]
<1>1. /\ Searching /\ HasNext /\ Succ \notin grey /\ Succ \notin black
      /\ stack' = Append(Advanced, new) /\ grey' = grey \cup {Succ}
      /\ graph' = graph /\ black' = black
      /\ dfsBlocks' = dfsBlocks /\ loops' = loops /\ firstLoop' = firstLoop /\ loopOf' = loopOf
  BY DEF DiscoverBackEdges
<1>2. /\ n \in Nat \ {0} /\ DOMAIN stack = 1..n /\ Succ \in BBs /\ graph \in Graphs
      /\ Top = stack[n] /\ Top.bb \in BBs /\ Top.next \in DOMAIN graph.succs[Top.bb]
      /\ Succ = graph.succs[Top.bb][Top.next] /\ Top.next \in Nat
  BY <1>1, TopParts, StateParts, SuccParts
<1>3. /\ DOMAIN stack' = 1..n + 1 /\ stack' # <<>>
      /\ \A k \in 1..n : stack'[k].bb = stack[k].bb /\ stack'[k] = Advanced[k]
      /\ stack'[n + 1].bb = Succ /\ stack'[n + 1].next = 1
  <2>1. Advanced \in Seq(Activation) /\ Len(Advanced) = n /\ new \in Activation
        /\ \A k \in 1..n : Advanced[k].bb = stack[k].bb
    <3>1. new \in Activation
      BY <1>2 DEF Activation
    <3> HIDE DEF new
    <3> QED
      BY <1>1, <1>2, <3>1, AdvancedParts
  <2>2. /\ stack' \in Seq(Activation) /\ Len(stack') = n + 1
        /\ \A k \in 1..n : stack'[k] = Advanced[k]
        /\ stack'[n + 1] = new
    <3> HIDE DEF new
    <3> QED
      BY <1>1, <1>2, <2>1
  <2>3. DOMAIN stack' = 1..n + 1
    BY <2>2, LenProperties
  <2> QED
    BY <1>2, <2>1, <2>2, <2>3, EmptySeq
<1>4. <<Top.bb, Succ>> \in Edges /\ ~IsDominator(Succ, Top.bb)
  <2>1. <<Top.bb, Succ>> \in Edges
    BY <1>2, GraphParts
  <2>2. ASSUME IsDominator(Succ, Top.bb)
        PROVE  FALSE
    <3> HIDE DEF new
    <3>1. n \in DOMAIN stack /\ IsDominator(Succ, stack[n].bb)
      BY <1>2, <2>2
    <3>2. DominatorsAround
      BY DEF SearchFacts
    <3>3. \E i \in 1..n : stack[i].bb = Succ
      BY <1>2, <3>1, <3>2 DEF DominatorsAround
    <3> QED
      BY <1>1, <1>2, <3>3, TopActive
  <2> QED
    BY <2>1, <2>2
<1>5. FromFirst' /\ LeftOnce'
  <2>1. 1 \in 1..n
    BY <1>2
  <2>2. stack'[1].bb = graph'.first
    BY <1>1, <1>3, <2>1 DEF FromFirst
  <2> QED
    BY <1>1, <1>3, <2>2 DEF FromFirst, SearchFacts, LeftOnce
<1>6. StackIsPath'
  <2> SUFFICES ASSUME NEW j \in 1..n + 1, NEW k \in 1..n + 1, j <= k
               PROVE  stack'[k].bb \in ReachableFrom(stack'[j].bb, BBs, Forward)
    BY <1>1, <1>3, SameGraph DEF StackIsPath
  <2>1. CASE k \in 1..n
    <3>1. /\ j \in 1..n /\ j \in DOMAIN stack /\ k \in DOMAIN stack
          /\ stack'[k].bb = stack[k].bb /\ stack'[j].bb = stack[j].bb
      BY <1>2, <1>3, <2>1
    <3> QED
      BY <3>1 DEF SearchFacts, StackIsPath
  <2>2. CASE k = n + 1 /\ j \in 1..n
    <3>1. Top.bb \in ReachableFrom(stack[j].bb, BBs, Forward)
      BY <1>2, <2>2 DEF SearchFacts, StackIsPath
    <3>2. <<Top.bb, Succ>> \in Forward
      BY <1>4 DEF Forward
    <3> QED
      BY <1>2, <1>3, <2>2, <3>1, <3>2, ReachesNext
  <2>3. CASE k = n + 1 /\ j = n + 1
    BY <1>2, <1>3, <2>3, ReachesItself
  <2> QED
    BY <1>2, <2>1, <2>2, <2>3
<1>7. DominatorsAround'
  <2> SUFFICES ASSUME NEW j \in 1..n + 1, NEW a \in BBs, IsDominator(a, stack'[j].bb)
               PROVE  \E i \in 1..j : stack'[i].bb = a
    BY <1>1, <1>3, SameGraph DEF DominatorsAround
  <2>1. CASE j \in 1..n
    <3>1. PICK i \in 1..j : stack[i].bb = a
      BY <1>2, <1>3, <2>1 DEF SearchFacts, DominatorsAround
    <3>2. i \in 1..n
      BY <1>2, <2>1
    <3> QED
      BY <1>3, <3>1, <3>2
  <2>2. CASE j = n + 1 /\ a = Succ
    BY <1>2, <1>3, <2>2
  <2>3. CASE j = n + 1 /\ a # Succ
    <3>1. IsDominator(a, Top.bb)
      BY <1>2, <1>3, <1>4, <2>3, IsDominatorParts DEF SearchFacts
    <3>2. PICK i \in 1..n : stack[i].bb = a
      BY <1>2, <3>1 DEF SearchFacts, DominatorsAround
    <3>3. i \in 1..j
      BY <1>2, <2>3
    <3> QED
      BY <1>3, <3>2, <3>3
  <2> QED
    BY <1>2, <2>1, <2>2, <2>3
<1>8. DominatorsLater'
  BY <1>1, SameGraph DEF SearchFacts, DominatorsLater
<1>9. EdgesSeen'
  <2>1. \A a, b : /\ LeftBefore(a, b)' = LeftBefore(a, b)
                  /\ IsBackEdge(a, b)' = IsBackEdge(a, b)
    BY <1>1 DEF LeftBefore, IsBackEdge
  <2>2. \A a, b : Above(a, b) => Above(a, b)'
    <3> SUFFICES ASSUME NEW a, NEW b, NEW j \in 1..n, NEW k \in 1..n,
                        j < k, stack[j].bb = a, stack[k].bb = b
                 PROVE  \E p, q \in 1..n + 1 : p < q /\ stack'[p].bb = a /\ stack'[q].bb = b
      BY <1>2, <1>3 DEF Above
    <3>1. j \in 1..n + 1 /\ k \in 1..n + 1
      BY <1>2
    <3> QED
      BY <1>3, <3>1
  <2>3. \A b, s : b = Top.bb /\ s = Succ => Above(b, s)'
    <3>1. n \in 1..n + 1 /\ n + 1 \in 1..n + 1 /\ n < n + 1 /\ n \in 1..n
      BY <1>2
    <3> QED
      BY <1>2, <1>3, <3>1 DEF Above
  <2> SUFFICES ASSUME NEW b \in BBs, NEW i \in DOMAIN graph.succs[b],
                      b \in black \/ \E k \in 1..n + 1 : stack'[k].bb = b /\ i < stack'[k].next
               PROVE  \/ LeftBefore(graph.succs[b][i], b)
                      \/ IsBackEdge(b, graph.succs[b][i])
                      \/ \A s : s = graph.succs[b][i] => Above(b, s)'
    BY <1>1, <1>3, <2>1, SameGraph DEF EdgesSeen
  <2>4. i \in Nat /\ i >= 1
    <3>1. i \in Nat \ {0}
      BY <1>2, SuccessorParts
    <3> QED
      BY <3>1
  <2>5. CASE b \in black \/ \E k \in DOMAIN stack : stack[k].bb = b /\ i < stack[k].next
    <3>1. \/ LeftBefore(graph.succs[b][i], b)
          \/ IsBackEdge(b, graph.succs[b][i])
          \/ Above(b, graph.succs[b][i])
      BY <2>5 DEF SearchFacts, EdgesSeen
    <3>2. ASSUME Above(b, graph.succs[b][i]), NEW s, s = graph.succs[b][i]
          PROVE  Above(b, s)'
      BY <2>2, <3>2
    <3> QED
      BY <3>1, <3>2
  <2>6. CASE ~(b \in black \/ \E k \in DOMAIN stack : stack[k].bb = b /\ i < stack[k].next)
    <3>1. PICK k \in 1..n + 1 : stack'[k].bb = b /\ i < stack'[k].next
      BY <2>6
    <3>2. k \in 1..n
      BY <1>2, <1>3, <2>4, <3>1
    <3>3. stack[k].bb = b /\ i < Advanced[k].next /\ ~(i < stack[k].next)
      BY <1>2, <1>3, <2>6, <3>1, <3>2
    <3>4. k = n
      <4>1. stack \in Seq(Activation) /\ k \in DOMAIN stack
        BY <1>2, <3>2, StateParts
      <4>2. k # n => Advanced[k] = stack[k]
        BY <4>1 DEF Advanced
      <4> QED
        BY <3>3, <4>2
    <3>5. i = Top.next /\ b = Top.bb
      <4>1. Advanced[n].next = Top.next + 1 /\ Top = stack[n] /\ Top.next \in Nat
        BY <1>1, <1>2, AdvancedParts
      <4> QED
        BY <2>4, <3>3, <3>4, <4>1
    <3> QED
      BY <1>2, <2>3, <3>5
  <2> QED
    BY <2>5, <2>6
<1>10. LoopsRecorded' /\ LoopsFresh' /\ Accepted'
  BY <1>1, LoopsKept
<1> QED
  BY <1>5, <1>6, <1>7, <1>8, <1>9, <1>10 DEF SearchFacts

\* The innermost block lies behind a grey successor on a path of edges that
\* close no loop, so the edge between them closes a cycle.
LEMMA EdgeClosesCycle ==
  ASSUME IInv, Searching, HasNext, SearchFacts, Succ \in grey
  PROVE  ClosesCycle(Top.bb, Succ)
<1>1. /\ Len(stack) \in Nat \ {0} /\ Len(stack) \in DOMAIN stack /\ DOMAIN stack = 1..Len(stack)
      /\ Top = stack[Len(stack)]
      /\ Top.bb \in BBs /\ graph \in Graphs
      /\ Top.next \in DOMAIN graph.succs[Top.bb] /\ Succ = graph.succs[Top.bb][Top.next]
  BY TopParts, StateParts, SuccParts
<1>2. PICK i \in DOMAIN stack : stack[i].bb = Succ
  BY TopActive
<1>3. i <= Len(stack)
  BY <1>1
<1>4. Top.bb \in ReachableFrom(Succ, BBs, Forward)
  BY <1>1, <1>2, <1>3 DEF SearchFacts, StackIsPath
<1> QED
  BY <1>1, <1>4, SuccessorParts DEF ClosesCycle

LEMMA NewLoopFinds ==
  ASSUME IInv, SearchFacts, FromFirst, NewLoop
  PROVE  SearchFacts' /\ FromFirst'
<1> DEFINE m == Len(loops)
           new == [header |-> Succ, backEdges |-> {Top.bb}, basicBlocks |-> {Succ},
                   outer |-> NoLoop, inner |-> {},
                   irreducible |-> IsLoopIrreducible(Succ, Top.bb)]
<1>1. /\ Searching /\ HasNext /\ Succ \in grey /\ loopOf[Succ] = NoLoop
      /\ loops' = Append(loops, new)
      /\ loopOf' = [loopOf EXCEPT ![Succ] = Len(loops')]
      /\ stack' = Advanced
      /\ graph' = graph /\ grey' = grey /\ black' = black
      /\ dfsBlocks' = dfsBlocks /\ firstLoop' = firstLoop
  BY DEF NewLoop
<1>2. /\ Succ \in BBs /\ Top.bb \in BBs /\ m \in Nat /\ DOMAIN loops = 1..m
      /\ loopOf \in [BBs -> 0..m] /\ loops \in Seq(LoopRec)
  BY <1>1, SuccParts, TopParts, StateParts
<1>3. /\ Len(loops') = m + 1 /\ DOMAIN loops' = 1..m + 1
      /\ \A l \in 1..m : loops'[l] = loops[l]
      /\ loops'[m + 1] = new
  <2>1. new \in LoopRec
    BY <1>2 DEF LoopRec, NoLoop, IsLoopIrreducible
  <2>2. /\ loops' \in Seq(LoopRec) /\ Len(loops') = m + 1
        /\ \A l \in 1..m : loops'[l] = loops[l]
        /\ loops'[m + 1] = new
    <3> HIDE DEF new
    <3> QED
      BY <1>1, <1>2, <2>1
  <2> QED
    BY <2>2, LenProperties
<1>4. loopOf'[Succ] = m + 1 /\ \A b \in BBs : b # Succ => loopOf'[b] = loopOf[b]
  BY <1>1, <1>2, <1>3
<1>5. FromFirst' /\ LeftOnce' /\ StackIsPath' /\ DominatorsAround' /\ DominatorsLater'
  BY <1>1, AdvancedKeeps
<1>6. EdgesSeen'
  <2>1. ASSUME NEW s \in BBs, NEW h \in BBs, IsBackEdge(s, h)
        PROVE  IsBackEdge(s, h)'
    <3>1. h # Succ /\ loopOf[h] \in 1..m
      BY <1>1, <1>2, <2>1 DEF IsBackEdge, NoLoop
    <3> QED
      BY <1>3, <1>4, <2>1, <3>1 DEF IsBackEdge
  <2>2. ASSUME NEW s, NEW h, s = Top.bb, h = Succ
        PROVE  IsBackEdge(s, h)'
    <3>1. loops'[m + 1].backEdges = {Top.bb} /\ m + 1 # NoLoop
      BY <1>2, <1>3 DEF NoLoop
    <3> QED
      BY <1>4, <2>2, <3>1 DEF IsBackEdge
  <2> QED
    BY <1>1, <2>1, <2>2, AdvancedSees
<1>7. LoopsRecorded'
  <2> SUFFICES ASSUME NEW l \in 1..m + 1
               PROVE  /\ loops'[l].header \in grey \cup black /\ loopOf'[loops'[l].header] = l
                      /\ loops'[l].backEdges # {}
                      /\ \A s \in loops'[l].backEdges : ClosesCycle(s, loops'[l].header)
                      /\ loops'[l].irreducible <=>
                           \E s \in loops'[l].backEdges : ~Domites(loops'[l].header, s)
    BY <1>1, <1>3, LoopsRecordedNext
  <2>1. CASE l = m + 1
    <3>1. /\ loops'[l].header = Succ /\ loops'[l].backEdges = {Top.bb}
          /\ loops'[l].irreducible = ~Domites(Succ, Top.bb)
      BY <1>3, <2>1 DEF IsLoopIrreducible
    <3>2. ClosesCycle(Top.bb, Succ)
      BY <1>1, EdgeClosesCycle
    <3> QED
      BY <1>1, <1>4, <2>1, <3>1, <3>2
  <2>2. CASE l \in 1..m
    <3>1. loops'[l] = loops[l] /\ l # NoLoop
      BY <1>2, <1>3, <2>2 DEF NoLoop
    <3>2. loops[l].header \in BBs \ {Succ}
      BY <1>1, <1>2, <2>2, <3>1, StateParts DEF SearchFacts, LoopsRecorded
    <3> QED
      BY <1>2, <1>4, <2>2, <3>1, <3>2 DEF SearchFacts, LoopsRecorded
  <2> QED
    BY <1>2, <2>1, <2>2
<1>8. LoopsFresh'
  <2>1. \A b \in BBs : loopOf'[b] # NoLoop => loops'[loopOf'[b]].header = b
    <3> SUFFICES ASSUME NEW b \in BBs, loopOf'[b] # NoLoop
                 PROVE  loops'[loopOf'[b]].header = b
      OBVIOUS
    <3>1. CASE b = Succ
      BY <1>3, <1>4, <3>1
    <3>2. CASE b # Succ
      <4>1. loopOf'[b] = loopOf[b] /\ loopOf[b] \in 1..m
        BY <1>2, <1>4, <3>2 DEF NoLoop
      <4> QED
        BY <1>3, <4>1 DEF SearchFacts, LoopsFresh
    <3> QED
      BY <3>1, <3>2
  <2>2. ASSUME NEW l \in 1..m + 1
        PROVE  /\ loops'[l].basicBlocks = {loops'[l].header}
               /\ loops'[l].outer = NoLoop /\ loops'[l].inner = {}
    <3>1. CASE l = m + 1
      BY <1>3, <3>1
    <3>2. CASE l \in 1..m
      BY <1>2, <1>3, <3>2 DEF SearchFacts, LoopsFresh
    <3> QED
      BY <1>2, <3>1, <3>2
  <2> QED
    BY <1>1, <1>3, <2>1, <2>2, SameGraph DEF SearchFacts, LoopsFresh
<1> QED
  BY <1>1, <1>5, <1>6, <1>7, <1>8, SameGraph DEF SearchFacts

LEMMA AddBackEdgeFinds ==
  ASSUME IInv, SearchFacts, FromFirst, AddBackEdge
  PROVE  SearchFacts' /\ FromFirst'
<1> DEFINE l == loopOf[Succ]
           m == Len(loops)
<1>1. /\ Searching /\ HasNext /\ Succ \in grey /\ l # NoLoop
      /\ loops' = [loops EXCEPT ![l].backEdges = @ \cup {Top.bb},
                                ![l].irreducible = @ \/ IsLoopIrreducible(Succ, Top.bb)]
      /\ stack' = Advanced
      /\ graph' = graph /\ grey' = grey /\ black' = black
      /\ dfsBlocks' = dfsBlocks /\ firstLoop' = firstLoop /\ loopOf' = loopOf
  BY DEF AddBackEdge
<1>2. /\ Succ \in BBs /\ Top.bb \in BBs /\ m \in Nat /\ DOMAIN loops = 1..m
      /\ loopOf \in [BBs -> 0..m] /\ l \in DOMAIN loops
      /\ \A k \in DOMAIN loops : loops[k] \in LoopRec
  <2>1. /\ Succ \in BBs /\ Top.bb \in BBs /\ m \in Nat /\ DOMAIN loops = 1..m
        /\ loopOf \in [BBs -> 0..m]
        /\ \A k \in DOMAIN loops : loops[k] \in LoopRec
    BY <1>1, SuccParts, TopParts, StateParts
  <2> QED
    BY <1>1, <2>1 DEF NoLoop
<1>3. loops[l].header = Succ
  BY <1>1, <1>2 DEF SearchFacts, LoopsFresh
<1>4. /\ DOMAIN loops' = DOMAIN loops
      /\ \A k \in DOMAIN loops : k # l => loops'[k] = loops[k]
      /\ loops'[l].header = loops[l].header
      /\ loops'[l].basicBlocks = loops[l].basicBlocks
      /\ loops'[l].outer = loops[l].outer /\ loops'[l].inner = loops[l].inner
      /\ loops'[l].backEdges = loops[l].backEdges \cup {Top.bb}
      /\ loops'[l].irreducible = (loops[l].irreducible \/ ~Domites(Succ, Top.bb))
  <2>1. loops[l] \in LoopRec
    BY <1>2
  <2>2. loops'[l] = [loops[l] EXCEPT !.backEdges = @ \cup {Top.bb},
                                     !.irreducible = @ \/ IsLoopIrreducible(Succ, Top.bb)]
    BY <1>1, <1>2
  <2>3. DOMAIN loops' = DOMAIN loops /\ \A k \in DOMAIN loops : k # l => loops'[k] = loops[k]
    BY <1>1, <1>2
  <2> HIDE DEF l
  <2> QED
    BY <2>1, <2>2, <2>3 DEF LoopRec, IsLoopIrreducible
<1>5. FromFirst' /\ LeftOnce' /\ StackIsPath' /\ DominatorsAround' /\ DominatorsLater'
  BY <1>1, AdvancedKeeps
<1>6. EdgesSeen'
  <2>1. ASSUME NEW s \in BBs, NEW h \in BBs, IsBackEdge(s, h)
        PROVE  IsBackEdge(s, h)'
    <3>1. loopOf[h] \in DOMAIN loops /\ s \in loops[loopOf[h]].backEdges
      BY <1>2, <2>1 DEF IsBackEdge, NoLoop
    <3>2. s \in loops'[loopOf[h]].backEdges
      BY <1>4, <3>1
    <3> QED
      BY <1>1, <2>1, <3>2 DEF IsBackEdge
  <2>2. ASSUME NEW s, NEW h, s = Top.bb, h = Succ
        PROVE  IsBackEdge(s, h)'
    BY <1>1, <1>4, <2>2 DEF IsBackEdge
  <2> QED
    BY <1>1, <2>1, <2>2, AdvancedSees
<1>7. LoopsRecorded'
  <2> SUFFICES ASSUME NEW k \in DOMAIN loops
               PROVE  /\ loops'[k].header \in grey \cup black /\ loopOf[loops'[k].header] = k
                      /\ loops'[k].backEdges # {}
                      /\ \A s \in loops'[k].backEdges : ClosesCycle(s, loops'[k].header)
                      /\ loops'[k].irreducible <=>
                           \E s \in loops'[k].backEdges : ~Domites(loops'[k].header, s)
    BY <1>1, <1>4, LoopsRecordedNext
  <2>1. CASE k = l
    <3>1. ClosesCycle(Top.bb, Succ)
      BY <1>1, EdgeClosesCycle
    <3>2. /\ Succ \in grey \cup black /\ loopOf[Succ] = l
          /\ loops[l].backEdges # {}
          /\ \A s \in loops[l].backEdges : ClosesCycle(s, Succ)
          /\ loops[l].irreducible <=> \E s \in loops[l].backEdges : ~Domites(Succ, s)
      BY <1>2, <1>3 DEF SearchFacts, LoopsRecorded
    <3>3. /\ loops'[l].header = Succ
          /\ loops'[l].backEdges = loops[l].backEdges \cup {Top.bb}
          /\ loops'[l].irreducible = (loops[l].irreducible \/ ~Domites(Succ, Top.bb))
      BY <1>3, <1>4
    <3> HIDE DEF l
    <3> QED
      BY <2>1, <3>1, <3>2, <3>3
  <2>2. CASE k # l
    BY <1>4, <2>2 DEF SearchFacts, LoopsRecorded
  <2> QED
    BY <2>1, <2>2
<1>8. LoopsFresh'
  <2>1. \A k \in DOMAIN loops :
          /\ loops'[k].header = loops[k].header /\ loops'[k].basicBlocks = loops[k].basicBlocks
          /\ loops'[k].outer = loops[k].outer /\ loops'[k].inner = loops[k].inner
    BY <1>4
  <2>2. \A b \in BBs : loopOf[b] # NoLoop => loopOf[b] \in DOMAIN loops
    BY <1>2 DEF NoLoop
  <2>3. \A b \in BBs : loopOf'[b] # NoLoop => loops'[loopOf'[b]].header = b
    BY <1>1, <2>1, <2>2 DEF SearchFacts, LoopsFresh
  <2>4. \A k \in DOMAIN loops' :
          /\ loops'[k].basicBlocks = {loops'[k].header}
          /\ loops'[k].outer = NoLoop /\ loops'[k].inner = {}
    BY <1>4, <2>1 DEF SearchFacts, LoopsFresh
  <2> QED
    BY <1>1, <2>3, <2>4, SameGraph DEF SearchFacts, LoopsFresh
<1> QED
  BY <1>1, <1>5, <1>6, <1>7, <1>8, SameGraph DEF SearchFacts

\* A block leaves: its dominators stay, its successors have left or are closed
\* by a back edge.
LEMMA LeaveFinds ==
  ASSUME IInv, SearchFacts, FromFirst, Leave
  PROVE  SearchFacts' /\ (Len(stack) # 1 => FromFirst')
<1> DEFINE n == Len(stack)
           d == Len(dfsBlocks)
<1>1. /\ Searching /\ ~HasNext /\ grey' = grey \ {Top.bb} /\ black' = black \cup {Top.bb}
      /\ dfsBlocks' = Append(dfsBlocks, Top.bb) /\ stack' = Front(stack)
      /\ graph' = graph
      /\ loops' = loops /\ firstLoop' = firstLoop /\ loopOf' = loopOf
  BY DEF Leave
<1>2. /\ n \in Nat \ {0} /\ DOMAIN stack = 1..n /\ Top = stack[n] /\ Top.bb \in BBs
      /\ Top.next \in Nat /\ graph \in Graphs
  BY <1>1, TopParts, StateParts
<1>3. /\ DOMAIN stack' = 1..n - 1 /\ (n # 1 => stack' # <<>>)
      /\ \A k \in 1..n - 1 : stack'[k] = stack[k]
  <2>1. \A k \in 1..n - 1 : stack[k] \in Activation
    BY <1>2, StateParts
  <2>2. /\ stack' \in Seq(Activation) /\ Len(stack') = n - 1
        /\ \A k \in 1..n - 1 : stack'[k] = stack[k]
    BY <1>1, <1>2, <2>1, SubSeqProperties DEF Front
  <2> QED
    BY <1>2, <2>2, LenProperties, EmptySeq
<1>4. /\ d \in Nat /\ DOMAIN dfsBlocks = 1..d /\ DOMAIN dfsBlocks' = 1..d + 1
      /\ \A k \in 1..d : dfsBlocks'[k] = dfsBlocks[k]
      /\ dfsBlocks'[d + 1] = Top.bb
  <2>1. dfsBlocks \in Seq(BBs)
    BY StateParts
  <2>2. /\ dfsBlocks' \in Seq(BBs) /\ Len(dfsBlocks') = d + 1
        /\ \A k \in 1..d : dfsBlocks'[k] = dfsBlocks[k]
        /\ dfsBlocks'[d + 1] = Top.bb
    BY <1>1, <1>2, <2>1
  <2> QED
    BY <2>1, <2>2, LenProperties
<1>5. /\ Top.bb \in grey /\ \A k \in 1..d : dfsBlocks[k] # Top.bb
      /\ \A j, k \in 1..n : stack[j].bb = stack[k].bb => j = k
      /\ grey = {stack[k].bb : k \in 1..n} /\ grey \cap black = {}
  BY <1>1, <1>2, <1>4, TopActive DEF ToSet
<1>6. n # 1 => FromFirst'
  <2> SUFFICES ASSUME n # 1
               PROVE  FromFirst'
    OBVIOUS
  <2>1. 1 \in 1..n - 1
    BY <1>2
  <2> QED
    BY <1>1, <1>3, <2>1 DEF FromFirst
<1>7. LeftOnce'
  <2>1. ToSet(dfsBlocks') = ToSet(dfsBlocks) \cup {Top.bb}
    <3>1. 1..d + 1 = (1..d) \cup {d + 1}
      BY <1>4
    <3> QED
      BY <1>4, <3>1 DEF ToSet
  <2>2. ASSUME NEW j \in 1..d + 1, NEW k \in 1..d + 1, dfsBlocks'[j] = dfsBlocks'[k]
        PROVE  j = k
    <3>1. \A i \in 1..d + 1 : i \in 1..d \/ i = d + 1
      BY <1>4
    <3>2. \A p, q \in 1..d : dfsBlocks[p] = dfsBlocks[q] => p = q
      BY <1>4 DEF SearchFacts, LeftOnce
    <3>3. \A i \in 1..d : dfsBlocks'[i] # Top.bb
      BY <1>4, <1>5
    <3> QED
      BY <1>4, <2>2, <3>1, <3>2, <3>3
  <2> QED
    BY <1>1, <1>4, <2>1, <2>2 DEF SearchFacts, LeftOnce
<1>8. StackIsPath'
  BY <1>1, <1>2, <1>3, SameGraph DEF SearchFacts, StackIsPath
<1>9. DominatorsAround'
  <2>1. ASSUME NEW j \in 1..n - 1, NEW a \in BBs, IsDominator(a, stack[j].bb)
        PROVE  \E i \in 1..j : stack'[i].bb = a
    <3>1. PICK i \in 1..j : stack[i].bb = a
      BY <1>2, <2>1 DEF SearchFacts, DominatorsAround
    <3>2. i \in 1..n - 1
      BY <1>2
    <3> QED
      BY <1>3, <3>1, <3>2
  <2>2. \A j \in 1..n - 1 : \A a, h : h = stack'[j].bb => (IsDominator(a, h)' <=> IsDominator(a, stack[j].bb))
    BY <1>1, <1>3, SameGraph
  <2>3. BBs' = BBs
    BY <1>1, SameGraph
  <2> QED
    BY <1>3, <2>1, <2>2, <2>3 DEF DominatorsAround
<1>10. DominatorsLater'
  <2> SUFFICES ASSUME NEW k \in 1..d + 1, NEW a \in BBs,
                      a # dfsBlocks'[k], IsDominator(a, dfsBlocks'[k])
               PROVE  a \in grey' \/ \E m \in 1..d + 1 : k < m /\ dfsBlocks'[m] = a
    BY <1>1, <1>4, SameGraph DEF DominatorsLater
  <2>1. CASE k = d + 1
    <3>1. IsDominator(a, stack[n].bb) /\ a # Top.bb
      BY <1>2, <1>4, <2>1
    <3>2. PICK i \in 1..n : stack[i].bb = a
      BY <1>2, <3>1 DEF SearchFacts, DominatorsAround
    <3> QED
      BY <1>1, <1>5, <3>1, <3>2
  <2>2. CASE k \in 1..d
    <3>1. a \in grey \/ \E m \in 1..d : k < m /\ dfsBlocks[m] = a
      BY <1>4, <2>2 DEF SearchFacts, DominatorsLater
    <3>2. CASE a = Top.bb
      <4>1. k < d + 1 /\ d + 1 \in 1..d + 1
        BY <1>4, <2>2
      <4> QED
        BY <1>4, <3>2, <4>1
    <3>3. CASE a \in grey /\ a # Top.bb
      BY <1>1, <3>3
    <3>4. ASSUME NEW m \in 1..d, k < m, dfsBlocks[m] = a
          PROVE  \E q \in 1..d + 1 : k < q /\ dfsBlocks'[q] = a
      <4>1. m \in 1..d + 1
        BY <1>4
      <4> QED
        BY <1>4, <3>4, <4>1
    <3> QED
      BY <3>1, <3>2, <3>3, <3>4
  <2> QED
    BY <1>4, <2>1, <2>2
<1>11. EdgesSeen'
  <2>1. \A a, b : IsBackEdge(a, b)' = IsBackEdge(a, b)
    BY <1>1 DEF IsBackEdge
  <2>2. ASSUME NEW a, NEW b, LeftBefore(a, b)
        PROVE  LeftBefore(a, b)'
    <3>1. PICK k \in 1..d : dfsBlocks[k] = a /\ \A m \in 1..d : dfsBlocks[m] = b => k < m
      BY <1>4, <2>2 DEF LeftBefore
    <3>2. k \in 1..d + 1 /\ k < d + 1
      BY <1>4
    <3>3. \A m \in 1..d + 1 : dfsBlocks'[m] = b => k < m
      BY <1>4, <3>1, <3>2
    <3> QED
      BY <1>4, <3>1, <3>2, <3>3 DEF LeftBefore
  <2>3. ASSUME NEW b, NEW s, Above(b, s), b # Top.bb
        PROVE  Above(b, s)' \/ LeftBefore(s, b)'
    <3>1. PICK j \in 1..n, k \in 1..n : j < k /\ stack[j].bb = b /\ stack[k].bb = s
      BY <1>2, <2>3 DEF Above
    <3>2. j \in 1..n - 1 /\ (k \in 1..n - 1 \/ k = n)
      <4>1. \A p \in Nat \ {0} : \A x, y \in 1..p :
              x < y => x \in 1..p - 1 /\ (y \in 1..p - 1 \/ y = p)
        OBVIOUS
      <4> QED
        BY <1>2, <3>1, <4>1
    <3>3. CASE k \in 1..n - 1
      BY <1>3, <3>1, <3>2, <3>3 DEF Above
    <3>4. CASE k = n
      <4>1. \A m \in 1..d : dfsBlocks[m] # b
        <5>1. b \in grey
          BY <1>5, <3>1
        <5>2. \A m \in 1..d : dfsBlocks[m] \in black
          BY <1>4 DEF SearchFacts, LeftOnce, ToSet
        <5> QED
          BY <1>5, <5>1, <5>2
      <4>2. \A m \in 1..d + 1 : dfsBlocks'[m] # b
        BY <1>4, <2>3, <4>1
      <4>3. s = Top.bb /\ d + 1 \in 1..d + 1
        BY <1>2, <1>4, <3>1, <3>4
      <4> QED
        BY <1>4, <4>2, <4>3 DEF LeftBefore
    <3> QED
      BY <3>2, <3>3, <3>4
  <2>4. \A s : ~Above(Top.bb, s)
    BY <1>2, <1>5 DEF Above
  <2> SUFFICES ASSUME NEW b \in BBs, NEW i \in DOMAIN graph.succs[b],
                      b \in black' \/ \E k \in 1..n - 1 : stack[k].bb = b /\ i < stack[k].next
               PROVE  \A s : s = graph.succs[b][i] =>
                        LeftBefore(s, b)' \/ IsBackEdge(b, s) \/ Above(b, s)'
    BY <1>1, <1>3, <2>1, SameGraph DEF EdgesSeen
  <2>5. b \in black \/ \E k \in 1..n : stack[k].bb = b /\ i < stack[k].next
    <3>1. CASE b = Top.bb
      <4>1. i < Top.next
        <5>1. /\ DOMAIN graph.succs[b] = 1..Len(graph.succs[b])
              /\ Len(graph.succs[b]) \in Nat
          BY <1>2, GraphParts
        <5>2. ~(Top.next <= Len(graph.succs[b])) /\ i <= Len(graph.succs[b]) /\ i \in Nat
          BY <1>1, <3>1, <5>1 DEF HasNext
        <5> QED
          BY <1>2, <5>1, <5>2
      <4> QED
        BY <1>2, <3>1, <4>1
    <3>2. CASE b \in black
      BY <3>2
    <3>3. ASSUME NEW k \in 1..n - 1, stack[k].bb = b, i < stack[k].next
          PROVE  k \in 1..n /\ stack[k].bb = b /\ i < stack[k].next
      BY <1>2, <3>3
    <3> QED
      BY <1>1, <3>1, <3>2, <3>3
  <2>6. \/ LeftBefore(graph.succs[b][i], b)
        \/ IsBackEdge(b, graph.succs[b][i])
        \/ Above(b, graph.succs[b][i])
    BY <1>2, <2>5 DEF SearchFacts, EdgesSeen
  <2> QED
    BY <2>2, <2>3, <2>4, <2>6
<1>12. LoopsRecorded' /\ LoopsFresh' /\ Accepted'
  BY <1>1, <1>5, LoopsKept
<1> QED
  BY <1>6, <1>7, <1>8, <1>9, <1>10, <1>11, <1>12 DEF SearchFacts

-----------------------------------------------------------------------------
(* What the search has found when it ends, and the irreducible loops.        *)

\* Where the search left the block.
Pos(b) == CHOOSE n \in DOMAIN dfsBlocks : dfsBlocks[n] = b

\* The edge from s to h is a back edge of the loop h heads.
Recorded(s, h) == \E l \in DOMAIN loops : loops[l].header = h /\ s \in loops[l].backEdges

SearchDone ==
  /\ Accepted /\ firstLoop = 0
  /\ LeftOnce /\ black = BBs /\ grey = {}
  /\ DominatorsLater
  /\ \A e \in Edges : Pos(e[2]) < Pos(e[1]) \/ Recorded(e[1], e[2])
  /\ LoopsRecorded

\* Each block has one place in the order.
LEMMA PosParts ==
  ASSUME LeftOnce, black = BBs, dfsBlocks \in Seq(BBs)
  PROVE  /\ \A b \in BBs : Pos(b) \in 1..Len(dfsBlocks) /\ dfsBlocks[Pos(b)] = b
         /\ \A b \in BBs : Pos(b) \in Nat
         /\ \A n \in DOMAIN dfsBlocks : dfsBlocks[n] \in BBs /\ Pos(dfsBlocks[n]) = n
         /\ DOMAIN dfsBlocks = 1..Len(dfsBlocks) /\ Len(dfsBlocks) \in Nat
<1>1. DOMAIN dfsBlocks = 1..Len(dfsBlocks) /\ Len(dfsBlocks) \in Nat
  BY LenProperties
<1>2. \A b \in BBs : \E n \in DOMAIN dfsBlocks : dfsBlocks[n] = b
  BY DEF LeftOnce, ToSet
<1>3. \A b \in BBs : Pos(b) \in DOMAIN dfsBlocks /\ dfsBlocks[Pos(b)] = b
  BY <1>2 DEF Pos
<1>4. \A n \in DOMAIN dfsBlocks : dfsBlocks[n] \in BBs
  BY <1>1, ElementOfSeq
<1>5. \A n \in DOMAIN dfsBlocks : Pos(dfsBlocks[n]) = n
  BY <1>3, <1>4 DEF LeftOnce
<1>6. \A b \in BBs : Pos(b) \in Nat
  BY <1>1, <1>3
<1> QED
  BY <1>1, <1>3, <1>4, <1>5, <1>6

\* A search without activations has left every block, and every edge leads to a
\* block left before or is recorded.
LEMMA SearchEnds ==
  /\ graph \in Graphs /\ dfsBlocks \in Seq(BBs) /\ loopOf \in [BBs -> 0..Len(loops)]
  /\ loops \in Seq(LoopRec)
  /\ SearchFacts /\ stack = <<>> /\ grey = {} /\ graph.first \in black
  => SearchDone
<1> SUFFICES ASSUME graph \in Graphs, dfsBlocks \in Seq(BBs), loops \in Seq(LoopRec),
                    loopOf \in [BBs -> 0..Len(loops)],
                    SearchFacts, stack = <<>>, grey = {}, graph.first \in black
             PROVE  SearchDone
  OBVIOUS
<1>1. /\ Accepted /\ firstLoop = 0 /\ LeftOnce /\ DominatorsLater /\ LoopsRecorded
      /\ EdgesSeen
  BY DEF SearchFacts, LoopsFresh
<1>2. DOMAIN dfsBlocks = 1..Len(dfsBlocks) /\ DOMAIN loops = 1..Len(loops) /\ Len(loops) \in Nat
  BY LenProperties
<1>3. \A b, s : ~Above(b, s)
  BY DEF Above
<1>4. ASSUME NEW e \in Edges, e[1] \in black
      PROVE  LeftBefore(e[2], e[1]) \/ IsBackEdge(e[1], e[2])
  <2>1. e[1] \in BBs /\ \E i \in DOMAIN graph.succs[e[1]] : graph.succs[e[1]][i] = e[2]
    BY GraphParts DEF Edges, EdgesOf, BBs
  <2> QED
    BY <1>1, <1>3, <1>4, <2>1 DEF EdgesSeen
<1>5. ASSUME NEW s, NEW h \in BBs, IsBackEdge(s, h)
      PROVE  Recorded(s, h) /\ h \in black
  <2>1. /\ loopOf[h] \in DOMAIN loops /\ s \in loops[loopOf[h]].backEdges
        /\ loops[loopOf[h]].header = h
    BY <1>2, <1>5 DEF IsBackEdge, NoLoop, SearchFacts, LoopsFresh
  <2> QED
    BY <1>1, <2>1 DEF Recorded, LoopsRecorded
<1>6. \A e \in Edges : e[1] \in black => e[2] \in black
  <2> SUFFICES ASSUME NEW e \in Edges, e[1] \in black
               PROVE  e[2] \in black
    OBVIOUS
  <2>1. e[2] \in BBs
    BY DEF Edges, EdgesOf, BBs
  <2>2. LeftBefore(e[2], e[1]) => e[2] \in black
    <3>1. \A n \in DOMAIN dfsBlocks : dfsBlocks[n] \in black
      BY <1>1 DEF LeftOnce, ToSet
    <3> QED
      BY <3>1 DEF LeftBefore
  <2> QED
    BY <1>4, <1>5, <2>1, <2>2
<1>7. black = BBs
  <2>1. black \subseteq BBs
    <3>1. \A n \in DOMAIN dfsBlocks : dfsBlocks[n] \in BBs
      BY <1>2, ElementOfSeq
    <3> QED
      BY <1>1, <3>1 DEF LeftOnce, ToSet
  <2>2. graph.first \in BBs /\ Edges \subseteq BBs \X BBs
    BY GraphParts
  <2>3. \A e \in Edges : e[1] \in black => e[2] \in black
    BY <1>6
  <2>4. \A b \in ReachableFrom(graph.first, BBs, Edges) : b \in black
    BY <2>2, <2>3, ReachesInside
  <2> QED
    BY <1>1, <2>1, <2>4 DEF Accepted, Whole, BBs, Edges
<1>8. ASSUME NEW e \in Edges
      PROVE  Pos(e[2]) < Pos(e[1]) \/ Recorded(e[1], e[2])
  <2>1. e[1] \in BBs /\ e[2] \in BBs
    BY DEF Edges, EdgesOf, BBs
  <2>2. ASSUME LeftBefore(e[2], e[1])
        PROVE  Pos(e[2]) < Pos(e[1])
    <3>1. PICK n \in DOMAIN dfsBlocks :
            dfsBlocks[n] = e[2] /\ \A m \in DOMAIN dfsBlocks : dfsBlocks[m] = e[1] => n < m
      BY <2>2 DEF LeftBefore
    <3>2. Pos(e[2]) = n /\ Pos(e[1]) \in DOMAIN dfsBlocks /\ dfsBlocks[Pos(e[1])] = e[1]
      BY <1>1, <1>7, <2>1, <3>1, PosParts
    <3> QED
      BY <3>1, <3>2
  <2> QED
    BY <1>4, <1>5, <1>7, <2>1, <2>2
<1> QED
  BY <1>1, <1>7, <1>8 DEF SearchDone

\* The same of the next state.
LEMMA SearchEndsNext ==
  /\ (graph \in Graphs)' /\ (dfsBlocks \in Seq(BBs))' /\ (loopOf \in [BBs -> 0..Len(loops)])'
  /\ (loops \in Seq(LoopRec))'
  /\ SearchFacts' /\ (stack = <<>>)' /\ (grey = {})' /\ (graph.first \in black)'
  => SearchDone'
BY SearchEnds, PTL

\* The last block leaves.
LEMMA LastLeaves ==
  ASSUME IInv, SearchFacts, FromFirst, Leave, Len(stack) = 1
  PROVE  SearchDone' /\ LoopsFresh' /\ stack' = <<>> /\ Len(dfsBlocks') # 0
<1>1. /\ Searching /\ grey' = grey \ {Top.bb} /\ black' = black \cup {Top.bb}
      /\ dfsBlocks' = Append(dfsBlocks, Top.bb) /\ stack' = Front(stack)
      /\ graph' = graph
  BY DEF Leave
<1>2. SearchFacts'
  BY LeaveFinds
<1>3. stack' = <<>>
  BY <1>1, StateParts, SubSeqProperties, EmptySeq DEF Front
<1>4. DOMAIN stack = {1} /\ Top = stack[1] /\ Top.bb = graph.first
  BY StateParts DEF Top, FromFirst
<1>5. grey' = {} /\ graph'.first \in black'
  <2>1. grey = {stack[k].bb : k \in DOMAIN stack}
    BY <1>1, TopActive
  <2> QED
    BY <1>1, <1>4, <2>1
<1>6. IInv'
  BY LeaveIInv
<1>7. /\ (graph \in Graphs)' /\ (dfsBlocks \in Seq(BBs))' /\ (loopOf \in [BBs -> 0..Len(loops)])'
      /\ (loops \in Seq(LoopRec))'
  BY <1>6 DEF IInv, TypeOK
<1>8. Len(dfsBlocks') # 0
  <2>1. dfsBlocks \in Seq(BBs) /\ Top.bb \in BBs
    BY <1>1, StateParts, TopParts
  <2>2. Len(dfsBlocks') = Len(dfsBlocks) + 1 /\ Len(dfsBlocks) \in Nat
    BY <1>1, <2>1, LenProperties
  <2> QED
    BY <2>2
<1> QED
  BY <1>2, <1>3, <1>5, <1>7, <1>8, SearchEndsNext DEF SearchFacts

\* What the steps after the search use of it.
LEMMA DoneParts ==
  ASSUME IInv, SearchDone
  PROVE  /\ \A a, b \in BBs : IsDominator(a, b) /\ a # b => Pos(b) < Pos(a)
         /\ \A l \in DOMAIN loops :
              /\ loops[l].header \in BBs /\ loopOf[loops[l].header] = l
              /\ loops[l].backEdges \subseteq BBs /\ loops[l].backEdges # {}
         /\ \A l, m \in DOMAIN loops : loops[l].header = loops[m].header => l = m
         /\ \A a, b \in BBs : Pos(a) = Pos(b) => a = b
         /\ \A b \in BBs : Pos(b) \in 1..Len(dfsBlocks) /\ Pos(b) \in Nat
<1>1. /\ LeftOnce /\ black = BBs /\ grey = {} /\ DominatorsLater /\ LoopsRecorded
      /\ dfsBlocks \in Seq(BBs)
  BY StateParts DEF SearchDone
<1>2. /\ \A b \in BBs : Pos(b) \in 1..Len(dfsBlocks) /\ dfsBlocks[Pos(b)] = b
      /\ \A b \in BBs : Pos(b) \in Nat
      /\ \A n \in DOMAIN dfsBlocks : Pos(dfsBlocks[n]) = n
      /\ DOMAIN dfsBlocks = 1..Len(dfsBlocks)
  BY <1>1, PosParts
<1>3. ASSUME NEW a \in BBs, NEW b \in BBs, IsDominator(a, b), a # b
      PROVE  Pos(b) < Pos(a)
  <2>1. Pos(b) \in DOMAIN dfsBlocks /\ dfsBlocks[Pos(b)] = b
    BY <1>2
  <2>2. PICK m \in DOMAIN dfsBlocks : Pos(b) < m /\ dfsBlocks[m] = a
    BY <1>1, <1>3, <2>1 DEF DominatorsLater
  <2> QED
    BY <1>2, <2>2
<1>4. \A l \in DOMAIN loops : /\ loops[l].header \in BBs /\ loopOf[loops[l].header] = l
                              /\ loops[l].backEdges # {}
  BY <1>1 DEF LoopsRecorded
<1>5. \A l \in DOMAIN loops : loops[l].backEdges \subseteq BBs
  BY StateParts DEF LoopRec
<1> QED
  BY <1>2, <1>3, <1>4, <1>5

\* No dominator is missed, and in a reducible graph none is made up that would
\* matter: the header of a back edge of the search dominates its source.
Suffices == Reducible \/ BackEdgesRight

LEMMA DominatorsMet ==
  ASSUME graph \in Graphs, Accepted, NEW a \in BBs, NEW b \in BBs, IsDominator(a, b)
  PROVE  Domites(a, b)
<1>1. Whole(graph) => DominatorsKept(graph.dominator, graph.first, BBs, Edges)
  BY GraphAssumption, Zenon DEF BBs, Edges
<1>2. DominatorsKept(graph.dominator, graph.first, BBs, Edges)
  BY <1>1 DEF Accepted
<1> QED
  BY <1>2 DEF DominatorsKept, IsDominator, Domites

LEMMA ReducibleDominates ==
  ASSUME IInv, SearchDone, Reducible, NEW l \in DOMAIN loops, NEW s \in loops[l].backEdges
  PROVE  IsDominator(loops[l].header, s)
<1>1. \A e \in Forward : e[1] \notin ReachableFrom(e[2], BBs, Forward)
  BY StateParts, ReducibleParts
<1>2. ClosesCycle(s, loops[l].header)
  BY DEF SearchDone, LoopsRecorded
<1>3. SUFFICES ASSUME ~IsDominator(loops[l].header, s)
               PROVE  FALSE
  OBVIOUS
<1>4. <<s, loops[l].header>> \in Forward
  BY <1>2, <1>3 DEF ClosesCycle, Forward
<1> QED
  BY <1>1, <1>2, <1>4 DEF ClosesCycle

LEMMA DominatedSources ==
  ASSUME IInv, SearchDone, Suffices, NEW l \in DOMAIN loops, ~loops[l].irreducible,
         NEW s \in loops[l].backEdges
  PROVE  IsDominator(loops[l].header, s)
<1>1. CASE Reducible
  BY <1>1, ReducibleDominates
<1>2. CASE BackEdgesRight
  <2>1. Domites(loops[l].header, s) /\ <<s, loops[l].header>> \in Edges
    BY DEF SearchDone, LoopsRecorded, ClosesCycle
  <2> QED
    BY <1>2, <2>1 DEF BackEdgesRight
<1> QED
  BY <1>1, <1>2 DEF Suffices

LEMMA SameReducible ==
  ASSUME graph' = graph
  PROVE  Reducible' = Reducible /\ BackEdgesRight' = BackEdgesRight /\ Suffices' = Suffices
<1>1. Reducible' = Reducible
  BY DEF Reducible, BBs, Edges, IsDominator
<1>2. BackEdgesRight' = BackEdgesRight
  BY SameGraph DEF BackEdgesRight
<1> QED
  BY <1>1, <1>2 DEF Suffices

\* The loops the search calls irreducible tell whether the graph is.
LEMMA IrreducibleAgree ==
  ASSUME IInv, SearchDone
  PROVE  /\ Reducible => \A l \in DOMAIN loops : ~loops[l].irreducible
         /\ BackEdgesRight /\ (\A l \in DOMAIN loops : ~loops[l].irreducible) => Reducible
<1>1. /\ graph \in Graphs /\ Forward \subseteq BBs \X BBs
      /\ Reducible <=> \A e \in Forward : e[1] \notin ReachableFrom(e[2], BBs, Forward)
  BY StateParts, ReducibleParts
<1>2. ASSUME Reducible, NEW l \in DOMAIN loops, loops[l].irreducible
      PROVE  FALSE
  <2>1. PICK s \in loops[l].backEdges : ~Domites(loops[l].header, s)
    BY <1>2 DEF SearchDone, LoopsRecorded
  <2>2. IsDominator(loops[l].header, s)
    BY <1>2, ReducibleDominates
  <2>3. loops[l].header \in BBs /\ s \in BBs /\ Accepted
    BY DoneParts DEF SearchDone
  <2> QED
    BY <1>1, <2>1, <2>2, <2>3, DominatorsMet
<1>3. ASSUME BackEdgesRight, \A l \in DOMAIN loops : ~loops[l].irreducible
      PROVE  Reducible
  <2>1. ASSUME NEW e \in Forward
        PROVE  /\ e[1] \in BBs /\ e[2] \in BBs /\ Pos(e[1]) \in Nat /\ Pos(e[2]) \in Nat
               /\ Pos(e[2]) < Pos(e[1])
    <3>1. e \in Edges /\ ~IsDominator(e[2], e[1]) /\ e[1] \in BBs /\ e[2] \in BBs
      BY DEF Forward, Edges, EdgesOf, BBs
    <3>2. ~Recorded(e[1], e[2])
      BY <1>3, <3>1 DEF Recorded, SearchDone, LoopsRecorded, BackEdgesRight
    <3> QED
      BY <3>1, <3>2, DoneParts DEF SearchDone
  <2>2. ASSUME NEW e \in Forward
        PROVE  e[1] \notin ReachableFrom(e[2], BBs, Forward)
    <3> DEFINE S == {b \in BBs : Pos(b) <= Pos(e[2])}
    <3>1. e[2] \in S /\ e[2] \in BBs /\ e[1] \notin S
      BY <2>1
    <3>2. \A d \in Forward : d[1] \in S => d[2] \in S
      <4> TAKE d \in Forward
      <4>1. /\ d[1] \in BBs /\ d[2] \in BBs /\ Pos(d[1]) \in Nat /\ Pos(d[2]) \in Nat
            /\ Pos(d[2]) < Pos(d[1])
        BY <2>1
      <4>2. Pos(e[2]) \in Nat
        BY <2>1
      <4> QED
        BY <4>1, <4>2
    <3> HIDE DEF S
    <3>3. \A b \in ReachableFrom(e[2], BBs, Forward) : b \in S
      BY <1>1, <3>1, <3>2, ReachesInside
    <3> QED
      BY <3>1, <3>3
  <2> QED
    BY <1>1, <2>2
<1> QED
  BY <1>2, <1>3

\* In a reducible graph the search records the edges a header dominates.
LEMMA BackEdgesAreSources ==
  ASSUME IInv, SearchDone, Reducible
  PROVE  /\ \A l \in DOMAIN loops : loops[l].backEdges = Sources(loops[l].header)
         /\ \A h \in BBs : Sources(h) # {} => \E l \in DOMAIN loops : loops[l].header = h
<1>1. \A l \in DOMAIN loops : ~loops[l].irreducible
  BY IrreducibleAgree
<1>2. ASSUME NEW l \in DOMAIN loops, NEW s \in loops[l].backEdges
      PROVE  s \in Sources(loops[l].header)
  <2>1. IsDominator(loops[l].header, s) /\ <<s, loops[l].header>> \in Edges
    BY <1>1, DominatedSources DEF SearchDone, LoopsRecorded, ClosesCycle, Suffices
  <2> QED
    BY <2>1 DEF Sources, Edges, EdgesOf, BBs
<1>3. ASSUME NEW h \in BBs, NEW a \in Sources(h)
      PROVE  \E l \in DOMAIN loops : loops[l].header = h /\ a \in loops[l].backEdges
  <2>1. a \in BBs /\ <<a, h>> \in Edges /\ IsDominator(h, a)
    BY DEF Sources
  <2>2. ~(Pos(h) < Pos(a))
    <3>1. Pos(h) \in Nat /\ Pos(a) \in Nat
      BY <2>1, DoneParts
    <3>2. a # h => Pos(a) < Pos(h)
      BY <2>1, DoneParts
    <3> QED
      BY <3>1, <3>2
  <2> QED
    BY <2>1, <2>2 DEF SearchDone, Recorded
<1>4. ASSUME NEW l \in DOMAIN loops, NEW s \in Sources(loops[l].header)
      PROVE  s \in loops[l].backEdges
  BY <1>3, DoneParts
<1> QED
  BY <1>2, <1>3, <1>4

-----------------------------------------------------------------------------
(* The tree of the loops, while the blocks are organized.                    *)

Seen(b) == Pos(b) <= Len(stack)
Header(l) == loops[l].header
Outers == [l \in DOMAIN loops |-> loops[l].outer]

\* The loop and those around it.
Outside(l) == Chain(l, DOMAIN loops, Outers)
Holds(l, b) == loopOf[b] # NoLoop /\ l \in Outside(loopOf[b])

\* A block points to a loop it heads or to one that was organized.
HoldersSeen ==
  \A b \in BBs : loopOf[b] # NoLoop =>
    Header(loopOf[b]) = b \/ Seen(Header(loopOf[b]))

\* A loop around another was organized, and its header left later.
OutersLater ==
  \A l \in DOMAIN loops : loops[l].outer # NoLoop =>
    /\ loops[l].outer \in DOMAIN loops
    /\ Pos(Header(l)) < Pos(Header(loops[l].outer))
    /\ Seen(Header(loops[l].outer))

InnersAgree ==
  \A l \in DOMAIN loops :
    /\ loops[l].inner \subseteq DOMAIN loops
    /\ \A m \in DOMAIN loops : m \in loops[l].inner <=> loops[m].outer = l

BlocksListed ==
  \A b \in BBs, l \in DOMAIN loops :
    /\ b \in loops[l].basicBlocks => loopOf[b] = l
    /\ loopOf[b] = l /\ ~loops[l].irreducible => b \in loops[l].basicBlocks

TreeInv == HoldersSeen /\ OutersLater /\ InnersAgree /\ BlocksListed

\* The loops organized so far hold the blocks of the natural loop.
NaturalInv ==
  \A l \in DOMAIN loops, b \in BBs :
    Seen(Header(l)) => (Holds(l, b) <=> b \in NaturalLoop(Header(l)))

\* Nothing is organized when the search ends.
LEMMA TreeStarts ==
  /\ graph \in Graphs /\ dfsBlocks \in Seq(BBs) /\ loopOf \in [BBs -> 0..Len(loops)]
  /\ loops \in Seq(LoopRec)
  /\ SearchDone /\ LoopsFresh /\ stack = <<>>
  => TreeInv /\ NaturalInv
<1> SUFFICES ASSUME graph \in Graphs, dfsBlocks \in Seq(BBs), loops \in Seq(LoopRec),
                    loopOf \in [BBs -> 0..Len(loops)],
                    SearchDone, LoopsFresh, stack = <<>>
             PROVE  TreeInv /\ NaturalInv
  OBVIOUS
<1>1. \A b \in BBs : ~Seen(b)
  <2>1. \A b \in BBs : Pos(b) \in 1..Len(dfsBlocks) /\ Len(dfsBlocks) \in Nat
    BY PosParts DEF SearchDone
  <2>2. Len(stack) = 0
    OBVIOUS
  <2> QED
    BY <2>1, <2>2 DEF Seen
<1>2. DOMAIN loops = 1..Len(loops) /\ Len(loops) \in Nat
  BY LenProperties
<1>3. \A l \in DOMAIN loops : /\ loops[l].header \in BBs /\ loopOf[loops[l].header] = l
                              /\ loops[l].basicBlocks = {loops[l].header}
                              /\ loops[l].outer = NoLoop /\ loops[l].inner = {}
  BY DEF SearchDone, LoopsRecorded, LoopsFresh
<1>4. HoldersSeen
  BY DEF HoldersSeen, LoopsFresh, Header
<1>5. OutersLater
  BY <1>3 DEF OutersLater
<1>6. InnersAgree
  BY <1>2, <1>3 DEF InnersAgree, NoLoop
<1>7. BlocksListed
  BY <1>2, <1>3 DEF BlocksListed, LoopsFresh, NoLoop
<1>8. NaturalInv
  BY <1>1, <1>3 DEF NaturalInv, Header
<1> QED
  BY <1>4, <1>5, <1>6, <1>7, <1>8 DEF TreeInv

LEMMA TreeStartsNext ==
  /\ (graph \in Graphs)' /\ (dfsBlocks \in Seq(BBs))' /\ (loopOf \in [BBs -> 0..Len(loops)])'
  /\ (loops \in Seq(LoopRec))'
  /\ SearchDone' /\ LoopsFresh' /\ (stack = <<>>)'
  => TreeInv' /\ NaturalInv'
BY TreeStarts, PTL

\* One block is organized.
LEMMA OrganizesOne ==
  ASSUME IInv, SearchDone, Len(stack) < Len(dfsBlocks), NEW b \in BBs, Organize(b)
  PROVE  /\ Len(stack) \in Nat /\ Len(stack') = Len(stack) + 1
         /\ Pos(b) = Len(stack) + 1
         /\ graph' = graph /\ runs' = runs /\ grey' = grey /\ black' = black
         /\ dfsBlocks' = dfsBlocks /\ firstLoop' = firstLoop
         /\ \/ pc' = "tree" /\ Len(stack') = Len(dfsBlocks)
            \/ pc' = "organize" /\ Len(stack') # Len(dfsBlocks)
<1>1. /\ b = dfsBlocks[Len(stack) + 1] /\ stack' = Append(stack, [bb |-> b, next |-> 1])
      /\ graph' = graph /\ runs' = runs /\ grey' = grey /\ black' = black
      /\ dfsBlocks' = dfsBlocks /\ firstLoop' = firstLoop
      /\ \/ pc' = "tree" /\ Len(stack') = Len(dfsBlocks)
         \/ pc' = "organize" /\ Len(stack') # Len(dfsBlocks)
  BY DEF Organize
<1>2. Len(stack) \in Nat /\ Len(stack') = Len(stack) + 1
  <2>1. stack \in Seq(Activation) /\ [bb |-> b, next |-> 1] \in Activation
    BY StateParts DEF Activation
  <2>2. \A a \in Activation : /\ Len(Append(stack, a)) = Len(stack) + 1 /\ Len(stack) \in Nat
    BY <2>1
  <2> QED
    BY <1>1, <2>1, <2>2
<1>3. Pos(b) = Len(stack) + 1
  <2>1. Len(stack) + 1 \in DOMAIN dfsBlocks
    BY <1>2, StateParts, LenProperties
  <2> QED
    BY <1>1, <2>1, StateParts, PosParts DEF SearchDone
<1> QED
  BY <1>1, <1>2, <1>3

\* Organizing changes nothing the search has recorded.
LEMMA DoneKept ==
  ASSUME SearchDone,
         graph' = graph, grey' = grey, black' = black, dfsBlocks' = dfsBlocks,
         firstLoop' = firstLoop, DOMAIN loops' = DOMAIN loops,
         \A l \in DOMAIN loops : /\ loops'[l].header = loops[l].header
                                 /\ loops'[l].backEdges = loops[l].backEdges
                                 /\ loops'[l].irreducible = loops[l].irreducible
                                 /\ loopOf'[loops[l].header] = l
  PROVE  SearchDone' /\ \A b : Pos(b)' = Pos(b)
<1>1. \A b : Pos(b)' = Pos(b)
  BY DEF Pos
<1>2. \A s, h : Recorded(s, h)' = Recorded(s, h)
  BY DEF Recorded
<1>3. LeftOnce' /\ DominatorsLater'
  BY SameGraph DEF SearchDone, LeftOnce, DominatorsLater
<1>4. \A e \in Edges : (Pos(e[2]) < Pos(e[1]) \/ Recorded(e[1], e[2]))'
  <2> TAKE e \in Edges
  <2>1. Pos(e[2]) < Pos(e[1]) \/ Recorded(e[1], e[2])
    BY DEF SearchDone
  <2> QED
    BY <1>1, <1>2, <2>1
<1>5. LoopsRecorded'
  <2>1. \A l \in DOMAIN loops :
          /\ loops[l].header \in grey \cup black /\ loops[l].backEdges # {}
          /\ \A s \in loops[l].backEdges : ClosesCycle(s, loops[l].header)
          /\ loops[l].irreducible <=> \E s \in loops[l].backEdges : ~Domites(loops[l].header, s)
    BY DEF SearchDone, LoopsRecorded
  <2>2. \A l \in DOMAIN loops' :
          /\ loops'[l].header \in grey \cup black /\ loopOf'[loops'[l].header] = l
          /\ loops'[l].backEdges # {}
          /\ \A s \in loops'[l].backEdges : ClosesCycle(s, loops'[l].header)
          /\ loops'[l].irreducible <=> \E s \in loops'[l].backEdges : ~Domites(loops'[l].header, s)
    BY <2>1
  <2> QED
    BY <2>2, LoopsRecordedNext
<1> QED
  BY <1>1, <1>3, <1>4, <1>5, SameGraph DEF SearchDone

\* The parts of TreeInv after a block is organized.
LEMMA TreeNext ==
  ASSUME graph' = graph, \A b : Pos(b)' = Pos(b), Len(stack') = Len(stack) + 1,
         DOMAIN loops' = DOMAIN loops,
         \A l \in DOMAIN loops : /\ loops'[l].header = loops[l].header
                                 /\ loops'[l].irreducible = loops[l].irreducible,
         \A b \in BBs : loopOf'[b] # NoLoop =>
           /\ loopOf'[b] \in DOMAIN loops
           /\ \/ Header(loopOf'[b]) = b
              \/ Pos(Header(loopOf'[b])) <= Len(stack) + 1,
         \A l \in DOMAIN loops : loops'[l].outer # NoLoop =>
           /\ loops'[l].outer \in DOMAIN loops
           /\ Pos(Header(l)) < Pos(Header(loops'[l].outer))
           /\ Pos(Header(loops'[l].outer)) <= Len(stack) + 1,
         \A l \in DOMAIN loops :
           /\ loops'[l].inner \subseteq DOMAIN loops
           /\ \A m \in DOMAIN loops : m \in loops'[l].inner <=> loops'[m].outer = l,
         \A b \in BBs, l \in DOMAIN loops :
           /\ b \in loops'[l].basicBlocks => loopOf'[b] = l
           /\ loopOf'[b] = l /\ ~loops[l].irreducible => b \in loops'[l].basicBlocks
  PROVE  TreeInv'
<1>1. \A l \in DOMAIN loops : \A m : m = l => Header(m)' = Header(l)
  BY DEF Header
<1>2. \A b, c : b = c => (Seen(b)' <=> Pos(c) <= Len(stack) + 1)
  BY DEF Seen
<1>3. HoldersSeen'
  BY <1>1, <1>2, SameGraph DEF HoldersSeen
<1>4. OutersLater'
  BY <1>1, <1>2 DEF OutersLater
<1>5. InnersAgree'
  BY DEF InnersAgree
<1>6. BlocksListed'
  BY SameGraph DEF BlocksListed
<1> QED
  BY <1>3, <1>4, <1>5, <1>6 DEF TreeInv

LEMMA NaturalNext ==
  ASSUME graph' = graph, \A b : Pos(b)' = Pos(b), Len(stack') = Len(stack) + 1,
         DOMAIN loops' = DOMAIN loops,
         \A l \in DOMAIN loops : loops'[l].header = loops[l].header,
         \A l \in DOMAIN loops, b \in BBs :
           Pos(Header(l)) <= Len(stack) + 1 =>
             (Holds(l, b)' <=> b \in NaturalLoop(Header(l)))
  PROVE  NaturalInv'
<1>1. \A l \in DOMAIN loops : Header(l)' = Header(l)
  BY DEF Header
<1>2. \A b, c : b = c => (Seen(b)' <=> Pos(c) <= Len(stack) + 1)
  BY DEF Seen
<1>3. \A h, g : h = g => NaturalLoop(h)' = NaturalLoop(g)
  BY DEF NaturalLoop, BBs, Edges, IsDominator
<1> QED
  BY <1>1, <1>2, <1>3, SameGraph DEF NaturalInv

LEMMA HeaderParts ==
  ASSUME IInv, SearchDone
  PROVE  /\ \A l \in DOMAIN loops : Header(l) \in BBs /\ loopOf[Header(l)] = l /\ l # NoLoop
         /\ \A c \in BBs : Pos(c) \in Nat
         /\ \A c \in BBs : loopOf[c] # NoLoop => loopOf[c] \in DOMAIN loops
<1>1. \A l \in DOMAIN loops : Header(l) \in BBs /\ loopOf[Header(l)] = l
  BY DoneParts DEF Header
<1>2. DOMAIN loops = 1..Len(loops) /\ Len(loops) \in Nat /\ loopOf \in [BBs -> 0..Len(loops)]
  BY StateParts
<1>3. \A c \in BBs : loopOf[c] # NoLoop => loopOf[c] \in DOMAIN loops
  BY <1>2 DEF NoLoop
<1>4. \A l \in DOMAIN loops : l # NoLoop
  BY <1>2 DEF NoLoop
<1> QED
  BY <1>1, <1>3, <1>4, DoneParts

\* A block that heads no loop is passed over.
LEMMA NotAHeaderKeeps ==
  ASSUME IInv, SearchDone, TreeInv, Len(stack) < Len(dfsBlocks), NEW b \in BBs, NotAHeader(b)
  PROVE  SearchDone' /\ TreeInv' /\ (NaturalInv => NaturalInv')
<1>1. Organize(b) /\ ~HeadsLoop(b) /\ loops' = loops /\ loopOf' = loopOf
  BY DEF NotAHeader
<1>2. /\ Len(stack) \in Nat /\ Len(stack') = Len(stack) + 1 /\ Pos(b) = Len(stack) + 1
      /\ graph' = graph /\ grey' = grey /\ black' = black
      /\ dfsBlocks' = dfsBlocks /\ firstLoop' = firstLoop
  BY <1>1, OrganizesOne
<1>3. /\ \A l \in DOMAIN loops : Header(l) \in BBs /\ loopOf[Header(l)] = l /\ l # NoLoop
      /\ \A c \in BBs : Pos(c) \in Nat
      /\ \A c \in BBs : loopOf[c] # NoLoop => loopOf[c] \in DOMAIN loops
  BY HeaderParts
<1>4. SearchDone' /\ \A c : Pos(c)' = Pos(c)
  BY <1>1, <1>2, <1>3, DoneKept DEF Header
<1>5. TreeInv'
  <2>1. \A c \in BBs : loopOf[c] # NoLoop =>
          Header(loopOf[c]) = c \/ Pos(Header(loopOf[c])) <= Len(stack) + 1
    BY <1>2, <1>3 DEF TreeInv, HoldersSeen, Seen
  <2>2. \A l \in DOMAIN loops : loops[l].outer # NoLoop =>
          /\ loops[l].outer \in DOMAIN loops
          /\ Pos(Header(l)) < Pos(Header(loops[l].outer))
          /\ Pos(Header(loops[l].outer)) <= Len(stack) + 1
    BY <1>2, <1>3 DEF TreeInv, OutersLater, Seen
  <2> QED
    BY <1>1, <1>2, <1>3, <1>4, <2>1, <2>2, TreeNext DEF TreeInv, InnersAgree, BlocksListed
<1>6. NaturalInv => NaturalInv'
  <2> SUFFICES ASSUME NaturalInv
               PROVE  NaturalInv'
    OBVIOUS
  <2>1. \A l, c : Holds(l, c)' = Holds(l, c)
    BY <1>1 DEF Holds, Outside, Outers
  <2>2. ASSUME NEW l \in DOMAIN loops, Pos(Header(l)) <= Len(stack) + 1
        PROVE  Seen(Header(l))
    <3>1. Header(l) # b
      BY <1>1, <1>3 DEF HeadsLoop, Header
    <3>2. Pos(Header(l)) # Pos(b)
      BY <1>3, <3>1, DoneParts
    <3>3. Pos(Header(l)) \in Nat
      BY <1>3
    <3> QED
      BY <1>2, <2>2, <3>2, <3>3 DEF Seen
  <2>3. \A l \in DOMAIN loops, c \in BBs : Pos(Header(l)) <= Len(stack) + 1 =>
          (Holds(l, c)' <=> c \in NaturalLoop(Header(l)))
    BY <2>1, <2>2 DEF NaturalInv
  <2> QED
    BY <1>1, <1>2, <1>4, <2>3, NaturalNext
<1> QED
  BY <1>4, <1>5, <1>6

\* An irreducible loop takes in the sources of its back edges.
LEMMA OrganizeIrreducibleKeeps ==
  ASSUME IInv, SearchDone, TreeInv, Len(stack) < Len(dfsBlocks),
         NEW b \in BBs, OrganizeIrreducible(b)
  PROVE  SearchDone' /\ TreeInv' /\ ~Reducible
<1> DEFINE L == loopOf[b]
<1>1. /\ Organize(b) /\ L # NoLoop /\ Header(L) = b /\ loops[L].irreducible /\ loops' = loops
      /\ loopOf' = [s \in BBs |-> IF s \in loops[L].backEdges /\ loopOf[s] = NoLoop
                                  THEN L ELSE loopOf[s]]
  BY DEF OrganizeIrreducible, HeadsLoop, Header
<1>2. /\ Len(stack) \in Nat /\ Len(stack') = Len(stack) + 1 /\ Pos(b) = Len(stack) + 1
      /\ graph' = graph /\ grey' = grey /\ black' = black
      /\ dfsBlocks' = dfsBlocks /\ firstLoop' = firstLoop
  BY <1>1, OrganizesOne
<1>3. /\ \A l \in DOMAIN loops : Header(l) \in BBs /\ loopOf[Header(l)] = l /\ l # NoLoop
      /\ \A c \in BBs : Pos(c) \in Nat
      /\ \A c \in BBs : loopOf[c] # NoLoop => loopOf[c] \in DOMAIN loops
  BY HeaderParts
<1>4. L \in DOMAIN loops
  BY <1>1, <1>3
<1>5. ~Reducible
  BY <1>1, <1>4, IrreducibleAgree
<1>6. \A c \in BBs : loopOf'[c] = L \/ loopOf'[c] = loopOf[c]
  BY <1>1
<1>7. \A c \in BBs : loopOf[c] # NoLoop => loopOf'[c] = loopOf[c]
  BY <1>1
<1>8. SearchDone' /\ \A c : Pos(c)' = Pos(c)
  <2>1. \A l \in DOMAIN loops : loopOf'[loops[l].header] = l
    BY <1>3, <1>7 DEF Header
  <2> QED
    BY <1>1, <1>2, <2>1, DoneKept
<1>9. TreeInv'
  <2>1. \A c \in BBs : loopOf'[c] # NoLoop =>
          /\ loopOf'[c] \in DOMAIN loops
          /\ Header(loopOf'[c]) = c \/ Pos(Header(loopOf'[c])) <= Len(stack) + 1
    <3> SUFFICES ASSUME NEW c \in BBs, loopOf'[c] # NoLoop
                 PROVE  /\ loopOf'[c] \in DOMAIN loops
                        /\ Header(loopOf'[c]) = c \/ Pos(Header(loopOf'[c])) <= Len(stack) + 1
      OBVIOUS
    <3>1. CASE loopOf'[c] = L
      BY <1>1, <1>2, <1>4, <3>1
    <3>2. CASE loopOf'[c] = loopOf[c]
      <4>1. Header(loopOf[c]) = c \/ Seen(Header(loopOf[c]))
        BY <3>2 DEF TreeInv, HoldersSeen
      <4> QED
        BY <1>2, <1>3, <3>2, <4>1 DEF Seen
    <3> QED
      BY <1>6, <3>1, <3>2
  <2>2. \A l \in DOMAIN loops : loops[l].outer # NoLoop =>
          /\ loops[l].outer \in DOMAIN loops
          /\ Pos(Header(l)) < Pos(Header(loops[l].outer))
          /\ Pos(Header(loops[l].outer)) <= Len(stack) + 1
    BY <1>2, <1>3 DEF TreeInv, OutersLater, Seen
  <2>3. \A c \in BBs, l \in DOMAIN loops :
           /\ c \in loops[l].basicBlocks => loopOf'[c] = l
           /\ loopOf'[c] = l /\ ~loops[l].irreducible => c \in loops[l].basicBlocks
    BY <1>1, <1>3, <1>6, <1>7 DEF TreeInv, BlocksListed
  <2> QED
    BY <1>1, <1>2, <1>8, <2>1, <2>2, <2>3, TreeNext DEF TreeInv, InnersAgree
<1> QED
  BY <1>5, <1>8, <1>9

\* The chains of outer loops.
LEMMA OutsideParts ==
  ASSUME IInv, SearchDone, TreeInv, NEW l \in DOMAIN loops
  PROVE  /\ l \in Outside(l) /\ Outside(l) \subseteq DOMAIN loops
         /\ \A p \in Outside(l) : p # l => Seen(Header(p))
         /\ \E t \in Outside(l) : loops[t].outer = NoLoop
         /\ \A p \in DOMAIN loops : Outers[p] = loops[p].outer
         /\ \A p \in DOMAIN loops : Outers[p] \in DOMAIN loops <=> loops[p].outer # NoLoop
<1>1. /\ \A p \in DOMAIN loops : Outers[p] = loops[p].outer
      /\ \A p \in DOMAIN loops : Outers[p] \in DOMAIN loops <=> loops[p].outer # NoLoop
  BY StateParts DEF Outers, TreeInv, OutersLater, NoLoop
<1>2. l \in Outside(l) /\ Outside(l) \subseteq DOMAIN loops
  BY ChainParts DEF Outside
<1>3. ASSUME NEW p \in Outside(l), p # l
      PROVE  Seen(Header(p))
  <2>1. PICK q \in Outside(l) : Outers[q] = p
    BY <1>3, ChainLast DEF Outside
  <2>2. p \in DOMAIN loops /\ q \in DOMAIN loops /\ loops[q].outer = p /\ loops[q].outer # NoLoop
    BY <1>1, <1>2, <2>1
  <2> QED
    BY <2>2 DEF TreeInv, OutersLater
<1>4. \E t \in Outside(l) : Outers[t] \notin DOMAIN loops
  <2> DEFINE rank == [p \in DOMAIN loops |-> Pos(Header(p))]
             B == Len(dfsBlocks)
  <2>1. B \in Nat /\ \A p \in DOMAIN loops : rank[p] \in 0..B
    <3>1. B \in Nat
      BY StateParts, LenProperties
    <3>2. \A p \in DOMAIN loops : Pos(Header(p)) \in 1..B
      BY DoneParts DEF Header
    <3> QED
      BY <3>1, <3>2
  <2>2. \A p \in DOMAIN loops : Outers[p] \in DOMAIN loops => rank[p] < rank[Outers[p]]
    BY <1>1 DEF TreeInv, OutersLater
  <2> HIDE DEF rank, B
  <2> QED
    BY <2>1, <2>2, ChainEnds DEF Outside
<1> QED
  BY <1>1, <1>2, <1>3, <1>4

\* What ClassifyReducibleLoop collects for loop l.
Own(l) == {c \in Collected(l) : loopOf[c] = NoLoop}
Adopted(l) == Orphans({loopOf[c] : c \in Collected(l) \ Own(l)} \ {l})

Reclassified(l) ==
  \A m \in DOMAIN loops :
    /\ loops'[m].header = loops[m].header
    /\ loops'[m].backEdges = loops[m].backEdges
    /\ loops'[m].irreducible = loops[m].irreducible
    /\ loops'[m].basicBlocks =
         IF m = l THEN loops[m].basicBlocks \cup Own(l) ELSE loops[m].basicBlocks
    /\ loops'[m].inner = IF m = l THEN loops[m].inner \cup Adopted(l) ELSE loops[m].inner
    /\ loops'[m].outer = IF m \in Adopted(l) THEN l ELSE loops[m].outer

LEMMA ClassifyParts ==
  ASSUME IInv, SearchDone, Suffices, TreeInv, Len(stack) < Len(dfsBlocks),
         NEW b \in BBs, ClassifyReducibleLoop(b), NEW l, l = loopOf[b]
  PROVE  /\ Organize(b) /\ l \in DOMAIN loops /\ Header(l) = b /\ ~loops[l].irreducible
         /\ loops[l].outer = NoLoop
         /\ loopOf' = [c \in BBs |-> IF c \in Own(l) THEN l ELSE loopOf[c]]
         /\ DOMAIN loops' = DOMAIN loops
         /\ Reclassified(l)
         /\ \A c \in Collected(l) : c \in BBs /\ c # b /\ IsDominator(b, c) /\ Pos(c) < Pos(b)
         /\ \A m \in Adopted(l) :
              /\ m \in DOMAIN loops /\ m # l /\ loops[m].outer = NoLoop
              /\ \E c \in Collected(l) : loopOf[c] = m
         /\ \A c \in Collected(l) :
              loopOf[c] \notin {NoLoop, l} /\ loops[loopOf[c]].outer = NoLoop => loopOf[c] \in Adopted(l)
<1>1. /\ Organize(b) /\ l # NoLoop /\ Header(l) = b /\ ~loops[l].irreducible
      /\ loopOf' = [c \in BBs |-> IF c \in Own(l) THEN l ELSE loopOf[c]]
      /\ loops' = [m \in DOMAIN loops |->
           IF m = l THEN [loops[m] EXCEPT !.basicBlocks = @ \cup Own(l),
                                          !.inner = @ \cup Adopted(l)]
           ELSE IF m \in Adopted(l) THEN [loops[m] EXCEPT !.outer = l]
           ELSE loops[m]]
  BY DEF ClassifyReducibleLoop, HeadsLoop, Header, Own, Adopted
<1>2. l \in DOMAIN loops
  BY <1>1, HeaderParts
<1>3. Pos(b) = Len(stack) + 1 /\ Len(stack) \in Nat
  BY <1>1, OrganizesOne
<1>4. loops[l].outer = NoLoop
  <2> SUFFICES ASSUME loops[l].outer # NoLoop
               PROVE  FALSE
    OBVIOUS
  <2>1. /\ loops[l].outer \in DOMAIN loops
        /\ Pos(b) < Pos(Header(loops[l].outer)) /\ Pos(Header(loops[l].outer)) <= Len(stack)
    BY <1>1, <1>2 DEF TreeInv, OutersLater, Seen
  <2>2. Pos(Header(loops[l].outer)) \in Nat
    BY <2>1, HeaderParts
  <2> QED
    BY <1>3, <2>1, <2>2
<1>5. ASSUME NEW c \in Collected(l)
      PROVE  c \in BBs /\ c # b /\ IsDominator(b, c) /\ Pos(c) < Pos(b)
  <2>1. loops[l].header = b /\ loops[l].backEdges \subseteq BBs /\ graph \in Graphs
    BY <1>1, <1>2, DoneParts, StateParts DEF Header
  <2>2. /\ c \in BBs /\ c # b
        /\ \E s \in loops[l].backEdges : s \in ReachableFrom(c, BBs, Inside(b))
    BY <2>1, CollectedReaches
  <2>3. PICK s \in loops[l].backEdges : s \in ReachableFrom(c, BBs, Inside(b))
    BY <2>2
  <2>4. IsDominator(b, s)
    <3>1. IsDominator(loops[l].header, s)
      BY <1>1, <1>2, <2>3, DominatedSources
    <3> QED
      BY <2>1, <3>1
  <2>5. graph.first \in BBs /\ Edges \subseteq BBs \X BBs
    BY <2>1, GraphParts
  <2>6. IsDominator(b, c)
    BY <2>2, <2>3, <2>4, <2>5, DominatesBackwards DEF IsDominator, Inside
  <2> QED
    BY <2>2, <2>6, DoneParts
<1>6. ASSUME NEW m \in Adopted(l)
      PROVE  /\ m \in DOMAIN loops /\ m # l /\ loops[m].outer = NoLoop
             /\ \E c \in Collected(l) : loopOf[c] = m
  <2>1. PICK c \in Collected(l) : c \notin Own(l) /\ m = loopOf[c]
    BY DEF Adopted, Orphans
  <2>2. m \in DOMAIN loops
    BY <1>5, <2>1, HeaderParts DEF Own
  <2> QED
    BY <2>1, <2>2 DEF Adopted, Orphans
<1>7. \A c \in Collected(l) :
        loopOf[c] \notin {NoLoop, l} /\ loops[loopOf[c]].outer = NoLoop => loopOf[c] \in Adopted(l)
  BY DEF Adopted, Orphans, Own
<1>8. DOMAIN loops' = DOMAIN loops
  BY <1>1
<1>9. ASSUME NEW m \in DOMAIN loops
      PROVE  /\ loops'[m].header = loops[m].header
             /\ loops'[m].backEdges = loops[m].backEdges
             /\ loops'[m].irreducible = loops[m].irreducible
             /\ loops'[m].basicBlocks =
                  IF m = l THEN loops[m].basicBlocks \cup Own(l) ELSE loops[m].basicBlocks
             /\ loops'[m].inner = IF m = l THEN loops[m].inner \cup Adopted(l) ELSE loops[m].inner
             /\ loops'[m].outer = IF m \in Adopted(l) THEN l ELSE loops[m].outer
  <2>1. loops[m] \in LoopRec
    BY StateParts
  <2>2. CASE m = l
    <3>1. loops'[m] = [loops[m] EXCEPT !.basicBlocks = @ \cup Own(l), !.inner = @ \cup Adopted(l)]
      BY <1>1, <2>2
    <3>2. m \notin Adopted(l)
      BY <1>6, <2>2
    <3> QED
      BY <2>1, <2>2, <3>1, <3>2 DEF LoopRec
  <2>3. CASE m # l /\ m \in Adopted(l)
    <3>1. loops'[m] = [loops[m] EXCEPT !.outer = l]
      BY <1>1, <2>3
    <3> QED
      BY <2>1, <2>3, <3>1 DEF LoopRec
  <2>4. CASE m # l /\ m \notin Adopted(l)
    <3>1. loops'[m] = loops[m]
      BY <1>1, <2>4
    <3> QED
      BY <2>4, <3>1
  <2> QED
    BY <2>2, <2>3, <2>4
<1> QED
  BY <1>1, <1>2, <1>4, <1>5, <1>6, <1>7, <1>8, <1>9 DEF Reclassified

\* A reducible loop takes in blocks that left before its header, and the loops
\* they are in.
LEMMA ClassifyKeeps ==
  ASSUME IInv, SearchDone, Suffices, TreeInv, Len(stack) < Len(dfsBlocks),
         NEW b \in BBs, ClassifyReducibleLoop(b)
  PROVE  SearchDone' /\ TreeInv' /\ \A c : Pos(c)' = Pos(c)
<1>1. PICK l : l = loopOf[b]
  OBVIOUS
<1>2. /\ Organize(b) /\ l \in DOMAIN loops /\ Header(l) = b /\ ~loops[l].irreducible
      /\ loopOf' = [c \in BBs |-> IF c \in Own(l) THEN l ELSE loopOf[c]]
      /\ DOMAIN loops' = DOMAIN loops
  BY <1>1, ClassifyParts
<1>3. \A m \in DOMAIN loops :
        /\ loops'[m].header = loops[m].header
        /\ loops'[m].backEdges = loops[m].backEdges
        /\ loops'[m].irreducible = loops[m].irreducible
        /\ m = l => loops'[m].basicBlocks = loops[m].basicBlocks \cup Own(l)
        /\ m = l => loops'[m].inner = loops[m].inner \cup Adopted(l)
        /\ m # l => loops'[m].basicBlocks = loops[m].basicBlocks
        /\ m # l => loops'[m].inner = loops[m].inner
        /\ m \in Adopted(l) => loops'[m].outer = l
        /\ m \notin Adopted(l) => loops'[m].outer = loops[m].outer
  <2>1. Reclassified(l)
    BY <1>1, ClassifyParts
  <2> QED
    BY <2>1 DEF Reclassified
<1>4. /\ \A c \in Collected(l) : c \in BBs /\ c # b /\ Pos(c) < Pos(b)
      /\ \A m \in Adopted(l) : /\ m \in DOMAIN loops /\ m # l /\ loops[m].outer = NoLoop
                            /\ \E c \in Collected(l) : loopOf[c] = m
  BY <1>1, ClassifyParts
<1>5. /\ Len(stack) \in Nat /\ Len(stack') = Len(stack) + 1 /\ Pos(b) = Len(stack) + 1
      /\ graph' = graph /\ grey' = grey /\ black' = black
      /\ dfsBlocks' = dfsBlocks /\ firstLoop' = firstLoop
  BY <1>2, OrganizesOne
<1>6. /\ \A m \in DOMAIN loops : Header(m) \in BBs /\ loopOf[Header(m)] = m /\ m # NoLoop
      /\ \A c \in BBs : Pos(c) \in Nat
      /\ \A c \in BBs : loopOf[c] # NoLoop => loopOf[c] \in DOMAIN loops
  BY HeaderParts
<1>7. /\ \A c \in Own(l) : c \in BBs /\ loopOf[c] = NoLoop
      /\ \A c \in BBs : loopOf[c] # NoLoop => loopOf'[c] = loopOf[c]
      /\ \A c \in BBs : \/ c \in Own(l) /\ loopOf'[c] = l
                        \/ c \notin Own(l) /\ loopOf'[c] = loopOf[c]
  <2>1. \A c \in Own(l) : c \in BBs /\ loopOf[c] = NoLoop
    BY <1>4 DEF Own
  <2> QED
    BY <1>2, <2>1
<1>8. SearchDone' /\ \A c : Pos(c)' = Pos(c)
  <2>1. \A m \in DOMAIN loops : loopOf'[loops[m].header] = m
    BY <1>6, <1>7 DEF Header
  <2> QED
    BY <1>2, <1>3, <1>5, <2>1, DoneKept
<1>9. \A c \in BBs : loopOf'[c] # NoLoop =>
        /\ loopOf'[c] \in DOMAIN loops
        /\ Header(loopOf'[c]) = c \/ Pos(Header(loopOf'[c])) <= Len(stack) + 1
  <2> SUFFICES ASSUME NEW c \in BBs, loopOf'[c] # NoLoop
               PROVE  /\ loopOf'[c] \in DOMAIN loops
                      /\ Header(loopOf'[c]) = c \/ Pos(Header(loopOf'[c])) <= Len(stack) + 1
    OBVIOUS
  <2>1. CASE loopOf'[c] = l
    BY <1>2, <1>5, <2>1
  <2>2. CASE loopOf'[c] = loopOf[c]
    <3>1. Header(loopOf[c]) = c \/ Seen(Header(loopOf[c]))
      BY <2>2 DEF TreeInv, HoldersSeen
    <3> QED
      BY <1>5, <1>6, <2>2, <3>1 DEF Seen
  <2> QED
    BY <1>7, <2>1, <2>2
<1>10. \A m \in DOMAIN loops : loops'[m].outer # NoLoop =>
         /\ loops'[m].outer \in DOMAIN loops
         /\ Pos(Header(m)) < Pos(Header(loops'[m].outer))
         /\ Pos(Header(loops'[m].outer)) <= Len(stack) + 1
  <2> SUFFICES ASSUME NEW m \in DOMAIN loops, loops'[m].outer # NoLoop
               PROVE  /\ loops'[m].outer \in DOMAIN loops
                      /\ Pos(Header(m)) < Pos(Header(loops'[m].outer))
                      /\ Pos(Header(loops'[m].outer)) <= Len(stack) + 1
    OBVIOUS
  <2>1. CASE m \in Adopted(l)
    <3>1. loops'[m].outer = l
      BY <1>3, <2>1
    <3>2. PICK c \in Collected(l) : loopOf[c] = m
      BY <1>4, <2>1
    <3>3. c \in BBs /\ Pos(c) < Len(stack) + 1 /\ m # NoLoop
      BY <1>4, <1>5, <1>6
    <3>4. Header(m) = c \/ Pos(Header(m)) <= Len(stack)
      BY <3>2, <3>3 DEF TreeInv, HoldersSeen, Seen
    <3>5. Pos(Header(m)) \in Nat /\ Pos(Header(m)) < Len(stack) + 1
      BY <1>5, <1>6, <3>3, <3>4
    <3> QED
      BY <1>2, <1>5, <3>1, <3>5
  <2>2. CASE m \notin Adopted(l)
    <3>1. loops'[m].outer = loops[m].outer
      BY <1>3, <2>2
    <3>2. /\ loops[m].outer \in DOMAIN loops
          /\ Pos(Header(m)) < Pos(Header(loops[m].outer))
          /\ Pos(Header(loops[m].outer)) <= Len(stack)
      BY <2>2, <3>1 DEF TreeInv, OutersLater, Seen
    <3> QED
      BY <1>5, <1>6, <3>1, <3>2
  <2> QED
    BY <2>1, <2>2
<1>11. \A p \in DOMAIN loops :
         /\ loops'[p].inner \subseteq DOMAIN loops
         /\ \A m \in DOMAIN loops : m \in loops'[p].inner <=> loops'[m].outer = p
  <2>1. \A p \in DOMAIN loops :
          /\ loops[p].inner \subseteq DOMAIN loops
          /\ \A m \in DOMAIN loops : m \in loops[p].inner <=> loops[m].outer = p
    BY DEF TreeInv, InnersAgree
  <2> TAKE p \in DOMAIN loops
  <2>2. /\ p # l => loops'[p].inner = loops[p].inner
        /\ p = l => loops'[p].inner = loops[p].inner \cup Adopted(l)
    BY <1>3
  <2>3. loops'[p].inner \subseteq DOMAIN loops
    BY <1>4, <2>1, <2>2
  <2>4. ASSUME NEW m \in DOMAIN loops
        PROVE  m \in loops'[p].inner <=> loops'[m].outer = p
    <3>1. /\ m \in Adopted(l) => loops'[m].outer = l /\ loops[m].outer = NoLoop
          /\ m \notin Adopted(l) => loops'[m].outer = loops[m].outer
          /\ p # NoLoop
      BY <1>3, <1>4, <1>6
    <3> QED
      BY <2>1, <2>2, <3>1
  <2> QED
    BY <2>3, <2>4
<1>12. \A c \in BBs, m \in DOMAIN loops :
         /\ c \in loops'[m].basicBlocks => loopOf'[c] = m
         /\ loopOf'[c] = m /\ ~loops[m].irreducible => c \in loops'[m].basicBlocks
  <2>1. \A c \in BBs, m \in DOMAIN loops :
          /\ c \in loops[m].basicBlocks => loopOf[c] = m
          /\ loopOf[c] = m /\ ~loops[m].irreducible => c \in loops[m].basicBlocks
    BY DEF TreeInv, BlocksListed
  <2> TAKE c \in BBs, m \in DOMAIN loops
  <2>2. CASE m = l
    <3>1. loops'[m].basicBlocks = loops[m].basicBlocks \cup Own(l)
      BY <1>3, <2>2
    <3> QED
      BY <1>6, <1>7, <2>1, <2>2, <3>1
  <2>3. CASE m # l
    <3>1. loops'[m].basicBlocks = loops[m].basicBlocks
      BY <1>3, <2>3
    <3> QED
      BY <1>6, <1>7, <2>1, <2>3, <3>1
  <2> QED
    BY <2>2, <2>3
<1>13. TreeInv'
  BY <1>2, <1>3, <1>5, <1>8, <1>9, <1>10, <1>11, <1>12, TreeNext
<1> QED
  BY <1>8, <1>13

\* The natural loops of the loops organized before, and of the one that is.
LEMMA ClassifyNatural ==
  ASSUME IInv, SearchDone, TreeInv, Reducible, NaturalInv, Len(stack) < Len(dfsBlocks),
         NEW b \in BBs, ClassifyReducibleLoop(b)
  PROVE  NaturalInv'
<1>1. PICK l : l = loopOf[b]
  OBVIOUS
<1> DEFINE N == DOMAIN loops
           A == Adopted(l)
<1>2. /\ Organize(b) /\ l \in N /\ Header(l) = b /\ loops[l].outer = NoLoop
      /\ loopOf' = [c \in BBs |-> IF c \in Own(l) THEN l ELSE loopOf[c]]
      /\ DOMAIN loops' = N /\ Reclassified(l)
      /\ \A m \in A : /\ m \in N /\ m # l /\ loops[m].outer = NoLoop
                      /\ \E c \in Collected(l) : loopOf[c] = m
      /\ \A c \in Collected(l) :
           loopOf[c] \notin {NoLoop, l} /\ loops[loopOf[c]].outer = NoLoop => loopOf[c] \in A
  BY <1>1, ClassifyParts DEF Suffices
<1>3. /\ Len(stack) \in Nat /\ Len(stack') = Len(stack) + 1 /\ Pos(b) = Len(stack) + 1
      /\ graph' = graph
  BY <1>2, OrganizesOne
<1>4. /\ \A m \in N : Header(m) \in BBs /\ loopOf[Header(m)] = m /\ m # NoLoop
      /\ \A c \in BBs : Pos(c) \in Nat
      /\ \A c \in BBs : loopOf[c] # NoLoop => loopOf[c] \in N
  BY HeaderParts
<1>5. /\ Outside(l)' = {l}
      /\ \A m \in N : Outside(m)' = Outside(m) \cup (IF A \cap Outside(m) # {} THEN {l} ELSE {})
  <2>1. \A k \in N : /\ Outers[k] = loops[k].outer
                     /\ Outers[k] \in N <=> loops[k].outer # NoLoop
    BY OutsideParts
  <2>2. \A k \in N : Outers'[k] = IF k \in A THEN l ELSE Outers[k]
    BY <1>2, <2>1 DEF Reclassified, Outers
  <2>3. /\ A \in SUBSET N /\ \A k \in A : Outers[k] \notin N
        /\ l \notin A /\ Outers'[l] \notin N
    BY <1>2, <2>1, <2>2
  <2>4. N = N \cup {l}
    BY <1>2
  <2>5. \A k \in A : Outers'[k] = l
    BY <2>2, <2>3
  <2>6. \A k \in N : k \notin A => Outers'[k] = Outers[k]
    BY <2>2
  <2> HIDE DEF N, A
  <2>7. \A m \in N : Chain(m, N, Outers') = Joined(m, N, Outers, A, l)
    <3>1. Joins(N, N, Outers, A, l, Outers')
      BY <2>3, <2>4, <2>5, <2>6 DEF Joins
    <3> QED
      BY <3>1, ChainsJoined
  <2>8. Chain(l, N, Outers') = {l}
    BY <1>2, <2>3, ChainSteps
  <2> QED
    BY <1>2, <2>7, <2>8 DEF Outside, Joined, N
<1>6. Collected(l) = NaturalLoop(b) \ {b}
  BY <1>2, BackEdgesAreSources, CollectedIsBody, StateParts DEF Header
<1>7. ASSUME NEW a \in N, Seen(Header(a)),
             NEW c \in NaturalLoop(Header(a)), c \in NaturalLoop(b), NEW d \in NaturalLoop(Header(a))
      PROVE  d \in NaturalLoop(b)
  <2>1. /\ Pos(Header(a)) < Pos(b) /\ Header(a) \in BBs
        /\ Pos(Header(a)) \in Nat /\ Pos(b) \in Nat
    BY <1>3, <1>4, <1>7 DEF Seen
  <2>2. graph \in Graphs /\ Accepted /\ c \in BBs
    <3>1. graph \in Graphs /\ Accepted
      BY StateParts DEF SearchDone
    <3> QED
      BY <2>1, <3>1, NaturalLoopParts
  <2>3. IsDominator(Header(a), c) /\ IsDominator(b, c)
    BY <1>7, <2>1, <2>2, HeaderDominates
  <2>4. IsDominator(b, Header(a)) /\ Header(a) # b
    <3>1. ~IsDominator(Header(a), b)
      BY <2>1, DoneParts
    <3>2. IsDominator(b, Header(a))
      BY <2>1, <2>2, <2>3, <3>1, IsDominatorParts
    <3> QED
      BY <2>1, <3>2
  <2> QED
    BY <1>7, <2>1, <2>2, <2>4, LoopsNested
<1>8. /\ \A c \in BBs : c \in Own(l) => loopOf[c] = NoLoop /\ loopOf'[c] = l /\ c \in Collected(l)
      /\ \A c \in BBs : c \notin Own(l) => loopOf'[c] = loopOf[c]
  BY <1>2 DEF Own
<1>9. \A m \in N : m \in Outside(m) /\ \A p \in Outside(m) : p \in N /\ (p # m => Seen(Header(p)))
  BY OutsideParts
<1>10. \A m \in N, c \in BBs : Seen(Header(m)) => (Holds(m, c) <=> c \in NaturalLoop(Header(m)))
  BY DEF NaturalInv
<1>11. ~Seen(b)
  BY <1>3 DEF Seen
<1> HIDE DEF N, A
<1>12. ASSUME NEW p \in N, p # l, Pos(Header(p)) <= Len(stack) + 1, NEW c \in BBs
       PROVE  Holds(p, c)' <=> c \in NaturalLoop(Header(p))
  <2>1. Seen(Header(p))
    <3>1. Header(p) # b
      BY <1>2, <1>4, <1>12
    <3>2. Pos(Header(p)) # Pos(b)
      BY <1>4, <3>1, DoneParts
    <3>3. Pos(Header(p)) \in Nat
      BY <1>4
    <3> QED
      BY <1>3, <1>12, <3>2, <3>3 DEF Seen
  <2>2. CASE c \in Own(l)
    <3>1. ~Holds(p, c) /\ ~Holds(p, c)'
      BY <1>5, <1>8, <1>12, <2>2 DEF Holds
    <3> QED
      BY <1>10, <2>1, <3>1
  <2>3. CASE c \notin Own(l)
    <3>1. loopOf'[c] = loopOf[c]
      BY <1>8, <2>3
    <3>2. \A m \in N : p \in Outside(m)' <=> p \in Outside(m)
      BY <1>5, <1>12
    <3>3. loopOf[c] # NoLoop => loopOf[c] \in N
      BY <1>4
    <3>4. Holds(p, c)' <=> Holds(p, c)
      BY <3>1, <3>2, <3>3 DEF Holds
    <3> QED
      BY <1>10, <2>1, <3>4
  <2> QED
    BY <2>2, <2>3
<1>13. ASSUME NEW c \in NaturalLoop(b)
       PROVE  Holds(l, c)'
  <2>1. c \in BBs /\ l # NoLoop /\ l \in Outside(l)'
    BY <1>2, <1>4, <1>5, NaturalLoopParts, StateParts
  <2>2. ASSUME NEW m \in N, loopOf'[c] = m, l \in Outside(m)'
        PROVE  Holds(l, c)'
    BY <1>4, <2>2 DEF Holds
  <2>3. CASE loopOf'[c] = l
    BY <1>2, <2>1, <2>2, <2>3
  <2>4. CASE loopOf'[c] # l
    <3>1. c \in Collected(l) /\ c \notin Own(l) /\ loopOf[c] # NoLoop
      <4>1. c # b
        BY <1>1, <1>8, <2>1, <2>4
      <4>2. c \in Collected(l)
        BY <1>6, <4>1
      <4> QED
        BY <1>8, <2>1, <2>4, <4>2 DEF Own
    <3>2. PICK m \in N : m = loopOf[c]
      BY <1>4, <2>1, <3>1
    <3>3. loopOf'[c] = m /\ m # l
      BY <1>8, <2>1, <2>4, <3>1, <3>2
    <3>4. PICK t \in Outside(m) : loops[t].outer = NoLoop
      BY <3>2, OutsideParts DEF N
    <3>5. t \in A
      <4>1. CASE t = m
        BY <1>2, <3>1, <3>2, <3>3, <3>4, <4>1
      <4>2. CASE t # m
        <5>1. t \in N /\ Seen(Header(t)) /\ Header(t) # b /\ Header(t) \in BBs
          BY <1>4, <1>9, <1>11, <3>4, <4>2
        <5>2. Holds(t, c)
          BY <3>1, <3>2, <3>4 DEF Holds
        <5>3. c \in NaturalLoop(Header(t))
          BY <1>10, <2>1, <5>1, <5>2
        <5>4. Header(t) \in NaturalLoop(b)
          BY <1>7, <5>1, <5>3, NaturalLoopParts, StateParts DEF N
        <5>5. Header(t) \in Collected(l) /\ loopOf[Header(t)] = t /\ t # NoLoop /\ t # l
          BY <1>2, <1>4, <1>6, <5>1, <5>4
        <5> QED
          BY <1>2, <3>4, <5>5
      <4> QED
        BY <4>1, <4>2
    <3>6. l \in Outside(m)'
      BY <1>5, <3>2, <3>4, <3>5
    <3> QED
      BY <2>2, <3>3, <3>6
  <2> QED
    BY <2>3, <2>4
<1>14. ASSUME NEW c \in BBs, Holds(l, c)'
       PROVE  c \in NaturalLoop(b)
  <2>1. CASE c \in Own(l)
    BY <1>6, <1>8, <2>1
  <2>2. CASE c \notin Own(l)
    <3>1. loopOf'[c] = loopOf[c] /\ loopOf[c] # NoLoop
      BY <1>8, <1>14, <2>2 DEF Holds
    <3>2. PICK m \in N : m = loopOf[c]
      BY <1>4, <3>1
    <3>3. l \in Outside(m)'
      BY <1>14, <3>1, <3>2 DEF Holds
    <3>4. CASE l \in Outside(m)
      <4>1. l = m
        BY <1>2, <1>9, <1>11, <3>2, <3>4
      <4>2. c = b
        BY <1>2, <1>11, <3>1, <3>2, <4>1 DEF TreeInv, HoldersSeen
      <4> QED
        BY <4>2, NaturalLoopParts, StateParts
    <3>5. CASE l \notin Outside(m)
      <4>1. PICK a \in A : a \in Outside(m)
        BY <1>5, <3>2, <3>3, <3>5
      <4>2. PICK d \in Collected(l) : loopOf[d] = a
        BY <1>2, <4>1
      <4>3. /\ a \in N /\ d \in NaturalLoop(b) /\ d \in BBs /\ a # NoLoop /\ a \in Outside(a)
        BY <1>2, <1>4, <1>6, <1>9, <4>1, <4>2, NaturalLoopParts, StateParts
      <4>4. CASE Seen(Header(a))
        <5>1. Holds(a, c) /\ Holds(a, d)
          BY <3>1, <3>2, <4>1, <4>2, <4>3 DEF Holds
        <5>2. c \in NaturalLoop(Header(a)) /\ d \in NaturalLoop(Header(a))
          BY <1>10, <4>3, <4>4, <5>1
        <5> QED
          BY <1>7, <4>3, <4>4, <5>2 DEF N
      <4>5. CASE ~Seen(Header(a))
        <5>1. m = a
          BY <1>9, <3>2, <4>1, <4>5
        <5>2. Header(a) = c /\ Header(a) = d
          BY <3>1, <3>2, <4>2, <4>3, <4>5, <5>1 DEF TreeInv, HoldersSeen
        <5> QED
          BY <4>3, <5>2
      <4> QED
        BY <4>4, <4>5
    <3> QED
      BY <3>4, <3>5
  <2> QED
    BY <2>1, <2>2
<1>15. \A p \in N, c \in BBs : Pos(Header(p)) <= Len(stack) + 1 =>
         (Holds(p, c)' <=> c \in NaturalLoop(Header(p)))
  BY <1>2, <1>12, <1>13, <1>14
<1>16. /\ \A p \in N : loops'[p].header = loops[p].header
       /\ \A c : Pos(c)' = Pos(c)
  BY <1>2, ClassifyKeeps DEF Suffices, Reclassified, N
<1> QED
  BY <1>2, <1>3, <1>15, <1>16, NaturalNext DEF N

-----------------------------------------------------------------------------
(* The tree of the loops, when it is built.                                  *)

\* Outer links lead upwards.
LoopsClimb ==
  /\ loops \in Seq(LoopRec)
  /\ \A l \in DOMAIN loops : loops[l].outer \in DOMAIN loops \cup {NoLoop}
  /\ \E rank, B : /\ B \in Nat /\ \A l \in DOMAIN loops : rank[l] \in 0..B
                  /\ \A l \in DOMAIN loops :
                       Outers[l] \in DOMAIN loops => rank[l] < rank[Outers[l]]

AroundRight == \A l \in DOMAIN loops : Around(l) = Outside(l)

\* Then the recursive definition of the loops around a loop finds them.
LEMMA AroundIsOutside == LoopsClimb => AroundRight
<1> SUFFICES ASSUME LoopsClimb
             PROVE  AroundRight
  OBVIOUS
<1> DEFINE n == Len(loops)
           K == CHOOSE F : F = [m \in 0..Len(loops) |->
                  IF m = NoLoop THEN {} ELSE {m} \cup F[loops[m].outer]]
           G == [m \in 0..Len(loops) |-> IF m = NoLoop THEN {} ELSE Outside(m)]
<1>1. /\ n \in Nat /\ DOMAIN loops = 1..n /\ NoLoop \notin 1..n /\ NoLoop \in 0..n
      /\ \A m \in 0..n : m # NoLoop => m \in 1..n
      /\ \A m \in 1..n : /\ loops[m].outer \in 0..n /\ m \in 0..n /\ m # NoLoop
                         /\ Outers[m] = loops[m].outer
                         /\ Outers[m] \in 1..n <=> loops[m].outer # NoLoop
  <2>1. n \in Nat /\ DOMAIN loops = 1..n
    BY LenProperties DEF LoopsClimb
  <2> QED
    BY <2>1 DEF LoopsClimb, Outers, NoLoop
<1>2. \E F : F = [m \in 0..Len(loops) |->
                    IF m = NoLoop THEN {} ELSE {m} \cup F[loops[m].outer]]
  <2>1. \A m \in 0..n : m # NoLoop => G[m] = {m} \cup G[loops[m].outer]
    <3> TAKE m \in 0..n
    <3> HAVE m # NoLoop
    <3>1. m \in 1..n
      BY <1>1
    <3>2. Outside(m) = {m} \cup (IF Outers[m] \in 1..n THEN Outside(Outers[m]) ELSE {})
      BY <1>1, <3>1, ChainSteps DEF Outside
    <3>3. G[loops[m].outer] = IF Outers[m] \in 1..n THEN Outside(Outers[m]) ELSE {}
      BY <1>1, <3>1
    <3> QED
      BY <1>1, <3>1, <3>2, <3>3
  <2>2. G = [m \in 0..Len(loops) |-> IF m = NoLoop THEN {} ELSE {m} \cup G[loops[m].outer]]
    <3>1. \A m \in 0..n : G[m] = IF m = NoLoop THEN {} ELSE {m} \cup G[loops[m].outer]
      BY <2>1
    <3>2. G = [m \in 0..n |-> G[m]]
      OBVIOUS
    <3> HIDE DEF G
    <3> QED
      BY <3>1, <3>2
  <2> QED
    BY <2>2, Zenon
<1>3. K = [m \in 0..Len(loops) |-> IF m = NoLoop THEN {} ELSE {m} \cup K[loops[m].outer]]
  BY <1>2, Zenon
<1>4. \A m \in 1..n : Around(m) = K[m]
  BY Zenon DEF Around
<1> HIDE DEF K
<1>5. K[NoLoop] = {} /\ \A m \in 1..n : K[m] = {m} \cup K[Outers[m]]
  BY <1>1, <1>3
<1>6. PICK rank, B : /\ B \in Nat /\ \A l \in 1..n : rank[l] \in 0..B
                     /\ \A l \in 1..n : Outers[l] \in 1..n => rank[l] < rank[Outers[l]]
  BY <1>1 DEF LoopsClimb
<1>7. \A m \in 1..n : Outers[m] \in (1..n) \cup {NoLoop}
  BY <1>1
<1>8. Climbs(1..n, Outers, rank, B)
  BY <1>6 DEF Climbs
<1>9. Follows(K, 1..n, NoLoop, Outers)
  BY <1>1, <1>5, <1>7 DEF Follows
<1>10. \A m \in 1..n : K[m] = Chain(m, 1..n, Outers)
  BY <1>8, <1>9, ChainRecursion
<1> QED
  BY <1>1, <1>4, <1>10 DEF AroundRight, Outside

LEMMA AroundIsOutsideNext == LoopsClimb' => AroundRight'
BY AroundIsOutside, PTL

\* The loops no other is around.
Roots == {m \in DOMAIN loops : loops[m].outer = NoLoop}

\* The loops and links ConstructLoopTree leaves.
LEMMA ConstructParts ==
  ASSUME IInv, SearchDone, TreeInv, ConstructLoopTree, NEW n, n = Len(loops)
  PROVE  /\ n \in Nat /\ DOMAIN loops = 1..n /\ Len(loops') = n + 1 /\ DOMAIN loops' = 1..n + 1
         /\ loops' \in Seq(LoopRec)
         /\ \A m \in 1..n : /\ loops'[m].header = loops[m].header
                            /\ loops'[m].irreducible = loops[m].irreducible
                            /\ loops'[m].basicBlocks = loops[m].basicBlocks
                            /\ loops'[m].inner = loops[m].inner
                            /\ m \in Roots => loops'[m].outer = n + 1
                            /\ m \notin Roots => loops'[m].outer = loops[m].outer
         /\ loops'[n + 1].outer = NoLoop /\ loops'[n + 1].inner = Roots
         /\ \A b \in BBs : /\ b \in loops'[n + 1].basicBlocks <=> loopOf[b] = NoLoop
                           /\ loopOf[b] = NoLoop => loopOf'[b] = n + 1
                           /\ loopOf[b] # NoLoop => loopOf'[b] = loopOf[b] /\ loopOf[b] \in 1..n
         /\ graph' = graph /\ runs' = runs /\ pc' = "done" /\ firstLoop' = 0
<1> DEFINE own == {b \in BBs : loopOf[b] = NoLoop}
           adopted == Orphans({loopOf[b] : b \in BBs \ own})
           kept == [m \in DOMAIN loops |->
                      IF m \in adopted THEN [loops[m] EXCEPT !.outer = n + 1] ELSE loops[m]]
           root == [header |-> NoBB, backEdges |-> {}, basicBlocks |-> own,
                    outer |-> NoLoop, inner |-> adopted, irreducible |-> FALSE]
<1>1. /\ loops' = Append(kept, root)
      /\ loopOf' = [b \in BBs |-> IF b \in own THEN n + 1 ELSE loopOf[b]]
      /\ graph' = graph /\ runs' = runs /\ pc' = "done" /\ firstLoop' = firstLoop
  BY DEF ConstructLoopTree
<1>2. n \in Nat /\ DOMAIN loops = 1..n
  BY StateParts
<1>3. /\ \A l \in 1..n : Header(l) \in BBs /\ loopOf[Header(l)] = l /\ l # NoLoop
      /\ \A c \in BBs : loopOf[c] # NoLoop => loopOf[c] \in 1..n
  BY <1>2, HeaderParts
<1>4. adopted = Roots
  <2>1. \A m \in adopted : m \in 1..n /\ loops[m].outer = NoLoop
    BY <1>3 DEF Orphans
  <2>2. ASSUME NEW m \in Roots
        PROVE  m \in adopted
    <3>1. m \in 1..n /\ loops[m].outer = NoLoop /\ Header(m) \in BBs \ own /\ loopOf[Header(m)] = m
      BY <1>2, <1>3 DEF Roots
    <3> QED
      BY <3>1 DEF Orphans
  <2> QED
    BY <1>2, <2>1, <2>2 DEF Roots
<1>5. kept \in Seq(LoopRec) /\ Len(kept) = n
  <2>1. \A m \in 1..n : kept[m] \in LoopRec
    <3> TAKE m \in 1..n
    <3>1. loops[m] \in LoopRec
      BY <1>2, StateParts
    <3>2. [loops[m] EXCEPT !.outer = n + 1] \in LoopRec
      BY <1>2, <3>1 DEF LoopRec
    <3> HIDE DEF adopted
    <3> QED
      BY <1>2, <3>1, <3>2
  <2>2. DOMAIN kept = 1..n /\ kept = [m \in 1..n |-> kept[m]]
    BY <1>2
  <2> HIDE DEF kept
  <2> QED
    BY <1>2, <2>1, <2>2, LoopSeq
<1>6. root \in LoopRec
  <2>1. adopted \subseteq Nat
    BY <1>2, <1>4 DEF Roots
  <2> QED
    BY <2>1 DEF LoopRec, NoLoop
<1>7. /\ loops' \in Seq(LoopRec) /\ Len(loops') = n + 1
      /\ \A m \in 1..n : loops'[m] = kept[m]
      /\ loops'[n + 1] = root
  <2> HIDE DEF kept, root
  <2> QED
    BY <1>1, <1>2, <1>5, <1>6
<1>8. DOMAIN loops' = 1..n + 1
  BY <1>7, LenProperties
<1>9. ASSUME NEW m \in 1..n
      PROVE  /\ loops'[m].header = loops[m].header
             /\ loops'[m].irreducible = loops[m].irreducible
             /\ loops'[m].basicBlocks = loops[m].basicBlocks
             /\ loops'[m].inner = loops[m].inner
             /\ m \in Roots => loops'[m].outer = n + 1
             /\ m \notin Roots => loops'[m].outer = loops[m].outer
  <2>1. loops[m] \in LoopRec /\ loops'[m] = kept[m]
    BY <1>2, <1>7, StateParts
  <2>2. kept[m] = IF m \in Roots THEN [loops[m] EXCEPT !.outer = n + 1] ELSE loops[m]
    BY <1>2, <1>4
  <2> HIDE DEF kept
  <2>3. CASE m \in Roots
    <3>1. loops'[m] = [loops[m] EXCEPT !.outer = n + 1]
      BY <2>1, <2>2, <2>3
    <3> QED
      BY <2>1, <2>3, <3>1 DEF LoopRec
  <2>4. CASE m \notin Roots
    <3>1. loops'[m] = loops[m]
      BY <2>1, <2>2, <2>4
    <3> QED
      BY <2>4, <3>1
  <2> QED
    BY <2>3, <2>4
<1>10. loops'[n + 1].outer = NoLoop /\ loops'[n + 1].inner = Roots /\ loops'[n + 1].basicBlocks = own
  BY <1>4, <1>7
<1>11. \A b \in BBs : /\ b \in loops'[n + 1].basicBlocks <=> loopOf[b] = NoLoop
                      /\ loopOf[b] = NoLoop => loopOf'[b] = n + 1
                      /\ loopOf[b] # NoLoop => loopOf'[b] = loopOf[b] /\ loopOf[b] \in 1..n
  BY <1>1, <1>3, <1>10
<1>12. firstLoop' = 0
  BY <1>1 DEF SearchDone
<1> QED
  BY <1>1, <1>2, <1>7, <1>8, <1>9, <1>10, <1>11, <1>12

\* The loops around a loop once the root is there.
LEMMA ConstructAround ==
  ASSUME IInv, SearchDone, TreeInv, ConstructLoopTree, NEW n, n = Len(loops)
  PROVE  /\ \A m \in 1..n : Around(m)' = Outside(m) \cup {n + 1}
         /\ Around(n + 1)' = {n + 1}
<1> DEFINE B == Len(dfsBlocks)
           rank == [m \in 1..n + 1 |-> IF m = n + 1 THEN B + 1 ELSE Pos(Header(m))]
           up == [m \in 1..n |-> loops[m].outer]
           new == [m \in 1..n + 1 |-> loops'[m].outer]
<1>1. /\ n \in Nat /\ DOMAIN loops = 1..n /\ DOMAIN loops' = 1..n + 1
      /\ loops' \in Seq(LoopRec)
      /\ \A m \in 1..n : /\ m \in Roots => loops'[m].outer = n + 1
                         /\ m \notin Roots => loops'[m].outer = loops[m].outer
      /\ loops'[n + 1].outer = NoLoop /\ graph' = graph
  BY ConstructParts
<1>2. LoopRec' = LoopRec
  BY <1>1 DEF LoopRec, BBs
<1>3. /\ B \in Nat /\ \A b \in BBs : Pos(b) \in 1..B
      /\ \A m \in 1..n : Header(m) \in BBs
  <2>1. B \in Nat
    BY StateParts, LenProperties
  <2> QED
    BY <1>1, <2>1, DoneParts DEF Header
<1>4. /\ Outers = up /\ Outers' = new
      /\ \A m \in 1..n : m \notin Roots =>
           loops[m].outer \in 1..n /\ Pos(Header(m)) < Pos(Header(loops[m].outer))
  <2>1. \A m \in 1..n : m \notin Roots =>
           loops[m].outer \in 1..n /\ Pos(Header(m)) < Pos(Header(loops[m].outer))
    BY <1>1 DEF TreeInv, OutersLater, Roots
  <2> QED
    BY <1>1, <2>1 DEF Outers
<1> HIDE DEF B
<1>5. \A m \in 1..n + 1 : m = n + 1 \/ m \in 1..n
  BY <1>1
<1>6. \A m \in 1..n : m \in 1..n + 1 /\ m # n + 1
  BY <1>1
<1>7. /\ rank[n + 1] = B + 1 /\ \A m \in 1..n : rank[m] = Pos(Header(m))
      /\ new[n + 1] = NoLoop
      /\ \A m \in 1..n : m \in Roots => new[m] = n + 1
      /\ \A m \in 1..n : m \notin Roots => new[m] = loops[m].outer
  BY <1>1, <1>6
<1>8. (B + 1) \in Nat /\ \A l \in 1..n + 1 : rank[l] \in 0..(B + 1)
  <2> HIDE DEF rank
  <2> QED
    BY <1>3, <1>5, <1>7
<1>9. \A l \in 1..n + 1 : new[l] \in 1..n + 1 => rank[l] < rank[new[l]]
  <2> SUFFICES ASSUME NEW l \in 1..n + 1, new[l] \in 1..n + 1
               PROVE  rank[l] < rank[new[l]]
    OBVIOUS
  <2>1. l \in 1..n
    BY <1>5, <1>7 DEF NoLoop
  <2>2. Pos(Header(l)) \in 1..B
    BY <1>3, <2>1
  <2> HIDE DEF rank, new
  <2>3. CASE l \in Roots
    BY <1>3, <1>7, <2>1, <2>2, <2>3
  <2>4. CASE l \notin Roots
    BY <1>4, <1>7, <2>1, <2>4
  <2> QED
    BY <2>3, <2>4
<1>10. LoopsClimb'
  <2>1. \A l \in DOMAIN loops' : loops'[l].outer \in DOMAIN loops' \cup {NoLoop}
    BY <1>1, <1>4, <1>5, <1>6
  <2>2. \E r, C : /\ C \in Nat /\ \A l \in DOMAIN loops' : r[l] \in 0..C
                  /\ \A l \in DOMAIN loops' :
                       Outers'[l] \in DOMAIN loops' => r[l] < r[Outers'[l]]
    <3> HIDE DEF rank, new
    <3> WITNESS rank, B + 1
    <3> QED
      BY <1>1, <1>4, <1>8, <1>9
  <2> QED
    BY <1>1, <1>2, <2>1, <2>2 DEF LoopsClimb
<1>11. AroundRight'
  BY <1>10, AroundIsOutsideNext
<1>12. \A l \in 1..n + 1 : Around(l)' = Chain(l, 1..n + 1, new)
  <2>1. \A l \in DOMAIN loops' : Around(l)' = Chain(l, DOMAIN loops', Outers')
    BY <1>11 DEF AroundRight, Outside
  <2> HIDE DEF new
  <2> QED
    BY <1>1, <1>4, <2>1
<1>13. \A m \in 1..n : Outside(m) = Chain(m, 1..n, up)
  <2> HIDE DEF up
  <2> QED
    BY <1>1, <1>4 DEF Outside
<1>14. ASSUME NEW m \in 1..n
       PROVE  Around(m)' = Outside(m) \cup {n + 1}
  <2>1. Chain(m, 1..n + 1, new) = Joined(m, 1..n, up, Roots, n + 1)
    <3>1. 1..n + 1 = (1..n) \cup {n + 1}
      BY <1>1
    <3>2. Roots \subseteq 1..n
      BY <1>1 DEF Roots
    <3>3. /\ \A k \in Roots : new[k] = n + 1
          /\ \A k \in 1..n : k \notin Roots => new[k] = up[k]
      BY <1>7, <3>2
    <3>4. \A k \in 1..n : up[k] \in 1..n + 1 => up[k] \in 1..n
      <4>1. \A k \in 1..n : k \in Roots => loops[k].outer = 0
        BY DEF Roots, NoLoop
      <4> QED
        BY <1>1, <1>4, <4>1
    <3>5. \A k \in Roots : up[k] \notin 1..n
      BY <1>1, <3>2 DEF Roots, NoLoop
    <3>6. new[n + 1] \notin 1..n + 1
      BY <1>1, <1>7 DEF NoLoop
    <3> HIDE DEF new, up
    <3>7. Joins(1..n, 1..n + 1, up, Roots, n + 1, new)
      BY <3>1, <3>2, <3>3, <3>4, <3>5, <3>6 DEF Joins
    <3> QED
      BY <3>7, ChainsJoined
  <2>2. \E t \in Outside(m) : t \in Roots
    <3>1. m \in DOMAIN loops
      BY <1>1
    <3> QED
      BY <3>1, OutsideParts DEF Roots
  <2>3. m \in 1..n + 1
    BY <1>6
  <2> HIDE DEF new, up
  <2> QED
    BY <1>12, <1>13, <2>1, <2>2, <2>3 DEF Joined
<1>15. Around(n + 1)' = {n + 1}
  <2>1. (n + 1) \in 1..n + 1
    BY <1>1
  <2>2. new[n + 1] \notin 1..n + 1
    BY <1>1, <1>7 DEF NoLoop
  <2> HIDE DEF new
  <2>3. Chain(n + 1, 1..n + 1, new) = {n + 1}
    BY <2>1, <2>2, ChainSteps
  <2> QED
    BY <1>12, <2>1, <2>3
<1> QED
  BY <1>14, <1>15

\* What the properties say of the loops of a first call, when the tree is built.
LEMMA TreeBuilt ==
  ASSUME IInv, SearchDone, TreeInv, ConstructLoopTree, NEW n, n = Len(loops)
  PROVE  /\ Root' = n + 1 /\ Found' = 1..n /\ Reducible' = Reducible
         /\ BBs' = BBs /\ n \in Nat /\ DOMAIN loops = 1..n
         /\ \A h : NaturalLoop(h)' = NaturalLoop(h)
         /\ \A h : Sources(h)' = Sources(h)
<1>1. /\ n \in Nat /\ DOMAIN loops = 1..n /\ Len(loops') = n + 1
      /\ graph' = graph /\ firstLoop' = 0
  BY ConstructParts, Zenon
<1>2. Root' = n + 1 /\ Found' = 1..n
  BY <1>1 DEF Root, Found
<1>3. /\ Reducible' = Reducible /\ \A h : NaturalLoop(h)' = NaturalLoop(h)
      /\ \A h : Sources(h)' = Sources(h) /\ BBs' = BBs
  BY <1>1 DEF Reducible, NaturalLoop, Sources, BBs, Edges, IsDominator
<1> QED
  BY <1>1, <1>2, <1>3

LEMMA TreeFindsIrreducible ==
  ASSUME IInv, SearchDone, TreeInv, ConstructLoopTree
  PROVE  IrreducibleFound'
<1>1. PICK n : n = Len(loops)
  OBVIOUS
<1>2. /\ Found' = 1..n /\ Reducible' = Reducible /\ DOMAIN loops = 1..n
      /\ BackEdgesRight' = BackEdgesRight
  BY <1>1, TreeBuilt, SameReducible DEF ConstructLoopTree
<1>3. \A m \in 1..n : loops'[m].irreducible = loops[m].irreducible
  BY <1>1, ConstructParts
<1>4. /\ Reducible => \A l \in DOMAIN loops : ~loops[l].irreducible
      /\ BackEdgesRight /\ (\A l \in DOMAIN loops : ~loops[l].irreducible) => Reducible
  BY IrreducibleAgree
<1> QED
  BY <1>2, <1>3, <1>4 DEF IrreducibleFound

LEMMA TreeIsTree ==
  ASSUME IInv, SearchDone, TreeInv, ConstructLoopTree
  PROVE  LoopTreeIsTree'
<1>1. PICK n : n = Len(loops)
  OBVIOUS
<1>2. /\ Root' = n + 1 /\ Found' = 1..n /\ BBs' = BBs
      /\ n \in Nat /\ DOMAIN loops = 1..n
  BY <1>1, TreeBuilt
<1> DEFINE F == (1..n) \cup {n + 1}
<1>3. /\ \A m \in 1..n : /\ loops'[m].irreducible = loops[m].irreducible
                         /\ loops'[m].basicBlocks = loops[m].basicBlocks
                         /\ loops'[m].inner = loops[m].inner
                         /\ m \in Roots => loops'[m].outer = n + 1
                         /\ m \notin Roots => loops'[m].outer = loops[m].outer
      /\ loops'[n + 1].outer = NoLoop /\ loops'[n + 1].inner = Roots
      /\ \A b \in BBs : /\ b \in loops'[n + 1].basicBlocks <=> loopOf[b] = NoLoop
                        /\ loopOf[b] = NoLoop => loopOf'[b] = n + 1
                        /\ loopOf[b] # NoLoop => loopOf'[b] = loopOf[b] /\ loopOf[b] \in 1..n
  BY <1>1, ConstructParts
<1>4. /\ \A m \in 1..n : m \in Roots <=> loops[m].outer = NoLoop
      /\ \A m \in 1..n : m \notin Roots => loops[m].outer \in 1..n
      /\ Roots \subseteq 1..n
  BY <1>1, <1>2 DEF TreeInv, OutersLater, Roots
<1>5. /\ \A l \in 1..n : loops[l].inner \subseteq 1..n
      /\ \A l, m \in 1..n : m \in loops[l].inner <=> loops[m].outer = l
      /\ \A b \in BBs, l \in 1..n :
           /\ b \in loops[l].basicBlocks => loopOf[b] = l
           /\ loopOf[b] = l /\ ~loops[l].irreducible => b \in loops[l].basicBlocks
  BY <1>2 DEF TreeInv, InnersAgree, BlocksListed
<1>6. /\ n + 1 \notin 1..n /\ NoLoop \notin 1..n /\ NoLoop # n + 1
  BY <1>2 DEF NoLoop
<1>7. ASSUME NEW l \in F, NEW m \in F
      PROVE  m \in loops'[l].inner <=> loops'[m].outer = l
  <2>1. CASE l \in 1..n /\ m \in 1..n
    <3>1. m \in loops'[l].inner <=> loops[m].outer = l
      BY <1>3, <1>5, <2>1
    <3>2. m \in Roots => loops'[m].outer = n + 1 /\ loops[m].outer = NoLoop
      BY <1>3, <1>4, <2>1
    <3>3. m \notin Roots => loops'[m].outer = loops[m].outer
      BY <1>3, <2>1
    <3> QED
      BY <1>6, <2>1, <3>1, <3>2, <3>3
  <2>2. CASE l \in 1..n /\ m = n + 1
    BY <1>3, <1>5, <1>6, <2>2
  <2>3. CASE l = n + 1 /\ m \in 1..n
    <3>1. m \notin Roots => loops'[m].outer \in 1..n
      BY <1>3, <1>4, <2>3
    <3> QED
      BY <1>3, <1>6, <2>3, <3>1
  <2>4. CASE l = n + 1 /\ m = n + 1
    BY <1>3, <1>4, <1>6, <2>4
  <2> QED
    BY <2>1, <2>2, <2>3, <2>4
<1>8. ASSUME NEW b \in BBs, NEW m, m = loopOf'[b]
      PROVE  Root' \in Around(m)'
  <2>1. \A l \in 1..n : Around(l)' = Outside(l) \cup {n + 1}
    BY <1>1, ConstructAround
  <2>2. Around(n + 1)' = {n + 1}
    BY <1>1, ConstructAround
  <2>3. m \in F
    BY <1>3, <1>8
  <2>4. m \in 1..n => n + 1 \in Around(m)'
    BY <2>1
  <2>5. m = n + 1 => n + 1 \in Around(m)'
    BY <2>2
  <2> QED
    BY <1>2, <2>3, <2>4, <2>5
<1>9. ASSUME NEW b \in BBs, NEW l \in F
      PROVE  /\ b \in loops'[l].basicBlocks => loopOf'[b] = l
             /\ loopOf'[b] = l /\ ~loops'[l].irreducible => b \in loops'[l].basicBlocks
  <2>1. CASE l \in 1..n
    <3>1. /\ b \in loops'[l].basicBlocks => loopOf[b] = l
          /\ loopOf[b] = l /\ ~loops'[l].irreducible => b \in loops'[l].basicBlocks
      BY <1>3, <1>5, <2>1
    <3>2. loopOf[b] = l <=> loopOf'[b] = l
      BY <1>3, <1>6, <2>1
    <3> QED
      BY <3>1, <3>2
  <2>2. CASE l = n + 1
    BY <1>3, <1>6, <2>2
  <2> QED
    BY <2>1, <2>2
<1>10. Found' \cup {Root'} = F
  BY <1>2
<1> HIDE DEF F
<1> QED
  BY <1>2, <1>7, <1>8, <1>9, <1>10 DEF LoopTreeIsTree

LEMMA TreeIsNatural ==
  ASSUME IInv, SearchDone, TreeInv, Reducible => NaturalInv, Len(stack) = Len(dfsBlocks),
         ConstructLoopTree
  PROVE  LoopsAreNatural'
<1>1. PICK n : n = Len(loops)
  OBVIOUS
<1>2. /\ Found' = 1..n /\ BBs' = BBs /\ Reducible' = Reducible
      /\ n \in Nat /\ DOMAIN loops = 1..n
      /\ \A h : NaturalLoop(h)' = NaturalLoop(h)
      /\ \A h : Sources(h)' = Sources(h)
  BY <1>1, TreeBuilt
<1>3. /\ \A m \in 1..n : loops'[m].header = Header(m)
      /\ \A b \in BBs : /\ loopOf[b] = NoLoop => loopOf'[b] = n + 1
                        /\ loopOf[b] # NoLoop => loopOf'[b] = loopOf[b] /\ loopOf[b] \in 1..n
  BY <1>1, ConstructParts DEF Header
<1>4. SUFFICES ASSUME Reducible
               PROVE  /\ {loops'[l].header : l \in 1..n} = {b \in BBs : Sources(b)' # {}}
                      /\ \A l \in 1..n : \A h : h = loops'[l].header =>
                           {b \in BBs : (l \in Around(loopOf[b]))'} = NaturalLoop(h)'
  BY <1>2 DEF LoopsAreNatural, Sources
<1>5. \A l \in 1..n, b \in BBs : Holds(l, b) <=> b \in NaturalLoop(Header(l))
  <2>1. \A l \in 1..n : Seen(Header(l))
    <3>1. \A l \in 1..n : Header(l) \in BBs /\ Pos(Header(l)) \in 1..Len(dfsBlocks)
      BY <1>2, DoneParts DEF Header
    <3> QED
      BY <3>1, StateParts DEF Seen
  <2> QED
    BY <1>2, <1>4, <2>1 DEF NaturalInv
<1>6. ASSUME NEW l \in 1..n, NEW b \in BBs, NEW m, m = loopOf'[b]
      PROVE  l \in Around(m)' <=> b \in NaturalLoop(Header(l))
  <2>1. l # n + 1
    BY <1>2
  <2>2. CASE loopOf[b] = NoLoop
    <3>1. m = n + 1
      BY <1>3, <1>6, <2>2
    <3>2. Around(m)' = {n + 1}
      BY <1>1, <3>1, ConstructAround
    <3> QED
      BY <1>5, <2>1, <2>2, <3>2 DEF Holds
  <2>3. CASE loopOf[b] # NoLoop
    <3>1. m = loopOf[b] /\ m \in 1..n
      BY <1>3, <1>6, <2>3
    <3>2. Around(m)' = Outside(m) \cup {n + 1}
      BY <1>1, <3>1, ConstructAround
    <3>3. Holds(l, b) <=> l \in Outside(m)
      BY <2>3, <3>1 DEF Holds
    <3> QED
      BY <1>5, <2>1, <3>2, <3>3
  <2> QED
    BY <2>2, <2>3
<1>7. {loops'[l].header : l \in 1..n} = {b \in BBs : Sources(b)' # {}}
  <2>1. \A l \in 1..n : Header(l) \in BBs /\ Sources(Header(l)) # {}
    BY <1>2, <1>4, DoneParts, BackEdgesAreSources DEF Header
  <2>2. \A h \in BBs : Sources(h) # {} => \E l \in 1..n : Header(l) = h
    BY <1>2, <1>4, BackEdgesAreSources DEF Header
  <2> QED
    BY <1>2, <1>3, <2>1, <2>2
<1>8. ASSUME NEW l \in 1..n, NEW h, h = loops'[l].header
      PROVE  {b \in BBs : (l \in Around(loopOf[b]))'} = NaturalLoop(h)'
  <2>1. NaturalLoop(h)' = NaturalLoop(h) /\ h = Header(l) /\ h \in BBs
    BY <1>2, <1>3, <1>8, DoneParts DEF Header
  <2>2. \A b \in BBs : (l \in Around(loopOf[b]))' <=> b \in NaturalLoop(h)
    BY <1>6, <2>1
  <2>3. NaturalLoop(h) \subseteq BBs
    BY <2>1, NaturalLoopParts, StateParts
  <2> QED
    BY <2>1, <2>2, <2>3
<1> QED
  BY <1>7, <1>8

-----------------------------------------------------------------------------
(* The invariant of the first call.                                          *)

SearchInv == pc = "dfs" /\ runs = 1 => SearchFacts /\ FromFirst

OrganizeInv ==
  pc \in {"organize", "tree"} /\ runs = 1 /\ Suffices =>
    /\ SearchDone /\ TreeInv /\ (Reducible => NaturalInv)
    /\ pc = "organize" => Len(stack) < Len(dfsBlocks)
    /\ pc = "tree" => Len(stack) = Len(dfsBlocks)

LInv == SearchInv /\ OrganizeInv /\ IrreducibleFound /\ LoopsAreNatural /\ LoopTreeIsTree

\* The steps that end neither the search nor the call.
LEMMA SearchGoesOn ==
  ASSUME pc' = "dfs", runs' = 1 => SearchFacts' /\ FromFirst'
  PROVE  LInv'
<1>1. SearchInv'
  BY DEF SearchInv
<1>2. OrganizeInv' /\ IrreducibleFound' /\ LoopsAreNatural' /\ LoopTreeIsTree'
  BY DEF OrganizeInv, IrreducibleFound, LoopsAreNatural, LoopTreeIsTree
<1> QED
  BY <1>1, <1>2 DEF LInv

\* Other calls and analyses that gave up.
LEMMA NoFirstCall ==
  ASSUME runs' # 1 \/ pc' \in {"idle", "aborted"} \/ (~Suffices' /\ pc' # "dfs")
  PROVE  LInv'
BY DEF LInv, SearchInv, OrganizeInv, IrreducibleFound, LoopsAreNatural, LoopTreeIsTree, Suffices

LEMMA OrganizeGoesOn ==
  ASSUME runs' = 1,
         SearchDone', TreeInv', Reducible' => NaturalInv',
         \/ pc' = "tree" /\ Len(stack') = Len(dfsBlocks')
         \/ pc' = "organize" /\ Len(stack') < Len(dfsBlocks')
  PROVE  LInv'
<1>1. OrganizeInv'
  BY DEF OrganizeInv
<1>2. SearchInv' /\ IrreducibleFound' /\ LoopsAreNatural' /\ LoopTreeIsTree'
  BY DEF SearchInv, IrreducibleFound, LoopsAreNatural, LoopTreeIsTree
<1> QED
  BY <1>1, <1>2 DEF LInv

LEMMA TreeEnds ==
  ASSUME pc' = "done", IrreducibleFound', LoopsAreNatural', LoopTreeIsTree'
  PROVE  LInv'
BY DEF LInv, SearchInv, OrganizeInv

\* A search that leaves a block goes on, or the blocks are organized.
LEMMA LeaveKeeps ==
  ASSUME IInv, LInv, Leave
  PROVE  LInv'
<1>1. /\ pc = "dfs" /\ runs' = runs
      /\ pc' = IF Len(stack) = 1 THEN "organize" ELSE pc
  BY DEF Leave, Searching
<1>2. CASE runs # 1
  BY <1>1, <1>2, NoFirstCall
<1>3. CASE runs = 1 /\ Len(stack) # 1
  <2>1. SearchFacts' /\ FromFirst'
    BY <1>1, <1>3, LeaveFinds DEF LInv, SearchInv
  <2> QED
    BY <1>1, <1>3, <2>1, SearchGoesOn
<1>4. CASE runs = 1 /\ Len(stack) = 1
  <2>1. SearchDone' /\ LoopsFresh' /\ stack' = <<>> /\ Len(dfsBlocks') # 0
    BY <1>1, <1>4, LastLeaves DEF LInv, SearchInv
  <2>2. IInv'
    BY LeaveIInv
  <2>3. /\ (graph \in Graphs)' /\ (dfsBlocks \in Seq(BBs))' /\ (loopOf \in [BBs -> 0..Len(loops)])'
        /\ (loops \in Seq(LoopRec))'
    BY <2>2 DEF IInv, TypeOK
  <2>4. TreeInv' /\ NaturalInv'
    BY <2>1, <2>3, TreeStartsNext
  <2>5. Len(stack') < Len(dfsBlocks')
    <3>1. Len(dfsBlocks') \in Nat
      BY <2>3, LenProperties
    <3> QED
      BY <2>1, <3>1
  <2> QED
    BY <1>1, <1>4, <2>1, <2>4, <2>5, OrganizeGoesOn
<1> QED
  BY <1>2, <1>3, <1>4

\* A block is organized.
LEMMA OrganizeKeeps ==
  ASSUME IInv, LInv, NEW b \in BBs,
         NotAHeader(b) \/ OrganizeIrreducible(b) \/ ClassifyReducibleLoop(b)
  PROVE  LInv'
<1>1. Organize(b)
  BY DEF NotAHeader, OrganizeIrreducible, ClassifyReducibleLoop
<1>2. pc = "organize" /\ runs' = runs /\ graph' = graph
  BY <1>1 DEF Organize
<1>3. CASE runs # 1 \/ ~Suffices
  <2>1. Suffices' = Suffices /\ pc' # "dfs"
    BY <1>1, <1>2, SameReducible DEF Organize
  <2> QED
    BY <1>2, <1>3, <2>1, NoFirstCall
<1>4. CASE runs = 1 /\ Suffices
  <2>1. SearchDone /\ TreeInv /\ (Reducible => NaturalInv) /\ Len(stack) < Len(dfsBlocks)
    BY <1>2, <1>4 DEF LInv, OrganizeInv
  <2>2. \/ pc' = "tree" /\ Len(stack') = Len(dfsBlocks')
        \/ pc' = "organize" /\ Len(stack') < Len(dfsBlocks')
    <3>1. /\ Len(stack) \in Nat /\ Len(stack') = Len(stack) + 1 /\ dfsBlocks' = dfsBlocks
          /\ \/ pc' = "tree" /\ Len(stack') = Len(dfsBlocks)
             \/ pc' = "organize" /\ Len(stack') # Len(dfsBlocks)
      BY <1>1, <2>1, OrganizesOne
    <3>2. Len(dfsBlocks) \in Nat
      BY StateParts, LenProperties
    <3> QED
      BY <2>1, <3>1, <3>2
  <2>3. Reducible' = Reducible
    BY <1>2, SameReducible
  <2>4. SearchDone' /\ TreeInv' /\ (Reducible' => NaturalInv')
    <3>1. CASE NotAHeader(b)
      BY <2>1, <2>3, <3>1, NotAHeaderKeeps
    <3>2. CASE OrganizeIrreducible(b)
      BY <2>1, <2>3, <3>2, OrganizeIrreducibleKeeps
    <3>3. CASE ClassifyReducibleLoop(b)
      BY <1>4, <2>1, <2>3, <3>3, ClassifyKeeps, ClassifyNatural
    <3> QED
      BY <3>1, <3>2, <3>3
  <2> QED
    BY <1>2, <1>4, <2>2, <2>4, OrganizeGoesOn
<1> QED
  BY <1>3, <1>4

LEMMA StutterKeeps ==
  ASSUME LInv, UNCHANGED vars
  PROVE  LInv'
<1>1. /\ graph' = graph /\ runs' = runs /\ pc' = pc /\ stack' = stack
      /\ grey' = grey /\ black' = black /\ dfsBlocks' = dfsBlocks
      /\ loops' = loops /\ firstLoop' = firstLoop /\ loopOf' = loopOf
  BY DEF vars
<1>2. /\ BBs' = BBs /\ Edges' = Edges /\ Forward' = Forward /\ Accepted' = Accepted
      /\ \A a, b : IsDominator(a, b)' = IsDominator(a, b)
      /\ \A a, b : Domites(a, b)' = Domites(a, b)
      /\ \A s, h : ClosesCycle(s, h)' = ClosesCycle(s, h)
      /\ Reducible' = Reducible /\ BackEdgesRight' = BackEdgesRight /\ Suffices' = Suffices
      /\ \A h : NaturalLoop(h)' = NaturalLoop(h)
  BY <1>1, SameGraph, SameReducible DEF NaturalLoop
<1>3. /\ \A b : Pos(b)' = Pos(b)
      /\ \A s, h : Recorded(s, h)' = Recorded(s, h)
      /\ \A s, h : IsBackEdge(s, h)' = IsBackEdge(s, h)
      /\ \A s, h : LeftBefore(s, h)' = LeftBefore(s, h)
      /\ \A s, h : Above(s, h)' = Above(s, h)
      /\ \A l : Header(l)' = Header(l)
      /\ Outers' = Outers
      /\ Root' = Root /\ Found' = Found
  BY <1>1 DEF Pos, Recorded, IsBackEdge, LeftBefore, Above, Header, Outers, Root, Found
<1>4. /\ \A b, c : b = c => Pos(b)' = Pos(c) /\ (Seen(b)' <=> Seen(c))
      /\ \A l, m, b, c : l = m /\ b = c => (Holds(l, b)' <=> Holds(m, c))
      /\ \A h, g : h = g => NaturalLoop(h)' = NaturalLoop(g)
  BY <1>1, <1>2, <1>3 DEF Seen, Holds, Outside
<1>5. \A l, m : l = m => Around(l)' = Around(m)
  BY <1>1, Zenon DEF Around
<1>6. LeftOnce' = LeftOnce /\ DominatorsLater' = DominatorsLater
  BY <1>1, <1>2 DEF LeftOnce, DominatorsLater
<1>7. LoopsRecorded' = LoopsRecorded /\ LoopsFresh' = LoopsFresh
  BY <1>1, <1>2 DEF LoopsRecorded, LoopsFresh
<1>8. SearchFacts /\ FromFirst => SearchFacts' /\ FromFirst'
  <2>1. StackIsPath => StackIsPath'
    BY <1>1, <1>2 DEF StackIsPath
  <2>2. DominatorsAround => DominatorsAround'
    BY <1>1, <1>2 DEF DominatorsAround
  <2>3. EdgesSeen => EdgesSeen'
    BY <1>1, <1>2, <1>3 DEF EdgesSeen
  <2> QED
    BY <1>1, <1>2, <1>6, <1>7, <2>1, <2>2, <2>3 DEF SearchFacts, FromFirst
<1>9. SearchDone => SearchDone'
  BY <1>1, <1>2, <1>3, <1>6, <1>7 DEF SearchDone
<1>10. TreeInv => TreeInv'
  <2>1. HoldersSeen => HoldersSeen'
    BY <1>1, <1>2, <1>3, <1>4 DEF HoldersSeen, Header
  <2>2. OutersLater => OutersLater'
    BY <1>1, <1>2, <1>3, <1>4 DEF OutersLater, Header
  <2>3. InnersAgree => InnersAgree'
    BY <1>1 DEF InnersAgree
  <2>4. BlocksListed => BlocksListed'
    BY <1>1, <1>2 DEF BlocksListed
  <2> QED
    BY <2>1, <2>2, <2>3, <2>4 DEF TreeInv
<1>11. NaturalInv => NaturalInv'
  BY <1>1, <1>2, <1>3, <1>4 DEF NaturalInv, Header
<1>12. SearchInv' /\ OrganizeInv'
  BY <1>1, <1>2, <1>8, <1>9, <1>10, <1>11 DEF LInv, SearchInv, OrganizeInv
<1>13. IrreducibleFound'
  BY <1>1, <1>2, <1>3 DEF LInv, IrreducibleFound
<1>14. LoopsAreNatural'
  <2>1. SUFFICES ASSUME pc = "done", runs = 1, Reducible
                 PROVE  /\ {loops[l].header : l \in Found}
                              = {b \in BBs : \E a \in BBs : <<a, b>> \in Edges /\ IsDominator(b, a)}
                        /\ \A l \in Found : \A h : h = loops[l].header =>
                             {b \in BBs : (l \in Around(loopOf[b]))'} = NaturalLoop(h)
    BY <1>1, <1>2, <1>3 DEF LoopsAreNatural
  <2>2. \A l, b : (l \in Around(loopOf[b]))' <=> l \in Around(loopOf[b])
    BY <1>1, <1>5
  <2>3. LoopsAreNatural
    BY DEF LInv
  <2> QED
    BY <2>1, <2>2, <2>3 DEF LoopsAreNatural
<1>15. LoopTreeIsTree'
  BY <1>1, <1>2, <1>3, <1>5 DEF LInv, LoopTreeIsTree
<1> QED
  BY <1>12, <1>13, <1>14, <1>15 DEF LInv

\* The invariant is inductive.
LEMMA LInvKept ==
  ASSUME IInv, LInv, [Next]_vars
  PROVE  LInv'
<1>1. CASE VerifyGraphLoops
  <2>1. runs' # 1 \/ pc' = "aborted" \/ pc' = "dfs"
    BY <1>1 DEF VerifyGraphLoops, Start
  <2>2. CASE pc' = "dfs"
    <3>1. runs' = 1 => SearchFacts' /\ FromFirst'
      BY <1>1, <2>2, CallStarts
    <3> QED
      BY <2>2, <3>1, SearchGoesOn
  <2> QED
    BY <2>1, <2>2, NoFirstCall
<1>2. CASE DiscoverBackEdges \/ SkipBlack \/ NewLoop \/ AddBackEdge
  <2>1. pc = "dfs" /\ pc' = pc /\ runs' = runs
    BY <1>2 DEF DiscoverBackEdges, SkipBlack, NewLoop, AddBackEdge, Searching
  <2>2. ASSUME runs = 1
        PROVE  SearchFacts' /\ FromFirst'
    <3>1. SearchFacts /\ FromFirst
      BY <2>1, <2>2 DEF LInv, SearchInv
    <3> QED
      BY <1>2, <3>1, DiscoverFinds, SkipBlackFinds, NewLoopFinds, AddBackEdgeFinds
  <2> QED
    BY <2>1, <2>2, SearchGoesOn
<1>3. CASE AddBackEdgeFails
  BY <1>3, NoFirstCall DEF AddBackEdgeFails
<1>4. CASE Leave
  BY <1>4, LeaveKeeps
<1>5. ASSUME NEW b \in BBs,
             NotAHeader(b) \/ OrganizeIrreducible(b) \/ ClassifyReducibleLoop(b)
      PROVE  LInv'
  BY <1>5, OrganizeKeeps
<1>6. CASE ConstructLoopTree
  <2>1. pc = "tree" /\ pc' = "done" /\ runs' = runs
    BY <1>6 DEF ConstructLoopTree
  <2>2. CASE runs # 1 \/ ~Suffices
    <3>1. Suffices' = Suffices
      BY <1>6, SameReducible DEF ConstructLoopTree
    <3> QED
      BY <2>1, <2>2, <3>1, NoFirstCall
  <2>3. CASE runs = 1 /\ Suffices
    <3>1. SearchDone /\ TreeInv /\ (Reducible => NaturalInv) /\ Len(stack) = Len(dfsBlocks)
      BY <2>1, <2>3 DEF LInv, OrganizeInv
    <3>2. IrreducibleFound' /\ LoopsAreNatural' /\ LoopTreeIsTree'
      BY <1>6, <3>1, TreeFindsIrreducible, TreeIsTree, TreeIsNatural
    <3> QED
      BY <2>1, <3>2, TreeEnds
  <2> QED
    BY <2>2, <2>3
<1>7. CASE UNCHANGED vars
  BY <1>7, StutterKeeps
<1> QED
  BY <1>1, <1>2, <1>3, <1>4, <1>5, <1>6, <1>7 DEF Next

THEOREM AnalysisInvariance == Spec => []LInv
<1>1. Init => LInv
  BY DEF Init, LInv, SearchInv, OrganizeInv, IrreducibleFound, LoopsAreNatural, LoopTreeIsTree
<1>2. IInv /\ LInv /\ [Next]_vars => LInv'
  BY LInvKept
<1> QED
  BY <1>1, <1>2, Invariance, PTL DEF Spec

\* A graph is called irreducible only when it has a cycle that no block on it
\* dominates, whichever back edges DiscoverBackEdges found; and always then, unless
\* Construct made up a dominator, the target of a back edge, for its source.
THEOREM IrreducibleIsFound == Spec => []IrreducibleFound
<1>1. LInv => IrreducibleFound
  BY DEF LInv
<1> QED
  BY <1>1, AnalysisInvariance, PTL

\* In a reducible graph the loops LoopChecker makes are the natural loops, and
\* CollectLoopDetails gives each its blocks, those of its inner loops included;
\* the dominators Construct makes up do no harm there.
THEOREM LoopsFoundAreNatural == Spec => []LoopsAreNatural
<1>1. LInv => LoopsAreNatural
  BY DEF LInv
<1> QED
  BY <1>1, AnalysisInvariance, PTL

\* The links OrganizeLoops and ConstructLoopTree set form a tree under the root
\* loop, and a block is listed by the loop it points to and no other: on a reducible
\* graph, and on any other where no back edge goes to a made up dominator.
THEOREM LoopsFormTree == Spec => []LoopTreeIsTree
<1>1. LInv => LoopTreeIsTree
  BY DEF LInv
<1> QED
  BY <1>1, AnalysisInvariance, PTL
=============================================================================
