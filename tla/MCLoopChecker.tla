--------------------------- MODULE MCLoopChecker ---------------------------
(* Graphs with ordered successors for LoopChecker. *)
EXTENDS LoopChecker, TLC

SuccessorLists(blocks) ==
  {<<>>} \cup {<<a>> : a \in blocks} \cup {<<a, b>> : a, b \in blocks}

\* What Construct leaves in a graph of at most four blocks, which is right
\* (RightOnFourBlocks of DomTree): the block that only the other blocks on every
\* path to b are above.  It does not finish when a block cannot be reached.
Dominator(f) ==
  LET blocks == DOMAIN f
      step(S, a) == S \cup UNION {ToSet(f[b]) \ {a} : b \in S}
      reached(a) == step(step(step({0}, a), a), a)
      above == 0 :> {} @@ [b \in blocks \ {0} |-> {a \in blocks \ {b} : a = 0 \/ b \notin reached(a)}]
      nearest(b) == CHOOSE a \in above[b] : above[b] = above[a] \cup {a}
  IN IF reached(NoBB) = blocks THEN 0 :> NoBB @@ [b \in blocks \ {0} |-> nearest(b)]
     ELSE [b \in blocks |-> NoBB]

Graph(f) == [blocks |-> DOMAIN f, first |-> 0, succs |-> f, dominator |-> Dominator(f)]

\* Every graph of at most three blocks, parallel edges included, also those
\* with a block that cannot be reached.
SmallGraphs ==
  UNION {{Graph(f) : f \in [0..n -> SuccessorLists(0..n)]} : n \in 0..2}

Entered(f) == \A b \in DOMAIN f \ {0} : \E a \in 0..b - 1 : b \in ToSet(f[a])

\* Graphs of four blocks without parallel edges, every block entered from an
\* earlier one: any such graph, with its blocks renamed so that the first
\* successor of the first block is 1.
FourBlocks ==
  {Graph(f) : f \in {h \in [0..3 -> {s \in SuccessorLists(0..3) : IsInjective(s)}] :
                       h[0] # <<>> /\ h[0][1] = 1 /\ Entered(h)}}

\* The graph of run DomTreeWrong, with its wrong dominator 2 of block 4, and
\* back edges from there to block 2, which the dominator makes look reducible,
\* and to block 0.
WrongGraphs ==
  {[blocks |-> 0..4, first |-> 0,
    succs |-> 0 :> <<1, 2>> @@ 1 :> <<2, 3>> @@ 2 :> <<3, 4>> @@ 3 :> <<4>> @@ 4 :> back,
    dominator |-> 0 :> NoBB @@ 1 :> 0 @@ 2 :> 0 @@ 3 :> 0 @@ 4 :> 2] :
   back \in {<<>>, <<2>>, <<0>>, <<0, 2>>, <<2, 0>>}}

AllGraphs == SmallGraphs \cup FourBlocks \cup WrongGraphs
=============================================================================
