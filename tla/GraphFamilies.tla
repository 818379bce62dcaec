--------------------------- MODULE GraphFamilies ---------------------------
(* Families of flow graphs the model checking modules draw from; a block   *)
(* is its id and 0 the first block.                                        *)
EXTENDS Naturals, FiniteSets

SuccessorSets(blocks) == {s \in SUBSET blocks : Cardinality(s) <= 2}

GraphOf(blocks, succs) ==
  [blocks |-> blocks, first |-> 0,
   edges |-> {e \in blocks \X blocks : e[2] \in succs[e[1]]}]

GraphsOn(blocks) ==
  {GraphOf(blocks, succs) : succs \in [blocks -> SuccessorSets(blocks)]}

\* Every graph of at most three blocks.
SmallGraphs == GraphsOn({0}) \cup GraphsOn(0..1) \cup GraphsOn(0..2)

\* Ids 0 and 2: block 1 was removed.
GapGraphs == GraphsOn({0, 2})

\* Blocks numbered so that each is entered from an earlier one: up to a
\* renaming of the blocks, every graph whose blocks can all be reached.
Entered(g) ==
  \A b \in g.blocks \ {0} : \E a \in g.blocks : a < b /\ <<a, b>> \in g.edges

FourBlocks == {g \in GraphsOn(0..3) : Entered(g)}

\* Five blocks, no edge to an earlier one.
Forward ==
  LET ascending == {f \in [0..4 -> SuccessorSets(1..4)] :
                      \A a \in 0..4 : \A b \in f[a] : a < b}
  IN {g \in {GraphOf(0..4, f) : f \in ascending} : Entered(g)}

=============================================================================
