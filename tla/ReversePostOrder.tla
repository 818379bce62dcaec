-------------------------- MODULE ReversePostOrder --------------------------
(***************************************************************************)
(* ir::RPO (domTree/dfo_rpo.h) as a function of a graph, for the passes    *)
(* that go through the blocks in its order: what module DfoRpo does step   *)
(* by step, for one order of the successors.                               *)
(***************************************************************************)
EXTENDS Naturals, SequencesExt

Searches(blocks) == [visited : SUBSET blocks, order : Seq(blocks)]

\* ExecuteDFS visits the successors that have not been visited, in their order,
\* and then gives the block to the callback; what it collects is reversed.
RPO(first, succs) ==
  LET ExecuteDFS[b \in DOMAIN succs, dfs \in Searches(DOMAIN succs)] ==
        LET below == FoldLeft(LAMBDA d, s : IF s \in d.visited THEN d ELSE ExecuteDFS[s, d],
                              [dfs EXCEPT !.visited = @ \cup {b}], succs[b])
        IN [below EXCEPT !.order = <<b>> \o @]
  IN ExecuteDFS[first, [visited |-> {}, order |-> <<>>]].order
=============================================================================
