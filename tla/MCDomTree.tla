----------------------------- MODULE MCDomTree -----------------------------
(* Graphs for DomTree. *)
EXTENDS DomTree, GraphFamilies

AllGraphs == SmallGraphs \cup GapGraphs \cup FourBlocks \cup Forward
=============================================================================
