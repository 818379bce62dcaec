------------------------------ MODULE MCDfoRpo ------------------------------
(* Graphs for DfoRpo. *)
EXTENDS DfoRpo, GraphFamilies

AllGraphs == SmallGraphs \cup GapGraphs \cup FourBlocks \cup Forward
=============================================================================
