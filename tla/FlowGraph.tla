----------------------------- MODULE FlowGraph -----------------------------
(***************************************************************************)
(* Paths in a control flow graph: the notions the graph, dominator and     *)
(* loop modules are checked against.  A graph is a set of nodes and a set  *)
(* of edges <<from, to>>; a root is the node control enters by.            *)
(***************************************************************************)
EXTENDS Naturals, FiniteSets

Closed(S, E) == \A e \in E : e[1] \in S => e[2] \in S

\* The nodes a path of zero or more edges leads to from node a.
ReachableFrom(a, N, E) ==
  LET closed == {S \in SUBSET N : a \in S /\ Closed(S, E)}
  IN {b \in N : \A S \in closed : b \in S}

\* The edges that do not touch the nodes of S.
Without(S, E) == {e \in E : e[1] \notin S /\ e[2] \notin S}

\* The edges that do not leave node a.
NotFrom(a, E) == {e \in E : e[1] # a}

\* Every path from the root to b goes through a.
Dominates(a, b, root, N, E) ==
  \/ a = b
  \/ a = root
  \/ b \notin ReachableFrom(root, N, Without({a}, E))

\* The dominator of b, other than b, that all its other dominators dominate.
IsImmediateDominator(a, b, root, N, E) ==
  /\ a # b /\ Dominates(a, b, root, N, E)
  /\ \A c \in N \ {b} :
       Dominates(c, b, root, N, E) => Dominates(c, a, root, N, E)

\* Node k of N links to up[k], and to none if that is not in N.
Links(N, up) == {<<k, up[k]>> : k \in {j \in N : up[j] \in N}}

\* m, what m links to, and so on.
Chain(m, N, up) == ReachableFrom(m, N, Links(N, up))

\* The links of a tree that hangs from the root, on which a node is below all
\* its dominators: what DomTreeBuilder leaves in dominator_ (theorem
\* DominatorTree of DomTreeProofs).  A node may be below others as well.
DominatorsKept(up, root, N, E) ==
  /\ \A b \in N : up[b] \in N => b \notin Chain(up[b], N, up)
  /\ \A b \in N : {a \in N : Dominates(a, b, root, N, E)} \subseteq Chain(b, N, up)
=============================================================================
