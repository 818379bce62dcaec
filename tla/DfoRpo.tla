------------------------------- MODULE DfoRpo -------------------------------
(***************************************************************************)
(* ir::DFO and ir::RPO (domTree/dfo_rpo.h): the depth first order in which *)
(* the passes see the blocks of a graph.  Successors are a set the search  *)
(* takes in any order, which stands for every order of successor lists.    *)
(***************************************************************************)
EXTENDS FlowGraph, Sequences, SequencesExt

CONSTANT Graphs     \* the graphs to visit: [blocks, first, edges]

ASSUME GraphAssumption ==
  \A g \in Graphs : /\ IsFiniteSet(g.blocks)
                    /\ g.first \in g.blocks
                    /\ g.edges \subseteq g.blocks \X g.blocks

VARIABLES graph,
          stack,      \* activations of ExecuteDFS, innermost last
          visited,    \* visited_
          result,     \* what the callback has been given
          pc

vars == <<graph, stack, visited, result, pc>>

BBs == graph.blocks
Top == stack[Len(stack)]
Unvisited == {s \in BBs : <<Top, s>> \in graph.edges /\ s \notin visited}

Init ==
  /\ graph \in Graphs
  /\ stack = <<graph.first>> /\ visited = {graph.first}
  /\ result = <<>> /\ pc = "dfs"

\* Mutant of ExecuteDFS: the marker is set on the caller's block.
ExecuteUnmarked(s) ==
  /\ pc = "dfs" /\ stack # <<>> /\ s \in Unvisited
  /\ stack' = Append(stack, s)
  /\ visited' = visited \cup {Top}
  /\ UNCHANGED <<graph, result, pc>>

\* ExecuteDFS calls itself for a successor that is not visited.
ExecuteDFS(s) ==
  /\ pc = "dfs" /\ stack # <<>> /\ s \in Unvisited
  /\ stack' = Append(stack, s)
  /\ visited' = visited \cup {s}
  /\ UNCHANGED <<graph, result, pc>>

\* No successor is left: the callback takes the block and the call returns.
Callback ==
  /\ pc = "dfs" /\ stack # <<>> /\ Unvisited = {}
  /\ result' = Append(result, Top)
  /\ stack' = Front(stack)
  /\ UNCHANGED <<graph, visited, pc>>

\* Mutant of Finish: the result is not reversed.
FinishUnreversed ==
  /\ pc = "dfs" /\ stack = <<>>
  /\ pc' = IF Cardinality(visited) = Cardinality(BBs) THEN "done" ELSE "aborted"
  /\ UNCHANGED <<graph, stack, visited, result>>

\* ValidateGraph compares the number of visited blocks with GetBBCount; RPO
\* then reverses what it was given.
Finish ==
  /\ pc = "dfs" /\ stack = <<>>
  /\ IF Cardinality(visited) = Cardinality(BBs)
     THEN pc' = "done" /\ result' = Reverse(result)
     ELSE pc' = "aborted" /\ UNCHANGED result
  /\ UNCHANGED <<graph, stack, visited>>

Next == (\E s \in BBs : ExecuteDFS(s)) \/ Callback \/ Finish

Spec == Init /\ [][Next]_vars

-----------------------------------------------------------------------------
TypeOK ==
  /\ stack \in Seq(BBs) /\ visited \subseteq BBs /\ result \in Seq(BBs)
  /\ pc \in {"dfs", "done", "aborted"}

\* Every visited block is in the result or still on the stack, in one place
\* and once: the callback sees no block twice.
EachOnce ==
  /\ TypeOK
  /\ visited = ToSet(result) \cup ToSet(stack)
  /\ IsInjective(result) /\ IsInjective(stack)
  /\ ToSet(result) \cap ToSet(stack) = {}

Before(a, b) == \E m, n \in DOMAIN result : m < n /\ result[m] = a /\ result[n] = b

\* A pass that goes through the blocks in RPO has seen the source of every
\* edge but those that close a cycle, however the search was ordered, and
\* every dominator of a block, cycles or not: CheckElimination meets a check
\* before the ones it covers.
SourcesFirst ==
  pc = "done" =>
    /\ \A e \in graph.edges :
         e[1] \notin ReachableFrom(e[2], BBs, graph.edges) => Before(e[1], e[2])
    /\ \A a, b \in BBs :
         a # b /\ Dominates(a, b, graph.first, BBs, graph.edges) => Before(a, b)
=============================================================================
