------------------------------ MODULE DomTree ------------------------------
(***************************************************************************)
(* ir::DomTreeBuilder (domTree/domTree.cpp) over ir::DSU (domTree/dsu.cpp):*)
(* Lengauer and Tarjan's dominators.  A block is its id.  Successors are a *)
(* set and the search takes them in any order, so one graph stands for     *)
(* every order of its successor lists; the same holds for predecessors.    *)
(***************************************************************************)
EXTENDS FlowGraph, Sequences, FiniteSetsExt

CONSTANTS Graphs,   \* the graphs to analyse: [blocks, first, edges]
          NoBB      \* nullptr

ASSUME GraphAssumption ==
  \A g \in Graphs : /\ IsFiniteSet(g.blocks) /\ g.blocks \subseteq Nat
                    /\ g.first \in g.blocks
                    /\ g.edges \subseteq g.blocks \X g.blocks
                    /\ NoBB \notin g.blocks

VARIABLES graph,
          pc,          \* the phase of Construct
          stack,       \* activations of PerformDFS, innermost last
          order,       \* orderedBlocks_, as far as it is filled
          parent,      \* blockAncestors_
          semi,        \* semiDoms_: a number of the search
          label,       \* nodeLabels_, shared with the DSU
          link,        \* parentLinks_ of the DSU
          semiDomSet,
          idom,        \* immDoms_
          i,           \* the loop counters of the two Derive functions
          todo,        \* predecessors or dominatees the loop has still to see
          dominator,   \* dominator_ of the blocks
          dominated    \* dominated_ of the blocks

vars == <<graph, pc, stack, order, parent, semi, label, link, semiDomSet,
          idom, i, todo, dominator, dominated>>

BBs == graph.blocks
BBCount == Cardinality(BBs)
Succs(b) == {s \in BBs : <<b, s>> \in graph.edges}
Preds(b) == {p \in BBs : <<p, b>> \in graph.edges}

\* orderedBlocks_ is indexed from 0.
Ordered(n) == order[n + 1]
Current == Ordered(i)

\* DSU.  Path(v) is v and its ancestors up to, not including, the root.
Path(v) ==
  LET path[u \in BBs] == IF link[u] = NoBB THEN {} ELSE {u} \cup path[link[u]]
  IN path[v]

\* The blocks that are not the root of their tree.
Linked == {b \in BBs : link[b] # NoBB}

\* Mutants of Updated, the comparison of labels: for the greatest semidominator;
\* with <= for <.
UpdatedToGreatest(u) ==
  LET new[w \in Linked] ==
        LET ancestor == link[w] IN
        IF link[ancestor] = NoBB
        THEN [label |-> label[w], link |-> ancestor]
        ELSE [label |-> IF semi[new[ancestor].label] > semi[label[w]]
                        THEN new[ancestor].label ELSE label[w],
              link |-> new[ancestor].link]
  IN new[u]
UpdatedOnTies(u) ==
  LET new[w \in Linked] ==
        LET ancestor == link[w] IN
        IF link[ancestor] = NoBB
        THEN [label |-> label[w], link |-> ancestor]
        ELSE [label |-> IF semi[new[ancestor].label] <= semi[label[w]]
                        THEN new[ancestor].label ELSE label[w],
              link |-> new[ancestor].link]
  IN new[u]

\* The label and the link UpdateAncestorPath leaves at u, a node on a path.
Updated(u) ==
  LET new[w \in Linked] ==
        LET ancestor == link[w] IN
        IF link[ancestor] = NoBB
        THEN [label |-> label[w], link |-> ancestor]
        ELSE LET min == IF semi[new[ancestor].label] < semi[label[w]]
                        THEN new[ancestor].label ELSE label[w]
             IN [label |-> min, link |-> new[ancestor].link]
  IN new[u]

Find(v) == IF link[v] = NoBB THEN v ELSE Updated(v).label

\* What Find does to labels_ and parentLinks_ on its way.
Compressed(v) ==
  [label |-> [u \in BBs |-> IF u \in Path(v) THEN Updated(u).label ELSE label[u]],
   link |-> [u \in BBs |-> IF u \in Path(v) THEN Updated(u).link ELSE link[u]]]

Compress(v) ==
  /\ label' = Compressed(v).label
  /\ link' = Compressed(v).link

\* The number semiDoms_ holds for a block that was not found yet.
Unset == BBCount

-----------------------------------------------------------------------------
\* InitializeStructures; an id that does not fit the vectors throws at once.
Init ==
  /\ graph \in Graphs
  /\ pc = IF graph.first < BBCount THEN "dfs" ELSE "aborted"
  /\ stack = <<graph.first>> /\ order = <<graph.first>>
  /\ parent = [b \in BBs |-> NoBB]
  /\ semi = [b \in BBs |-> IF b = graph.first THEN 0 ELSE Unset]
  /\ label = [b \in BBs |-> IF b = graph.first THEN b ELSE NoBB]
  /\ link = [b \in BBs |-> NoBB]
  /\ semiDomSet = [b \in BBs |-> {}]
  /\ idom = [b \in BBs |-> NoBB]
  /\ i = 0 /\ todo = {}
  /\ dominator = [b \in BBs |-> NoBB]
  /\ dominated = [b \in BBs |-> {}]

Top == stack[Len(stack)]
Unlabelled == {s \in Succs(Top) : label[s] = NoBB}

\* PerformDFS of a successor that has no label yet.
Visit(s) ==
  /\ pc = "dfs" /\ s \in Unlabelled
  /\ s < BBCount
  /\ parent' = [parent EXCEPT ![s] = Top]
  /\ label' = [label EXCEPT ![s] = s]
  /\ semi' = [semi EXCEPT ![s] = Len(order)]
  /\ order' = Append(order, s)
  /\ stack' = Append(stack, s)
  /\ UNCHANGED <<graph, pc, link, semiDomSet, idom, i, todo, dominator, dominated>>

\* Mutant of IdOutOfRange: the bound is off by one.
IdOutOfRangeEarly ==
  /\ pc = "dfs" /\ \E s \in Unlabelled : s >= BBCount - 1
  /\ pc' = "aborted"
  /\ UNCHANGED <<graph, stack, order, parent, semi, label, link, semiDomSet,
                 idom, i, todo, dominator, dominated>>

\* vector::at throws for the id of a successor that is too large.
IdOutOfRange ==
  /\ pc = "dfs" /\ \E s \in Unlabelled : s >= BBCount
  /\ pc' = "aborted"
  /\ UNCHANGED <<graph, stack, order, parent, semi, label, link, semiDomSet,
                 idom, i, todo, dominator, dominated>>

Return ==
  /\ pc = "dfs" /\ Unlabelled = {} /\ Len(stack) > 1
  /\ stack' = SubSeq(stack, 1, Len(stack) - 1)
  /\ UNCHANGED <<graph, pc, order, parent, semi, label, link, semiDomSet,
                 idom, i, todo, dominator, dominated>>

\* Construct asserts that the search saw every block.
ReturnFromFirst ==
  /\ pc = "dfs" /\ Unlabelled = {} /\ Len(stack) = 1
  /\ stack' = <<>>
  /\ IF Len(order) = BBCount
     THEN /\ pc' = "semi" /\ i' = BBCount - 1
          /\ todo' = Preds(Ordered(BBCount - 1))
     ELSE pc' = "aborted" /\ UNCHANGED <<i, todo>>
  /\ UNCHANGED <<graph, order, parent, semi, label, link, semiDomSet, idom, dominator, dominated>>

\* Mutant of SemiOfPred: the predecessor itself stands for Find(p).
SemiOfPredItself(p) ==
  /\ pc = "semi" /\ p \in todo
  /\ todo' = todo \ {p}
  /\ semi' = [semi EXCEPT ![Current] = Min({@, semi[p]})]
  /\ Compress(p)
  /\ UNCHANGED <<graph, pc, stack, order, parent, semiDomSet, idom, i, dominator, dominated>>

\* DeriveSemiDominators, the loop over the predecessors of a block.
SemiOfPred(p) ==
  /\ pc = "semi" /\ p \in todo
  /\ todo' = todo \ {p}
  /\ semi' = [semi EXCEPT ![Current] = Min({@, semi[Find(p)]})]
  /\ Compress(p)
  /\ UNCHANGED <<graph, pc, stack, order, parent, semiDomSet, idom, i, dominator, dominated>>

\* Its middle part: the block joins its semidominator's set and, in the DSU,
\* its parent.
RegisterAndUnite ==
  /\ pc = "semi" /\ todo = {}
  /\ IF i > 0
     THEN /\ semiDomSet' = [semiDomSet EXCEPT ![Ordered(semi[Current])] = @ \cup {Current}]
          /\ link' = [link EXCEPT ![Current] = parent[Current]]
     ELSE UNCHANGED <<semiDomSet, link>>
  /\ todo' = semiDomSet'[Current]
  /\ pc' = "bucket"
  /\ UNCHANGED <<graph, stack, order, parent, semi, label, idom, i, dominator, dominated>>

\* Its last loop, over the blocks whose semidominator is the current one.
IdomOfDominatee(w) ==
  /\ pc = "bucket" /\ w \in todo
  /\ todo' = todo \ {w}
  /\ idom' = [idom EXCEPT ![w] =
       IF semi[Find(w)] = semi[w] THEN Ordered(semi[w]) ELSE Find(w)]
  /\ Compress(w)
  /\ UNCHANGED <<graph, pc, stack, order, parent, semi, semiDomSet, i, dominator, dominated>>

NextBlock ==
  /\ pc = "bucket" /\ todo = {}
  /\ IF i > 0
     THEN pc' = "semi" /\ i' = i - 1 /\ todo' = Preds(Ordered(i - 1))
     ELSE /\ pc' = IF BBCount > 1 THEN "idom" ELSE "done"
          /\ i' = 1 /\ UNCHANGED todo
  /\ UNCHANGED <<graph, stack, order, parent, semi, label, link, semiDomSet,
                 idom, dominator, dominated>>

\* Mutant of Refine: = for #.
RefineEqual ==
  /\ pc = "idom"
  /\ idom' = [idom EXCEPT ![Current] =
       IF @ = Ordered(semi[Current]) THEN idom[@] ELSE @]
  /\ dominator' = [dominator EXCEPT ![Current] = idom'[Current]]
  /\ dominated' = [dominated EXCEPT ![idom'[Current]] = @ \cup {Current}]
  /\ i' = i + 1
  /\ pc' = IF i + 1 = BBCount THEN "done" ELSE "idom"
  /\ UNCHANGED <<graph, stack, order, parent, semi, label, link, semiDomSet, todo>>

\* DeriveImmediateDominators, one block.
Refine ==
  /\ pc = "idom"
  /\ idom' = [idom EXCEPT ![Current] =
       IF @ # Ordered(semi[Current]) THEN idom[@] ELSE @]
  /\ dominator' = [dominator EXCEPT ![Current] = idom'[Current]]
  /\ dominated' = [dominated EXCEPT ![idom'[Current]] = @ \cup {Current}]
  /\ i' = i + 1
  /\ pc' = IF i + 1 = BBCount THEN "done" ELSE "idom"
  /\ UNCHANGED <<graph, stack, order, parent, semi, label, link, semiDomSet, todo>>

Next ==
  \/ \E b \in BBs : Visit(b) \/ SemiOfPred(b) \/ IdomOfDominatee(b)
  \/ IdOutOfRange \/ Return \/ ReturnFromFirst
  \/ RegisterAndUnite \/ NextBlock \/ Refine

Spec == Init /\ [][Next]_vars

-----------------------------------------------------------------------------
TypeOK ==
  /\ graph.first \in BBs
  /\ pc \in {"dfs", "semi", "bucket", "idom", "done", "aborted"}
  /\ stack \in Seq(BBs) /\ order \in Seq(BBs)
  /\ parent \in [BBs -> BBs \cup {NoBB}]
  /\ semi \in [BBs -> 0..BBCount]
  /\ label \in [BBs -> BBs \cup {NoBB}]
  /\ link \in [BBs -> BBs \cup {NoBB}]
  /\ semiDomSet \in [BBs -> SUBSET BBs]
  /\ idom \in [BBs -> BBs \cup {NoBB}]
  /\ i \in 0..BBCount /\ todo \subseteq BBs
  /\ dominator \in [BBs -> BBs \cup {NoBB}]
  /\ dominated \in [BBs -> SUBSET BBs]

Number(b) == CHOOSE n \in 0..Len(order) - 1 : Ordered(n) = b

\* The blocks that reach w by a path whose inner blocks were found after w.
SemiSources(w) ==
  LET later == {b \in BBs : Number(b) >= Number(w)}
      inner == {e \in graph.edges : e[1] \in later /\ e[2] \in later}
      lead == {b \in later : w \in ReachableFrom(b, later, inner)}
  IN {e[1] : e \in {d \in graph.edges : d[2] \in lead}}

SemiFinished(w) ==
  /\ w # graph.first
  /\ \/ pc \in {"idom", "done"}
     \/ pc = "semi" /\ Number(w) > i
     \/ pc = "bucket" /\ Number(w) >= i

\* Once its iteration is over, semiDoms_ holds a block's semidominator, the
\* least number among its SemiSources, although Find compresses paths and its
\* labels are compared with semidominators that are still to change.
SemiDominatorsRight ==
  /\ TypeOK
  /\ \A w \in BBs : SemiFinished(w) =>
       semi[w] = Min({Number(v) : v \in SemiSources(w)})

\* The blocks united so far on the way from v up the search tree.
Forest(v) ==
  LET up[u \in BBs] == IF link[u] = NoBB THEN {} ELSE {u} \cup up[parent[u]]
  IN up[v]

\* domTree.h: Find returns a node "with the minimum semi-dominator along the
\* path from v to r" of the uncompressed forest.
FindIsForestMinimum ==
  pc \in {"semi", "bucket"} =>
    \A v \in BBs : link[v] # NoBB =>
      /\ Find(v) \in Forest(v)
      /\ semi[Find(v)] = Min({semi[u] : u \in Forest(v)})

\* The blocks on the way from b up the links of the result.
DominatorChain(b) ==
  LET chain[c \in BBs] ==
        {c} \cup IF dominator[c] = NoBB THEN {} ELSE chain[dominator[c]]
  IN chain[b]

\* The result is a tree that hangs from the first block and follows the
\* search tree, its links down the inverse of those up: the loop of
\* BB::Domites ends.  Whatever the code takes for the dominator of b, it is
\* never above b's true immediate dominator: the chain that loop follows
\* leaves out no true dominator of b.
DominatorsFormTree ==
  pc = "done" =>
    /\ \A b \in BBs \ {graph.first} :
         dominator[b] \in BBs /\ Number(dominator[b]) < Number(b)
    /\ \A a, b \in BBs : b \in dominated[a] <=> dominator[b] = a
    /\ \A a, b \in BBs :
         Dominates(a, b, graph.first, BBs, graph.edges) => a \in DominatorChain(b)

Compact == \A b \in BBs : b < BBCount

\* Construct gives up on exactly the graphs with a block that the first one
\* does not reach, or with a gap in the ids.
AbortsOnlyOnBadGraph ==
  /\ pc = "aborted" =>
       ReachableFrom(graph.first, BBs, graph.edges) # BBs \/ ~Compact
  /\ pc = "done" =>
       ReachableFrom(graph.first, BBs, graph.edges) = BBs /\ Compact

\* domTree.h: GetImmediateDominators "Retrieves the immediate dominators for
\* the blocks".
DominatorsRight ==
  pc = "done" =>
    \A b \in BBs \ {graph.first} :
      IsImmediateDominator(dominator[b], b, graph.first, BBs, graph.edges)

\* On graphs of at most four blocks it does: the loop analysis may take
\* dominator_ there for dominance itself.
RightOnFourBlocks == BBCount <= 4 => DominatorsRight
=============================================================================
