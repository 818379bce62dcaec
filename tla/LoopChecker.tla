---------------------------- MODULE LoopChecker ----------------------------
(***************************************************************************)
(* ir::LoopChecker (domTree/loopChecker.cpp) and ir::Loop (loop.cpp): the  *)
(* loops of a graph and the tree they form.  The two markers are the sets  *)
(* of blocks module Markers shows them to be.  A block is its id; the      *)
(* successors keep their order, so that a second analysis meets the same   *)
(* back edges.  Each call has DomTreeBuilder set the dominators afresh: a  *)
(* graph comes with those Construct leaves, which are not always the true  *)
(* ones (run DomTreeWrong).                                                *)
(***************************************************************************)
EXTENDS FlowGraph, Sequences, SequencesExt

CONSTANTS Graphs,     \* the graphs to analyse: [blocks, first, succs, dominator]
          NoBB,       \* nullptr
          MaxRuns     \* bound on the calls of VerifyGraphLoops on one graph

EdgesOf(g) == {e \in g.blocks \X g.blocks : e[2] \in ToSet(g.succs[e[1]])}

\* A graph that DomTree, which gives up on others, can see whole.
Whole(g) == /\ ReachableFrom(g.first, g.blocks, EdgesOf(g)) = g.blocks
            /\ \A b \in g.blocks : b < Cardinality(g.blocks)

ASSUME GraphAssumption ==
  \A g \in Graphs :
    /\ IsFiniteSet(g.blocks) /\ g.blocks \subseteq Nat
    /\ g.first \in g.blocks
    /\ g.succs \in [g.blocks -> Seq(g.blocks)]
    /\ g.dominator \in [g.blocks -> g.blocks \cup {NoBB}]
    /\ NoBB \notin g.blocks
    /\ Whole(g) => DominatorsKept(g.dominator, g.first, g.blocks, EdgesOf(g))

ASSUME RunsAssumption == MaxRuns \in Nat

NoLoop == 0

VARIABLES graph,
          runs,        \* calls of VerifyGraphLoops so far
          pc,
          stack,       \* activations of DiscoverBackEdges: block, next successor
          grey, black, \* the blocks that carry the markers
          dfsBlocks,   \* the blocks in the order the search left them
          loops,       \* every Loop allocated, by a number from 1
          firstLoop,   \* how many of them belong to earlier calls
          loopOf       \* loop_ of the blocks

vars == <<graph, runs, pc, stack, grey, black, dfsBlocks, loops, firstLoop, loopOf>>

BBs == graph.blocks
Edges == EdgesOf(graph)
Accepted == Whole(graph)

\* BB::Domites: the way up from b meets a.
Domites(a, b) == a \in Chain(b, BBs, graph.dominator)

\* Mutant of IsLoopIrreducible: the arguments change places.
IsLoopIrreducibleSwapped(header, source) == ~Domites(source, header)

\* An irreducible loop is entered elsewhere than at its header.
IsLoopIrreducible(header, source) == ~Domites(header, source)

Start ==
  /\ pc' = IF Accepted THEN "dfs" ELSE "aborted"
  /\ stack' = <<[bb |-> graph.first, next |-> 1]>>
  /\ grey' = {graph.first} /\ black' = {}
  /\ dfsBlocks' = <<>>
  /\ firstLoop' = Len(loops)

-----------------------------------------------------------------------------
Init ==
  /\ graph \in Graphs
  /\ runs = 0 /\ pc = "idle" /\ stack = <<>>
  /\ grey = {} /\ black = {} /\ dfsBlocks = <<>>
  /\ loops = <<>> /\ firstLoop = 0
  /\ loopOf = [b \in BBs |-> NoLoop]

VerifyGraphLoops ==
  /\ pc \in {"idle", "done"} /\ runs < MaxRuns
  /\ runs' = runs + 1
  /\ Start
  /\ UNCHANGED <<graph, loops, loopOf>>

Top == stack[Len(stack)]
HasNext == Top.next <= Len(graph.succs[Top.bb])
Succ == graph.succs[Top.bb][Top.next]
Advanced == [stack EXCEPT ![Len(stack)].next = @ + 1]

Searching == pc = "dfs" /\ stack # <<>>

\* A successor that was not met before.
DiscoverBackEdges ==
  /\ Searching /\ HasNext /\ Succ \notin grey /\ Succ \notin black
  /\ stack' = Append(Advanced, [bb |-> Succ, next |-> 1])
  /\ grey' = grey \cup {Succ}
  /\ UNCHANGED <<graph, runs, pc, black, dfsBlocks, loops, firstLoop, loopOf>>

\* Mutant of SkipBlack: the search stays at the successor.
SkipNothing ==
  /\ Searching /\ HasNext /\ Succ \in black \ grey
  /\ UNCHANGED vars

SkipBlack ==
  /\ Searching /\ HasNext /\ Succ \in black \ grey
  /\ stack' = Advanced
  /\ UNCHANGED <<graph, runs, pc, grey, black, dfsBlocks, loops, firstLoop, loopOf>>

\* RecordLoopInfo for the first back edge to a header.
NewLoop ==
  /\ Searching /\ HasNext /\ Succ \in grey /\ loopOf[Succ] = NoLoop
  /\ loops' = Append(loops,
       [header |-> Succ, backEdges |-> {Top.bb}, basicBlocks |-> {Succ},
        outer |-> NoLoop, inner |-> {},
        irreducible |-> IsLoopIrreducible(Succ, Top.bb)])
  /\ loopOf' = [loopOf EXCEPT ![Succ] = Len(loops')]
  /\ stack' = Advanced
  /\ UNCHANGED <<graph, runs, pc, grey, black, dfsBlocks, firstLoop>>

\* RecordLoopInfo for a further one.
AddBackEdge ==
  LET l == loopOf[Succ] IN
  /\ Searching /\ HasNext /\ Succ \in grey /\ l # NoLoop
  /\ Top.bb \notin loops[l].backEdges
  /\ loops' = [loops EXCEPT ![l].backEdges = @ \cup {Top.bb},
                            ![l].irreducible = @ \/ IsLoopIrreducible(Succ, Top.bb)]
  /\ stack' = Advanced
  /\ UNCHANGED <<graph, runs, pc, grey, black, dfsBlocks, firstLoop, loopOf>>

\* Mutant of AddBackEdgeFails: any second back edge is refused.
AddAnyBackEdgeFails ==
  /\ Searching /\ HasNext /\ Succ \in grey /\ loopOf[Succ] # NoLoop
  /\ pc' = "aborted"
  /\ UNCHANGED <<graph, runs, stack, grey, black, dfsBlocks, loops, firstLoop, loopOf>>

\* Loop::AddBackEdge aborts on a source it has already.
AddBackEdgeFails ==
  /\ Searching /\ HasNext /\ Succ \in grey /\ loopOf[Succ] # NoLoop
  /\ Top.bb \in loops[loopOf[Succ]].backEdges
  /\ pc' = "aborted"
  /\ UNCHANGED <<graph, runs, stack, grey, black, dfsBlocks, loops, firstLoop, loopOf>>

\* Mutant of Leave: ClearMarker is not called.
LeaveGrey ==
  /\ Searching /\ ~HasNext
  /\ black' = black \cup {Top.bb}
  /\ dfsBlocks' = Append(dfsBlocks, Top.bb)
  /\ stack' = Front(stack)
  /\ pc' = IF Len(stack) = 1 THEN "organize" ELSE pc
  /\ UNCHANGED <<graph, runs, grey, loops, firstLoop, loopOf>>

\* The search leaves a block.
Leave ==
  /\ Searching /\ ~HasNext
  /\ grey' = grey \ {Top.bb} /\ black' = black \cup {Top.bb}
  /\ dfsBlocks' = Append(dfsBlocks, Top.bb)
  /\ stack' = Front(stack)
  /\ pc' = IF Len(stack) = 1 THEN "organize" ELSE pc
  /\ UNCHANGED <<graph, runs, loops, firstLoop, loopOf>>

\* OrganizeLoops goes through dfsBlocks; what is left of it is in stack.
Organize(b) ==
  /\ pc = "organize"
  /\ b = dfsBlocks[Len(stack) + 1]
  /\ stack' = Append(stack, [bb |-> b, next |-> 1])
  /\ pc' = IF Len(stack') = Len(dfsBlocks) THEN "tree" ELSE pc
  /\ UNCHANGED <<graph, runs, grey, black, dfsBlocks, firstLoop>>

HeadsLoop(b) == loopOf[b] # NoLoop /\ loops[loopOf[b]].header = b

NotAHeader(b) ==
  /\ Organize(b) /\ ~HeadsLoop(b)
  /\ UNCHANGED <<loops, loopOf>>

\* An irreducible loop takes in the sources of its back edges, no more; they
\* point to the loop, its basicBlocks_ does not list them.
OrganizeIrreducible(b) ==
  LET l == loopOf[b] IN
  /\ Organize(b) /\ HeadsLoop(b) /\ loops[l].irreducible
  /\ loopOf' = [s \in BBs |-> IF s \in loops[l].backEdges /\ loopOf[s] = NoLoop
                              THEN l ELSE loopOf[s]]
  /\ UNCHANGED loops

\* Mutant of Collected: the header is not marked before, so it is passed.
CollectedPastHeader(l) ==
  LET against == {<<e[2], e[1]>> : e \in Edges}
  IN UNION {ReachableFrom(s, BBs, against) : s \in loops[l].backEdges}

\* The blocks CollectLoopDetails marks: it goes from the back edges against
\* the edges and stops at the header.
Collected(l) ==
  LET header == loops[l].header
      against == {<<e[2], e[1]>> : e \in {d \in Edges : d[2] # header}}
  IN (UNION {ReachableFrom(s, BBs, against) : s \in loops[l].backEdges \ {header}})
       \ {header}

\* Mutant of Orphans: a loop that has an outer loop gets another.
AnyLoops(S) == S

\* The loops of S that have no outer loop yet.
Orphans(S) == {m \in S : loops[m].outer = NoLoop}

\* ClassifyReducibleLoop: blocks of no loop become the loop's own, loops of
\* no loop become its inner ones.
ClassifyReducibleLoop(b) ==
  LET l == loopOf[b]
      own == {c \in Collected(l) : loopOf[c] = NoLoop}
      inner == {loopOf[c] : c \in Collected(l) \ own} \ {l}
      adopted == Orphans(inner)
  IN /\ Organize(b) /\ HeadsLoop(b) /\ ~loops[l].irreducible
     /\ loopOf' = [c \in BBs |-> IF c \in own THEN l ELSE loopOf[c]]
     /\ loops' = [m \in DOMAIN loops |->
          IF m = l THEN [loops[m] EXCEPT !.basicBlocks = @ \cup own,
                                         !.inner = @ \cup adopted]
          ELSE IF m \in adopted THEN [loops[m] EXCEPT !.outer = l]
          ELSE loops[m]]

\* ConstructLoopTree: a root loop for what is in no loop.
ConstructLoopTree ==
  LET root == Len(loops) + 1
      own == {b \in BBs : loopOf[b] = NoLoop}
      adopted == Orphans({loopOf[b] : b \in BBs \ own})
  IN /\ pc = "tree"
     /\ loops' = Append(
          [m \in DOMAIN loops |->
             IF m \in adopted THEN [loops[m] EXCEPT !.outer = root] ELSE loops[m]],
          [header |-> NoBB, backEdges |-> {}, basicBlocks |-> own,
           outer |-> NoLoop, inner |-> adopted, irreducible |-> FALSE])
     /\ loopOf' = [b \in BBs |-> IF b \in own THEN root ELSE loopOf[b]]
     /\ pc' = "done" /\ stack' = <<>>
     /\ UNCHANGED <<graph, runs, grey, black, dfsBlocks, firstLoop>>

Next ==
  \/ VerifyGraphLoops
  \/ DiscoverBackEdges \/ SkipBlack \/ NewLoop \/ AddBackEdge
  \/ AddBackEdgeFails \/ Leave
  \/ \E b \in BBs :
       NotAHeader(b) \/ OrganizeIrreducible(b) \/ ClassifyReducibleLoop(b)
  \/ ConstructLoopTree

Spec == Init /\ [][Next]_vars /\ WF_vars(Next)

-----------------------------------------------------------------------------
LoopRec == [header : BBs \cup {NoBB}, backEdges : SUBSET BBs,
            basicBlocks : SUBSET BBs, outer : Nat, inner : SUBSET Nat,
            irreducible : BOOLEAN]

TypeOK ==
  /\ runs \in 0..MaxRuns
  /\ pc \in {"idle", "dfs", "organize", "tree", "done", "aborted"}
  /\ \A k \in DOMAIN stack : stack[k].bb \in BBs /\ stack[k].next \in Nat
  /\ grey \subseteq BBs /\ black \subseteq BBs
  /\ dfsBlocks \in Seq(BBs)
  /\ \A l \in DOMAIN loops : loops[l] \in LoopRec
  /\ firstLoop \in 0..Len(loops)
  /\ loopOf \in [BBs -> 0..Len(loops)]

Root == Len(loops)
Found == firstLoop + 1..Root - 1

\* The loop l and the loops around it.
Around(l) ==
  LET up[m \in 0..Len(loops)] == IF m = NoLoop THEN {} ELSE {m} \cup up[loops[m].outer]
  IN up[l]

\* Every path to b goes through a.
IsDominator(a, b) == Dominates(a, b, graph.first, BBs, Edges)

\* No block is taken to dominate one of its predecessors that does not.
BackEdgesRight == \A e \in Edges : Domites(e[2], e[1]) => IsDominator(e[2], e[1])

\* header, with the blocks from which a back edge to it is reached without
\* passing it: the textbook's natural loop.
NaturalLoop(header) ==
  LET sources == {a \in BBs : <<a, header>> \in Edges /\ IsDominator(header, a)}
      inside == Without({header}, Edges)
  IN {header} \cup {b \in BBs \ {header} :
                      ReachableFrom(b, BBs, inside) \cap sources # {}}

Reducible ==
  LET forward == UNION {{<<a, b>> : b \in {c \in ToSet(graph.succs[a]) :
                                              ~IsDominator(c, a)}} : a \in BBs}
  IN \A e \in forward : e[1] \notin ReachableFrom(e[2], BBs, forward)

\* A loop is called irreducible only when there is a cycle that no block on it
\* dominates, whichever back edges the search happened to find; and always
\* then, unless Construct took a block for a dominator that is none.
IrreducibleFound ==
  pc = "done" /\ runs = 1 =>
    /\ Reducible => \A l \in Found : ~loops[l].irreducible
    /\ BackEdgesRight /\ (\A l \in Found : ~loops[l].irreducible) => Reducible

\* In a reducible graph the loops found are the natural loops, and a block
\* points to the innermost one that holds it, though Construct err.
LoopsAreNatural ==
  pc = "done" /\ runs = 1 /\ Reducible =>
    /\ {loops[l].header : l \in Found}
         = {b \in BBs : \E a \in BBs : <<a, b>> \in Edges /\ IsDominator(b, a)}
    /\ \A l \in Found :
         {b \in BBs : l \in Around(loopOf[b])} = NaturalLoop(loops[l].header)

\* Inner and outer links agree and lead every block and loop to the root, and
\* a block is listed by the loop it points to, unless that loop is
\* irreducible, and by no other.  An irreducible loop that a wrong dominator
\* makes look reducible may turn a loop around it into its inner one.
LoopTreeIsTree ==
  pc = "done" /\ runs = 1 /\ (Reducible \/ BackEdgesRight) =>
    /\ \A l, m \in Found \cup {Root} : m \in loops[l].inner <=> loops[m].outer = l
    /\ \A b \in BBs : Root \in Around(loopOf[b])
    /\ \A b \in BBs, l \in Found \cup {Root} :
         /\ b \in loops[l].basicBlocks => loopOf[b] = l
         /\ loopOf[b] = l /\ ~loops[l].irreducible => b \in loops[l].basicBlocks

\* The edge at hand leads back to where an edge met before it leads.
ParallelBackEdges ==
  Succ \in grey /\ \E k \in 1..Top.next - 1 : graph.succs[Top.bb][k] = Succ

\* The analysis gives up on a graph it can see whole only at the second of two
\* parallel back edges, or when it is called again on a graph with a loop.
AbortsExplained ==
  pc = "aborted" /\ Accepted => ParallelBackEdges \/ (runs > 1 /\ loops # <<>>)

\* Blocks that carry the grey marker are the activations of the search, so a
\* grey successor is an ancestor and the edge to it closes a cycle.
GreyIsStack ==
  /\ TypeOK
  /\ pc = "dfs" => grey = {stack[k].bb : k \in DOMAIN stack} /\ grey \cap black = {}

\* A call ends.
Terminates == [](pc = "dfs" => <>(pc \in {"done", "aborted"}))
=============================================================================
