# Verification of the course compiler's IR

This directory specifies the intermediate representation of the compiler in `src/` in TLA+: its
memory, its blocks and instruction lists, its control flow graph, the analyses that run on it and the
optimizations that change it. TLC checks the specifications on small instances; TLAPS proves, for every
value of their constants, the results of the memory, the instruction lists and markers of blocks, the edges
of a graph, the depth first order, the search for dominators, the analysis of loops, the elimination of checks,
and the inputs and users the peepholes rewrite.

The program is a sequential library. Nothing runs concurrently, nothing is persisted, no
messages are exchanged. What is hard about it is of another kind: long sequences of legal calls that
edit doubly recorded structures (edges are in two blocks, instruction lists in links and in four
end pointers, inputs and users in two instructions, loops in blocks and in a tree), values that are
stale when they are used (ids, markers, labels under path compression, users of a removed check, the
order a pass computed before it changed the graph), results that depend on the order of a search, and
asserts that turn a wrong belief into an abort. The build is a Debug build, so asserts are part of the
behaviour.

## Components

| component | source | state | operations | hard part | what makes it correct |
|---|---|---|---|---|---|
| Arena allocator | `domTree/arena.{h,cpp}` | list of arenas with bump pointers, size of the next arena | construct, `allocate` (with one retry), destroy | padding, requests larger than an arena, the size compared and the size mapped are different fields | blocks are aligned, mapped, disjoint; one retry is enough; the destructor returns what was mapped |
| Markers | `irGen/marker.h` | counter, four slots; per block the last value written in each slot | `GetNewMarker`, `ReleaseMarker`, `SetMarker`, `ClearMarker`, `IsMarkerSet` | released slots are reused while old values stay in blocks | a marker is a private set of blocks, empty at first |
| Graph: blocks and edges | `irGen/graph.{h,cpp}`, `bb.cpp`, `base.cpp` | vector of blocks with holes, first and last block, dead counter; per block ordered successors and a bag of predecessors | create, connect, insert before, remove, split, clean up | parallel edges, self loops, removal of the last block, ids after a removal | both ends of an edge agree; paths are kept; the count is the number of live blocks |
| Basic block | `irGen/bb.{h,cpp}`, `base.cpp` | four end pointers, size; links of the instructions | push to front or back, push a phi, remove, replace, split | phis and other instructions share one chain but not the end pointers | the block is a list, phis first, of the size it says |
| DSU and dominator tree | `domTree/domTree.{h,cpp}`, `dsu.{h,cpp}` | search numbers, labels, links, semidominators, buckets | `Construct` | path compression with labels whose values still change | `dominator_` is the immediate dominator |
| DFO and RPO | `domTree/dfo_rpo.h` | visited set, result | `ValidateGraph`, `RPO` | order depends on the order of successors | forward edges and dominators come first, each block once |
| Loops | `domTree/loopChecker.{h,cpp}`, `loop.{h,cpp}` | colours, loops, loop of a block | `VerifyGraphLoops` | colours during the search, nesting by the order loops are met, repeated analysis | natural loops, a loop tree, irreducibility recognised |
| Instructions, inputs, users | `irGen/singleInstruction.*`, `instructions.h`, `user.h`, `input.h` | inputs of an instruction, users of an instruction | build, `SetInput`, `AddInput`, `ReplaceInput`, `ReplaceInputInUsers` | two halves of one relation that different calls change | users are the instructions that have it as an input |
| Peepholes, constant folding | `optimizations/peepholes.*`, `constFolding.*` | the block being rewritten | one visit per opcode | iterating a list while removing from it | a rewritten instruction has no users left; every instruction that is left computes what it did |
| CheckElimination | `optimizations/checkElimination.*` | the users of a checked value | `Eliminate` | dead checks stay among the users; an assert on the second round | a removed check is covered by one that is left |
| StaticInline, graph copy | `optimizations/staticInline.*`, `irGen/graphHelper.*`, `instructionsCopy.cpp` | two graphs, a translation of instructions | copy, split, relink, remove returns | stale traversal, ids of two graphs | a call is replaced by the callee's body; both graphs stay well formed |
| Compiler | `irGen/compiler.h`, `irGen.cpp` | vector of graphs | create, copy, get, delete | deleting shifts ids | the pass inlines the function the id names when it runs |
| Builder, printing | `irGen/helperBuilderFunctions.h` | next instruction id | build, print | none | |

How they interact: the graph derives from the marker manager and blocks from the markable base; every
container of a graph allocates from its arena; splitting a block edits its instruction list and the
graph's edges at once; DFO, dominators and loops read the graph's edges, the loop analysis calls the
dominator construction first and uses two markers; the optimizations walk the RPO and edit blocks;
inlining asks the registry for a copy of the callee, which is registered as a function itself, and takes
the copy's blocks over into the caller's graph.
All interaction is by calls and shared objects; the only callback is the one of the depth first order.

## Modules

| module | models | state and actions |
|---|---|---|
| `Arena` | `ArenaAllocator` | `arenaList`, `arenaSize` as in the class; `mapped` is what mmap has returned; `handedOut` is history. `Call` is any of `New`, `AllocateArray`, `NewVector`; each activation of `allocate` is `AllocFromHead`, or `Grow` followed by the recursive activation; `MapFails` is the failing assert; `Destroy` the destructor |
| `AllocatorSpec` | what clients assume of it | abstract specification: an answer is an aligned, fresh block |
| `Markers` | `MarkerManager`, `Markable` | a marker is the number the code computes; `held` says which variable holds which marker |
| `MarkSets` | what the passes assume of markers | abstract specification: a private set of blocks |
| `FlowGraph` | nothing in the code | reachability and dominance by definition, the reference the algorithms are compared with |
| `ControlFlow` | the edges of a `Graph` | `succs` ordered, `preds` as a bag, since `DeletePredecessors` reorders; one action per method; the three kinds of abort are actions that end the run with a status |
| `BasicBlock` | the instruction list of a `BB` | pointers as in the classes; helper operators map a heap to a heap so that `ReplaceInControlFlow` can compose push and removal as the code does |
| `BlockLists` | what the passes take a block for | abstract specification: lists of instructions, phis first |
| `DomTree` | `DomTreeBuilder` and `DSU` | one action per activation of the search or per iteration of a loop; `Find` is computed together with its compression |
| `DfoRpo` | `DFO`, `RPO` | activation stack, visited set |
| `LoopChecker` | `LoopChecker`, `Loop` | activation stack with the next successor, colours as sets, loops by number |
| `DataFlow` | construction of instructions, `SetInput`, `AddInput`, `ReplaceInput`, `ReplaceInputInUsers`, the `INPUT` property | operators from instructions to instructions; an instruction is its number, inputs and users are sequences |
| `ReversePostOrder` | `RPO` as a function of a graph | the order `DfoRpo` computes for one order of the successors, for the passes that go through it |
| `Peepholes` | `Peepholes`, `ConstantFolding` | one action per visit of an instruction: a fold, a rule that puts an input in its place, the rule that puts a new 0 in its place, or nothing |
| `CheckElimination` | `CheckElimination` | the walk (`todo`, `current`), the set of checks taken out of their lists (`dead`), the depth of the recursion inside the assert; one action per visited check, per block, per round |
| `GraphHeap` | several graphs with blocks and instructions, the builder, the registry of `Compiler` | a heap is a record; operators return the heap a call leaves |
| `GraphCopy` | `Compiler::CopyGraph`, `GraphCopyHelper`, `Copy` of every opcode | one action per activation of `DfoCopy`, per edge connected, per instruction `FixDFG` fixes |
| `StaticInline` | `StaticInline`, composed with `GraphCopy` | `StartRun`, `Skip`, `StartInlining`, the steps of the copy, `DoInlining`, `NextBlock`; `Abort` for its asserts; `DeleteFunction` is `DeleteFunctionGraph` between two runs |
| `GraphFamilies`, `MCDomTree`, `MCDfoRpo`, `MCLoopChecker`, `MCPeepholes`, `MCCheckElimination`, `MCStaticInline` | | the graphs and the programs TLC goes through |
| `HeapProofs` (about `Arena`, `BasicBlock` and `Markers`), `ControlFlowProofs`, `FlowGraphProofs`, `DfoRpoProofs`, `DomTreeProofs`, `LoopCheckerProofs`, `CheckEliminationProofs`, `PeepholesProofs` | | theorems and proofs |

Operators named as a *mutant* of a definition are plausible wrong versions of it. They are not used
by any specification; each one, put in the place of the definition, makes TLC report one of the
properties of the module's run, which shows that the property depends on what the code does.

Abstractions worth knowing:

* An address or a size is a number of bytes; the contents of memory are not modelled. A mapping may
  be placed at any free frame of `Frames`, which is external behaviour (mmap).
* A block that is marked is marked in one word per slot, as in the code. Blocks and graphs live in
  zeroed arena pages, so the words start at `UNDEF_VALUE`.
* `DomTree` and `DfoRpo` take successors in any order, so a graph stands for all orders of its
  successor lists. `LoopChecker` keeps the order, because a second analysis meets the same back edges;
  `ReversePostOrder` keeps it because a pass computes one order.
* `LoopChecker` and `CheckElimination` read `BB::Domites` off the field `dominator` of their graphs, as
  the code does off `dominator_`: `a` dominates `b` if it is on the chain of links up from `b`. What is
  assumed of the field is `DominatorsKept` of `FlowGraph`: the links form a tree, and the chain of a
  block leaves out none of its dominators. This is what `DomTreeProofs` proves of `Construct`
  (`DominatorTree`). The chain may hold blocks that are no dominators: from five blocks on `Construct`
  makes some up (run `DomTreeWrong`). The runs have the exact dominators on graphs of at most four
  blocks, which is what the code computes there (`RightOnFourBlocks`), and a graph of five with a
  wrong one.
* `LoopChecker` takes its two markers for sets of blocks, as the refinement of `MarkSets` proved in
  `HeapProofs` justifies.
* `AddBBBefore(b, b)` iterates a vector while appending to it; no caller does it and the model
  excludes it.
* In `Peepholes` blocks are a chain, so RPO is their order, and their instructions are lists, which
  the refinement proved in `HeapProofs` (`BlocksAreLists`) justifies. All instructions have one signed type, `i8` to
  `i64`, whose constants are sign extended words of `WordBits` bits: for these `ToSigned` is a cast of
  the 64 bit immediate, and the pass does the same in each, so that `ValuesKept` asks of one behaviour that
  it is right in every type, as wide as the word (`i64`) or narrower. A value is what the
  instructions compute, with `SHR` copying the sign, as the fold does. A folded shift by the width of a
  word or more is undefined in C++, any word may come out. The immediate of a folded product is not cut to
  the type, as in the code; once one is too large for a type, a value of it is no longer what the
  program meant there and `ValuesKept` asks for nothing (`ConstantsFit`); in `i64` every product fits. An instruction
  that was rewritten away keeps its fields but is in no block; the order of users is not kept by the
  code either. `ReplaceInputInUsers`, a loop over the users, is modelled by what the whole loop does: an
  instruction that is listed n times gets its first n inputs that are the old value replaced.
* In `BasicBlock`, the constant `AtPhiBoundary` says whether callers do two things the block does not
  support: push to the front of a block that has phis and other instructions, and split between the
  two. No caller in the repository does, and the run has it `FALSE`.
* In `CheckElimination` the instructions are the checked values and the checks; the walk passes over
  all others without a change. A check is in no block when its `instBB_` is null.
* `GraphCopy` has the asserts of `BB::Copy` and `CopyInstruction`; those that only restate what the
  caller has just computed (null pointers) are left out here as elsewhere.
* In `GraphHeap` instruction lists are sequences, again by `ImplementsBlockLists`; blocks have at most
  two successors and none is removed, as in all graphs that are copied or inlined; a graph's loop tree
  is left out. A value is an instruction: immediates and types do not matter to a copy.
* `copying.early` and `inlined` are history variables: copies that were fixed before the copy of one of
  their inputs, and the number of calls the current `Run` has inlined.

## Runs

All passing runs explore the whole state space of their instance. `CHECK_DEADLOCK FALSE` is set
everywhere because a process that aborted, an allocator that was destroyed and an analysis that ended
really do stop.

| run | instance | shows |
|---|---|---|
| `Arena` | pages of 4 bytes, alignment 2, four frames, requests of 1, 3, 5 and 14 bytes: less than a page, more than one, and one whose `AlignUp` leaves no room | the list owns the mappings, blocks are mapped, one retry is enough, `AllocatorSpec` is implemented (blocks are aligned and disjoint) |
| `Markers` | four owners, one block, a counter limited to 4 (16 modulo 12, so the truncation happens too) | no marker has the value of unmarked blocks or one above the limit, slots are owned, `MarkSets` is implemented |
| `ControlFlow` | three blocks, four edges | edges agree at both ends, removed blocks are unlinked unless the last block was removed; insertions, removals and the split the inliner uses keep the paths they should, and the connected split cuts off the first half and no more (`PathsKept`) |
| `BasicBlock` | two phis, three other instructions, three blocks | size, links and end pointers agree, `BlockLists` is implemented |
| `DomTree` | all graphs of up to three blocks, all reachable ones of four up to renaming, the acyclic ones of five, and graphs with a gap in their ids; all search orders | the semidominators are right at the end of each iteration, `Find` is the minimum of the uncompressed path, the result is a tree that loses no dominator, and up to four blocks it is the dominator tree |
| `DfoRpo` | the same graphs | each block once; sources of forward edges and dominators first |
| `LoopChecker` | all graphs of up to three blocks with parallel edges, reachable graphs of four without, and the graph of `DomTreeWrong` with its wrong dominator and back edges from the last block; two analyses | colours, irreducibility, natural loops, loop tree, owners of blocks, reasons for aborts |
| `Peepholes` | every program of an argument, one of four pairs of the constants 0, 1, 2, -1 and -2, two operations on any earlier values, a return; in one block or with the operations in blocks of their own; words of 3 bits and shifts taken for 0 from 2 on, so that there is a type wider than that limit, one as wide and one narrower; any number of runs | inputs and users agree, no removed value is read, every value is kept in every type for every argument, shifts of negative numbers included, a run leaves work only in the blocks it rewrote |
| `CheckElimination` | three null or bounds checks of one reference and two indices, in every place of every block of the straight, branching and looping graphs of up to three blocks, two diamonds and a loop with a way past it, and of the graph of `DomTreeWrong` with its wrong dominator | a removed check is covered by one that is left, however removals chain; `Eliminate` ends, by an abort if it found anything to remove |
| `StaticInline` | a caller, a callee and a function the callee may call, from 5, 15 and 4 shapes: no, one or several returns, phis, branches, loops, unreachable blocks, recursion; at most 7 instructions for a callee, 12 after inlining; two runs on any functions, a deletion in between | graphs stay well formed, what is read knows its readers, the size stays bounded, a call is replaced by the callee's body, reasons for aborts, a run ends |
| `DomTreeWrong`, `CopyWrong` | the graphs of `DomTree`; the programs of `StaticInline`, one run, no deletion | see the disagreements |

The bounds are enough in this sense: every action, every branch of an action and every kind of abort
occurs; two operations are enough for a rewrite to feed a fold or another rewrite, in the same run
when they are in different blocks, in a later run when they are not; requests need a second and a
third arena; slots are reused after a release; parallel edges, self loops and edges to a removed block
occur; blocks have zero, one and several phis; four blocks are the least number with an irreducible
loop inside another loop, five the least number on which the dominator construction goes wrong. Three
checks are the least number with which removals can chain, and with which a check that is met again
in no block comes before and after one that would still be removed. A second run inlines a call into a
function that was inlined into before, or a copy's call; a deletion makes the ids of calls name other
functions.

Fairness: `LoopChecker` and `CheckElimination` assume weak fairness of the next-state relation, that
is, that a sequential program that can take its next step takes it; so does `StaticInline` while a run
is under way (`WF_vars(pc # "idle" /\ Next)`), whereas callers need not start a run or delete a
function. The liveness properties say that each of the three ends; for the recursive search that is due
to its colours, for `Eliminate` to the rounds it can call itself for, for `Run` to the blocks it listed
before it added any. The other specifications have no fairness and no liveness property: the containers
are driven by callers who may stop at any time, and the two other searches end for the same reason as
that for loops.

### Disagreements between the code and its documentation

Each of these runs checks one property that a comment, an assert or a test of the repository states,
and TLC finds a behaviour of the code that violates it.

| run | what happens |
|---|---|
| `DomTreeWrong` | `DeriveSemiDominators` unites a block with its parent before it looks at the block's bucket, and the bucket it looks at is that of the block, not of its parent. On edges 0→1, 0→2, 1→2, 1→3, 2→3, 2→4, 3→4, searched in the order 0 1 2 3 4, block 4 gets dominator 2, although 0→1→3→4 avoids 2; its immediate dominator is 0. Compiled and run on this graph, the code prints the same. |
| `CopyWrong` | `FixDFG` is to set the inputs of the copies (`graphHelper.cpp:54`, "set correct inputs"), but it skips instructions without the `INPUT` property, and only casts and phis have it: the builders combine an opcode's properties with `\|\|` (`helperBuilderFunctions.h:20`). The copy of a return or of a multiplication reads the values of the source graph. |

The passing runs are stated around further behaviour a maintainer should know:

* The assert of `GetNewMarker` casts `MAX_VALUE` to `uint8_t`: 255 markers per graph, where 2^30 - 1 fit.
* A graph one block of which was removed cannot be analysed again: the vectors of `DomTreeBuilder` have
  `GetBBCount()` entries but are indexed by ids, which keep the gap (`AbortsOnlyOnBadGraph` says
  exactly this), and `CleanupUnusedBlocks`, which would close it, dereferences a null allocator.
* Removing the last block leaves it in its neighbours' lists (hence the premise of `OnlyLastBBDangles`); a
  later removal or insertion then aborts, and the property shows that nothing else leads there.
* `AddBBBefore` moves the inserted block to the back of its predecessors' successors: inserted before
  the true destination of a branch, it changes the branch's two destinations round.
* `SplitAfterInstruction(_, true)` adds the edge to the new block before it moves the block's edges to the
  new one, and moves that edge too: the first half leads nowhere, the second has an edge to itself and is
  entered by nothing else (`ConnectedSplitCutsPaths` in `PathsKept`). No caller in the repository asks for
  the edge.
* A block may have three successors: the limit is tested before the push.
* `PushInstForward` on a block with phis and other instructions counts the new instruction, but the
  iterator, coming from the last phi, does not reach it; splitting after a block's last phi leaves
  `firstInstBB_` in the new block and makes the phi `lastInstBB_`, and the next push goes wrong. With
  `AtPhiBoundary = TRUE` both violate `WellFormed`.
* `ReplaceInControlFlow` works only on an instruction that is alone in its block: next to another one
  it calls an insertion that requires the new instruction to be in a block already. Every constant
  fold in a block with a second instruction therefore aborts (`FoldAborts`, `ReplaceAborts`).
* The rule for shifts "where n >= bit-width of a" (`peepholes.cpp:135`) tests for 32 whatever the type is: an
  `i64` shifted by 33 becomes 0, and an `i8` shifted by 20 is left alone. Nor is a wide shift the same
  everywhere: the rule makes it 0, the fold shifts the word, so that -4 shifted by 40 becomes -1 when it is
  folded. `ValuesKept` asks nothing of shifts by the width of the type or by `ShiftLimit`.
* `ToSigned` casts a `u64` to a signed number: a folded shift of 0x8000000000000000 by 1 copies the top bit.
  For `u64`, and for the narrower unsigned types, whose constants `ToSigned` narrows, `ValuesKept` claims
  nothing.
* With a wrong dominator (run `DomTreeWrong`) an irreducible loop can look reducible, so that it collects
  blocks of loops around it and two loops become each other's outer loop, and a check can be removed on
  account of one that is not ahead of it on every path. `IrreducibleFound`, `LoopTreeIsTree` and
  `RemovedCovered` say what is left in that case; `LoopsAreNatural` holds all the same.
* A run of the peepholes rewrites at most one instruction of a block: the loop asks the instruction it
  has just removed for its next one (`MissesOnlyBehindRewrite` says where work is left, and only
  there). Running the pass again gets to the next one.
* The 0 a wide shift is replaced by is never put in a block; its users read a constant that is in no
  list (the exception in `InputsPlaced`).
* A graph with a loop can be analysed once only: the second `VerifyGraphLoops` aborts on the first
  back edge (`AbortsExplained` of `LoopChecker`).
* `Eliminate` never returns once it has removed anything: its second round meets the removed check,
  which still is a user of what it checked, and asks for the dominance of a null block
  (`RemovalAborts`). What it has removed by then was covered (`RemovedCovered`).
* A copy gets its id from the builder it is made with, so it has the id of its original only by chance
  (`tests/graph.cpp:151` asserts that it has, in a loop that meets no instruction).
* A block that has only phis cannot be copied: `BB::Copy` asserts that there is another instruction.
  Inlining leaves such blocks where it takes a return away from behind the phis; the function with
  that block then aborts the pass when a call of it is to be inlined (`OnlyPhis`, `AbortsExplained`).
* `FixDFG` translates the users of one instruction at a time. For a phi or cast that is fixed before the
  copy of one of its inputs, the id of a copy is taken for the id of an original: the lookup throws, or
  hits a stranger. Callees with a phi of values from two branches, or of a value of a loop, abort the
  pass or leave a wrong user (`copying.early`, `AbortsExplained` of `StaticInline`).
* The copy of a cast or phi stays a user of the originals it was built from. When the original is a call
  that is to be inlined later, replacing its uses aborts on this user (`UsersRead`), so a function
  that was inlined somewhere may not be inlined into afterwards.
* A run inlines at most one call of a block: it goes on to the next block it listed, and the rest of the
  block of the call is in a new one. The size budget is not counted again in between (`SizeBounded`).
* A copy stays in the registry as a function whose blocks have moved to the caller.

## Proofs

Of the memory, the lists and the marks `HeapProofs` speaks, in three parts that share nothing; `Arena` and
`Markers` name their definitions apart from those of `BasicBlock` for it. About the allocator it assumes `PageAssumption` (page size a positive multiple of the alignment, dividing the
range of `size_t`) and `RequestAssumption` (requests are positive and fit `size_t`, mmap returns
aligned addresses). Its inductive invariant `ArenaInv` adds to what the run checks that a bump pointer
never leaves its arena (`BumpBounds`) and that every block lies in the used part of an arena
(`BlocksUsed`): without it, disjointness of a new block from the old ones does not follow from the
disjointness of the old ones. The step lemmas are `HeadArenaInv` (a request served) and `GrowArenaInv` (an
arena mapped), the arithmetic of padding and rounding is in lemmas of its own. `GrowArenaInv` also yields
that the request fits the new head: `HeadSizeIsArenaSize` is needed here, because the code compares
the request with the head's size and maps `arenaSize`; and a size that wraps around in `AlignUp`
becomes 0, which mmap refuses. From the invariant follow `ArenaTyped`, `NothingLeaks`,
`BlocksStayMapped`, `BlocksNeverOverlap`, `OneRetryIsEnough` and `ArenaRefinement`.

The other two parts are about what a `BB` keeps: its instruction list and its marks.

For the list they assume `InstrAssumption` (finitely many instructions, a phi is no regular instruction,
`Null` is none) and `~AtPhiBoundary`, that the callers are as careful as those of the repository: with the
constant `TRUE`, `WellFormed` does fail (see above). `WellFormed` speaks of what the iterator of a block visits,
`ListOf`, and is not enough for itself: it says what `prev` of a listed instruction is but not what `next` is
behind the last one, nothing of instructions in no block, and nothing of blocks that are still to be created.
The invariant `BlockInv` says for each block that it holds a list (`Holds`: an instruction is in the list
exactly if its `instBB_` is the block, both its links lead to its neighbours or to `Null`, the first entries are
the phis, and the five fields are the ones `Ends` computes from the list), and that an instruction of no block is
detached. The proof has three layers.

1. `ChainIs`: a chain of `next` pointers that follows a sequence without repetition visits exactly that
   sequence. The recursive function in `Chain` is shown to be that sequence by the least place where they
   would differ (`LeastPlace`); `ListFits` shows the bound on its length is no restriction.
2. What the assignments of an operation do to a list, for a heap `ins` and a heap `new` that
   differ at a few instructions: one more instruction between two neighbours (`ListWithOneMore`), one less
   (`ListWithOneLess`), cut in two (`ListsCut`); and to the fields of the block, in each case the code
   distinguishes (`EndsWithOneMore`, `EndsWithOneLess`, `EndsCut`). `Pushed` and `Unlinked` show that
   `PushInstruction` and `Removed` make these assignments, whichever of the four pointers they go by.
   A cut between the phis and the others, or a push between them, is where this fails: there the pointers of
   the block name an instruction that is not next to the place.
3. One lemma for each operation (`PushStep`, `RemoveStep`, `ReplaceStep`, `SplitStep`, `CreateStep`,
   `AbortStep`): it keeps `BlockInv` and is one action of `BlockLists` on the lists. The lists of the other
   blocks stay because an operation touches instructions of its block only (`Framed`, `ListStays`).

`ListsWellFormed` and `BlocksAreLists` follow.

For the markers they assume `MarkerAssumption` and `OwnersAssumption` (never more than four markers held
at a time). The invariant is the conjunction of `MTypeOK`, `SlotsOwned` and `ValuesSpent`; it is
inductive as it stands, `MTypeOK` alone is not: that a marker is never 0 needs that a slot is free. Each action is shown to be the corresponding action of `MarkSets`: that a new
marker's set is empty needs `ValuesSpent`, that the sets of the others do not change needs
`SlotsOwned`.

`ControlFlowProofs` assumes only that the bounds are numbers. What the operations do to ordered lists and
to bags is first turned into numbers: `Lists[a][b]` is how often `b` is among the successors of `a`, and
`CountAppend`, `CountFilled` and `WithoutParts` say what appending, appending several times and deleting
do to it. `WithoutEntry` is recursive, and the library's induction is out of reach, so `KeptExists` and
`WithoutParts` take the least place where the claim would fail (`LeastNumber`, from the well-foundedness
of the naturals). The invariant adds to the three that are checked that a number not yet given to a block
is listed nowhere (`FreshQuiet`) and that the last block is one that was created (`LastCreated`): without
them a new block could find itself among somebody's successors. There is one lemma for each operation; the
operations that add an edge share `EdgeAdded`, the two splits share `EdgesMoved`. `NoHalfEdge` shows that the
aborts of `DeleteSuccessors` and `DeletePredecessors` cannot be reached as long as the last block is there.
The same rows give the edges of the graph after an operation (`EdgesListed`), and `PathsAreKept` follows
with three facts of `FlowGraphProofs` about any graph that is edited: a node put in between another one and
all that leads to it (`PathsInserted`, `OnlyByInserted`), fewer nodes (`PathsInFewerNodes`), a node that
hands its successors to a new one (`PathsSplit`). A fourth is about the connected split, which cuts a
node off from what it leads to (`PathsCut`). It is an action property and needs the invariant: a
removed block or a number not yet given away must not be on an edge.

`DfoRpoProofs` assumes `GraphAssumption` (finite sets of blocks, edges between them, a first block) and
proves for every graph and every order of successors that each block is visited once (`VisitedOnce`) and
that sources of forward edges and dominators come first (`OrderCorrect`). The second is not inductive:
it speaks of the end only. The invariant says why it comes out so. The activations on the stack are a
path from the first block (`StackFromFirst`, `StackIsPath`), so every dominator of a block on the stack
is around it (`DominatorsAround`, by `DominatesPredecessor` of `FlowGraphProofs`: what dominates a
block dominates its predecessors) and is given to the callback later (`DominatorsLater`). When a block is
given to the callback, its successors have been visited, so each is in the result already or is still on
the stack; in the second case the block can be reached from it, and the edge closes a cycle
(`SuccessorsVisited`). The reversal turns "later" into "first" (`ReverseParts`).

`DomTreeProofs` assumes `GraphAssumption`. First it shows that `Construct` gives up on the graphs the
property names and on no others (`AbortsRight`). The run checks the equivalence on small graphs; the proof needs what the search
knows while it runs (`SearchState`): the blocks it has found are reached from the first one and have ids
that fit, as many are listed as are found, and a block that is off the stack has no successor left to
find. Back in the first block, what was found is closed under edges and therefore is what the first block
reaches (`SearchComplete`), and a count of `BBCount` means that this is everything
(`ReturnFromFirstSteps`). The later phases do not touch the graph and never abort (`LaterSteps`).

Then it shows that Lengauer and Tarjan's algorithm, as far as the code follows it, computes what it should:
`SemiDominators`, `FindRight` and `DominatorTree`, for every graph and whatever order the search, the
predecessors and the dominatees are taken in. The properties speak of finished blocks only, so the
invariant `TInv` has to say what is known of the others. (TLC checked it on the graphs of at most four
blocks before it was proved.) Its parts:

1. The search leaves a tree (`SearchTree`): the blocks below a block are found one after the other, and an
   edge to a block found later leads down the tree. While the search runs this holds of the blocks found so
   far, and what was found since an activation began is below it (`SearchRuns`); a new block keeps it
   (`SearchTreeGrows`). The numbers are those of the search from then on (`Numbered`).
2. The DSU (`Compressing`): a link leads up the tree, and the label of a block is the least of the
   blocks between it and the end of its link (its `Segment`), whatever paths were compressed before. The
   recursive definitions of `Path`, `Updated` and `Forest` do define functions (`UpdatesExist`,
   `UpdatedRight`, `PathRight`, `ForestRight`), and what `UpdateAncestorPath` leaves keeps the invariant
   (`UpdatesRight`, `CompressKeeps`). Labels only stand for blocks that are finished, so it does not matter
   that the semidominators they are compared by are still to change (`RankChanges`).
3. Semidominators (`SemiState`): `semiDoms_` never claims more than there is, is right for finished blocks,
   and of the current block knows what the predecessors seen so far can say. When there are none left
   that is enough: each source of the block found before it is a predecessor, or a source of a
   finished block above a predecessor (`SourceComplete`, `CurrentFinished`).
4. Dominators (`BucketState`, `DominatorState`): the block `immDoms_` holds before the last loop is above its
   block and not above its semidominator. A dominator of a block is above it (`DominatorAbove`), dominates its
   semidominator (`DominatorOfSource`) and what is between that and the block (`DominatorOfBetween`). So no
   dominator is lost when the last loop goes up (`RefineRight`), although, as the run `DomTreeWrong` shows,
   the code may stop before it gets to the immediate dominator.

`LoopCheckerProofs` assumes `GraphAssumption` and `RunsAssumption`. `ColoursCorrect` needs little more
than itself: a block is on the stack once and grey while it is (`SearchState`). `AbortsAreExplained` needs
to know why `AddBackEdge` can meet a block that is a back edge of the loop already: in the first call
every recorded back edge has been passed by the search at some place of the source's successors, and an
activation that is still on the stack looks at a later place (`BackEdgesPassed`); so it has met the header
at two places, and the edge at hand is the second of two parallel ones. In later calls there are loops from the earlier ones, which the
property allows for.

The rest of `LoopCheckerProofs` shows, for every graph and any dominators that satisfy `DominatorsKept`,
what the first call of `VerifyGraphLoops` finds: `IrreducibleIsFound`, `LoopsFoundAreNatural` and
`LoopsFormTree`. In a reducible graph the made up dominators do no harm, since the edges the search
records are those to true dominators in any case. In the others the second half of `IrreducibleFound`
and the tree need that no back edge goes to a made up dominator (`BackEdgesRight`). None of the three is
inductive, they speak of the end of the call only. The invariant `LInv` adds three sets of facts.

1. While the search runs (`SearchFacts`): the activations are a path of edges that close no cycle
   (`StackIsPath`), the dominators of a block on the stack are around it (`DominatorsAround`) and those of
   a block that was left are still active or leave later (`DominatorsLater`), and every edge the search has
   looked at leads to a block that leaves before its source, or is recorded (`EdgesSeen`). What is recorded
   as a back edge closes a cycle with edges of which none leads to a dominator of its source
   (`LoopsRecorded`). When the last block leaves, this says of all edges what it said of those
   looked at (`SearchDone`, by `SearchEnds`).
2. From there, whichever edges the search took for back edges: a graph is reducible exactly if none of them
   is irreducible (`IrreducibleAgree`: along the other edges the order of leaving decreases, so they close
   no cycle); and in a reducible graph the recorded edges are those to a dominator
   (`BackEdgesAreSources`).
3. While the blocks are organized, in the order the search left them: the links of the loops agree in both
   directions and lead to loops whose header left later (`TreeInv`); in a reducible graph the loops
   organized so far hold the blocks of their natural loops, inner loops included (`NaturalInv`). The step
   that matters is `ClassifyNatural`: the loop takes in the blocks it collects that are in no loop, and the
   outermost loops around the others. That it takes in nothing else needs that a natural loop that shares a
   block with one whose header it is dominated by lies inside it (`LoopsNested`).

`ConstructLoopTree` links the outermost loops to the root. The properties speak of the loops around a loop,
`Around`, a recursive function; that it is the chain of outer loops, and exists, holds because an outer
loop's header leaves later (`AroundIsOutside`, from `ChainRecursion`). `FlowGraphProofs` has what these
proofs share about paths and dominators (two dominators of a block are comparable, `DominatorsComparable`;
a path that avoids a dominator of its end starts below it, `DominatesBackwards`) and about chains of
links: what is reached by following links as long as they lead anywhere (`Chain`), how a chain changes
when the ends of some chains are linked to another node (`ChainsJoined`).

`CheckEliminationProofs` assumes `ProgramAssumption`: each check is in one place of one block, the blocks
are reachable and the order of the walk lists blocks, and no value is both checked and an index, so that
the users of a reference with a check's opcode check it. The invariant is `RemovedCovered` with the check
at hand still in its list. The dominators may be any that
satisfy `DominatorsKept`. The check that removes others is in its block when it does and covers each of
them (`RemoverCovers`); if it is removed later itself, what it covered is covered by its remover
(`CoversTransitive`: chains of links are transitive and, being those of a tree, lead nowhere back,
`DomitesParts`; the latter matters where the first and the third check are in one block). Where no
dominator is made up, what covers a check is on every path to it.

`PeepholesProofs` assumes `ProgramAssumption`, whatever the widths: what the builders make of a program
without phis: each instruction is in one place of one block, reads what comes before it, and is listed as a user
of a value as often as it reads it. For any number of instructions and blocks and any number of runs it shows
`PeepholesUsersAgree`, `PeepholesInputsPlaced` and `PeepholesMissesOnlyBehindRewrite`. The three are one
invariant, `IInv`, because they need each other. (TLC checked it on all states of the run before it was proved.)

1. `IInv` adds that instructions have the inputs their opcode takes, that no instruction is in two places
   (`Once`), and what holds of a walk that is under way (`WalkedClean`): behind it, in a block it removed nothing
   from, no rule applies.
2. How often an entry occurs in a sequence, `Occurrences`, is a cardinality; the lemmas say what appending,
   joining and `RemoveFirst` do to it, and `ReplacedInput` what `ReplaceInput` called n times does: n occurrences
   move from the old value to the new.
3. On these numbers, `ReplaceInputInUsers` moves all readers of a value to another one, and two calls of
   `RemoveUser` take an instruction out of the users of both its inputs, or twice out of one. `RewiresAgree`
   puts this together: afterwards what is left agrees again. It needs that the new value is another
   one and that the removed instruction does not read itself. Both come from `InputsPlaced`: what is
   read comes before its reader, and `Once` makes that an order.
4. For `InputsPlaced`, `RemovedFromList` and `PutInList` say what is before what when an instruction is taken out
   of its block or another one takes its place. The replacement of an instruction is one of its inputs, so it comes
   before all readers of the instruction; a folded constant takes the place itself; the 0 of a wide shift is
   `Loose`.
5. `WalkedClean` survives a rewrite because a rewrite changes what its readers read, and a reader comes later:
   in the blocks the walk has been through nothing changes, and the block itself is one it removed an
   instruction from, so nothing is claimed of it any more.

Only model-checked: that dominators are exact up to four blocks (`RightOnFourBlocks`: the run has all of
these graphs, up to the names of blocks); that the peepholes keep values (`ValuesKept`: a value is a recursive
function, and that two instances of it agree on what a rewrite left alone is an induction over the program; the rules
themselves need facts about powers of two and bits that no prover here has); `GraphCopy` and `StaticInline` (folds over
lists of instructions). Liveness (`Terminates`, `RemovalAborts`, `RunEnds`) is out of the prover's reach.

## Not modelled

* Immediates and types of instructions other than what the peepholes read, printing, accessors; setters
  no pass calls.
* `ConstantFolding::ProcessXOR` has no caller; the unsigned types, which `ToSigned` narrows or takes for signed,
  are left out.
* `InsertSingleInstrAfter` and `InsertSingleInstrBefore` on instructions that are in a block have no
  caller. On fresh ones they abort, which is modelled.
* A second `Construct` on the same graph, which appends to `dominated_` again. Its readers take
  `dominator_`, which is overwritten.
* `LoopChecker` is not composed with `ControlFlow`: no pass splits a block of a graph whose loops were
  analysed (`Loop::AddBB` in the split). It is not composed with `DomTree` either, but takes what
  `DomTreeProofs` proves of its result.

## Plan

Done, most important first: memory and markers with their abstract specifications and proofs; the
graph and the blocks; dominators, RPO and loops; the peepholes with the data flow they change; the
elimination of checks; several graphs, their copies and static inlining with the registry of functions;
proofs about the instruction lists of blocks, the edges and paths of a graph, the depth first order, the
construction of the dominator tree, the analysis of loops, the elimination of checks, and the inputs, users
and walk of the peepholes.

Left:

1. `LoopChecker` composed with `ControlFlow`'s split; a second `Construct`.
