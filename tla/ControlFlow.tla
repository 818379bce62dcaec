---------------------------- MODULE ControlFlow ----------------------------
(***************************************************************************)
(* The control flow of one ir::Graph: its blocks (irGen/graph.cpp) and the *)
(* edges between them (irGen/bb.cpp, BB::SplitAfterInstruction of          *)
(* base.cpp).  A block is the number of its creation, which is its place   *)
(* in BBs_ plus 1.  The order of successors is kept, it tells the branches *)
(* of a JCMP apart; predecessors_ is a bag.  Instructions and loops are    *)
(* other modules' concern.                                                 *)
(***************************************************************************)
EXTENDS FlowGraph, Sequences, Functions

CONSTANTS MaxBBs,     \* bound on the blocks ever created
          MaxEdges    \* bound on the edges of the graph

ASSUME BoundAssumption == MaxBBs \in Nat /\ MaxEdges \in Nat

Blocks == 1..MaxBBs
NoBB == 0

VARIABLES created,    \* BBs_.size(): no entry is ever removed
          alive,      \* the entries of BBs_ that are not nullptr
          succs,      \* successors_
          preds,      \* predecessors_: preds[b][a], how often a is in the bag
          firstBB, lastBB,
          deadInstrCounter,
          status

vars == <<created, alive, succs, preds, firstBB, lastBB, deadInstrCounter, status>>

Count(s, b) == Cardinality({i \in DOMAIN s : s[i] = b})
Empty == [a \in Blocks |-> 0]

\* The entries of a list other than e, in their order.
WithoutEntry(s, e) ==
  LET Kept[n \in 0..Len(s)] ==
        IF n = 0 THEN <<>> ELSE IF s[n] = e THEN Kept[n - 1] ELSE Append(Kept[n - 1], s[n])
  IN Kept[Len(s)]

EdgeCount == FoldFunction(LAMBDA s, n : Len(s) + n, 0, succs)

\* GetBBCount: what every analysis takes for the number of blocks.
BBCount == created - deadInstrCounter

\* AddSuccessors aborts on a block that has more than two already.
Full(b) == Len(succs[b]) > 2

\* DeleteSuccessors and DeletePredecessors abort when there is no such entry.
LacksEdgeTo(b) == \E a \in Blocks : preds[b][a] > Count(succs[a], b)
LacksEdgeFrom(a, S) == \E b \in S : Count(succs[a], b) > preds[b][a]

-----------------------------------------------------------------------------
Init ==
  /\ created = 0 /\ alive = {}
  /\ succs = [b \in Blocks |-> <<>>]
  /\ preds = [b \in Blocks |-> Empty]
  /\ firstBB = NoBB /\ lastBB = NoBB
  /\ deadInstrCounter = 0
  /\ status = "running"

Running == status = "running"

CreateEmptyBB ==
  /\ Running /\ created < MaxBBs
  /\ created' = created + 1
  /\ alive' = alive \cup {created'}
  /\ UNCHANGED <<succs, preds, firstBB, lastBB, deadInstrCounter, status>>

\* CreateEmptyBB(true): the graph's last block is created with the first
\* block that ends the function.
CreateTerminalBB ==
  LET new == created + 1
      last == IF lastBB = NoBB THEN created + 2 ELSE lastBB
  IN /\ Running /\ EdgeCount < MaxEdges
     /\ created' = IF lastBB = NoBB THEN created + 2 ELSE created + 1
     /\ created' <= MaxBBs
     /\ alive' = alive \cup (new..created')
     /\ lastBB' = last
     /\ succs' = [succs EXCEPT ![new] = <<last>>]
     /\ preds' = [preds EXCEPT ![last][new] = @ + 1]
     /\ UNCHANGED <<firstBB, deadInstrCounter, status>>

SetFirstBB(b) ==
  /\ Running /\ firstBB' = b
  /\ UNCHANGED <<created, alive, succs, preds, lastBB, deadInstrCounter, status>>

\* Mutant of ConnectBBs: AddPredecessors is not called.
ConnectOneWay(lhs, rhs) ==
  /\ Running /\ EdgeCount < MaxEdges
  /\ ~Full(lhs)
  /\ succs' = [succs EXCEPT ![lhs] = Append(@, rhs)]
  /\ UNCHANGED <<created, alive, preds, firstBB, lastBB, deadInstrCounter, status>>

ConnectBBs(lhs, rhs) ==
  /\ Running /\ EdgeCount < MaxEdges
  /\ ~Full(lhs)
  /\ succs' = [succs EXCEPT ![lhs] = Append(@, rhs)]
  /\ preds' = [preds EXCEPT ![rhs][lhs] = @ + 1]
  /\ UNCHANGED <<created, alive, firstBB, lastBB, deadInstrCounter, status>>

\* The predecessors of before, in place of it, get bb at the back of their
\* successors, once for each edge they had.
Redirected(before, bb) ==
  [a \in Blocks |-> WithoutEntry(succs[a], before)
                      \o [i \in 1..preds[before][a] |-> bb]]

AddBBBefore(before, bb) ==
  /\ Running /\ EdgeCount < MaxEdges /\ before # bb
  /\ ~LacksEdgeTo(before)
  /\ Len(Redirected(before, bb)[bb]) <= 2
  /\ succs' = [Redirected(before, bb) EXCEPT ![bb] = Append(@, before)]
  /\ preds' = [preds EXCEPT ![before] = [Empty EXCEPT ![bb] = 1],
                            ![bb] = [a \in Blocks |-> @[a] + preds[before][a]]]
  /\ UNCHANGED <<created, alive, firstBB, lastBB, deadInstrCounter, status>>

\* Mutant of SetBBAsDeadImpl: the counter goes down.
DeadCountedDown(bb) ==
  /\ alive' = alive \ {bb}
  /\ deadInstrCounter' = deadInstrCounter - 1
  /\ UNCHANGED <<created, firstBB, lastBB, status>>

\* SetBBAsDeadImpl: the entry of BBs_ goes, firstBB_ and lastBB_ stay.
SetBBAsDeadImpl(bb) ==
  /\ alive' = alive \ {bb}
  /\ deadInstrCounter' = deadInstrCounter + 1
  /\ UNCHANGED <<created, firstBB, lastBB, status>>

\* Mutant of SetBBAsDead: its successors do not forget it.
SetAsDeadOneWay(bb) ==
  /\ Running /\ bb # lastBB
  /\ ~LacksEdgeTo(bb) /\ ~LacksEdgeFrom(bb, Blocks \ {bb})
  /\ SetBBAsDeadImpl(bb)
  /\ succs' = [b \in Blocks |-> IF b = bb THEN <<>> ELSE WithoutEntry(succs[b], bb)]
  /\ preds' = [preds EXCEPT ![bb] = Empty]

\* SetBBAsDead for any block but the last: neighbours forget it.
SetBBAsDead(bb) ==
  /\ Running /\ bb # lastBB
  /\ ~LacksEdgeTo(bb) /\ ~LacksEdgeFrom(bb, Blocks \ {bb})
  /\ SetBBAsDeadImpl(bb)
  /\ succs' = [b \in Blocks |-> IF b = bb THEN <<>> ELSE WithoutEntry(succs[b], bb)]
  /\ preds' = [b \in Blocks |->
       IF b = bb THEN Empty ELSE [preds[b] EXCEPT ![bb] = @ - Count(succs[bb], b)]]

\* SetBBAsDead for the last block clears the block's own edges only.
SetLastBBAsDead(bb) ==
  /\ Running /\ bb = lastBB
  /\ SetBBAsDeadImpl(bb)
  /\ succs' = [succs EXCEPT ![bb] = <<>>]
  /\ preds' = [preds EXCEPT ![bb] = Empty]

\* Mutant of Split: successors_ is cleared before it was moved.
SplitDropping(b) ==
  LET new == created + 1 IN
  /\ Running /\ created < MaxBBs
  /\ ~LacksEdgeFrom(b, Blocks)
  /\ created' = new /\ alive' = alive \cup {new}
  /\ succs' = [succs EXCEPT ![b] = <<>>]
  /\ preds' = [c \in Blocks |-> [preds[c] EXCEPT ![b] = @ - Count(succs[b], c)]]
  /\ UNCHANGED <<firstBB, lastBB, deadInstrCounter, status>>

\* SplitAfterInstruction(instr, FALSE): a new block takes b's successors.
Split(b) ==
  LET new == created + 1 IN
  /\ Running /\ created < MaxBBs
  /\ ~LacksEdgeFrom(b, Blocks)
  /\ created' = new /\ alive' = alive \cup {new}
  /\ succs' = [succs EXCEPT ![b] = <<>>, ![new] = succs[b]]
  /\ preds' = [c \in Blocks |-> [preds[c] EXCEPT ![b] = @ - Count(succs[b], c),
                                                 ![new] = @ + Count(succs[b], c)]]
  /\ UNCHANGED <<firstBB, lastBB, deadInstrCounter, status>>

\* SplitAfterInstruction(instr, TRUE) connects b to the new block first, so
\* the new edge is among the successors the loop then moves.
SplitAndConnect(b) ==
  LET new == created + 1
      moved == Append(succs[b], new) IN
  /\ Running /\ created < MaxBBs /\ EdgeCount < MaxEdges
  /\ ~Full(b) /\ ~LacksEdgeFrom(b, Blocks)
  /\ created' = new /\ alive' = alive \cup {new}
  /\ succs' = [succs EXCEPT ![b] = <<>>, ![new] = moved]
  /\ preds' = [c \in Blocks |-> [preds[c] EXCEPT ![b] = @ - Count(succs[b], c),
                                                 ![new] = @ + Count(moved, c)]]
  /\ UNCHANGED <<firstBB, lastBB, deadInstrCounter, status>>

Abort(reason) ==
  /\ Running /\ status' = reason
  /\ UNCHANGED <<created, alive, succs, preds, firstBB, lastBB, deadInstrCounter>>

\* "More than 2 successors!"
SuccessorsAbort ==
  /\ \/ \E b \in alive : Full(b)
     \/ \E before, bb \in alive :
          /\ before # bb /\ ~LacksEdgeTo(before)
          /\ Len(Redirected(before, bb)[bb]) > 2
  /\ Abort("too many successors")

\* An edge is to be deleted at an end that does not list it.
EdgeAbort ==
  /\ \/ \E bb \in alive \ {lastBB} :
          LacksEdgeTo(bb) \/ LacksEdgeFrom(bb, Blocks \ {bb})
     \/ \E before \in alive : LacksEdgeTo(before)
     \/ \E b \in alive : created < MaxBBs /\ LacksEdgeFrom(b, Blocks)
  /\ Abort("no such edge")

\* AddBBBefore and SetBBAsDead abort on a block that is dead already.
DeadAbort ==
  /\ alive # 1..created
  /\ Abort("dead block")

\* CleanupUnusedBlocks builds a vector that has no arena to reserve from.
CleanupUnusedBlocks ==
  /\ created > 0
  /\ Abort("no allocator")

Next ==
  \/ CreateEmptyBB \/ CreateTerminalBB
  \/ \E b \in alive : SetFirstBB(b) \/ Split(b) \/ SplitAndConnect(b)
                      \/ SetBBAsDead(b) \/ SetLastBBAsDead(b)
  \/ \E a, b \in alive : ConnectBBs(a, b) \/ AddBBBefore(a, b)
  \/ SuccessorsAbort \/ EdgeAbort \/ DeadAbort \/ CleanupUnusedBlocks

Spec == Init /\ [][Next]_vars

-----------------------------------------------------------------------------
TypeOK ==
  /\ created \in 0..MaxBBs
  /\ alive \subseteq 1..created
  /\ succs \in [Blocks -> Seq(Blocks)]
  /\ preds \in [Blocks -> [Blocks -> Nat]]
  /\ firstBB \in Blocks \cup {NoBB} /\ lastBB \in Blocks \cup {NoBB}
  /\ deadInstrCounter \in Nat /\ BBCount = Cardinality(alive)
  /\ status \in {"running", "too many successors", "no such edge",
                 "dead block", "no allocator"}

LastBBKilled == lastBB # NoBB /\ lastBB \notin alive

\* Both ends of an edge list it equally often, whatever the order of
\* insertions, splits and removals, parallel edges and self loops included.
EdgesAgree ==
  \A a, b \in alive : preds[b][a] = Count(succs[a], b)

\* As long as the last block has not been removed, a removed block is listed
\* by nobody and lists nobody, and no operation finds an edge half gone:
\* DeleteSuccessors and DeletePredecessors never abort.
OnlyLastBBDangles ==
  ~LastBBKilled =>
    /\ status # "no such edge"
    /\ \A d \in Blocks \ alive :
         /\ succs[d] = <<>> /\ preds[d] = Empty
         /\ \A b \in alive : preds[b][d] = 0 /\ Count(succs[b], d) = 0

E == {e \in alive \X alive : Count(succs[e[1]], e[2]) > 0}
Paths == [a \in alive |-> ReachableFrom(a, alive, E)]

\* Inserting a block that has no edges leaves every path between the other
\* blocks, and the block is on each of them that enters the block it is
\* inserted before.
InsertionKeepsPaths(before, bb) ==
  AddBBBefore(before, bb) /\ succs[bb] = <<>> /\ preds[bb] = Empty =>
    /\ \A a, b \in alive \ {bb} : b \in Paths[a] <=> b \in Paths'[a]
    /\ \A a, b \in alive \ {bb} :
         before \in ReachableFrom(a, alive, Without({bb}, E')) => a = before

\* Removing a block keeps exactly the paths that avoid it.
RemovalKeepsOtherPaths(bb) ==
  SetBBAsDead(bb) \/ SetLastBBAsDead(bb) =>
    \A a \in alive' : Paths'[a] = ReachableFrom(a, alive, Without({bb}, E))

\* The first half of a split block, connected to the second half, reaches
\* what the block reached: this is how the inliner uses it.
SplitKeepsPaths(b) ==
  Split(b) =>
    \A a \in alive :
      ReachableFrom(a, alive', E' \cup {<<b, created'>>}) \cap alive = Paths[a]

\* A split that is to connect the halves cuts them apart instead: the first
\* half leads nowhere, so that paths end where they led on through it, and the
\* second half, which nothing enters, reaches what the block reached.
ConnectedSplitCutsPaths(b) ==
  SplitAndConnect(b) =>
    /\ Paths'[b] = {b}
    /\ \A a \in alive \ {b} : Paths'[a] = ReachableFrom(a, alive, NotFrom(b, E))
    /\ Paths'[created'] \ {b} = (Paths[b] \ {b}) \cup {created'}

\* What the operations that edit the lists of several blocks at once do to the
\* paths of the graph, whatever parallel edges and self loops these blocks
\* have.  AddBBBefore, SetBBAsDead and the split the inliner uses keep all they
\* should; SplitAfterInstruction(instr, TRUE), which nothing in src/ calls, is
\* the exception.
PathsKept ==
  [][/\ \A before, bb \in alive : InsertionKeepsPaths(before, bb)
     /\ \A b \in alive :
          RemovalKeepsOtherPaths(b) /\ SplitKeepsPaths(b) /\ ConnectedSplitCutsPaths(b)]_vars
=============================================================================
