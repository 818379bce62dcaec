----------------------------- MODULE BasicBlock -----------------------------
(***************************************************************************)
(* The instruction list of ir::BB (irGen/bb.cpp and, for the split,        *)
(* base.cpp): instructions linked both ways, phis first, with four         *)
(* pointers into the list and a count in the block.  A block is the number *)
(* of its creation.  Operands and edges are other modules' concern.        *)
(***************************************************************************)
EXTENDS Integers, FiniteSets, Sequences

CONSTANTS MaxBBs,          \* bound on the blocks ever created
          Phis, Regulars,  \* the instructions there are
          Null,
          AtPhiBoundary    \* callers push to the front of blocks that have
                           \* phis and others, or split between the two

Blocks == 1..MaxBBs
Instrs == Phis \cup Regulars

ASSUME InstrAssumption ==
  /\ MaxBBs \in Nat
  /\ IsFiniteSet(Instrs) /\ Phis \cap Regulars = {} /\ Null \notin Instrs \cup Nat
  /\ AtPhiBoundary \in BOOLEAN

VARIABLES created,   \* the graph's blocks are 1..created
          instrs,    \* prevInst_, nextInst_ and instBB_ of each instruction
          blocks,    \* the fields of each block
          status

vars == <<created, instrs, blocks, status>>

Detached == [prev |-> Null, next |-> Null, bb |-> Null]
EmptyBB == [firstPhi |-> Null, lastPhi |-> Null,
            firstInst |-> Null, lastInst |-> Null, size |-> 0]

SetPrev(ins, x, p) == IF x = Null THEN ins ELSE [ins EXCEPT ![x].prev = p]
SetNext(ins, x, n) == IF x = Null THEN ins ELSE [ins EXCEPT ![x].next = n]

\* Following next from x, as the iterators of a block do.
Chain(ins, x) ==
  LET walk[n \in 1..Cardinality(Instrs)] ==
        IF n = 1 THEN x
        ELSE IF walk[n - 1] = Null THEN Null ELSE ins[walk[n - 1]].next
  IN [n \in 1..Cardinality({m \in DOMAIN walk : walk[m] # Null}) |-> walk[n]]

\* BB::begin(): the first phi or, without phis, the first other instruction.
Begin(blk) == IF blk.firstPhi # Null THEN blk.firstPhi ELSE blk.firstInst

\* Linked(ins, <<x, y>>): x comes right before y, either of them may be Null.
Linked(ins, x, y) == SetNext(SetPrev(ins, y, x), x, y)

-----------------------------------------------------------------------------
(* PushInstruction by its cases, as functions of the heap: the instructions *)
(* and the block after x was pushed to it.                                  *)

Heap(ins, blk) == [instrs |-> ins, block |-> blk]

PushPhi(ins, blk, x) ==
  IF blk.firstPhi = Null
  THEN Heap(Linked(ins, x, blk.firstInst), [blk EXCEPT !.firstPhi = x, !.lastPhi = x])
  ELSE Heap(Linked(ins, x, blk.firstPhi), [blk EXCEPT !.firstPhi = x])

PushOnly(ins, blk, x) ==
  Heap(Linked(ins, blk.lastPhi, x), [blk EXCEPT !.firstInst = x, !.lastInst = x])

\* Mutant of PushBack: the last instruction does not get its next.
PushBackHalfLinked(ins, blk, x) ==
  Heap(SetPrev(ins, x, blk.lastInst), [blk EXCEPT !.lastInst = x])

PushBack(ins, blk, x) ==
  Heap(Linked(ins, blk.lastInst, x), [blk EXCEPT !.lastInst = x])

\* The phis before firstInst_ are not linked to the new first instruction.
PushFront(ins, blk, x) ==
  Heap(Linked(ins, x, blk.firstInst), [blk EXCEPT !.firstInst = x])

PushInstruction(ins, b, blk, x, back) ==
  LET owned == [ins EXCEPT ![x].bb = b]
      sized == [blk EXCEPT !.size = @ + 1]
  IN IF x \in Phis THEN PushPhi(owned, sized, x)
     ELSE IF blk.firstInst = Null THEN PushOnly(owned, sized, x)
     ELSE IF back THEN PushBack(owned, sized, x)
     ELSE PushFront(owned, sized, x)

PhiEnds(blk, x, p, n) ==
  [blk EXCEPT !.firstPhi = IF x # @ THEN @ ELSE IF x = blk.lastPhi THEN Null ELSE n,
              !.lastPhi = IF x # @ THEN @ ELSE IF x = blk.firstPhi THEN Null ELSE p]

\* Mutant of InstEnds: removing the first instruction leaves none.
InstEndsNoNext(blk, x, p, n) ==
  [blk EXCEPT !.firstInst = IF x = @ THEN Null ELSE @,
              !.lastInst = IF x # @ THEN @ ELSE IF p \in Phis THEN Null ELSE p]

InstEnds(blk, x, p, n) ==
  [blk EXCEPT !.firstInst = IF x = @ THEN n ELSE @,
              !.lastInst = IF x # @ THEN @ ELSE IF p \in Phis THEN Null ELSE p]

\* SetInstructionAsDead, on a heap too; p and n are the neighbours of x.
Removed(ins, blk, x) ==
  LET p == ins[x].prev
      n == ins[x].next
      ends == IF x \in Phis THEN PhiEnds(blk, x, p, n) ELSE InstEnds(blk, x, p, n)
  IN Heap(SetNext(SetPrev([ins EXCEPT ![x] = Detached], n, p), p, n),
          [ends EXCEPT !.size = @ - 1])

-----------------------------------------------------------------------------
Running == status = "running"

\* PushInstruction asserts that the instruction is in no block.
Fresh(x) == instrs[x].bb = Null /\ instrs[x].prev = Null

Becomes(b, heap) ==
  /\ instrs' = heap.instrs
  /\ blocks' = [blocks EXCEPT ![b] = heap.block]
  /\ UNCHANGED <<created, status>>

Init ==
  /\ created = 0
  /\ instrs = [x \in Instrs |-> Detached]
  /\ blocks = [b \in Blocks |-> EmptyBB]
  /\ status = "running"

CreateEmptyBB ==
  /\ Running /\ created < MaxBBs
  /\ created' = created + 1
  /\ UNCHANGED <<instrs, blocks, status>>

\* lastInst_ is dereferenced when firstInst_ is not nullptr.
PushInstBackward(b, x) ==
  /\ Running /\ Fresh(x)
  /\ x \in Regulars /\ blocks[b].firstInst # Null => blocks[b].lastInst # Null
  /\ Becomes(b, PushInstruction(instrs, b, blocks[b], x, TRUE))

PushInstForward(b, x) ==
  /\ Running /\ Fresh(x)
  /\ AtPhiBoundary \/ x \in Phis \/ blocks[b].firstPhi = Null \/ blocks[b].firstInst = Null
  /\ Becomes(b, PushInstruction(instrs, b, blocks[b], x, FALSE))

SetInstructionAsDead(x) ==
  /\ Running /\ instrs[x].bb # Null
  /\ LET b == instrs[x].bb IN Becomes(b, Removed(instrs, blocks[b], x))

\* ReplaceInControlFlow of an instruction that is alone in its block.
ReplaceInControlFlow(x, new) ==
  LET b == instrs[x].bb
      pushed == PushInstruction(instrs, b, blocks[b], new, FALSE)
  IN /\ Running /\ b # Null /\ Fresh(new)
     /\ instrs[x].prev = Null /\ instrs[x].next = Null
     /\ Becomes(b, Removed(pushed.instrs, pushed.block, x))

\* Next to another instruction it inserts with InsertSingleInstrAfter or
\* Before, which abort on an instruction that is in no block yet.
ReplaceAborts(x, new) ==
  /\ Running /\ instrs[x].bb # Null /\ Fresh(new)
  /\ instrs[x].prev # Null \/ instrs[x].next # Null
  /\ status' = "aborted"
  /\ UNCHANGED <<created, instrs, blocks>>

SplitAfterInstruction(x) ==
  LET b == instrs[x].bb
      n == instrs[x].next
      blk == blocks[b]
      tail == Chain(instrs, n)
      moved == {tail[i] : i \in DOMAIN tail}
  IN /\ Running /\ b # Null /\ n # Null /\ created < MaxBBs
     /\ x \in Phis /\ n \in Regulars => AtPhiBoundary
     /\ created' = created + 1
     /\ instrs' = [y \in Instrs |->
          [prev |-> IF y = n THEN Null ELSE instrs[y].prev,
           next |-> IF y = x THEN Null ELSE instrs[y].next,
           bb |-> IF y \in moved THEN created' ELSE instrs[y].bb]]
     /\ LET sizes == [blk EXCEPT !.size = @ - Len(tail)]
        IN blocks' =
             IF n \in Phis
             THEN [blocks EXCEPT
                    ![b] = [sizes EXCEPT !.lastPhi = x, !.firstInst = Null, !.lastInst = Null],
                    ![created'] = [blk EXCEPT !.firstPhi = n, !.size = Len(tail)]]
             ELSE [blocks EXCEPT
                    ![b] = [sizes EXCEPT !.lastInst = x],
                    ![created'] = [EmptyBB EXCEPT !.firstInst = n,
                                     !.lastInst = blk.lastInst, !.size = Len(tail)]]
     /\ UNCHANGED status

Next ==
  \/ CreateEmptyBB
  \/ \E b \in 1..created, x \in Instrs : PushInstBackward(b, x) \/ PushInstForward(b, x)
  \/ \E x \in Instrs : SetInstructionAsDead(x) \/ SplitAfterInstruction(x)
  \/ \E x, new \in Regulars : ReplaceInControlFlow(x, new) \/ ReplaceAborts(x, new)

Spec == Init /\ [][Next]_vars

-----------------------------------------------------------------------------
Pointer == Instrs \cup {Null}

TypeOK ==
  /\ created \in 0..MaxBBs
  /\ instrs \in [Instrs -> [prev : Pointer, next : Pointer, bb : Blocks \cup {Null}]]
  /\ blocks \in [Blocks -> [firstPhi : Pointer, lastPhi : Pointer,
                            firstInst : Pointer, lastInst : Pointer, size : Nat]]
  /\ status \in {"running", "aborted"}

ListOf(b) == Chain(instrs, Begin(blocks[b]))

\* size_ is the number of instructions the block's iterator visits: the last
\* assertion of the verifier in tests/testBase.cpp.
SizeIsLength == \A b \in 1..created : blocks[b].size = Len(ListOf(b))

\* The iterator of a block visits exactly the instructions whose instBB_ is
\* the block, each once, and walking back from the end visits them too.
LinksAgree ==
  \A b \in 1..created : LET l == ListOf(b) IN
    /\ {l[i] : i \in DOMAIN l} = {x \in Instrs : instrs[x].bb = b}
    /\ \A i \in DOMAIN l : instrs[l[i]].prev = IF i = 1 THEN Null ELSE l[i - 1]
    /\ \A i, j \in DOMAIN l : l[i] = l[j] => i = j

\* The phis come first, and each of the four pointers of a block is the end
\* of its part of the list: the next push, and the asserts of
\* SetInstructionAsDead, rely on all of them.
EndsRight ==
  \A b \in 1..created :
    LET l == ListOf(b)
        blk == blocks[b]
        n == Cardinality({i \in DOMAIN l : l[i] \in Phis})
        At(i, first, last) == IF i \in first..last THEN l[i] ELSE Null
    IN /\ \A i \in DOMAIN l : l[i] \in Phis <=> i <= n
       /\ blk.firstPhi = At(1, 1, n) /\ blk.lastPhi = At(n, 1, n)
       /\ blk.firstInst = At(n + 1, n + 1, Len(l))
       /\ blk.lastInst = At(Len(l), n + 1, Len(l))

\* Through any sequence of pushes, removals, replacements and splits the
\* pointers and the count of a block describe one list, the same forwards and
\* backwards, phis first.
WellFormed == TypeOK /\ SizeIsLength /\ LinksAgree /\ EndsRight

Lists == INSTANCE BlockLists WITH lists <- [b \in Blocks |-> ListOf(b)]

\* A block behaves as the list the passes take it for, instructions pushed,
\* removed, replaced and split off in any order.
ImplementsBlockLists == Lists!Spec
=============================================================================
