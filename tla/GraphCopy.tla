------------------------------ MODULE GraphCopy ------------------------------
(***************************************************************************)
(* Compiler::CopyGraph with its GraphCopyHelper (irGen/graphHelper.cpp)    *)
(* and the Copy of every instruction (irGen/instructionsCopy.cpp): blocks  *)
(* and edges are copied depth first, then FixDFG translates inputs and     *)
(* users of the copies through a map from the ids of the originals.        *)
(***************************************************************************)
EXTENDS GraphHeap

VARIABLES heap,
          copying    \* the fields of the helper; stack: activations of DfoCopy,
                     \* unfixed: the copies FixDFG has still to see,
                     \* early: history, copies made before one of their inputs

Source == copying.source
Target == copying.target
Translation == copying.translation
Top == Last(copying.stack)

NotCopying == [source |-> NoGraph, target |-> NoGraph, stack |-> <<>>, visited |-> <<>>,
               translation |-> <<>>, unfixed |-> <<>>, early |-> {}, status |-> "none"]

-----------------------------------------------------------------------------
(* Copies of instructions.                                                   *)

\* What is built again with nullptr for each input.
NullCopied == {"LEN", "NEW_ARRAY", "BOUNDS_CHECK", "LOAD_ARRAY", "STORE_ARRAY",
               "LOAD_ARRAY_IMM", "LOAD_OBJECT", "STORE_ARRAY_IMM", "STORE_OBJECT"}

\* All others are built with the inputs of the original, whose user they become;
\* a phi keeps the source blocks of the original.
CopyOf(c) ==
  [op |-> c.op, srcs |-> c.srcs, target |-> c.target, void |-> c.void,
   in |-> IF c.op \in NullCopied THEN [i \in DOMAIN c.in |-> NoInst] ELSE c.in]

\* CopyInstruction, for the instructions of a block one after the other.
CopyInstruction(s, x, target, copy) ==
  LET built == Build(s.heap, target, CopyOf(Instr(s.heap, x)))
      new == Len(built.instrs)
  IN [heap |-> Push(built, copy, new),
      translation |-> (Instr(s.heap, x).id :> new) @@ s.translation]

\* It asserts that no id is translated twice.
IdsTaken(h, b, translation) ==
  LET ids == [i \in DOMAIN BB(h, b).list |-> Instr(h, BB(h, b).list[i]).id]
  IN ~IsInjective(ids) \/ ToSet(ids) \cap DOMAIN translation # {}

\* BB::Copy asserts that the copy of a block with instructions has one that is
\* not a phi.
OnlyPhis(h, b) == BB(h, b).list # <<>> /\ NonPhis(h, b) = <<>>

\* The start of DfoCopy(b): BB::Copy, which pushes the copies in turn, and the
\* new activation.
EnterDfoCopy(h, c, b) ==
  LET copy == Len(h.blocks) + 1
      copied == Steps(LAMBDA s, x : CopyInstruction(s, x, c.target, copy),
                      [heap |-> CreateEmptyBB(h, c.target), translation |-> c.translation],
                      BB(h, b).list)
      source == Graph(h, c.source)
  IN IF IdsTaken(h, b, c.translation) \/ OnlyPhis(h, b)
     THEN /\ copying' = [c EXCEPT !.status = "failed"] /\ heap' = h
     ELSE /\ heap' = [copied.heap EXCEPT
               !.graphs[c.target].first = IF b = source.first THEN copy ELSE @,
               !.graphs[c.target].last = IF b = source.last THEN copy ELSE @]
          /\ copying' = [c EXCEPT
               !.translation = copied.translation,
               !.visited = (BB(h, b).id :> copy) @@ @,
               !.stack = Append(@, [orig |-> b, copy |-> copy, succ |-> 1])]

\* CopyGraph: the copy is a function of its own and uses the given builder.
StartCopy(source, builder) ==
  LET target == Len(heap.graphs) + 1
  IN EnterDfoCopy(CreateNewGraph(heap, builder),
                  [NotCopying EXCEPT !.source = source, !.target = target, !.status = "blocks",
                                     !.early = copying.early],
                  Graph(heap, source).first)

-----------------------------------------------------------------------------
CopyingBlocks == copying.status = "blocks" /\ copying.stack # <<>>
Successors == BB(heap, Top.orig).succs
Succ == Successors[Top.succ]
HasSucc == Top.succ <= Len(Successors)
IsVisited == BB(heap, Succ).id \in DOMAIN copying.visited

\* DfoCopy calls itself for a successor that has no copy.
DfoCopy ==
  /\ CopyingBlocks /\ HasSucc /\ ~IsVisited
  /\ EnterDfoCopy(heap, copying, Succ)

\* A successor that has one, from before or by now, is connected.
ConnectCopy ==
  /\ CopyingBlocks /\ HasSucc /\ IsVisited
  /\ heap' = ConnectBBs(heap, Top.copy, copying.visited[BB(heap, Succ).id])
  /\ copying' = [copying EXCEPT !.stack[Len(copying.stack)].succ = @ + 1]

ReturnCopy ==
  /\ CopyingBlocks /\ ~HasSucc
  /\ copying' = [copying EXCEPT !.stack = Front(@)]
  /\ UNCHANGED heap

\* All blocks must have been copied, and every copy must be in one of them.
CheckCounts ==
  /\ copying.status = "blocks" /\ copying.stack = <<>>
  /\ copying' = IF /\ Len(Graph(heap, Target).bbs) = Len(Graph(heap, Source).bbs)
                   /\ CountInstructions(heap, Target) = Cardinality(DOMAIN Translation)
                THEN [copying EXCEPT !.status = "data flow", !.unfixed = Listed(heap, Target)]
                ELSE [copying EXCEPT !.status = "failed"]
  /\ UNCHANGED heap

-----------------------------------------------------------------------------
(* FixDFG, for one copy.                                                     *)

Translates(ins, y) == y # NoInst /\ ins[y].id \in DOMAIN Translation
Translated(ins, y) == Translation[ins[y].id]

\* Mutant of FixInputs: the copies keep the inputs of the originals.
FixNoInputs(x) == heap.instrs

\* Mutant of FixInputs: the copy is made a user of an input once more.
FixInputsTwice(x) ==
  IF HasInputs(Instr(heap, x))
  THEN Steps(LAMBDA ins, n : LET y == Translated(ins, ins[x].in[n])
                             IN AddUser(SetInput(ins, x, n, y), y, x),
             heap.instrs, [n \in DOMAIN Instr(heap, x).in |-> n])
  ELSE heap.instrs

\* SetInput makes the copy a user of the copy of each input.
FixInputs(x) ==
  IF HasInputs(Instr(heap, x))
  THEN Steps(LAMBDA ins, n : SetInput(ins, x, n, Translated(ins, ins[x].in[n])),
             heap.instrs, [n \in DOMAIN Instr(heap, x).in |-> n])
  ELSE heap.instrs

\* The users a copy has by now are translated as if they were originals;
\* translation->at throws for an id that is not there.
FixInstruction ==
  /\ copying.status = "data flow" /\ copying.unfixed # <<>>
  /\ LET x == Head(copying.unfixed)
         fixed == FixInputs(x)
         users == fixed[x].users
     IN IF /\ HasInputs(Instr(heap, x)) =>
                \A y \in ToSet(Instr(heap, x).in) : Translates(heap.instrs, y)
           /\ \A u \in ToSet(users) : Translates(fixed, u)
        THEN /\ heap' = [heap EXCEPT !.instrs = [fixed EXCEPT ![x].users =
                           [i \in DOMAIN users |-> Translated(fixed, users[i])]]]
             /\ copying' = [copying EXCEPT !.unfixed = Tail(@), !.early = @ \cup ToSet(users)]
        ELSE /\ copying' = [copying EXCEPT !.status = "failed"]
             /\ UNCHANGED heap

FinishCopy ==
  /\ copying.status = "data flow" /\ copying.unfixed = <<>>
  /\ copying' = [copying EXCEPT !.status = "done"]
  /\ UNCHANGED heap

CopyStep ==
  DfoCopy \/ ConnectCopy \/ ReturnCopy \/ CheckCounts \/ FixInstruction \/ FinishCopy

-----------------------------------------------------------------------------
\* "set correct inputs": what a copied instruction reads has been copied with it.
CopyClosed ==
  copying.status = "done" =>
    \A x \in ToSet(Listed(heap, Target)) :
      ToSet(Instr(heap, x).in) \subseteq ToSet(Listed(heap, Target)) \cup {NoInst}
=============================================================================
