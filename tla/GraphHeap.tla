------------------------------ MODULE GraphHeap ------------------------------
(***************************************************************************)
(* Several ir::Graphs at once, with their blocks and instructions, and the *)
(* compiler's registry of functions (irGen/graph.h, bb.h, compiler.h,      *)
(* helperBuilderFunctions.h): what the copy of a graph and the inlining of *)
(* it work on.  The heap is a record; an instruction, a block or a graph   *)
(* is its place in instrs, blocks or graphs, and operators return the heap *)
(* the call leaves.                                                        *)
(*                                                                         *)
(* An instruction list is a sequence, phis first, which module BasicBlock  *)
(* justifies; blocks have at most two successors and none is removed.      *)
(***************************************************************************)
EXTENDS DataFlow, FlowGraph, ReversePostOrder

NoBB == 0
NoGraph == 0

EmptyHeap == [instrs |-> <<>>, blocks |-> <<>>, graphs |-> <<>>,
              functions |-> <<>>,      \* functionsGraphs_
              attached |-> <<>>]       \* size of instructions_ of each builder

\* FoldLeft, written so that an evaluation computes each heap on the way once.
Steps(op(_, _), h, seq) ==
  FoldLeft(LAMBDA acc, e : CHOOSE next \in {op(a, e) : a \in {acc}} : TRUE, h, seq)

Instr(h, x) == h.instrs[x]
BB(h, b) == h.blocks[b]
Graph(h, g) == h.graphs[g]
IsPhi(h, x) == Instr(h, x).op = "PHI"

-----------------------------------------------------------------------------
(* InstructionBuilder and the instruction lists.                             *)

\* The instruction c, attached to the builder of graph g: its id counts the
\* instructions of the builder.  It is the heap's last instruction.
Build(h, g, c) ==
  LET b == Graph(h, g).builder
  IN [h EXCEPT !.instrs = Construct(@, c @@ [id |-> h.attached[b] + 1, bb |-> NoBB]),
               !.attached[b] = @ + 1]

\* PushInstBackward; of phis, the last one pushed comes first.
Push(h, b, x) ==
  [h EXCEPT !.blocks[b].list = IF IsPhi(h, x) THEN <<x>> \o @ ELSE Append(@, x),
            !.instrs[x].bb = b]

\* SetInstructionAsDead: inputs and users stay.
Unlink(h, x) ==
  [h EXCEPT !.blocks[Instr(h, x).bb].list = RemoveFirst(@, x), !.instrs[x].bb = NoBB]

NonPhis(h, b) == SelectSeq(BB(h, b).list, LAMBDA x : ~IsPhi(h, x))

GetLastInstBB(h, b) == IF NonPhis(h, b) = <<>> THEN NoInst ELSE Last(NonPhis(h, b))

NextInst(h, x) ==
  LET list == BB(h, Instr(h, x).bb).list
      i == PlaceOf(list, x)
  IN IF i = Len(list) THEN NoInst ELSE list[i + 1]

-----------------------------------------------------------------------------
(* Blocks and edges; the order of predecessors is kept here, that of the     *)
(* inputs of a phi follows from it.                                          *)

AddBB(h, g, b) ==
  [h EXCEPT !.graphs[g].bbs = Append(@, b),
            !.blocks[b].id = Len(Graph(h, g).bbs), !.blocks[b].graph = g]

CreateEmptyBB(h, g) ==
  AddBB([h EXCEPT !.blocks = Append(@, [id |-> 0, graph |-> g, list |-> <<>>,
                                        succs |-> <<>>, preds |-> <<>>])],
        g, Len(h.blocks) + 1)

ConnectBBs(h, lhs, rhs) ==
  [h EXCEPT !.blocks[lhs].succs = Append(@, rhs), !.blocks[rhs].preds = Append(@, lhs)]

\* DeletePredecessors: the last predecessor takes the place of the removed one.
DeletePredecessors(h, b, pred) ==
  [h EXCEPT !.blocks[b].preds = Front(ReplaceAt(@, PlaceOf(@, pred), Last(@)))]

ReplaceSuccessor(h, b, old, new) ==
  [h EXCEPT !.blocks[b].succs = ReplaceAt(@, PlaceOf(@, old), new)]

\* SplitAfterInstruction(x, FALSE), for x with an instruction after it, none of
\* them a phi: the new block, the heap's last, gets these and the successors.
SplitAfterInstruction(h, x) ==
  LET b == Instr(h, x).bb
      new == Len(h.blocks) + 1
      place == PlaceOf(BB(h, b).list, x)
      after == SubSeq(BB(h, b).list, place + 1, Len(BB(h, b).list))
      moved == Steps(LAMBDA acc, s : ConnectBBs(DeletePredecessors(acc, s, b), new, s),
                     CreateEmptyBB(h, BB(h, b).graph), BB(h, b).succs)
  IN [moved EXCEPT !.blocks[b].succs = <<>>,
                   !.blocks[b].list = SubSeq(@, 1, place),
                   !.blocks[new].list = after,
                   !.instrs = FoldLeft(LAMBDA ins, y : [ins EXCEPT ![y].bb = new], @, after)]

-----------------------------------------------------------------------------
(* Graphs and the registry.  A function's id is its index, from 0, at the    *)
(* time it was created.                                                      *)

\* Compiler::CreateNewGraph, with the builder it is given.
CreateNewGraph(h, builder) ==
  [h EXCEPT !.graphs = Append(@, [first |-> NoBB, last |-> NoBB, bbs |-> <<>>,
                                  builder |-> builder, id |-> Len(h.functions)]),
            !.functions = Append(@, Len(h.graphs) + 1)]

GetFunction(h, id) == IF id < Len(h.functions) THEN h.functions[id + 1] ELSE NoGraph

DeleteFunctionGraph(h, id) == [h EXCEPT !.functions = RemoveAt(@, id + 1)]

\* The instructions of a graph as ForEachBB and the iterators list them.
Listed(h, g) ==
  FlattenSeq([i \in DOMAIN Graph(h, g).bbs |-> BB(h, Graph(h, g).bbs[i]).list])

CountInstructions(h, g) == Len(Listed(h, g))

\* ir::RPO of a graph; a block the search does not visit is missing.
GraphRPO(h, g) == RPO(Graph(h, g).first, [b \in DOMAIN h.blocks |-> BB(h, b).succs])
=============================================================================
