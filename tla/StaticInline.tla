---------------------------- MODULE StaticInline ----------------------------
(***************************************************************************)
(* The pass that inlines calls (optimizations/staticInline.cpp).  Run      *)
(* walks the blocks the graph has at its start, in RPO, and each block's   *)
(* instructions; a call of a function that is known and small enough is    *)
(* replaced by a copy of the function's graph (module GraphCopy).          *)
(*                                                                         *)
(* isInlined_ is left out: nothing sets it, and a call with arguments,     *)
(* whose constructor does not initialise it either, lies in an arena page  *)
(* that was mapped with zeroes and is used once.                           *)
(***************************************************************************)
EXTENDS GraphCopy

CONSTANTS Programs,                 \* the heaps Run may find
          maxCalleeInstrs,
          maxInstrsAfterInlining,
          MaxRuns,                  \* bound on the calls of Run
          MaxDeletions              \* bound on the calls of DeleteFunctionGraph

ASSUME LimitAssumption ==
  /\ maxCalleeInstrs \in Nat /\ maxInstrsAfterInlining \in Nat
  /\ maxCalleeInstrs < maxInstrsAfterInlining
  /\ MaxRuns \in Nat /\ MaxDeletions \in Nat

VARIABLES graph,       \* graph_ of the pass
          todo,        \* the blocks of graph_ from the one the walk is in
          current,     \* the instruction it is at, NoInst at a block's end
          budget,      \* instructions_count
          inlined,     \* history: calls this Run has inlined
          runs, deletions,
          pc

walk == <<graph, todo, current, budget, inlined>>
vars == <<heap, copying, graph, todo, current, budget, inlined, runs, deletions, pc>>

Call == Instr(heap, current)
FirstOf(b) == IF BB(heap, b).list = <<>> THEN NoInst ELSE Head(BB(heap, b).list)

\* The graphs that were built as functions; a copy in the registry is not one.
Functions == {g \in ToSet(heap.functions) : Graph(heap, g).first # NoBB
                                            /\ BB(heap, Graph(heap, g).first).graph = g}

-----------------------------------------------------------------------------
Init ==
  /\ heap \in Programs /\ copying = NotCopying
  /\ graph = NoGraph /\ todo = <<>> /\ current = NoInst /\ budget = 0 /\ inlined = 0
  /\ runs = 0 /\ deletions = 0
  /\ pc = "idle"

\* RPO asserts that it has seen every block.
StartRun(g) ==
  /\ pc = "idle" /\ runs < MaxRuns
  /\ graph' = g
  /\ todo' = GraphRPO(heap, g)
  /\ current' = FirstOf(Graph(heap, g).first)
  /\ budget' = CountInstructions(heap, g)
  /\ inlined' = 0 /\ runs' = runs + 1
  /\ pc' = IF Len(todo') = Len(Graph(heap, g).bbs) THEN "walking" ELSE "aborted"
  /\ UNCHANGED <<heap, copying, deletions>>

\* Mutant of PossibleToInline: the caller's size is not looked at.
PossibleIfCalleeSmall(x) ==
  /\ Instr(heap, x).op = "CALL"
  /\ LET callee == GetFunction(heap, Instr(heap, x).target)
     IN /\ callee \notin {NoGraph, graph}
        /\ CountInstructions(heap, callee) < maxCalleeInstrs

PossibleToInline(x) ==
  /\ Instr(heap, x).op = "CALL"
  /\ LET callee == GetFunction(heap, Instr(heap, x).target)
         size == CountInstructions(heap, callee)
     IN /\ callee \notin {NoGraph, graph}
        /\ size < maxCalleeInstrs
        /\ budget + size < maxInstrsAfterInlining

Walking(x) == pc = "walking" /\ x # NoInst /\ x = current

\* Mutant of Skip: a call that is not inlined is looked at again.
SkipNoCall(x) ==
  /\ Walking(x) /\ ~PossibleToInline(x)
  /\ current' = IF Instr(heap, x).op = "CALL" THEN x ELSE NextInst(heap, x)
  /\ UNCHANGED <<heap, copying, graph, todo, budget, inlined, runs, deletions, pc>>

Skip(x) ==
  /\ Walking(x) /\ ~PossibleToInline(x)
  /\ current' = NextInst(heap, x)
  /\ UNCHANGED <<heap, copying, graph, todo, budget, inlined, runs, deletions, pc>>

StartInlining(x) ==
  /\ Walking(x) /\ PossibleToInline(x)
  /\ StartCopy(GetFunction(heap, Instr(heap, x).target), Graph(heap, graph).builder)
  /\ pc' = "copying"
  /\ UNCHANGED <<walk, runs, deletions>>

Copying ==
  /\ pc = "copying" /\ CopyStep
  /\ UNCHANGED <<walk, runs, deletions, pc>>

NextBlock ==
  /\ pc = "walking" /\ current = NoInst
  /\ IF Len(todo) > 1
     THEN todo' = Tail(todo) /\ current' = FirstOf(Head(todo')) /\ UNCHANGED <<pc, graph>>
     ELSE todo' = <<>> /\ pc' = "idle" /\ graph' = NoGraph /\ UNCHANGED current
  /\ UNCHANGED <<heap, copying, budget, inlined, runs, deletions>>

-----------------------------------------------------------------------------
(* DoInlining: the call and the copy of the callee, by the functions of the  *)
(* heap it is made of.                                                       *)

ReplaceAllUses(h, old, new) == [h EXCEPT !.instrs = ReplaceInputInUsers(@, old, new)]

\* ReplaceInput asserts that each user, as often as it is listed, reads x.
UsersRead(x) ==
  LET listed == Instr(heap, x).users
  IN \A u \in ToSet(listed) : Occurrences(listed, u) <= Occurrences(Instr(heap, u).in, x)

\* The instructions PropagateArgs takes for the arguments.
ArgInstrs ==
  LET first == NonPhis(heap, Graph(heap, Target).first)
      n == Len(Call.in)
  IN IF n <= Len(first) THEN SubSeq(first, 1, n) ELSE first

ArgsMatch ==
  /\ Len(ArgInstrs) = Len(Call.in)
  /\ \A a \in ToSet(ArgInstrs) : Instr(heap, a).op = "ARG" /\ UsersRead(a)

PropagateArgs(h) ==
  Steps(LAMBDA acc, i : Unlink(ReplaceAllUses(acc, ArgInstrs[i], Call.in[i]), ArgInstrs[i]),
           h, [i \in DOMAIN Call.in |-> i])

ReturningBBs == BB(heap, Graph(heap, Target).last).preds
Returns == [i \in DOMAIN ReturningBBs |-> GetLastInstBB(heap, ReturningBBs[i])]
ReturnValue(ret) == Instr(heap, ret).in[1]

ReturnsMatch ==
  /\ Graph(heap, Target).last # NoBB
  /\ ReturningBBs # <<>> /\ IsInjective(ReturningBBs)
  /\ NoInst \notin ToSet(Returns)
  /\ \A ret \in ToSet(Returns) :
       /\ Instr(heap, ret).op = IF Call.void THEN "RETVOID" ELSE "RET"
       /\ Len(Returns) > 1 /\ ~Call.void => Instr(heap, ReturnValue(ret)).bb # NoBB
  /\ ~Call.void => UsersRead(current)

\* AddPhiInput makes the phi a user of the value, and so does ReplaceUser.
AddReturn(h, ret, phi) ==
  LET value == Instr(h, ret).in[1]
      added == [h EXCEPT !.instrs = AddInput(@, phi, value)]
  IN Unlink([added EXCEPT !.instrs = ReplaceUser(@, value, ret, phi),
                          !.instrs[phi].srcs = Append(@, Instr(h, value).bb)], ret)

PropagateReturnValue(h, post) ==
  LET unlinked == Steps(Unlink, h, Returns)
      built == Build(h, Target, CopyOf([op |-> "PHI", in |-> <<>>, srcs |-> <<>>,
                                        target |-> 0, void |-> FALSE]))
      phi == Len(built.instrs)
      joined == Steps(LAMBDA acc, ret : AddReturn(acc, ret, phi), built, Returns)
  IN IF Call.void THEN unlinked
     ELSE IF Len(Returns) = 1
          THEN ReplaceAllUses(unlinked, current, ReturnValue(Returns[1]))
     ELSE ReplaceAllUses(Push(joined, post, phi), current, phi)

\* RelinkBBs, for all blocks of the copy but its last.
RelinkBBs(h) ==
  Steps(LAMBDA acc, b : IF b = Graph(h, Target).last THEN acc ELSE AddBB(acc, graph, b),
           h, Graph(h, Target).bbs)

\* Mutant of InlineReadyGraph: the block after the call gets no predecessors.
InlineOneWay(h, callBB, post) ==
  Steps(LAMBDA acc, b : ReplaceSuccessor(acc, b, Graph(h, Target).last, post),
           ConnectBBs(RelinkBBs(h), callBB, Graph(h, Target).first),
           BB(h, Graph(h, Target).last).preds)

InlineReadyGraph(h, callBB, post) ==
  Steps(LAMBDA acc, b :
             [ReplaceSuccessor(acc, b, Graph(h, Target).last, post)
                EXCEPT !.blocks[post].preds = Append(@, b)],
           ConnectBBs(RelinkBBs(h), callBB, Graph(h, Target).first),
           BB(h, Graph(h, Target).last).preds)

\* SplitAfterInstruction asserts that something follows the call,
\* InlineReadyGraph that the last block is empty.
CanInline ==
  /\ NextInst(heap, current) # NoInst
  /\ ArgsMatch /\ ReturnsMatch
  /\ BB(heap, Graph(heap, Target).last).list = <<>>

\* The iterator then stands on the removed call: its block is finished.
DoInlining ==
  /\ pc = "copying" /\ copying.status = "done" /\ CanInline
  /\ \E split \in {SplitAfterInstruction(heap, current)} :
     \E bound \in {PropagateArgs(split)} :
     \E returned \in {PropagateReturnValue(bound, Len(heap.blocks) + 1)} :
     \E removed \in {Unlink(returned, current)} :
       heap' = InlineReadyGraph(removed, Call.bb, Len(heap.blocks) + 1)
  /\ copying' = [NotCopying EXCEPT !.early = copying.early]
  /\ current' = NoInst
  /\ inlined' = inlined + 1
  /\ pc' = "walking"
  /\ UNCHANGED <<graph, todo, budget, runs, deletions>>

Abort ==
  /\ pc = "copying"
  /\ \/ copying.status = "failed"
     \/ copying.status = "done" /\ ~CanInline
  /\ pc' = "aborted"
  /\ UNCHANGED <<heap, copying, walk, runs, deletions>>

\* Between runs a function may be taken from the registry; the ids of those
\* after it are no longer their indices.
DeleteFunction(id) ==
  /\ pc = "idle" /\ deletions < MaxDeletions
  /\ heap' = DeleteFunctionGraph(heap, id)
  /\ deletions' = deletions + 1
  /\ UNCHANGED <<copying, walk, runs, pc>>

Next ==
  \/ \E g \in Functions : StartRun(g)
  \/ \E x \in DOMAIN heap.instrs : Skip(x) \/ StartInlining(x)
  \/ Copying \/ NextBlock \/ DoInlining \/ Abort
  \/ \E id \in 0..Len(heap.functions) - 1 : DeleteFunction(id)

\* One thread runs the pass; nobody has to call Run or to delete a function.
Spec == Init /\ [][Next]_vars /\ WF_vars(pc # "idle" /\ Next)

-----------------------------------------------------------------------------
Own(g) == ToSet(Graph(heap, g).bbs)

TypeOK ==
  /\ \A x \in DOMAIN heap.instrs :
       /\ Instr(heap, x).op \in Opcodes /\ HasArity(Instr(heap, x))
       /\ ToSet(Instr(heap, x).in) \subseteq (DOMAIN heap.instrs) \cup {NoInst}
       /\ ToSet(Instr(heap, x).users) \subseteq DOMAIN heap.instrs
  /\ graph \in {NoGraph} \cup DOMAIN heap.graphs
  /\ current \in {NoInst} \cup DOMAIN heap.instrs
  /\ pc \in {"idle", "walking", "copying", "aborted"}
  /\ copying.status \in {"none", "blocks", "data flow", "done", "failed"}

\* In every function, and in the copy that is being made of one: blocks know
\* their graph and their place in it, instructions their block, both ends of an
\* edge list it equally often, and no edge leaves the graph.  The blocks of a
\* copy have changed their graph and their ids on the way.
GraphsWellFormed ==
  /\ TypeOK
  /\ \A g \in Functions :
       /\ \A i \in DOMAIN Graph(heap, g).bbs :
            LET b == BB(heap, Graph(heap, g).bbs[i]) IN
            /\ b.graph = g /\ b.id = i - 1
            /\ ToSet(b.succs) \cup ToSet(b.preds) \subseteq Own(g)
       /\ \A b \in Own(g) :
            /\ IsInjective(BB(heap, b).list)
            /\ \A x \in ToSet(BB(heap, b).list) : Instr(heap, x).bb = b
            /\ \A a \in Own(g) :
                 Occurrences(BB(heap, a).succs, b) = Occurrences(BB(heap, b).preds, a)

\* Whatever an instruction of a function reads has it among its users, which
\* ReplaceInputInUsers relies on: through copies, their translation and the
\* replacement of arguments and results.  Not so for a copy that was fixed
\* before the copy of one of its inputs.
UsersListed ==
  \A g \in Functions : \A y \in ToSet(Listed(heap, g)) \ copying.early :
    \A v \in ToSet(Instr(heap, y).in) \ {NoInst} : y \in ToSet(Instr(heap, v).users)

\* A Run that inlines one call stays below maxInstrsAfterInlining; each further
\* one may exceed it by less than maxCalleeInstrs, for Run does not count again.
SizeBounded ==
  pc = "walking" /\ inlined > 0 =>
    CountInstructions(heap, graph) < maxInstrsAfterInlining + (inlined - 1) * maxCalleeInstrs

-----------------------------------------------------------------------------
(* What inlining the current call of the walk is to achieve.                 *)

Post == Len(heap.blocks) + 1
Body == Own(Source) \ {Graph(heap, Source).last}
Image(b) == IF b = Graph(heap, Source).last THEN Post ELSE copying.visited[BB(heap, b).id]
Copied(x) == Translation[Instr(heap, x).id]

\* The blocks of the callee stand, edge by edge, between the two halves of the
\* block of the call; its last block is the second half.
ControlSpliced ==
  /\ BB(heap', Call.bb).succs = <<Image(Graph(heap, Source).first)>>
  /\ BB(heap', Post).succs = BB(heap, Call.bb).succs
  /\ \A b \in Body :
       BB(heap', Image(b)).succs =
         [i \in DOMAIN BB(heap, b).succs |-> Image(BB(heap, b).succs[i])]
  /\ \A b \in DOMAIN heap.blocks \ ({Call.bb} \cup {Image(c) : c \in Body}) :
       BB(heap', b).succs = BB(heap, b).succs
  /\ ToSet(Graph(heap', graph).bbs) = Own(graph) \cup {Post} \cup {Image(b) : b \in Body}

\* The instructions before the call, those of the callee but its arguments and
\* returns, and those after the call are there, in this order.
CodeSpliced ==
  /\ BB(heap', Call.bb).list \o <<current>> \o NonPhis(heap', Post) = BB(heap, Call.bb).list
  /\ \A b \in Body :
       NonPhis(heap', Image(b)) =
         SelectSeq([i \in DOMAIN NonPhis(heap, b) |-> Copied(NonPhis(heap, b)[i])],
                   LAMBDA x : x \notin ToSet(ArgInstrs) \cup ToSet(Returns))

\* A cast or phi of the callee reads what it read there, an argument of the call
\* in place of an argument of the function, and nobody reads the call.
DataSpliced ==
  /\ \A x \in {y \in ToSet(Listed(heap, Source)) : HasInputs(Instr(heap, y))} :
       \A n \in DOMAIN Instr(heap, x).in :
         LET v == Copied(Instr(heap, x).in[n])
             now == Instr(heap', Copied(x)).in[n]
         IN IF Contains(ArgInstrs, v) THEN now = Call.in[PlaceOf(ArgInstrs, v)] ELSE now = v
  /\ ~Call.void =>
       \A x \in ToSet(Listed(heap', graph)) : current \notin ToSet(Instr(heap', x).in)

\* A call is replaced by the body of the function it calls, as control flow and
\* as code; the data flow follows as far as FixDFG goes.  The callee and all
\* other functions keep their code.
CallReplaced ==
  [][DoInlining =>
       /\ ControlSpliced /\ CodeSpliced /\ DataSpliced
       /\ \A b \in DOMAIN heap.blocks \ {Call.bb} :
            BB(heap, b).graph # Target => BB(heap', b).list = BB(heap, b).list]_vars

-----------------------------------------------------------------------------
(* Why a call that Run has decided to inline can bring the pass down.        *)

ReadsAhead(x) ==
  LET order == Listed(heap, Target)
  IN \E v \in ToSet(Instr(heap, x).in) :
       \/ ~Contains(Listed(heap, Source), v)
       \/ PlaceOf(order, Copied(v)) >= PlaceOf(order, Copied(x))

BadReturns ==
  LET preds == BB(heap, Graph(heap, Source).last).preds
  IN \/ preds = <<>> \/ ~IsInjective(preds)
     \/ \E b \in ToSet(preds) : BB(heap, b).list = <<>>
          \/ Instr(heap, Last(BB(heap, b).list)).op # (IF Call.void THEN "RETVOID" ELSE "RET")

TooFewArgs ==
  \E i \in DOMAIN Call.in :
    LET first == NonPhis(heap, Graph(heap, Source).first)
    IN i > Len(first) \/ Instr(heap, first[i]).op # "ARG"

\* The pass aborts, while it copies the callee, for a block that cannot be reached
\* and for one with nothing but phis, as the inlining of a call in the callee
\* leaves it; in FixDFG for a cast or phi that reads a value of another function
\* or one that is copied after it; then for returns or arguments that do not fit
\* the call, for a call that ends its block, and for one with a cast or phi that
\* was copied in an earlier inlining among its users.  No other assert fails.
AbortsExplained ==
  pc = "aborted" =>
    CASE copying.status = "none" -> ToSet(GraphRPO(heap, graph)) # Own(graph)
      [] copying.status = "failed" /\ copying.unfixed = <<>> ->
           \/ ToSet(GraphRPO(heap, Source)) # Own(Source)
           \/ \E b \in Own(Source) : OnlyPhis(heap, b)
      [] copying.status = "failed" /\ copying.unfixed # <<>> ->
           \E x \in ToSet(Listed(heap, Source)) : HasInputs(Instr(heap, x)) /\ ReadsAhead(x)
      [] copying.status = "done" ->
           \/ Graph(heap, Source).last = NoBB \/ BadReturns
           \/ TooFewArgs
           \/ NextInst(heap, current) = NoInst
           \/ ~UsersRead(current)

\* Run returns or aborts, for recursive functions too: it does not visit the
\* blocks that inlining has added.
RunEnds == pc # "idle" ~> pc \in {"idle", "aborted"}
=============================================================================
