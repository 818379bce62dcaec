-------------------------- MODULE CheckElimination --------------------------
(***************************************************************************)
(* CheckElimination::Eliminate (optimizations/checkElimination.cpp): a     *)
(* check is removed when an equal check dominates it.  Eliminate walks the *)
(* blocks in RPO and each block along next pointers while it takes checks  *)
(* out of this and of later blocks, and runs again as long as it removes.  *)
(*                                                                         *)
(* The instructions are the checked values and the checks; others are      *)
(* walked past.  Dominance is read off the dominators that DomTreeBuilder  *)
(* has left in the blocks, which may be too many (DominatorsKept of module *)
(* FlowGraph); removed checks stay users of what they checked.             *)
(***************************************************************************)
EXTENDS DataFlow, FlowGraph, ReversePostOrder

CONSTANTS NoBB,      \* nullptr: no dominator
          Programs   \* what Eliminate may find: instrs with their inputs and
                     \* users, the checks of each block, first, succs and the
                     \* dominator of each block

EdgesOf(succs) == {e \in (DOMAIN succs) \X (DOMAIN succs) : e[2] \in ToSet(succs[e[1]])}
ChecksOf(instrs) == {x \in DOMAIN instrs : instrs[x].op \in {"NULL_CHECK", "BOUNDS_CHECK"}}

\* A check is in one place of one block, RPO accepts the graph, the dominators
\* are such as Construct sets, and no value is both a reference and an index:
\* the checks of a kind among the users of a reference are checks of it, as
\* boundsCheckDominates asserts.
ProgramAssumption ==
  \A p \in Programs :
    LET blocks == DOMAIN p.succs
        checks == ChecksOf(p.instrs)
    IN /\ p.first \in blocks
       /\ blocks \subseteq ReachableFrom(p.first, blocks, EdgesOf(p.succs))
       /\ RPO(p.first, p.succs) \in Seq(blocks) \ {<<>>}
       /\ NoBB \notin blocks /\ p.dominator \in [blocks -> blocks \cup {NoBB}]
       /\ DominatorsKept(p.dominator, p.first, blocks, EdgesOf(p.succs))
       /\ NoInst \notin checks
       /\ p.lists \in [blocks -> Seq(checks)]
       /\ \A x \in checks : \E b \in blocks : x \in ToSet(p.lists[b])
       /\ \A a, b \in blocks : \A i \in DOMAIN p.lists[a], j \in DOMAIN p.lists[b] :
            p.lists[a][i] = p.lists[b][j] => a = b /\ i = j
       /\ \A x, y \in checks :
            /\ p.instrs[x].in \in Seq(DOMAIN p.instrs) /\ HasArity(p.instrs[x])
            /\ ToSet(p.instrs[p.instrs[x].in[1]].users) \subseteq DOMAIN p.instrs
            /\ y \in ToSet(p.instrs[p.instrs[x].in[1]].users) /\ p.instrs[x].op = p.instrs[y].op
                 => p.instrs[x].in[1] = p.instrs[y].in[1]

ASSUME ProgramAssumption

VARIABLES program,
          dead,        \* the checks that have been taken out of their block
          todo,        \* the blocks in RPO from the one the walk is in
          current,     \* the check the walk is at, NoInst at a block's end
          removed,     \* this Eliminate has removed a check
          depth,       \* activations of Eliminate
          status

vars == <<program, dead, todo, current, removed, depth, status>>

instrs == program.instrs
lists == program.lists     \* as they were built
BBs == DOMAIN program.succs
Edges == EdgesOf(program.succs)

\* a is met on the way up dominator_ from b.
Domites(a, b) == a \in Chain(b, BBs, program.dominator)

Ref(x) == instrs[x].in[1]
Idx(x) == instrs[x].in[2]
Checks == ChecksOf(instrs)
InstBB(x) == CHOOSE b \in BBs : x \in ToSet(lists[b])

IsEarlierInBasicBlock(x, y) ==
  \E i, j \in DOMAIN lists[InstBB(x)] :
    i < j /\ lists[InstBB(x)][i] = x /\ lists[InstBB(x)][j] = y

\* SingleInstruction::Dominates, for instructions in blocks.
InstDominates(x, y) ==
  \/ x = y
  \/ IF InstBB(x) = InstBB(y) THEN IsEarlierInBasicBlock(x, y)
     ELSE Domites(InstBB(x), InstBB(y))

\* Mutant of SameCheck: the indices are not compared.
SameRef(x, y) == instrs[x].op = instrs[y].op

\* y is a user of what x checks.
SameCheck(x, y) ==
  /\ instrs[x].op = instrs[y].op
  /\ instrs[x].op = "BOUNDS_CHECK" => Idx(x) = Idx(y)

-----------------------------------------------------------------------------
\* The walk goes to the first check of a block, after a place, that is still in it.
WalkOn(b, place) ==
  LET rest == {i \in DOMAIN lists[b] : i > place /\ lists[b][i] \notin dead'}
  IN \/ rest = {} /\ current' = NoInst
     \/ \E i \in rest : (\A j \in rest : i <= j) /\ current' = lists[b][i]

Init ==
  /\ program \in Programs
  /\ dead = {}
  /\ todo = RPO(program.first, program.succs)
  /\ current = IF lists[Head(todo)] = <<>> THEN NoInst ELSE Head(lists[Head(todo)])
  /\ removed = FALSE /\ depth = 1 /\ status = "running"

\* SingleInputCheckDominates and boundsCheckDominates ask for dominance of the
\* users of the reference with x's opcode, up to the first that is in no block,
\* for which BB::Domites aborts.
TryRemoveCheck(x) ==
  LET users == instrs[Ref(x)].users
      asked == {i \in DOMAIN users : users[i] # x /\ instrs[users[i]].op = instrs[x].op}
      failing == {i \in asked : users[i] \in dead}
      victims == {users[i] : i \in {j \in asked : /\ \A f \in failing : j < f
                                                  /\ InstDominates(x, users[j])
                                                  /\ SameCheck(x, users[j])}}
  IN /\ status = "running" /\ x # NoInst /\ x = current
     /\ dead' = dead \cup victims
     /\ removed' = (removed \/ victims # {})
     /\ IF failing = {}
        THEN WalkOn(Head(todo), PlaceOf(lists[Head(todo)], x)) /\ UNCHANGED status
        ELSE status' = "aborted" /\ UNCHANGED current
     /\ UNCHANGED <<program, todo, depth>>

NextBlock ==
  /\ status = "running" /\ current = NoInst /\ Len(todo) > 1
  /\ todo' = Tail(todo)
  /\ UNCHANGED <<program, dead, removed, depth, status>>
  /\ WalkOn(Head(todo'), 0)

\* Mutant of EndPass: the last Eliminate returns whether it removed.
EndPassOnce ==
  /\ status = "running" /\ current = NoInst /\ Len(todo) = 1
  /\ status' = "returned"
  /\ UNCHANGED <<program, dead, todo, current, removed, depth>>

\* After a removal Eliminate calls itself and asserts that it returns true; an
\* Eliminate that removes nothing returns false, to an assert but for the first.
EndPass ==
  /\ status = "running" /\ current = NoInst /\ Len(todo) = 1
  /\ UNCHANGED <<program, dead>>
  /\ IF removed
     THEN /\ depth' = depth + 1 /\ removed' = FALSE
          /\ todo' = RPO(program.first, program.succs)
          /\ WalkOn(Head(todo'), 0)
          /\ UNCHANGED status
     ELSE /\ status' = IF depth = 1 THEN "returned" ELSE "aborted"
          /\ UNCHANGED <<todo, current, removed, depth>>

Next == (\E x \in Checks : TryRemoveCheck(x)) \/ NextBlock \/ EndPass

\* One thread runs Eliminate and does nothing else meanwhile.
Spec == Init /\ [][Next]_vars /\ WF_vars(Next)

-----------------------------------------------------------------------------
TypeOK ==
  /\ dead \subseteq Checks
  /\ todo \in Seq(BBs) \ {<<>>}
  /\ current # NoInst => current \in ToSet(lists[Head(todo)]) \ dead
  /\ removed \in BOOLEAN /\ depth \in Nat \ {0}
  /\ status \in {"running", "returned", "aborted"}

IsDominator(a, b) == Dominates(a, b, program.first, BBs, Edges)

\* Construct has made up no dominator.
DominatorsRight == \A a, b \in BBs : Domites(a, b) => IsDominator(a, b)

\* x checks what y checks, earlier in the block or in one that dominator_ says
\* dominates y's.
Covers(x, y) ==
  /\ x # y /\ instrs[x].op = instrs[y].op /\ instrs[x].in = instrs[y].in
  /\ \E a, b \in BBs : \E i \in DOMAIN lists[a], j \in DOMAIN lists[b] :
       /\ lists[a][i] = x /\ lists[b][j] = y
       /\ IF a = b THEN i < j ELSE Domites(a, b)

\* A removed check is covered by one that is still there, however removals
\* chain: at the removal of y by x, x itself must not have been, or later be,
\* removed in favour of y.  When no dominator was made up that check is ahead
\* of the removed one on every path, so no path loses its last check of a value.
RemovedCovered ==
  /\ TypeOK
  /\ \A y \in dead : \E x \in Checks \ dead :
       /\ Covers(x, y)
       /\ DominatorsRight => IsDominator(InstBB(x), InstBB(y))

\* Eliminate ends, and by an abort if it has found anything to remove: the
\* check that removed another meets it again, in no block, among the users.  It
\* returns only when no check covers another, whatever order it met them in.
RemovalAborts ==
  <>(IF \E x, y \in Checks : Covers(x, y) THEN status = "aborted" ELSE status = "returned")
=============================================================================
