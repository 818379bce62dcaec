----------------------------- MODULE BlockLists -----------------------------
(***************************************************************************)
(* What the passes take a basic block for: a list of instructions, phis    *)
(* before the others.  ir::BB implements it with pointers (BasicBlock).    *)
(***************************************************************************)
EXTENDS Naturals, Sequences, SequencesExt

CONSTANTS MaxBBs, Phis, Regulars

VARIABLES created, lists, status

vars == <<created, lists, status>>

Instrs == Phis \cup Regulars
Listed(x) == \E b \in 1..created : Contains(lists[b], x)

Init ==
  /\ created = 0
  /\ lists = [b \in 1..MaxBBs |-> <<>>]
  /\ status = "running"

Create ==
  /\ created < MaxBBs /\ created' = created + 1
  /\ UNCHANGED <<lists, status>>

\* A phi goes to the very front, another instruction to the back or, pushed
\* forward, between the phis and the rest.
Insert(b, i, x) ==
  /\ ~Listed(x)
  /\ \/ x \in Phis /\ i = 1
     \/ x \in Regulars /\ i = Len(lists[b]) + 1
     \/ x \in Regulars /\ \A j \in DOMAIN lists[b] : lists[b][j] \in Phis <=> j < i
  /\ lists' = [lists EXCEPT ![b] = InsertAt(@, i, x)]
  /\ UNCHANGED <<created, status>>

Delete(b, i) ==
  /\ lists' = [lists EXCEPT ![b] = RemoveAt(@, i)]
  /\ UNCHANGED <<created, status>>

Replace(b, i, new) ==
  /\ ~Listed(new)
  /\ lists' = [lists EXCEPT ![b] = ReplaceAt(@, i, new)]
  /\ UNCHANGED <<created, status>>

\* What follows position i of block b goes to a new block.
Split(b, i) ==
  /\ created < MaxBBs /\ created' = created + 1
  /\ i < Len(lists[b])
  /\ lists' = [lists EXCEPT ![b] = SubSeq(@, 1, i),
                            ![created'] = SubSeq(lists[b], i + 1, Len(lists[b]))]
  /\ UNCHANGED status

Abort ==
  /\ status' = "aborted" /\ UNCHANGED <<created, lists>>

Next ==
  /\ status = "running"
  /\ \/ Create \/ Abort
     \/ \E b \in 1..created, x \in Instrs :
          \/ \E i \in 1..Len(lists[b]) + 1 : Insert(b, i, x)
          \/ \E i \in 1..Len(lists[b]) : Replace(b, i, x)
     \/ \E b \in 1..created : \E i \in 1..Len(lists[b]) : Delete(b, i) \/ Split(b, i)

Spec == Init /\ [][Next]_vars
=============================================================================
