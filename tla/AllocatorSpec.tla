--------------------------- MODULE AllocatorSpec ---------------------------
(***************************************************************************)
(* What a client of memory::ArenaAllocator may rely on: a request is       *)
(* answered with an aligned block that overlaps nothing handed out before, *)
(* deallocated or not, or the process aborts.                              *)
(***************************************************************************)
EXTENDS Naturals

CONSTANTS ALIGNMENT, Requests, Addresses

VARIABLES blocks,   \* every [addr, size] handed out since construction
          pending,  \* the size being served, 0 when the allocator is idle
          status    \* "running", "aborted" or "destroyed"

vars == <<blocks, pending, status>>

Disjoint(b, c) == b.addr + b.size <= c.addr \/ c.addr + c.size <= b.addr

Init == blocks = {} /\ pending = 0 /\ status \in {"running", "aborted"}

Ask == /\ status = "running" /\ pending = 0
       /\ pending' \in Requests
       /\ UNCHANGED <<blocks, status>>

Answer == /\ status = "running" /\ pending # 0
          /\ \E a \in Addresses :
                LET b == [addr |-> a, size |-> pending]
                IN  /\ a % ALIGNMENT = 0
                    /\ \A c \in blocks : Disjoint(b, c)
                    /\ blocks' = blocks \cup {b}
          /\ pending' = 0
          /\ UNCHANGED status

Abort == /\ status = "running" /\ pending # 0
         /\ status' = "aborted"
         /\ UNCHANGED <<blocks, pending>>

Destroy == /\ status = "running" /\ pending = 0
           /\ status' = "destroyed"
           /\ UNCHANGED <<blocks, pending>>

Next == Ask \/ Answer \/ Abort \/ Destroy

Spec == Init /\ [][Next]_vars
=============================================================================
