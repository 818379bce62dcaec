----------------------------- MODULE MarkSets ------------------------------
(***************************************************************************)
(* What the passes of the compiler take a marker to be: a private set of   *)
(* basic blocks, empty when it is obtained, that no other pass can change. *)
(***************************************************************************)
CONSTANTS Owners,   \* the variables that hold markers (greyMarker_, ...)
          BBs       \* basic blocks

VARIABLES live,     \* the owners that hold a marker now
          sets,     \* sets[o]: the blocks o has marked, {} if o is not live
          status    \* "running" or "aborted"

vars == <<live, sets, status>>

Init == live = {} /\ sets = [o \in Owners |-> {}] /\ status = "running"

Obtain(o) ==
  /\ status = "running" /\ o \notin live
  /\ live' = live \cup {o}
  /\ UNCHANGED <<sets, status>>

Release(o) ==
  /\ status = "running" /\ o \in live
  /\ live' = live \ {o}
  /\ sets' = [sets EXCEPT ![o] = {}]
  /\ UNCHANGED status

Change(o, new) ==
  /\ status = "running" /\ o \in live
  /\ sets' = [sets EXCEPT ![o] = new]
  /\ UNCHANGED <<live, status>>

Set(o, b)   == Change(o, sets[o] \cup {b})
Clear(o, b) == Change(o, sets[o] \ {b})

\* The supply of markers may run out for good.
Abort == status = "running" /\ status' = "aborted" /\ UNCHANGED <<live, sets>>

Next == \/ \E o \in Owners : Obtain(o) \/ Release(o)
        \/ \E o \in Owners, b \in BBs : Set(o, b) \/ Clear(o, b)
        \/ Abort

Spec == Init /\ [][Next]_vars
=============================================================================
