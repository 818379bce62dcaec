------------------------------ MODULE Markers ------------------------------
(***************************************************************************)
(* ir::MarkerManager, base of a graph, and ir::Markable, base of a basic   *)
(* block (irGen/marker.h).  A marker is one number: a slot in its two low  *)
(* bits, above them the value of a counter that is never reset.  The names *)
(* with an M are those BasicBlock uses too: HeapProofs is about both.     *)
(***************************************************************************)
EXTENDS Integers, FiniteSets

CONSTANTS Owners,       \* the variables that hold markers of this graph
          BBs,          \* the graph's blocks, in zeroed arena memory from birth
          NoMarker,     \* an owner that holds no marker
          MAX_VALUE,    \* 2^30 - 1, the greatest value a marker has room for
          UINT8_RANGE   \* number of values of uint8_t

BIT_LENGTH == 2
MAX_MARKERS == 4
UNDEF_VALUE == 0
Slots == 0..MAX_MARKERS - 1

ASSUME MarkerAssumption ==
  /\ MAX_VALUE \in Nat /\ UINT8_RANGE \in Nat \ {0}
  /\ NoMarker \notin Nat

\* The code's users never hold more than four markers of a graph at a time.
ASSUME OwnersAssumption ==
  IsFiniteSet(Owners) /\ Cardinality(Owners) <= MAX_MARKERS

VARIABLES currentIndex,   \* markers given out so far
          markersSlots,   \* the slots in use
          markers,        \* markers[b][i]: value written in slot i of block b
          held,           \* the marker each owner holds
          mstatus

mvars == <<currentIndex, markersSlots, markers, held, mstatus>>

ValueOf(mark) == mark \div MAX_MARKERS
SlotOf(mark) == mark % MAX_MARKERS

IsMarkerSet(b, mark) == markers[b][SlotOf(mark)] = ValueOf(mark)

\* The assert of GetNewMarker casts MAX_VALUE to uint8_t.
IndexLimit == MAX_VALUE % UINT8_RANGE

SlotFree(i) == ~markersSlots[i]
FirstFree == CHOOSE i \in Slots : SlotFree(i) /\ \A j \in Slots : j < i => ~SlotFree(j)

SomeFree == \E i \in Slots : SlotFree(i)

\* The result of GetNewMarker: 0 when every slot is in use.
NewMarker(index) == IF SomeFree THEN index * MAX_MARKERS + FirstFree ELSE 0

-----------------------------------------------------------------------------
MInit ==
  /\ currentIndex = 0
  /\ markersSlots = [i \in Slots |-> FALSE]
  /\ markers = [b \in BBs |-> [i \in Slots |-> UNDEF_VALUE]]
  /\ held = [o \in Owners |-> NoMarker]
  /\ mstatus = "running"

\* Mutant of GetNewMarker: the index is raised after the marker is made of it.
GetNewMarkerThenCount(o) ==
  /\ mstatus = "running" /\ held[o] = NoMarker
  /\ currentIndex < IndexLimit
  /\ currentIndex' = currentIndex + 1
  /\ held' = [held EXCEPT ![o] = NewMarker(currentIndex)]
  /\ markersSlots' = [i \in Slots |-> ~SlotFree(i) \/ (SomeFree /\ i = FirstFree)]
  /\ UNCHANGED <<markers, mstatus>>

GetNewMarker(o) ==
  /\ mstatus = "running" /\ held[o] = NoMarker
  /\ currentIndex < IndexLimit
  /\ currentIndex' = currentIndex + 1
  /\ held' = [held EXCEPT ![o] = NewMarker(currentIndex')]
  /\ markersSlots' = [i \in Slots |-> ~SlotFree(i) \/ (SomeFree /\ i = FirstFree)]
  /\ UNCHANGED <<markers, mstatus>>

AssertFails(o) ==
  /\ mstatus = "running" /\ held[o] = NoMarker
  /\ currentIndex >= IndexLimit
  /\ mstatus' = "aborted"
  /\ UNCHANGED <<currentIndex, markersSlots, markers, held>>

\* Mutants of ReleaseMarker: the slot is not masked out of the marker; the
\* index is given back with it.
ReleaseUnmasked(o) ==
  /\ mstatus = "running" /\ held[o] # NoMarker
  /\ markersSlots' = [markersSlots EXCEPT ![ValueOf(held[o]) % MAX_MARKERS] = FALSE]
  /\ held' = [held EXCEPT ![o] = NoMarker]
  /\ UNCHANGED <<currentIndex, markers, mstatus>>
ReleaseIndexToo(o) ==
  /\ mstatus = "running" /\ held[o] # NoMarker
  /\ markersSlots' = [markersSlots EXCEPT ![SlotOf(held[o])] = FALSE]
  /\ held' = [held EXCEPT ![o] = NoMarker]
  /\ currentIndex' = currentIndex - 1
  /\ UNCHANGED <<markers, mstatus>>

ReleaseMarker(o) ==
  /\ mstatus = "running" /\ held[o] # NoMarker
  /\ markersSlots' = [markersSlots EXCEPT ![SlotOf(held[o])] = FALSE]
  /\ held' = [held EXCEPT ![o] = NoMarker]
  /\ UNCHANGED <<currentIndex, markers, mstatus>>

Write(o, b, value) ==
  /\ mstatus = "running" /\ held[o] # NoMarker
  /\ markers' = [markers EXCEPT ![b][SlotOf(held[o])] = value]
  /\ UNCHANGED <<currentIndex, markersSlots, held, mstatus>>

SetMarker(o, b) == Write(o, b, ValueOf(held[o]))
ClearMarker(o, b) == Write(o, b, UNDEF_VALUE)

MNext ==
  \/ \E o \in Owners : GetNewMarker(o) \/ AssertFails(o) \/ ReleaseMarker(o)
  \/ \E o \in Owners, b \in BBs : SetMarker(o, b) \/ ClearMarker(o, b)

MSpec == MInit /\ [][MNext]_mvars

-----------------------------------------------------------------------------
\* The values of the markers handed out are 1..IndexLimit, so that none is 0,
\* the answer of GetNewMarker when it finds no slot, or the value of unmarked
\* blocks; and the index stays where the assert still lets it grow by one.
Marks == MAX_MARKERS..MAX_MARKERS * IndexLimit + MAX_MARKERS - 1

MTypeOK ==
  /\ currentIndex \in 0..IndexLimit
  /\ markersSlots \in [Slots -> BOOLEAN]
  /\ markers \in [BBs -> [Slots -> 0..IndexLimit]]
  /\ held \in [Owners -> Marks \cup {NoMarker}]
  /\ mstatus \in {"running", "aborted"}

Holders == {o \in Owners : held[o] # NoMarker}

\* A slot is in use exactly while one owner holds a marker of that slot:
\* no slot leaks, and no two live markers write the same word of a block.
SlotsOwned ==
  /\ \A i \in Slots :
       markersSlots[i] <=> \E o \in Holders : SlotOf(held[o]) = i
  /\ \A o, p \in Holders : SlotOf(held[o]) = SlotOf(held[p]) => o = p

\* No block keeps a value that a marker still to come could carry, and no
\* live marker carries the value of an unmarked block.
ValuesSpent ==
  /\ \A b \in BBs, i \in Slots : markers[b][i] <= currentIndex
  /\ \A o \in Holders : ValueOf(held[o]) \in 1..currentIndex

MarkedBy(o) == {b \in BBs : held[o] # NoMarker /\ IsMarkerSet(b, held[o])}

Sets == INSTANCE MarkSets
          WITH status <- mstatus, live <- Holders,
               sets <- [o \in Owners |-> MarkedBy(o)]

\* Every marker behaves as a private set of blocks: empty when it is obtained
\* although old values stay in the blocks, and changed by its owner only.
ImplementsMarkSets == Sets!Spec
=============================================================================
