------------------------------- MODULE Arena -------------------------------
(***************************************************************************)
(* memory::Arena and memory::ArenaAllocator (domTree/arena.h, arena.cpp):  *)
(* the bump allocator under every vector, map and IR object of a graph.    *)
(* Addresses and sizes are numbers of bytes; mmap and munmap are external. *)
(* The names with an A are those BasicBlock uses too: HeapProofs is about  *)
(* both.                                                                   *)
(***************************************************************************)
EXTENDS Integers, Sequences, FiniteSets

CONSTANTS PAGE_SIZE,      \* 4096 in the code
          ALIGNMENT,      \* alignof(uintptr_t) unless the client says other
          ARENA_SIZE,     \* constructor argument, DEFAULT_ARENA_SIZE
          SIZE_RANGE,     \* number of values of size_t
          Requests,       \* the sizes clients ask for
          Frames          \* the addresses mmap may return

ASSUME PageAssumption ==
  /\ PAGE_SIZE \in Nat \ {0}
  /\ ALIGNMENT \in Nat \ {0}
  /\ PAGE_SIZE % ALIGNMENT = 0
  /\ SIZE_RANGE \in Nat \ {0}
  /\ SIZE_RANGE % PAGE_SIZE = 0

ASSUME RequestAssumption ==
  /\ ARENA_SIZE \in Nat
  /\ Requests \subseteq 1..SIZE_RANGE - 1
  /\ Frames \subseteq 0..SIZE_RANGE - 1
  /\ \A f \in Frames : f % ALIGNMENT = 0   \* page aligned, so aligned

VARIABLES arenaList,   \* the arenas, oldest first: the head is the last one
          arenaSize,   \* size of the next arena to map
          mapped,      \* the regions the process has mapped
          pending,     \* argument of the allocate() in progress, or 0
          handedOut,   \* every block given to a client (nothing is taken back)
          astatus

avars == <<arenaList, arenaSize, mapped, pending, handedOut, astatus>>

AlignUp(addr) == (((addr + (PAGE_SIZE - 1)) % SIZE_RANGE) \div PAGE_SIZE) * PAGE_SIZE

\* std::align: the bytes skipped to reach the next multiple of ALIGNMENT.
Padding(p) == (ALIGNMENT - (p % ALIGNMENT)) % ALIGNMENT

HeadArena == arenaList[Len(arenaList)]

\* Mutant of Fits: the padding is not counted.
FitsUnpadded(arena, sz) == sz <= arena.freeSize

\* Arena::Alloc returns a block of sz bytes, not nullptr.
Fits(arena, sz) == sz + Padding(arena.end) <= arena.freeSize

Bump(arena, sz) ==
  [start |-> arena.start, size |-> arena.size,
   end |-> arena.end + Padding(arena.end) + sz,
   freeSize |-> arena.freeSize - Padding(arena.end) - sz]

\* What mmap may return: a region that overlaps nothing mapped.
Free(start, size) ==
  /\ start + size <= SIZE_RANGE
  /\ \A m \in mapped : start + size <= m.start \/ m.start + m.size <= start

\* Mutant of AddNewArena: the new head forgets the arena before it.
AddUnlinkedArena(size) ==
  /\ size # 0
  /\ \E start \in Frames :
       /\ Free(start, size)
       /\ mapped' = mapped \cup {[start |-> start, size |-> size]}
       /\ arenaList' = <<[start |-> start, size |-> size, end |-> start, freeSize |-> size]>>

\* addNewArena with a mapping that succeeds; mmap refuses a length of 0.
AddNewArena(size) ==
  /\ size # 0
  /\ \E start \in Frames :
       /\ Free(start, size)
       /\ mapped' = mapped \cup {[start |-> start, size |-> size]}
       /\ arenaList' = Append(arenaList,
            [start |-> start, size |-> size, end |-> start, freeSize |-> size])

-----------------------------------------------------------------------------
\* The constructor ends in addNewArena, whose assert may abort.
AInit ==
  /\ arenaSize = AlignUp(ARENA_SIZE)
  /\ pending = 0
  /\ handedOut = {}
  /\ \/ /\ astatus = "running"
        /\ arenaSize # 0
        /\ \E start \in Frames :
             /\ start + arenaSize <= SIZE_RANGE
             /\ mapped = {[start |-> start, size |-> arenaSize]}
             /\ arenaList = <<[start |-> start, size |-> arenaSize,
                               end |-> start, freeSize |-> arenaSize]>>
     \/ /\ astatus = "aborted"
        /\ mapped = {} /\ arenaList = <<>>

\* A client calls New, AllocateArray or an ArenaVector grows.
Call(size) ==
  /\ astatus = "running" /\ pending = 0
  /\ pending' = size
  /\ UNCHANGED <<arenaList, arenaSize, mapped, handedOut, astatus>>

\* Mutant of AllocFromHead: the client gets the address before the padding.
AllocUnaligned ==
  /\ astatus = "running" /\ pending # 0
  /\ Fits(HeadArena, pending)
  /\ arenaList' = [arenaList EXCEPT ![Len(arenaList)] = Bump(@, pending)]
  /\ handedOut' = handedOut \cup {[addr |-> HeadArena.end, size |-> pending]}
  /\ pending' = 0
  /\ UNCHANGED <<arenaSize, mapped, astatus>>

\* allocate: the head arena has room.
AllocFromHead ==
  /\ astatus = "running" /\ pending # 0
  /\ Fits(HeadArena, pending)
  /\ arenaList' = [arenaList EXCEPT ![Len(arenaList)] = Bump(@, pending)]
  /\ handedOut' = handedOut \cup
       {[addr |-> HeadArena.end + Padding(HeadArena.end), size |-> pending]}
  /\ pending' = 0
  /\ UNCHANGED <<arenaSize, mapped, astatus>>

\* Mutant of GrownSize: a large request does not make the arena larger.
GrownSizeFixed(size) == arenaSize

\* The size of the arena mapped when the head has no room for size bytes.
GrownSize(size) ==
  IF size > HeadArena.size THEN AlignUp(size) ELSE arenaSize

\* allocate: the head is full; map a new head, then call allocate again.
Grow ==
  /\ astatus = "running" /\ pending # 0
  /\ ~Fits(HeadArena, pending)
  /\ arenaSize' = GrownSize(pending)
  /\ AddNewArena(arenaSize')
  /\ UNCHANGED <<pending, handedOut, astatus>>

\* assert(mem != MAP_FAILED) in addNewArena.
MapFails ==
  /\ astatus = "running" /\ pending # 0
  /\ ~Fits(HeadArena, pending)
  /\ arenaSize' = GrownSize(pending)
  /\ astatus' = "aborted"
  /\ UNCHANGED <<arenaList, mapped, pending, handedOut>>

\* ~ArenaAllocator walks the list and unmaps each arena with its own size.
Destroy ==
  /\ astatus = "running" /\ pending = 0
  /\ mapped' = mapped \
       {[start |-> arenaList[i].start, size |-> arenaList[i].size] :
          i \in DOMAIN arenaList}
  /\ arenaList' = <<>>
  /\ astatus' = "destroyed"
  /\ UNCHANGED <<arenaSize, pending, handedOut>>

ANext ==
  \/ \E size \in Requests : Call(size)
  \/ AllocFromHead
  \/ Grow
  \/ MapFails
  \/ Destroy

ASpec == AInit /\ [][ANext]_avars

-----------------------------------------------------------------------------
Region == [start : Nat, size : Nat]
ArenaRec == [start : Nat, size : Nat, end : Nat, freeSize : Nat]

ATypeOK ==
  /\ arenaList \in Seq(ArenaRec)
  /\ arenaSize \in Nat
  /\ mapped \in SUBSET Region
  /\ pending \in {0} \cup Requests
  /\ handedOut \in SUBSET [addr : Nat, size : Nat]
  /\ astatus \in {"running", "aborted", "destroyed"}
  /\ astatus = "running" => arenaList # <<>>

\* Alloc moves end and freeSize together (padding included), so no block can
\* reach past the arena it is cut from.
Accounting ==
  \A i \in DOMAIN arenaList :
     arenaList[i].end + arenaList[i].freeSize
       = arenaList[i].start + arenaList[i].size

\* The list owns exactly the mapped regions, so the destructor, which knows
\* only the list, gives every page back and nothing twice.
ListOwnsMapped ==
  /\ mapped = {[start |-> arenaList[i].start, size |-> arenaList[i].size] :
                  i \in DOMAIN arenaList}
  /\ \A i, j \in DOMAIN arenaList :
       i # j => \/ arenaList[i].start + arenaList[i].size <= arenaList[j].start
                \/ arenaList[j].start + arenaList[j].size <= arenaList[i].start

\* Every byte a client of a running allocator owns is mapped.
BlocksMapped ==
  astatus = "running" =>
    \A b \in handedOut : \E m \in mapped :
       m.start <= b.addr /\ b.addr + b.size <= m.start + m.size

\* No byte is handed out twice, whatever mix of sizes, padding and arenas.
NoOverlap ==
  \A b, c \in handedOut :
     b # c => b.addr + b.size <= c.addr \/ c.addr + c.size <= b.addr

\* allocate compares a request with the head's size but maps arenaSize bytes;
\* the two agree whenever it runs.
HeadSizeIsArenaSize == astatus = "running" => HeadArena.size = arenaSize

\* allocate recurses at most once: the request that made it grow fits the new
\* head.  Without this it would map arenas until the process dies.
RetryFits == [][Grow => Fits(HeadArena, pending)']_avars

Allocator == INSTANCE AllocatorSpec WITH Addresses <- 0..SIZE_RANGE - 1,
                                        blocks <- handedOut, status <- astatus

\* ArenaAllocator implements the allocator its clients assume.
ImplementsAllocator == Allocator!Spec
=============================================================================
