--------------------------- MODULE AllocationClass ---------------------------
(***************************************************************************)
(* The allocation classes of one memory pool and the slab headers they     *)
(* read and write.                                                         *)
(*                                                                         *)
(* The member variables, getAllocsPerSlab(), isFull() and the header       *)
(* test of forEachAllocation() are translated from                         *)
(* include/cachelib_memory_allocator/AllocationClass.h.  The bodies of the *)
(* other member functions are not part of the repository's sources: they   *)
(* are modelled from section 4.1 of the specification, following the       *)
(* private helpers the header declares (allocateLocked, addSlabLocked,     *)
(* setupCurrentSlabLocked, pruneFreeAllocs, ...).                          *)
(*                                                                         *)
(* Every operation below is what one critical section under the class's    *)
(* lock_ does.  It is an operator on the record of one class: it yields    *)
(* the record after the critical section and the value returned.  The      *)
(* threads that run the critical sections, and the steps between them, are *)
(* in module MemoryPool.                                                   *)
(***************************************************************************)
EXTENDS Integers, Sequences, FiniteSets, SequencesExt, TLC

CONSTANTS
    Slabs,          \* the slabs of the SlabAllocator's memory region
    Threads,        \* the threads that call into the pool
    SlabSize,       \* Slab::kSize
    MinAllocSize,   \* Slab::kMinAllocSize
    AllocSizes,     \* acSizes_: the allocation size of class i is AllocSizes[i + 1]
    PoolId,         \* id_ of the pool the classes belong to
    EagerReclaim,   \* whether free() reports a slab that became wholly unused
    PruneLimit,     \* kFreeAllocsPruneLimit
    NULL,           \* nullptr
    NoThread        \* the owner of a mutex nobody holds

kInvalidClassId == -1
kInvalidPoolId  == -1

ASSUME /\ SlabSize \in Nat \ {0}
       /\ AllocSizes \in Seq(Nat \ {0}) /\ AllocSizes # <<>>
       /\ PoolId \in Nat
       /\ EagerReclaim \in BOOLEAN
       /\ PruneLimit \in Nat \ {0}
       /\ NULL \notin Slabs /\ NoThread \notin Threads

VARIABLES
    ac,       \* ac[c]: the member variables of the AllocationClass with id c
    header,   \* header[s]: the SlabHeader of slab s, owned by the SlabAllocator
    held      \* the chunks callers hold: returned by allocate(), not yet given to free()

-----------------------------------------------------------------------------
(* Classes, chunks and slab headers *)

Classes == 0 .. Len(AllocSizes) - 1

AllocSize(c) == AllocSizes[c + 1]

\* getAllocsPerSlab(): the tail of a slab that holds no whole chunk is unused.
AllocsPerSlab(c) == SlabSize \div AllocSize(c)

ChunkIdx(c) == 0 .. AllocsPerSlab(c) - 1

\* A chunk is named by its slab and its index in the slab (getAllocIdx).
Chunk(s, i) == [slab |-> s, idx |-> i]

Chunks == [slab : Slabs, idx : 0 .. SlabSize - 1]

Headers ==
    [poolId : Nat \cup {kInvalidPoolId}, classId : Classes \cup {kInvalidClassId},
     allocSize : Nat, markedForRelease : BOOLEAN, advised : BOOLEAN]

\* The header of a slab that belongs to no pool.
BlankHeader ==
    [poolId |-> kInvalidPoolId, classId |-> kInvalidClassId, allocSize |-> 0,
     markedForRelease |-> FALSE, advised |-> FALSE]

\* The header of a slab once class c has taken it (addSlabLocked).
StampedHeader(h, c) == [h EXCEPT !.classId = c, !.allocSize = AllocSize(c)]

\* The header of a slab that has left its class and stays in the pool.
ReleasedHeader(h) ==
    [h EXCEPT !.classId = kInvalidClassId, !.allocSize = 0, !.markedForRelease = FALSE]

IsMarkedForRelease(s) == header[s].markedForRelease

-----------------------------------------------------------------------------
(* The member variables of an AllocationClass *)

AllocMaps(c) ==
    UNION {[D -> [ChunkIdx(c) -> BOOLEAN]] : D \in SUBSET Slabs}

ClassState(c) ==
    [currOffset : 0 .. SlabSize,
     currSlab : Slabs \cup {NULL},
     allocatedSlabs : SUBSET Slabs,
     freeSlabs : Seq(Slabs),
     freedAllocations : Seq(Chunks),
     canAllocate : BOOLEAN,
     activeReleases : Nat,
     slabAllocMap : AllocMaps(c),
     startSlabReleaseLock : Threads \cup {NoThread}]

\* The member initialisers: a new class owns no slab and no chunk.
InitClass ==
    [currOffset |-> 0, currSlab |-> NULL, allocatedSlabs |-> {}, freeSlabs |-> <<>>,
     freedAllocations |-> <<>>, canAllocate |-> TRUE, activeReleases |-> 0,
     slabAllocMap |-> <<>>, startSlabReleaseLock |-> NoThread]

AcInit ==
    /\ ac = [c \in Classes |-> InitClass]
    /\ header = [s \in Slabs |-> BlankHeader]
    /\ held = {}

\* isFull(): a hint, read without the lock, and no promise that allocate()
\* fails or succeeds.
IsFull(c) == ~ac[c].canAllocate

\* The slabs a class holds: the one it carves, the ones it has carved and the
\* ones it has in reserve.
ClassSlabs(a) ==
    a.allocatedSlabs \cup ToSet(a.freeSlabs) \cup ({a.currSlab} \ {NULL})

\* The chunks of slab s that class c has carved so far.  The class keeps one
\* offset, currOffset_ of the current slab: any other slab it has carved
\* counts as carved to its end.
CarvedIdx(a, c, s) ==
    IF s = a.currSlab THEN 0 .. (a.currOffset \div AllocSize(c)) - 1 ELSE ChunkIdx(c)

FreedOf(a, s) == SelectSeq(a.freedAllocations, LAMBDA ch : ch.slab = s)

NotFreedOf(a, s) == SelectSeq(a.freedAllocations, LAMBDA ch : ch.slab # s)

\* MemoryFreeList, as the nodes reached from head by next.  push_front() appends
\* at the tail and pop_front() moves head to its successor: the free list hands
\* chunks out in the order they were freed.
\* push_front() that sets head and tail to the node also when the list is not
\* empty.
PushFrontAsOnly(list, mem) == <<mem>>

PushFront(list, mem) == Append(list, mem)

FrontNode(list) == Head(list)

PopFront(list) == Tail(list)

-----------------------------------------------------------------------------
(* allocate(), addSlab(), addSlabAndAllocate() *)

\* The test without the mark of the slab's header.
CanAllocateIgnoresRelease(a, c) ==
    a.currSlab # NULL /\ a.currOffset + AllocSize(c) <= SlabSize

\* No chunk is carved out of a slab that is being drained.  The steps of
\* allocate() in the specification test the room only; the test of the mark
\* is what its invariant on marked slabs asks of them.
CanAllocateFromCurrentSlabLocked(a, c) ==
    /\ a.currSlab # NULL
    /\ a.currOffset + AllocSize(c) <= SlabSize
    /\ ~IsMarkedForRelease(a.currSlab)

AllocateFromCurrentSlabLocked(a, c) ==
    [a   |-> [a EXCEPT !.currOffset = @ + AllocSize(c)],
     ret |-> Chunk(a.currSlab, a.currOffset \div AllocSize(c))]

\* The slab carved until now stays with the class, among allocatedSlabs.
SetupCurrentSlabLocked(a) ==
    [a EXCEPT !.currSlab = Last(a.freeSlabs),
              !.currOffset = 0,
              !.freeSlabs = Front(a.freeSlabs),
              !.allocatedSlabs = @ \cup ({a.currSlab} \ {NULL})]

\* First the free list, then the current slab, then a slab held in reserve.
AllocateLocked(a, c) ==
    IF a.freedAllocations # <<>>
    THEN [a   |-> [a EXCEPT !.freedAllocations = PopFront(@)],
          ret |-> FrontNode(a.freedAllocations)]
    ELSE IF CanAllocateFromCurrentSlabLocked(a, c)
    THEN AllocateFromCurrentSlabLocked(a, c)
    ELSE IF a.freeSlabs # <<>>
    THEN AllocateFromCurrentSlabLocked(SetupCurrentSlabLocked(a), c)
    ELSE [a |-> [a EXCEPT !.canAllocate = FALSE], ret |-> NULL]

AddSlabLocked(a, s) ==
    IF a.currSlab = NULL
    THEN [a EXCEPT !.currSlab = s, !.currOffset = 0, !.canAllocate = TRUE]
    ELSE [a EXCEPT !.freeSlabs = Append(@, s), !.canAllocate = TRUE]

\* addSlabAndAllocate(): the two helpers the header declares, one after the
\* other.  The pool calls it when allocate() has failed, with the current
\* slab used up or marked: s becomes the current slab and the chunk returned
\* is its first, unless another thread has freed a chunk since, which is then
\* handed out before s is touched.
AddSlabAndAllocate(a, c, s) == AllocateLocked(AddSlabLocked(a, s), c)

-----------------------------------------------------------------------------
(* free() *)

\* The slab leaves the class: it is in none of the class's containers and no
\* chunk of it stays on the free list.
DetachSlab(a, s) ==
    [a EXCEPT !.allocatedSlabs = @ \ {s},
              !.freeSlabs = SelectSeq(@, LAMBDA x : x # s),
              !.currSlab = IF @ = s THEN NULL ELSE @,
              !.currOffset = IF a.currSlab = s THEN 0 ELSE @,
              !.freedAllocations = NotFreedOf(a, s)]

\* Every chunk carved out of s is back on the free list.
FullyUnused(a, c, s) ==
    /\ s \in a.allocatedSlabs \cup {a.currSlab}
    /\ \A i \in CarvedIdx(a, c, s) : Chunk(s, i) \in ToSet(a.freedAllocations)

\* A chunk of a slab that is being drained is marked freed in the slab's
\* alloc map and does not go back on the free list.  "reclaim" is the value
\* free() returns: the slab is wholly unused and has left the class, for
\* MemoryPool::free() gives a slab it is told of to the SlabAllocator at once
\* and calls the class no more.
FreeLocked(a, c, ch) ==
    IF IsMarkedForRelease(ch.slab)
    THEN [a |-> [a EXCEPT !.slabAllocMap[ch.slab][ch.idx] = FALSE], reclaim |-> FALSE]
    ELSE LET pushed == [a EXCEPT !.freedAllocations = PushFront(@, ch), !.canAllocate = TRUE]
         IN  IF EagerReclaim /\ FullyUnused(pushed, c, ch.slab)
             THEN [a |-> DetachSlab(pushed, ch.slab), reclaim |-> TRUE]
             ELSE [a |-> pushed, reclaim |-> FALSE]

-----------------------------------------------------------------------------
(* startSlabRelease(), completeSlabRelease(), abortSlabRelease() *)

\* The slabs startSlabRelease() may take: the one of the hint, if it is a slab
\* of this class that is not being drained already; without a hint a slab held
\* in reserve before a carved one (getSlabForReleaseLocked).
SlabsForRelease(a, c, hint) ==
    LET mine == {s \in ClassSlabs(a) : header[s].classId = c /\ ~IsMarkedForRelease(s)}
    IN  IF hint # NULL THEN {hint} \cap mine
        ELSE IF a.freeSlabs # <<>> THEN {Last(a.freeSlabs)}
        ELSE a.allocatedSlabs \cap mine

\* A slab with no chunk carved out of it is released at once.
IsFreeSlab(a, s) ==
    \/ s \in ToSet(a.freeSlabs)
    \/ s = a.currSlab /\ a.currOffset = 0

\* The alloc map that calls every chunk position of the slab allocated, also
\* the positions of the current slab that were never carved.
AllocMapOfWholeSlab(a, c, s) ==
    [a EXCEPT !.slabAllocMap = (s :> [i \in ChunkIdx(c) |-> TRUE]) @@ @]

\* The drain of s starts: every chunk carved out of s counts as allocated
\* until pruneFreeAllocs() finds it on the free list or a caller frees it.
\* A position of the current slab that was never carved is with no caller and
\* on no free list: nobody could free it, and it does not count.
CreateSlabReleaseAllocMapLocked(a, c, s) ==
    [a EXCEPT !.slabAllocMap = (s :> [i \in ChunkIdx(c) |-> i \in CarvedIdx(a, c, s)]) @@ @]

\* A batch that is one chunk short of the limit.
PruneBatchOneShort(a, s) == SubSeq(FreedOf(a, s), 1, PruneLimit - 1)

\* One batch of pruneFreeAllocs(): at most PruneLimit chunks of s leave the
\* free list and are marked freed.
PruneBatch(a, s) ==
    LET inSlab == FreedOf(a, s)
    IN  SubSeq(inSlab, 1, IF Len(inSlab) < PruneLimit THEN Len(inSlab) ELSE PruneLimit)

PruneFreeAllocs(a, s) ==
    LET batch == ToSet(PruneBatch(a, s))
    IN  [a EXCEPT !.freedAllocations = SelectSeq(@, LAMBDA ch : ch \notin batch),
                  !.slabAllocMap[s] = [i \in DOMAIN @ |-> @[i] /\ Chunk(s, i) \notin batch]]

\* The undo that drops the alloc map and forgets the chunks it had pruned.
UndoPruneNoRestore(a, s, pruned) ==
    [a EXCEPT !.slabAllocMap = [x \in DOMAIN @ \ {s} |-> @[x]]]

\* The release is aborted while pruning: the chunks taken off the free list go
\* back on it and the alloc map is dropped.
UndoPrune(a, s, pruned) ==
    [a EXCEPT !.freedAllocations = @ \o pruned,
              !.slabAllocMap = [x \in DOMAIN @ \ {s} |-> @[x]]]

\* allFreed(): no chunk of the slab is still allocated.
AllFreed(a, s) == \A i \in DOMAIN a.slabAllocMap[s] : ~a.slabAllocMap[s][i]

\* The drained slab leaves the class.
CompleteSlabReleaseLocked(a, s) ==
    [DetachSlab(a, s) EXCEPT !.slabAllocMap = [x \in DOMAIN @ \ {s} |-> @[x]],
                             !.activeReleases = @ - 1]

\* The slab stays in the class.  The chunks freed during the drain are on no
\* free list: they are not restored, and canAllocate_ stays as it is.
AbortSlabReleaseLocked(a, s) ==
    [a EXCEPT !.slabAllocMap = [x \in DOMAIN @ \ {s} |-> @[x]],
              !.activeReleases = @ - 1]

-----------------------------------------------------------------------------
(* forEachAllocation(): the test of the slab's header, under lock_ *)

HeaderAllowsIteration(c, s) ==
    /\ header[s].classId = c
    /\ header[s].poolId = PoolId
    /\ ~header[s].advised
    /\ ~IsMarkedForRelease(s)

=============================================================================
