----------------------------- MODULE MemoryPool -----------------------------
(***************************************************************************)
(* One MemoryPool, its allocation classes and the threads that call it.    *)
(*                                                                         *)
(* Translated from src/cachelib_memory_allocator/MemoryPool.cpp.  A thread *)
(* is idle or inside one call; pc[t] names the statement it is about to    *)
(* run and frame[t] holds the call's local variables.  One action is one   *)
(* step that other threads see as atomic: a critical section under a       *)
(* class's lock_, a critical section under the pool's lock_, one           *)
(* operation on an atomic counter, or one call of the SlabAllocator.       *)
(* The pool's lock_ is a variable only in the slow path of allocate(),     *)
(* where it is held across several steps.                                  *)
(*                                                                         *)
(* A call that throws changes nothing; it is a step that leaves the state  *)
(* as it is.  The statistics nSlabResize_, nSlabRebalance_ and             *)
(* nSlabReleaseAborted_ are written and never read by the pool: they are   *)
(* not part of the state.                                                  *)
(***************************************************************************)
EXTENDS AllocationClass

CONSTANTS
    MaxSize,         \* maxSize_
    RequestSizes,    \* the sizes callers pass to allocate()
    Victims,         \* the victim class ids callers pass to startSlabRelease()
    Receivers,       \* the receiver class ids callers pass to startSlabRelease()
    Modes,           \* the modes callers pass to startSlabRelease()
    Hints,           \* the slabs callers hint at in startSlabRelease(), or NULL
    AbortFnValues,   \* the values shouldAbortFn() may return
    Aborters,        \* the threads that call abortSlabRelease()
    WalkedSlabs,     \* the slabs callers pass to forEachAllocation()
    ForeignSlabs,    \* the slabs other pools of the SlabAllocator may take
    SizeTModulus,    \* 2^w for the w-bit counters currAllocSize_ and currSlabAllocSize_
    ClassIdModulus   \* 2^w for the w-bit signed ClassId

ASSUME /\ MaxSize \in Nat
       /\ RequestSizes \subseteq Nat
       /\ Victims \subseteq Nat \cup {kInvalidClassId}
       /\ Receivers \subseteq Nat \cup {kInvalidClassId}
       /\ Modes \subseteq {"kResize", "kRebalance"}
       /\ Hints \subseteq Slabs \cup {NULL}
       /\ AbortFnValues \subseteq BOOLEAN
       /\ Aborters \subseteq Threads
       /\ WalkedSlabs \subseteq Slabs
       /\ ForeignSlabs \subseteq Slabs
       /\ SizeTModulus \in Nat /\ SizeTModulus > MaxSize + SlabSize
       \* createAllocationClasses() counts the ids up from 0 and the constructor
       \* of AllocationClass refuses a negative one.
       /\ ClassIdModulus \in Nat /\ Len(AllocSizes) <= ClassIdModulus \div 2

VARIABLES
    currAllocSize,       \* currAllocSize_: bytes handed out to callers
    currSlabAllocSize,   \* currSlabAllocSize_: bytes of the slabs the classes hold
    freeSlabs,           \* freeSlabs_: slabs of the pool that no class holds
    lock,                \* the thread that holds the pool's lock_ in allocate()
    pc,                  \* pc[t]: where thread t is
    frame,               \* frame[t]: the local variables of thread t's call
    ctx                  \* ctx[t]: the SlabReleaseContext thread t was given

acVars   == <<ac, header, held>>
poolVars == <<currAllocSize, currSlabAllocSize, freeSlabs, lock>>
vars     == <<ac, header, held, currAllocSize, currSlabAllocSize, freeSlabs, lock,
              pc, frame, ctx>>

kResize    == "kResize"
kRebalance == "kRebalance"
SlabReleaseMode == {kResize, kRebalance}

Labels ==
    {"idle", "allocCheck", "allocRetry", "getSlab", "makeNewSlab", "addSlab",
     "allocDone", "freeCount", "release", "releaseDec", "srPick", "srPrune",
     "feCheck", "feIter"}

\* ClassId, as far as callers use it: the ids of the classes, the receivers
\* callers name (the pool may have no such class) and Slab::kInvalidClassId.
ClassIds == Classes \cup Receivers \cup {kInvalidClassId}

\* The locals of a call.  A field a call does not use keeps its value of NoFrame.
Frames ==
    [cls : Classes \cup {kInvalidClassId}, ptr : Chunks \cup {NULL},
     slab : Slabs \cup {NULL}, mode : SlabReleaseMode,
     receiver : ClassIds, after : Labels,
     pruned : Seq(Chunks), idx : Nat]

NoFrame ==
    [cls |-> kInvalidClassId, ptr |-> NULL, slab |-> NULL, mode |-> kResize,
     receiver |-> kInvalidClassId, after |-> "idle", pruned |-> <<>>, idx |-> 0]

\* SlabReleaseContext: the slab, its class, the mode, the receiver, and whether
\* the slab was released by startSlabRelease() already.
Contexts ==
    [slab : Slabs, classId : Classes \cup {kInvalidClassId}, mode : SlabReleaseMode,
     receiver : ClassIds, released : BOOLEAN]

NoCtx == [released |-> NULL]

SizeT == 0 .. SizeTModulus - 1

\* Arithmetic of std::atomic<size_t>.
Plus(n, k)  == (n + k) % SizeTModulus
Minus(n, k) == (n - k) % SizeTModulus

\* createAllocationClasses(): every class size is a size a slab can be cut into.
CreateAllocationClasses ==
    \A c \in Classes : AllocSize(c) >= MinAllocSize /\ AllocSize(c) <= SlabSize

\* checkState(): the pool's id, its two counters, its class sizes (sorted,
\* without duplicates, each in range) and its free slabs.
CheckState ==
    /\ PoolId >= 0
    /\ currAllocSize <= currSlabAllocSize
    /\ AllocSizes # <<>>
    /\ \A i, j \in DOMAIN AllocSizes : i < j => AllocSizes[i] < AllocSizes[j]
    /\ CreateAllocationClasses
    /\ ToSet(freeSlabs) \subseteq Slabs

\* The constructor: a pool exists only if createAllocationClasses() and
\* checkState() did not throw.
Init ==
    /\ AcInit
    /\ currAllocSize = 0
    /\ currSlabAllocSize = 0
    /\ freeSlabs = <<>>
    /\ lock = NoThread
    /\ pc = [t \in Threads |-> "idle"]
    /\ frame = [t \in Threads |-> NoFrame]
    /\ ctx = [t \in Threads |-> NoCtx]
    /\ CreateAllocationClasses
    /\ CheckState

-----------------------------------------------------------------------------
(* Helpers *)

At(t, label) == pc[t] = label

Goto(t, label, f) ==
    /\ pc' = [pc EXCEPT ![t] = label]
    /\ frame' = [frame EXCEPT ![t] = f]

Return(t) == Goto(t, "idle", NoFrame)

\* std::unique_lock: the lock is given up when the call returns.
Unlocked(t) == IF lock = t THEN NoThread ELSE lock

SetClass(c, a) == ac' = [ac EXCEPT ![c] = a]

SetHeader(s, h) == header' = [header EXCEPT ![s] = h]

\* allSlabsAllocated()
AllSlabsAllocated == currSlabAllocSize >= MaxSize

\* getCurrentUsedSize(): the slabs of the classes and the pool's free slabs.
GetCurrentUsedSize == Plus(currSlabAllocSize, Len(freeSlabs) * SlabSize)

\* getAllocationClassId(size): std::lower_bound over the sorted sizes.
ValidSize(size) == size # 0 /\ size <= AllocSizes[Len(AllocSizes)]

GetAllocationClassId(size) == Min({c \in Classes : AllocSize(c) >= size})

\* static_cast<ClassId>(n): the value of n in the signed type of ClassIdModulus
\* values.
ToClassId(n) ==
    LET m == n % ClassIdModulus
    IN  IF m < ClassIdModulus \div 2 THEN m ELSE m - ClassIdModulus

\* static_cast<ClassId>(ac_.size()), what both lookups compare a class id with.
NumClassesAsClassId == ToClassId(Len(AllocSizes))

\* getAllocationClassId(memory) returns the class the slab's header names; it
\* throws for a slab of another pool, of no pool, of no class or of a class
\* the pool does not have.
BelongsToPool(ch) ==
    /\ header[ch.slab].poolId = PoolId
    /\ header[ch.slab].classId # kInvalidClassId
    /\ ~(header[ch.slab].classId >= NumClassesAsClassId \/ header[ch.slab].classId < 0)

\* getAllocationClassFor(cid) throws for a class id past the last class.
\* Nothing stops a negative id: callers must not pass one.
ValidClassId(cid) == cid < NumClassesAsClassId

-----------------------------------------------------------------------------
(* allocate(size) *)

\* The class is asked first, without the pool's lock.
Allocate(t, size) ==
    /\ At(t, "idle")
    /\ ValidSize(size)
    /\ LET c == GetAllocationClassId(size)
           r == AllocateLocked(ac[c], c)
       IN  /\ SetClass(c, r.a)
           /\ Goto(t, IF r.ret # NULL THEN "allocDone" ELSE "allocCheck",
                   [NoFrame EXCEPT !.cls = c, !.ptr = r.ret])
    /\ UNCHANGED <<header, held, poolVars, ctx>>

\* Size 0 and a size above the largest class: std::invalid_argument.
AllocateInvalidSize(t, size) ==
    /\ At(t, "idle")
    /\ ~ValidSize(size)
    /\ UNCHANGED vars

\* currAllocSize_ += allocSize; return alloc;
AllocateDone(t) ==
    /\ At(t, "allocDone")
    /\ currAllocSize' = Plus(currAllocSize, AllocSize(frame[t].cls))
    /\ held' = held \cup {frame[t].ptr}
    /\ lock' = Unlocked(t)
    /\ Return(t)
    /\ UNCHANGED <<ac, header, currSlabAllocSize, freeSlabs, ctx>>

\* The class had nothing: a pool that holds all its slabs returns nullptr.
AllocateCheck(t) ==
    /\ At(t, "allocCheck")
    /\ IF AllSlabsAllocated THEN Return(t) ELSE Goto(t, "allocRetry", frame[t])
    /\ UNCHANGED <<acVars, poolVars, ctx>>

\* LockHolder l(lock_); alloc = ac.allocate();  With "tested" the alloc the class
\* returned is looked at before getSlabLocked() is called.
RetryUnderLock(t, tested) ==
    /\ At(t, "allocRetry")
    /\ lock = NoThread
    /\ lock' = t
    /\ LET c == frame[t].cls
           r == AllocateLocked(ac[c], c)
       IN  /\ SetClass(c, r.a)
           /\ Goto(t, IF tested /\ r.ret # NULL THEN "allocDone" ELSE "getSlab",
                   [frame[t] EXCEPT !.ptr = r.ret])
    /\ UNCHANGED <<header, held, currAllocSize, currSlabAllocSize, freeSlabs, ctx>>

\* allocate() that asks for a slab whatever the second ac.allocate() returned.
AllocateRetryUntested(t) == RetryUnderLock(t, FALSE)

AllocateRetry(t) == RetryUnderLock(t, TRUE)

\* getSlabLocked(), up to the call of the SlabAllocator.  "full" is the result
\* of the check made again under the lock, "rest" the free list once its last
\* slab is taken.
GetSlab(t, full, rest) ==
    /\ At(t, "getSlab")
    /\ \/ /\ full
          /\ lock' = NoThread
          /\ Return(t)
          /\ UNCHANGED <<currSlabAllocSize, freeSlabs>>
       \/ /\ ~full
          /\ currSlabAllocSize' = Plus(currSlabAllocSize, SlabSize)
          /\ \/ /\ freeSlabs # <<>>
                /\ freeSlabs' = rest
                /\ Goto(t, "addSlab", [frame[t] EXCEPT !.slab = Last(freeSlabs)])
             \/ /\ freeSlabs = <<>>
                /\ Goto(t, "makeNewSlab", frame[t])
                /\ UNCHANGED freeSlabs
          /\ UNCHANGED lock
    /\ UNCHANGED <<acVars, currAllocSize, ctx>>

\* getSlabLocked() without the check under the lock.
GetSlabLockedNoRecheck(t) == GetSlab(t, FALSE, Front(freeSlabs))

\* getSlabLocked() without freeSlabs_.pop_back().
GetSlabLockedNoPop(t) == GetSlab(t, AllSlabsAllocated, freeSlabs)

GetSlabLocked(t) == GetSlab(t, AllSlabsAllocated, Front(freeSlabs))

\* slabAllocator_.makeNewSlab(id_): a slab of no pool becomes a slab of this
\* pool.  Without one allocate() returns nullptr, its LockHolder gives up
\* lock_, and currSlabAllocSize_ becomes "unbumped".
NewSlab(t, unbumped) ==
    /\ At(t, "makeNewSlab")
    /\ LET unused == {s \in Slabs : header[s].poolId = kInvalidPoolId}
       IN  \/ /\ unused = {}
              /\ currSlabAllocSize' = unbumped
              /\ lock' = NoThread
              /\ Return(t)
              /\ UNCHANGED header
           \/ \E s \in unused :
                /\ SetHeader(s, [BlankHeader EXCEPT !.poolId = PoolId])
                /\ Goto(t, "addSlab", [frame[t] EXCEPT !.slab = s])
                /\ UNCHANGED <<currSlabAllocSize, lock>>
    /\ UNCHANGED <<ac, held, currAllocSize, freeSlabs, ctx>>

\* getSlabLocked() that keeps the reservation when makeNewSlab() fails.
MakeNewSlabNoUnbump(t) == NewSlab(t, currSlabAllocSize)

\* The reservation is taken back when makeNewSlab() fails.
MakeNewSlab(t) == NewSlab(t, Minus(currSlabAllocSize, SlabSize))

\* The slab goes to the class, which returns "r.ret" and becomes "r.a".
TakeNewSlab(t, r) ==
    /\ At(t, "addSlab")
    /\ SetClass(frame[t].cls, r.a)
    /\ SetHeader(frame[t].slab, StampedHeader(header[frame[t].slab], frame[t].cls))
    /\ Goto(t, "allocDone", [frame[t] EXCEPT !.ptr = r.ret, !.slab = NULL])
    /\ UNCHANGED <<held, poolVars, ctx>>

\* allocate() that calls ac.addSlab(slab) and returns the alloc it has.
AllocateFromNewSlabAddOnly(t) ==
    TakeNewSlab(t, [a |-> AddSlabLocked(ac[frame[t].cls], frame[t].slab), ret |-> NULL])

\* alloc = ac.addSlabAndAllocate(slab);
AllocateFromNewSlab(t) ==
    TakeNewSlab(t, AddSlabAndAllocate(ac[frame[t].cls], frame[t].cls, frame[t].slab))

-----------------------------------------------------------------------------
(* releaseSlab(mode, slab, receiverClassId) *)

CallReleaseSlab(t, mode, s, receiver, after) ==
    Goto(t, "release",
         [NoFrame EXCEPT !.cls = frame[t].cls, !.mode = mode, !.slab = s,
                         !.receiver = receiver, !.after = after])

\* What the two branches of releaseSlab() that give the slab away do: first the
\* slab reaches its new home ("give"), then currSlabAllocSize_ goes down by
\* Slab::kSize ("count").  Other threads run between the two.
GiveSlabAway(t, mode, give) ==
    /\ At(t, "release")
    /\ frame[t].mode = mode
    /\ give
    /\ Goto(t, "releaseDec", frame[t])

CountSlabOut(t, mode) ==
    /\ At(t, "releaseDec")
    /\ frame[t].mode = mode
    /\ currSlabAllocSize' = Minus(currSlabAllocSize, SlabSize)
    /\ Goto(t, frame[t].after, [NoFrame EXCEPT !.cls = frame[t].cls])

\* kResize: slabAllocator_.freeSlab(slab), then the decrement.
ReleaseToSlabAllocator(t) ==
    \/ /\ GiveSlabAway(t, kResize, SetHeader(frame[t].slab, BlankHeader))
       /\ UNCHANGED <<ac, held, poolVars, ctx>>
    \/ /\ CountSlabOut(t, kResize)
       /\ UNCHANGED <<acVars, currAllocSize, freeSlabs, lock, ctx>>

\* kRebalance with a receiver: the slab stays in the pool, the counter as it
\* is.  "list" is the pool's free list afterwards.
AddToReceiver(t, list) ==
    /\ At(t, "release")
    /\ frame[t].mode = kRebalance
    /\ frame[t].receiver # kInvalidClassId
    /\ ValidClassId(frame[t].receiver)
    /\ LET c == frame[t].receiver
           s == frame[t].slab
       IN  /\ SetClass(c, AddSlabLocked(ac[c], s))
           /\ SetHeader(s, StampedHeader(header[s], c))
    /\ freeSlabs' = list
    /\ Goto(t, frame[t].after, [NoFrame EXCEPT !.cls = frame[t].cls])
    /\ UNCHANGED <<held, currAllocSize, currSlabAllocSize, lock, ctx>>

\* releaseSlab() whose receiver branch runs on into the branch without one.
ReleaseToReceiverAndFreeSlabs(t) == AddToReceiver(t, Append(freeSlabs, frame[t].slab))

ReleaseToReceiver(t) == AddToReceiver(t, freeSlabs)

\* kRebalance with a receiver the pool has no class for: getAllocationClassFor()
\* throws std::invalid_argument, out of releaseSlab() and out of the
\* startSlabRelease() or completeSlabRelease() that called it.  The slab has
\* left its class by then; the caller gets no context.
ReleaseToReceiverThrows(t) ==
    /\ At(t, "release")
    /\ frame[t].mode = kRebalance
    /\ frame[t].receiver # kInvalidClassId
    /\ ~ValidClassId(frame[t].receiver)
    /\ Return(t)
    /\ ctx' = [ctx EXCEPT ![t] = NoCtx]
    /\ UNCHANGED <<acVars, poolVars>>

PushFreeSlab(t) ==
    /\ frame[t].receiver = kInvalidClassId
    /\ lock = NoThread
    /\ freeSlabs' = Append(freeSlabs, frame[t].slab)

\* releaseSlab() that counts the slab out before it is on the free list.
ReleaseToFreeSlabsCountFirst(t) ==
    \/ /\ At(t, "release")
       /\ frame[t].mode = kRebalance /\ frame[t].receiver = kInvalidClassId
       /\ currSlabAllocSize' = Minus(currSlabAllocSize, SlabSize)
       /\ Goto(t, "releaseDec", frame[t])
       /\ UNCHANGED <<acVars, currAllocSize, freeSlabs, lock, ctx>>
    \/ /\ At(t, "releaseDec")
       /\ frame[t].mode = kRebalance
       /\ PushFreeSlab(t)
       /\ Goto(t, frame[t].after, [NoFrame EXCEPT !.cls = frame[t].cls])
       /\ UNCHANGED <<acVars, currAllocSize, currSlabAllocSize, lock, ctx>>

\* kRebalance without a receiver: the slab goes on the pool's free list, under
\* the pool's lock, and then the counter goes down.
ReleaseToFreeSlabs(t) ==
    \/ /\ GiveSlabAway(t, kRebalance, PushFreeSlab(t))
       /\ UNCHANGED <<acVars, currAllocSize, currSlabAllocSize, lock, ctx>>
    \/ /\ CountSlabOut(t, kRebalance)
       /\ UNCHANGED <<acVars, currAllocSize, freeSlabs, lock, ctx>>

ReleaseSlab(t) ==
    \/ ReleaseToSlabAllocator(t)
    \/ ReleaseToReceiver(t)
    \/ ReleaseToReceiverThrows(t)
    \/ ReleaseToFreeSlabs(t)

-----------------------------------------------------------------------------
(* free(alloc) *)

\* ac.free(alloc), for a chunk the caller holds.  When the class reports that
\* the slab became unused, the slab is released and then "next" follows.
FreeChunk(t, ch, next) ==
    /\ At(t, "idle")
    /\ ch \in held
    /\ BelongsToPool(ch)
    /\ LET c == header[ch.slab].classId
           r == FreeLocked(ac[c], c, ch)
       IN  /\ SetClass(c, r.a)
           /\ held' = held \ {ch}
           /\ IF r.reclaim
              THEN /\ SetHeader(ch.slab, ReleasedHeader(header[ch.slab]))
                   /\ Goto(t, "release",
                           [NoFrame EXCEPT !.cls = c, !.slab = ch.slab, !.after = next])
              ELSE /\ Goto(t, "freeCount", [NoFrame EXCEPT !.cls = c])
                   /\ UNCHANGED header
    /\ UNCHANGED <<poolVars, ctx>>

\* free() that returns once it has released the slab.
FreeReturnsAfterRelease(t, ch) == FreeChunk(t, ch, "idle")

\* The chunk is counted out of currAllocSize_ after the slab is released.
Free(t, ch) == FreeChunk(t, ch, "freeCount")

\* Memory of a slab that is not of this pool or of none of its classes:
\* std::invalid_argument.
FreeInvalid(t, ch) ==
    /\ At(t, "idle")
    /\ ~BelongsToPool(ch)
    /\ UNCHANGED vars

\* currAllocSize_ -= ac.getAllocSize();
FreeCount(t) ==
    /\ At(t, "freeCount")
    /\ currAllocSize' = Minus(currAllocSize, AllocSize(frame[t].cls))
    /\ Return(t)
    /\ UNCHANGED <<acVars, currSlabAllocSize, freeSlabs, lock, ctx>>

-----------------------------------------------------------------------------
(* startSlabRelease(victim, receiver, mode, hint, shouldAbortFn) *)

ReceiverAllowed(receiver, mode) == receiver = kInvalidClassId \/ mode = kRebalance

VictimAllowed(victim, mode) == victim # kInvalidClassId \/ mode = kResize

\* A thread keeps one context at a time: it completes or aborts the release it
\* started before it starts another.
MayStartRelease(t) == At(t, "idle") /\ ctx[t] = NoCtx

\* A receiver without kRebalance, the pool's free slabs without kResize, a
\* victim the pool has no class for: std::invalid_argument.  The receiver's
\* class is not looked up before the slab has left the victim.
StartSlabReleaseInvalid(t, victim, receiver, mode) ==
    /\ MayStartRelease(t)
    /\ \/ ~ReceiverAllowed(receiver, mode)
       \/ ~VictimAllowed(victim, mode)
       \/ ~ValidClassId(victim)
    /\ UNCHANGED vars

\* releaseFromFreeSlabs(): a slab of the pool's free list is released at once.
\* It throws when the list is empty.  "rest" is the list without the slab.
TakeFreeSlab(t, receiver, mode, rest) ==
    /\ MayStartRelease(t)
    /\ ReceiverAllowed(receiver, mode) /\ VictimAllowed(kInvalidClassId, mode)
    /\ lock = NoThread
    /\ \/ /\ freeSlabs = <<>>
          /\ UNCHANGED vars
       \/ /\ freeSlabs # <<>>
          /\ freeSlabs' = rest
          /\ ctx' = [ctx EXCEPT ![t] =
                       [slab |-> Last(freeSlabs), classId |-> kInvalidClassId,
                        mode |-> kResize, receiver |-> receiver, released |-> TRUE]]
          /\ CallReleaseSlab(t, kResize, Last(freeSlabs), receiver, "idle")
          /\ UNCHANGED <<acVars, currAllocSize, currSlabAllocSize, lock>>

\* releaseFromFreeSlabs() without freeSlabs_.pop_back().
ReleaseFromFreeSlabsNoPop(t, receiver, mode) == TakeFreeSlab(t, receiver, mode, freeSlabs)

ReleaseFromFreeSlabs(t, receiver, mode) == TakeFreeSlab(t, receiver, mode, Front(freeSlabs))

\* The victim's startSlabRelease() begins: starts are serialised by the
\* class's startSlabReleaseLock_.  "hint" is the slab of the hint, or NULL.
StartSlabRelease(t, victim, receiver, mode, hint) ==
    /\ MayStartRelease(t)
    /\ ReceiverAllowed(receiver, mode)
    /\ victim # kInvalidClassId /\ ValidClassId(victim)
    /\ ac[victim].startSlabReleaseLock = NoThread
    /\ SetClass(victim, [ac[victim] EXCEPT !.startSlabReleaseLock = t])
    /\ Goto(t, "srPick", [NoFrame EXCEPT !.cls = victim, !.receiver = receiver,
                                         !.mode = mode, !.slab = hint])
    /\ UNCHANGED <<header, held, poolVars, ctx>>

\* Under the class's lock the slab is picked.  A slab with nothing carved out
\* of it leaves the class at once and the pool releases it; any other slab is
\* marked for release and its alloc map is created.  A hint that names no slab
\* of the class, and a class without a slab: std::invalid_argument.
PickSlabForRelease(t) ==
    /\ At(t, "srPick")
    /\ LET c == frame[t].cls
           a == [ac[c] EXCEPT !.startSlabReleaseLock = NoThread]
           candidates == SlabsForRelease(ac[c], c, frame[t].slab)
       IN  \/ /\ candidates = {}
              /\ SetClass(c, a)
              /\ Return(t)
              /\ UNCHANGED <<header, ctx>>
           \/ \E s \in candidates :
                /\ IsFreeSlab(ac[c], s)
                /\ SetClass(c, DetachSlab(a, s))
                /\ SetHeader(s, ReleasedHeader(header[s]))
                /\ ctx' = [ctx EXCEPT ![t] =
                             [slab |-> s, classId |-> c, mode |-> frame[t].mode,
                              receiver |-> frame[t].receiver, released |-> TRUE]]
                /\ CallReleaseSlab(t, frame[t].mode, s, frame[t].receiver, "idle")
           \/ \E s \in candidates :
                /\ ~IsFreeSlab(ac[c], s)
                /\ SetClass(c, CreateSlabReleaseAllocMapLocked(ac[c], c, s))
                /\ SetHeader(s, [header[s] EXCEPT !.markedForRelease = TRUE])
                /\ Goto(t, "srPrune", [frame[t] EXCEPT !.slab = s])
                /\ UNCHANGED ctx
    /\ UNCHANGED <<held, poolVars>>

\* One round of pruneFreeAllocs().  shouldAbortFn() is asked first: when it
\* says so the release is undone and SlabReleaseAborted is thrown.  Otherwise
\* a batch of the slab's chunks leaves the free list, and after the last batch
\* the caller gets its context.
PruneFreeAllocsStep(t, abort) ==
    /\ At(t, "srPrune")
    /\ LET c == frame[t].cls
           s == frame[t].slab
           pruned == PruneFreeAllocs(ac[c], s)
       IN  \/ /\ abort
              /\ SetClass(c, [UndoPrune(ac[c], s, frame[t].pruned)
                                EXCEPT !.startSlabReleaseLock = NoThread])
              /\ SetHeader(s, [header[s] EXCEPT !.markedForRelease = FALSE])
              /\ Return(t)
              /\ UNCHANGED ctx
           \/ /\ ~abort
              /\ FreedOf(pruned, s) # <<>>
              /\ SetClass(c, pruned)
              /\ Goto(t, "srPrune",
                      [frame[t] EXCEPT !.pruned = @ \o PruneBatch(ac[c], s)])
              /\ UNCHANGED <<header, ctx>>
           \/ /\ ~abort
              /\ FreedOf(pruned, s) = <<>>
              /\ SetClass(c, [pruned EXCEPT !.activeReleases = @ + 1,
                                            !.startSlabReleaseLock = NoThread])
              /\ ctx' = [ctx EXCEPT ![t] =
                           [slab |-> s, classId |-> c, mode |-> frame[t].mode,
                            receiver |-> frame[t].receiver, released |-> FALSE]]
              /\ Return(t)
              /\ UNCHANGED header
    /\ UNCHANGED <<held, poolVars>>

-----------------------------------------------------------------------------
(* completeSlabRelease(context), abortSlabRelease(context) *)

HasContext(t) == At(t, "idle") /\ ctx[t] # NoCtx

\* The slab was released by startSlabRelease(): nothing to do.  The caller is
\* done with the context.
CompleteIf(t, released) ==
    /\ HasContext(t)
    /\ released
    /\ ctx' = [ctx EXCEPT ![t] = NoCtx]
    /\ UNCHANGED <<acVars, poolVars, pc, frame>>

\* completeSlabRelease() that returns at once for every context.
CompleteReleasedUntested(t) == CompleteIf(t, TRUE)

CompleteReleased(t) == CompleteIf(t, ctx[t].released)

\* The class's completeSlabRelease() blocks until "drained" holds, then takes
\* the slab out of the class; the pool releases the slab.
CompleteDrained(t, drained) ==
    /\ HasContext(t)
    /\ ~ctx[t].released
    /\ ReceiverAllowed(ctx[t].receiver, ctx[t].mode)
    /\ ValidClassId(ctx[t].classId)
    /\ drained
    /\ LET c == ctx[t].classId
           s == ctx[t].slab
       IN  /\ SetClass(c, CompleteSlabReleaseLocked(ac[c], s))
           /\ SetHeader(s, ReleasedHeader(header[s]))
           /\ CallReleaseSlab(t, ctx[t].mode, s, ctx[t].receiver, "idle")
    /\ ctx' = [ctx EXCEPT ![t] = NoCtx]
    /\ UNCHANGED <<held, poolVars>>

\* completeSlabRelease() that does not wait for the chunks to be freed.
CompleteSlabReleaseNoWait(t) == CompleteDrained(t, TRUE)

CompleteSlabRelease(t) ==
    CompleteDrained(t, ~ctx[t].released /\ AllFreed(ac[ctx[t].classId], ctx[t].slab))

\* abortSlabRelease() that takes the context of a slab all of whose chunks are
\* freed.
AbortableWhenDrained(t) ==
    /\ ~ctx[t].released
    /\ ctx[t].slab \in DOMAIN ac[ctx[t].classId].slabAllocMap

\* abortSlabRelease() takes a context that is not released, of a slab that is
\* being drained and has a chunk that is not freed yet.
Abortable(t) ==
    /\ ~ctx[t].released
    /\ ctx[t].slab \in DOMAIN ac[ctx[t].classId].slabAllocMap
    /\ ~AllFreed(ac[ctx[t].classId], ctx[t].slab)

\* The slab stays in its class.
AbortSlabRelease(t) ==
    /\ HasContext(t)
    /\ ValidClassId(ctx[t].classId)
    /\ Abortable(t)
    /\ LET c == ctx[t].classId
           s == ctx[t].slab
       IN  /\ SetClass(c, AbortSlabReleaseLocked(ac[c], s))
           /\ SetHeader(s, [header[s] EXCEPT !.markedForRelease = FALSE])
    /\ ctx' = [ctx EXCEPT ![t] = NoCtx]
    /\ UNCHANGED <<held, poolVars, pc, frame>>

\* Any other context: std::invalid_argument.  The context of a slab taken from
\* the pool's free list names no class; callers must not abort it.
AbortSlabReleaseInvalid(t) ==
    /\ HasContext(t)
    /\ ctx[t].classId # kInvalidClassId /\ ValidClassId(ctx[t].classId)
    /\ ~Abortable(t)
    /\ UNCHANGED vars

-----------------------------------------------------------------------------
(* AllocationClass::forEachAllocation(slab, callback) *)

\* try_lock() of startSlabReleaseLock_: when "locked" says that it failed the
\* slab is skipped, otherwise the caller owns the lock and goes on to the
\* slab's header.
ForEachStart(t, c, s, locked) ==
    /\ At(t, "idle")
    /\ \/ /\ ~locked
          /\ SetClass(c, [ac[c] EXCEPT !.startSlabReleaseLock = t])
          /\ Goto(t, "feCheck", [NoFrame EXCEPT !.cls = c, !.slab = s])
       \/ /\ locked
          /\ UNCHANGED <<ac, pc, frame>>
    /\ UNCHANGED <<header, held, poolVars, ctx>>

\* forEachAllocation() that walks without startSlabReleaseLock_.
ForEachAllocationNoTryLock(t, c, s) == ForEachStart(t, c, s, FALSE)

ForEachAllocation(t, c, s) == ForEachStart(t, c, s, ac[c].startSlabReleaseLock # NoThread)

\* The slab's header is read under the class's lock_, after the try_lock(): a
\* slab that is not the class's, or is marked for release, is skipped and
\* startSlabReleaseLock_ given up.
ForEachHeaderCheck(t) ==
    /\ At(t, "feCheck")
    /\ IF HeaderAllowsIteration(frame[t].cls, frame[t].slab)
       THEN /\ Goto(t, "feIter", frame[t])
            /\ UNCHANGED ac
       ELSE /\ SetClass(frame[t].cls,
                        [ac[frame[t].cls] EXCEPT !.startSlabReleaseLock = NoThread])
            /\ Return(t)
    /\ UNCHANGED <<header, held, poolVars, ctx>>

\* The callback is called for the next chunk of the slab.  The walk ends when
\* the callback returns false and after the last chunk.
ForEachCallback(t, continue) ==
    /\ At(t, "feIter")
    /\ LET c == frame[t].cls
           last == frame[t].idx + 1 >= AllocsPerSlab(c)
       IN  IF ~continue \/ last
           THEN /\ SetClass(c, [ac[c] EXCEPT !.startSlabReleaseLock = NoThread])
                /\ Return(t)
           ELSE /\ Goto(t, "feIter", [frame[t] EXCEPT !.idx = @ + 1])
                /\ UNCHANGED ac
    /\ UNCHANGED <<header, held, poolVars, ctx>>

-----------------------------------------------------------------------------
(* The SlabAllocator serves other pools too *)

OtherPoolId == PoolId + 1

OtherPoolMakeNewSlab(s) ==
    /\ header[s].poolId = kInvalidPoolId
    /\ SetHeader(s, [BlankHeader EXCEPT !.poolId = OtherPoolId])
    /\ UNCHANGED <<ac, held, poolVars, pc, frame, ctx>>

OtherPoolFreeSlab(s) ==
    /\ header[s].poolId = OtherPoolId
    /\ SetHeader(s, BlankHeader)
    /\ UNCHANGED <<ac, held, poolVars, pc, frame, ctx>>

-----------------------------------------------------------------------------
(* The specification *)

Step(t) ==
    \/ \E size \in RequestSizes : Allocate(t, size) \/ AllocateInvalidSize(t, size)
    \/ AllocateDone(t) \/ AllocateCheck(t) \/ AllocateRetry(t)
    \/ GetSlabLocked(t) \/ MakeNewSlab(t) \/ AllocateFromNewSlab(t)
    \/ \E ch \in held : Free(t, ch)
    \/ \E s \in Slabs : FreeInvalid(t, Chunk(s, 0))
    \/ FreeCount(t) \/ ReleaseSlab(t)
    \/ \E victim \in Victims, receiver \in Receivers, mode \in Modes :
            \/ StartSlabReleaseInvalid(t, victim, receiver, mode)
            \/ victim = kInvalidClassId /\ ReleaseFromFreeSlabs(t, receiver, mode)
            \/ \E hint \in Hints : StartSlabRelease(t, victim, receiver, mode, hint)
    \/ PickSlabForRelease(t)
    \/ \E abort \in AbortFnValues : PruneFreeAllocsStep(t, abort)
    \/ CompleteReleased(t) \/ CompleteSlabRelease(t)
    \/ t \in Aborters /\ (AbortSlabRelease(t) \/ AbortSlabReleaseInvalid(t))
    \/ \E c \in Classes, s \in WalkedSlabs : ForEachAllocation(t, c, s)
    \/ ForEachHeaderCheck(t)
    \/ \E continue \in BOOLEAN : ForEachCallback(t, continue)

Next ==
    \/ \E t \in Threads : Step(t)
    \/ \E s \in ForeignSlabs : OtherPoolMakeNewSlab(s) \/ OtherPoolFreeSlab(s)

Spec == Init /\ [][Next]_vars

-----------------------------------------------------------------------------
(* Fairness *)

\* A call that has begun runs on: the scheduler gives every thread its turn.
Continue(t) == ~At(t, "idle") /\ Step(t)

\* A caller frees a chunk of a slab that is marked for release: whoever drains
\* a slab has the owners of its allocations give them up.
FreeDrained ==
    \E t \in Threads : \E ch \in held : IsMarkedForRelease(ch.slab) /\ Free(t, ch)

\* The threads run on; a thread that waits for the pool's lock_ gets it if the
\* lock is free again and again; the holder of a context calls
\* completeSlabRelease(), which waits until the slab is drained; and the chunks
\* of a slab that is drained are freed.
Fairness ==
    /\ \A t \in Threads : WF_vars(Continue(t))
    /\ \A t \in Threads : SF_vars(AllocateRetry(t)) /\ SF_vars(ReleaseToFreeSlabs(t))
    /\ \A t \in Threads : SF_vars(CompleteSlabRelease(t))
    /\ SF_vars(FreeDrained)

FairSpec == Spec /\ Fairness

-----------------------------------------------------------------------------
(* What the properties speak of *)

\* The chunk a thread was given by a class and has not yet returned to its
\* caller.
InFlight(t) == IF At(t, "allocDone") THEN {frame[t].ptr} ELSE {}

\* The chunks callers may use.
Live == held \cup UNION {InFlight(t) : t \in Threads}

\* The slab a thread carries from one owner to the next.
Carried(t) == IF pc[t] \in {"addSlab", "release"} THEN {frame[t].slab} ELSE {}

\* The threads for whose slab currSlabAllocSize_ counts Slab::kSize although no
\* class holds the slab: it is reserved, carried, or given away and not yet
\* counted out.
Accounted ==
    {t \in Threads : pc[t] \in {"makeNewSlab", "addSlab", "release", "releaseDec"}}

\* The threads whose free() has taken the chunk and not yet counted it out.
Uncounted ==
    {t \in Threads : \/ At(t, "freeCount")
                     \/ pc[t] \in {"release", "releaseDec"} /\ frame[t].after = "freeCount"}

\* How often slab s occurs in the containers of the classes, in the pool's free
\* list and in the hands of threads.
Occurrences(s) ==
    LET Count(seq) == Len(SelectSeq(seq, LAMBDA x : x = s))
        InClass(c) == Count(ac[c].freeSlabs) + Count(<<ac[c].currSlab>>)
                      + Cardinality({s} \cap ac[c].allocatedSlabs)
    IN  MapThenSumSet(InClass, Classes) + Count(freeSlabs)
        + Cardinality({t \in Threads : s \in Carried(t)})

PoolSlabs == {s \in Slabs : header[s].poolId = PoolId}

Quiescent == \A t \in Threads : At(t, "idle")

\* The threads that hold a context of class c for a slab that is being drained.
Drainers(c) ==
    {t \in Threads : ctx[t] # NoCtx /\ ~ctx[t].released /\ ctx[t].classId = c}

\* The slabs of class c that are being drained: by a context, or by a
\* startSlabRelease() that is pruning the free list.
Draining(c) ==
    {ctx[t].slab : t \in Drainers(c)}
    \cup {frame[t].slab : t \in {u \in Threads : At(u, "srPrune") /\ frame[u].cls = c}}

\* The chunks class c has carved out of its slabs; of a slab it holds in
\* reserve it has carved none.
Carved(c) ==
    UNION {{Chunk(s, i) : i \in CarvedIdx(ac[c], c, s)} :
             s \in ClassSlabs(ac[c]) \ ToSet(ac[c].freeSlabs)}

\* The chunks a startSlabRelease() in progress has taken off a free list.
Pruned == UNION {ToSet(frame[t].pruned) : t \in Threads}

\* Chunk ch of class c was freed by a caller while its slab was marked: the
\* alloc map has it as freed, and it is to leave the class with the slab.
FreedInDrain(c, ch) ==
    /\ ch.slab \in DOMAIN ac[c].slabAllocMap
    /\ ~ac[c].slabAllocMap[ch.slab][ch.idx]

DrainFreed(c) == {ch \in Carved(c) \ Pruned : FreedInDrain(c, ch)}

\* The chunks of class c that are lost: carved, with no caller, and nowhere
\* an allocate() of the class, or the end of a release, will find them.
Lost(c) ==
    LET found == Live \cup ToSet(ac[c].freedAllocations) \cup Pruned
    IN  {ch \in Carved(c) : ch \notin found /\ ~FreedInDrain(c, ch)}

\* The pool as its callers and the SlabAllocator see it.
Contract ==
    INSTANCE PoolContract
    WITH owned <- PoolSlabs, lent <- Live, Capacity <- MaxSize \div SlabSize

\* The release of slab s as the users of its class see it.  The slab's header
\* names the class that holds it.
Phase(s) ==
    LET c == header[s].classId
    IN  CASE c = kInvalidClassId -> "absent"
          [] c # kInvalidClassId /\ s \notin DOMAIN ac[c].slabAllocMap -> "inactive"
          [] OTHER -> IF \E t \in Threads : At(t, "srPrune") /\ frame[t].slab = s
                      THEN "starting"
                      ELSE IF AllFreed(ac[c], s) THEN "drained" ELSE "draining"

Release == INSTANCE SlabRelease WITH phase <- [s \in Slabs |-> Phase(s)]

-----------------------------------------------------------------------------
(* Properties *)

\* The type invariant.  Its conjunct on held is the assertion of allocate()
\* that addSlabAndAllocate() never returns nullptr (XDCHECK_NE after the call):
\* what a caller holds is a chunk.
TypeOK ==
    /\ \A c \in Classes : ac[c] \in ClassState(c)
    /\ header \in [Slabs -> Headers]
    /\ held \subseteq Chunks
    /\ currAllocSize \in SizeT
    /\ currSlabAllocSize \in SizeT
    /\ freeSlabs \in Seq(Slabs)
    /\ lock \in Threads \cup {NoThread}
    /\ pc \in [Threads -> Labels]
    /\ frame \in [Threads -> Frames]
    /\ \A t \in Threads : ctx[t] = NoCtx \/ ctx[t] \in Contexts

\* currSlabAllocSize_ is Slab::kSize times the number of slabs the classes
\* hold, plus one Slab::kSize for every thread between the reservation of
\* getSlabLocked() and addSlabAndAllocate(), or between the moment a slab left
\* its class and the decrement of releaseSlab().  Slabs on the pool's free list
\* do not count (getCurrentUsedSize() adds them).
SlabAccountingExact ==
    currSlabAllocSize =
        SlabSize * (MapThenSumSet(LAMBDA c : Cardinality(ClassSlabs(ac[c])), Classes)
                    + Cardinality(Accounted))

\* currAllocSize_ is the sum of the allocation sizes of the chunks callers
\* hold, at the size their slab's header names, plus the chunks free() has
\* given back to a class and not yet subtracted: no path of allocate() or
\* free() counts a chunk twice or not at all.
AllocAccountingExact ==
    currAllocSize =
        MapThenSumSet(LAMBDA ch : header[ch.slab].allocSize, held)
        + MapThenSumSet(LAMBDA t : AllocSize(frame[t].cls), Uncounted)

\* currSlabAllocSize_ never exceeds maxSize_: allocate() checks
\* allSlabsAllocated() without the lock and getSlabLocked() checks it again
\* under the lock, so that of two threads that saw room for one slab only one
\* reserves it.
SlabCounterWithinMax == currSlabAllocSize <= MaxSize

\* The slabs whose header names this pool never amount to more than maxSize_.
\* releaseSlab() puts a slab on the free list before it counts it out, and
\* getSlabLocked() takes the free list's slabs before it asks the
\* SlabAllocator, so that room seen in the counter is never filled twice.
PoolSlabsWithinMax == SlabSize * Cardinality(PoolSlabs) <= MaxSize

\* Whenever getCurrentUsedSize() can take lock_, what it returns is the size
\* of the slabs whose header names this pool, and one Slab::kSize more for
\* every releaseSlab() that has given its slab away and not yet subtracted it:
\* the accessor never misses a slab the pool holds, also while slabs move
\* between the classes, the free list and the SlabAllocator, because
\* releaseSlab() counts a slab out only after it has pushed or freed it.
UsedSizeTracksPoolSlabs ==
    lock = NoThread =>
        GetCurrentUsedSize =
            SlabSize * (Cardinality(PoolSlabs)
                        + Cardinality({t \in Threads : At(t, "releaseDec")}))

\* No memory is lost: every chunk a class has carved out of a slab it holds is
\* with a caller, on the class's free list, or freed into the alloc map of a
\* slab that is on its way out.  free() puts back what allocate() handed out,
\* also when the slab has changed its class or has been the current slab of
\* two classes in between, and a release that runs to its end takes the slab's
\* chunks off the free list and nothing else.
NoChunkLost == \A c \in Classes : Lost(c) = {}

\* A chunk is with one caller, or in flight to one, or on one free list once,
\* and never two of these: allocate() hands no chunk out twice without a
\* free() of it in between, whatever slab releases happen meanwhile.
ChunkExclusive ==
    /\ \A t \in Threads : InFlight(t) \cap held = {}
    /\ \A t, u \in Threads : t # u => InFlight(t) \cap InFlight(u) = {}
    /\ \A c \in Classes :
         /\ IsInjective(ac[c].freedAllocations)
         /\ ToSet(ac[c].freedAllocations) \cap Live = {}
         /\ \A d \in Classes \ {c} :
              ToSet(ac[c].freedAllocations) \cap ToSet(ac[d].freedAllocations) = {}

\* The memory of a chunk a caller may use is memory free() takes back:
\* getAllocationClassId(memory) finds its class, the slab is a slab of that
\* class, the class has carved the chunk out of the slab, and while the slab
\* is drained its alloc map says that the chunk is allocated:
\* completeSlabRelease() waits for it.
LiveChunksBacked ==
    \A ch \in Live :
        LET c == header[ch.slab].classId
        IN  /\ BelongsToPool(ch)
            /\ ch.slab \in ClassSlabs(ac[c])
            /\ ch.idx \in CarvedIdx(ac[c], c, ch.slab)
            /\ IsMarkedForRelease(ch.slab) =>
                 /\ ch.slab \in DOMAIN ac[c].slabAllocMap
                 /\ ac[c].slabAllocMap[ch.slab][ch.idx]

\* A slab of this pool has one owner: one container of one class, the pool's
\* free list, or the thread that carries it from one to the other; the slab's
\* header names the class that holds it, and no class when none does.
SlabSingleOwner ==
    \A s \in Slabs :
        /\ Occurrences(s) = IF s \in PoolSlabs THEN 1 ELSE 0
        /\ \A c \in Classes : s \in ClassSlabs(ac[c]) <=> s \in PoolSlabs /\ header[s].classId = c

\* What a drain waits for can happen: a chunk its alloc map calls allocated is
\* with a caller, who can free it, or on the class's free list while
\* startSlabRelease() is still pruning the list.
DrainWaitsOnlyForLiveChunks ==
    \A c \in Classes : \A s \in DOMAIN ac[c].slabAllocMap : \A i \in ChunkIdx(c) :
        ac[c].slabAllocMap[s][i] =>
            \/ Chunk(s, i) \in Live
            \/ /\ Chunk(s, i) \in ToSet(ac[c].freedAllocations)
               /\ \E t \in Threads : At(t, "srPrune") /\ frame[t].slab = s

\* While forEachAllocation() walks a slab, the slab stays with the class and
\* is not marked for release: the walk holds startSlabReleaseLock_, and the
\* header was tested under lock_ after the lock was taken.
IterationExcludesRelease ==
    \A t \in Threads : At(t, "feIter") =>
        /\ HeaderAllowsIteration(frame[t].cls, frame[t].slab)
        /\ frame[t].slab \in ClassSlabs(ac[frame[t].cls])

\* The three records of a drain agree: a slab's header is marked for release
\* exactly while its class has an alloc map for it, the class has an alloc map
\* exactly for the slabs a context or a pruning startSlabRelease() drains, and
\* activeReleases_ counts the contexts.  An abort, by shouldAbortFn() or by
\* abortSlabRelease(), leaves none of the three behind.
ReleaseBookkeeping ==
    \A c \in Classes :
        /\ DOMAIN ac[c].slabAllocMap = Draining(c)
        /\ ac[c].activeReleases = Cardinality(Drainers(c))
        /\ \A s \in Slabs :
             IsMarkedForRelease(s) /\ header[s].classId = c <=> s \in Draining(c)

\* The pool implements its contract.  Every step of allocate(), free() and the
\* slab release leaves the slabs of the pool and the chunks callers may use as
\* they are, or does one thing a caller can see: makeNewSlab() within maxSize_,
\* freeSlab() of a slab no caller has a chunk of, the return of a chunk nobody
\* has, or the free() of a chunk.
ImplementsContract == Contract!Spec

\* The classes implement the release of slabs that AllocationClass.h promises.
\* A slab leaves its class in the step that picks it, when it has no active
\* allocation, or by completeSlabRelease() once every chunk its alloc map
\* waited for is freed, and never while one is still with a caller; a slab that
\* is drained stays drained until it is completed: abortSlabRelease() refuses
\* it, and no chunk of it is handed out again.
ImplementsSlabRelease == Release!Spec

\* Only an abort loses memory, abortSlabRelease() or the undo of a
\* startSlabRelease() that shouldAbortFn() stops, and only the memory callers
\* freed into the alloc map of the slab whose release is aborted (the header
\* of abortSlabRelease() says that these are not restored).  The undo puts
\* every chunk pruneFreeAllocs() had taken off the free list back on it,
\* whatever allocate() and free() did between the batches, and no other step
\* of any call loses a chunk.
LossOnlyByAbort ==
    [][\A c \in Classes : \A ch \in Lost(c)' : ch \in Lost(c) \cup DrainFreed(c)]_vars

\* Once startSlabRelease() has returned a context for a slab, no further chunk
\* of the slab reaches a caller: the free list holds none after
\* pruneFreeAllocs(), and the mark in the header stops allocate() from carving
\* the slab.  What completeSlabRelease() waits for only shrinks.
DrainNeverGrows ==
    [][\A t \in Threads :
          ctx[t] # NoCtx /\ ctx'[t] = ctx[t] /\ ~ctx[t].released =>
              \A ch \in Live' \ Live : ch.slab # ctx[t].slab]_vars

\* Every call returns: no thread stays in allocate(), free(), startSlabRelease()
\* or forEachAllocation() for ever.  Every path out of the slow path of
\* allocate() gives up lock_, also the two that return nullptr and the one on
\* which releaseSlab() throws, and the loops of pruneFreeAllocs() and
\* forEachAllocation() end.
CallsReturn == \A t \in Threads : ~At(t, "idle") ~> At(t, "idle")

\* A drain ends: once startSlabRelease() has returned a context that is not
\* released, the chunks its alloc map waits for are chunks that callers hold,
\* so that when they are freed completeSlabRelease() finds the slab drained.
DrainCompletes ==
    \A t \in Threads : (ctx[t] # NoCtx /\ ~ctx[t].released) ~> (ctx[t] = NoCtx)

\* What checkState() tests holds whenever no call is in progress: the bytes
\* handed out are bytes of slabs the pool counts.
QuiescentCheckState == Quiescent => CheckState

=============================================================================
