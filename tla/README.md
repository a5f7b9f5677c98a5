# TLA+ models of the Mooncake slab memory pool

This directory holds the TLA+ specifications of the slab memory allocator of
`mooncake-store` (derived from CacheLib), the TLC configurations that model-check
them, and `PROJECT.json`, which lists every component, run, mutant, source
mapping, finding and hazard in machine-readable form.

Sources modelled:

| short name | file |
|---|---|
| `MemoryPool.cpp` | `src/mooncake-store/src/cachelib_memory_allocator/MemoryPool.cpp` |
| `AllocationClass.h` | `src/mooncake-store/include/cachelib_memory_allocator/AllocationClass.h` |

`AllocationClass.cpp`, `Slab.h`, `SlabAllocator` and `MemoryPool.h` are not among
the sources. What the model needs of them is taken from the specification of
the allocator (`spec.md`) and is marked `spec_modelled` in the map of
`PROJECT.json`.

## 1. The system

### Components

| component | state | operations |
|---|---|---|
| **MemoryPool** | `lock_`, the atomic counters `currAllocSize_` and `currSlabAllocSize_`, the list `freeSlabs_`, the constant `maxSize_`, the vector `ac_` of classes | constructor, `allocate`, `getSlabLocked`, `free`, `releaseSlab`, `releaseFromFreeSlabs`, `startSlabRelease`, `completeSlabRelease`, `abortSlabRelease`, `getCurrentUsedSize`, `allSlabsAllocated`, `getAllocationClassId`, `checkState` |
| **AllocationClass** | `lock_`, `startSlabReleaseLock_`, `currSlab_`, `currOffset_`, `allocatedSlabs_`, `freeSlabs_`, `freedAllocations_`, `slabReleaseAllocMap_`, `canAllocate_`, `activeReleases_` | `allocate`, `free`, `addSlab`, `addSlabAndAllocate`, `startSlabRelease` (pick a slab, mark it, prune the free list in batches), `completeSlabRelease`, `abortSlabRelease`, `forEachAllocation`, `isFull` |
| **MemoryFreeList** | `head`, `tail`, `next` and `prev` of every `MemoryAllocInfo_` | constructor, `push_front`, `pop_front`, `front`, `empty`, `release` |
| **SlabAllocator, slab headers** | one header for each slab: pool id, class id, allocation size, the mark `markedForRelease` | `makeNewSlab`, `freeSlab`, by this pool and by other pools |
| **SlabReleaseContext** | slab, class, mode, receiver, `isReleased()` | created by `startSlabRelease`, consumed by `completeSlabRelease` or `abortSlabRelease` |
| **Callers** | the chunks they hold, the context they hold | any number of threads that call the pool concurrently |

### How they interact

A caller's `allocate(size)` maps the size to a class and asks the class, under
the class's lock. When the class has nothing and the pool may still grow, the
caller takes the pool's `lock_`, asks the class again, takes a slab from
`freeSlabs_` or from the SlabAllocator (`getSlabLocked`, which reserves
`Slab::kSize` in `currSlabAllocSize_` first and gives it back when the
SlabAllocator has no slab), and hands the slab to the class. `free` gives the
chunk back to the class, releases the slab if the class reports it unused, and
only then subtracts the size from `currAllocSize_`.

A slab leaves a class by the release protocol: `startSlabRelease` picks a slab,
marks its header, records which chunks are allocated and prunes the freed ones
from the free list, in batches between which `shouldAbortFn()` may stop it. If
chunks are still held the caller gets a context and later calls
`completeSlabRelease`, which blocks until the holders have freed them, or
`abortSlabRelease`. `releaseSlab` then moves the slab to the SlabAllocator
(`kResize`), to a receiver class or to the pool's `freeSlabs_` (`kRebalance`).
`forEachAllocation` walks the chunks of one slab: it keeps releases out with
`try_lock` on `startSlabReleaseLock_` and then reads the slab's header under
the class's `lock_`.

### What is hard about it

The counters are atomics read without `lock_`; the test that the pool is full is
repeated under the lock; a slab travels in several steps of several calls; a
drain runs beside `allocate` and `free` of the same class; an abort leaves the
class half-way through a release; the blocking call depends on other threads.
The list of hazards in `PROJECT.json` names each of these at the line where it
bites, with the properties that guard it.

## 2. The modules

| module | models | kind |
|---|---|---|
| `AllocationClass` | the state of one allocation class as a record, the slab headers, the chunks callers hold, and every member function of a class as an operator from class state to class state | operators and state, used by `MemoryPool` |
| `MemoryPool` | the pool, its callers as threads with a program counter, the SlabAllocator as seen from the pool, release contexts; `EXTENDS AllocationClass` | the detailed specification |
| `PoolContract` | what a pool promises: it owns at most `Capacity` slabs, lends each chunk to one caller at a time, a slab leaves only when no chunk of it is lent | abstract specification |
| `MemoryFreeList` | the list of freed allocations with its pointers as state | detailed specification |
| `SlabRelease` | the release of a slab as the comments of `AllocationClass.h` promise it to the users of a class: every slab is absent, inactive, starting, draining or drained, and `Moves` lists the changes a step may make | abstract specification |
| `MCMemoryPool`, `MCMemoryFreeList` | the sets and sequences the configurations substitute for the constants, and the symmetry sets | model-checking modules |

### Correspondence of state

| variable | code |
|---|---|
| `ac[c]` | the member variables of `AllocationClass` number `c`: `currSlab`, `currOffset`, `allocatedSlabs`, `freeSlabs`, `freedAllocations`, `slabAllocMap` (`slabReleaseAllocMap_`), `canAllocate`, `activeReleases` |
| `header[s]` | the `SlabHeader` of slab `s` |
| `held` | the chunks `allocate()` has returned and `free()` has not been given |
| `currAllocSize`, `currSlabAllocSize` | the two atomics, as numbers modulo `SizeTModulus` (they are unsigned `size_t`) |
| `freeSlabs` | `MemoryPool::freeSlabs_`, a sequence used at its back |
| `lock` | the thread that holds `MemoryPool::lock_` across the steps of the slow path of `allocate()` |
| `pc[t]`, `frame[t]` | where thread `t` is in its call, and the locals of that call |
| `ctx[t]` | the `SlabReleaseContext` thread `t` was given |

### Correspondence of actions

One action is one critical section of the code or one access to an atomic. A
call that takes several locks or touches several atomics is a chain of actions,
linked by `pc`, and other threads run between them.

| call | actions |
|---|---|
| `allocate` | `Allocate` (class lock, fast path), `AllocateInvalidSize` (throws), `AllocateCheck` (`allSlabsAllocated()` without lock), `AllocateRetry` (takes `lock_`, asks the class again), `GetSlabLocked` (free list or reservation), `MakeNewSlab` (the SlabAllocator has none: un-reserve, unlock, return null), `TakeNewSlab`, `AllocateFromNewSlab` (`addSlabAndAllocate`, unlock), `AllocateDone` (adds to `currAllocSize_`) |
| `free` | `Free` (class lock), `FreeInvalid` (throws), `ReleaseSlab` (when the class reported the slab unused), `FreeCount` (subtracts from `currAllocSize_`) |
| `releaseSlab` | `ReleaseToSlabAllocator` (`kResize`), `ReleaseToReceiver`, `ReleaseToReceiverThrows` (the pool has no class of the receiver's id), `ReleaseToFreeSlabs` in two steps: push under `lock_`, then the decrement |
| `startSlabRelease` | `StartSlabReleaseInvalid` (throws: receiver or victim against the mode, or a victim the pool has no class for), `ReleaseFromFreeSlabs` (victim `kInvalidClassId`), `StartSlabRelease` (takes `startSlabReleaseLock_`), `PickSlabForRelease` (mark, alloc map), `PruneFreeAllocsStep` (one batch, with the value of `shouldAbortFn()`) |
| `completeSlabRelease` | `CompleteReleased` (context already released), `CompleteSlabRelease` (enabled when every chunk is freed: the blocking wait is the guard), then the `releaseSlab` chain |
| `abortSlabRelease` | `AbortSlabRelease`, `AbortSlabReleaseInvalid` |
| `forEachAllocation` | `ForEachAllocation` (`try_lock`: the slab is skipped or the lock taken), `ForEachHeaderCheck` (the header under the class's `lock_`: the slab is skipped and the lock given up, or the walk begins), `ForEachCallback` (one chunk, with the callback's answer) |
| other pools | `OtherPoolMakeNewSlab`, `OtherPoolFreeSlab` |

Several actions are written as a general form with a parameter (`RetryUnderLock`,
`GetSlab`, `NewSlab`, `AddToReceiver`, `TakeFreeSlab`, `CompleteIf`, `Push`, `Pop`,
`Unlink`) and the code's action is that form with the value the code uses. The
other uses of the form are the deliberately wrong variants the mutation runs
substitute (section 5).

### Modelling decisions

* A critical section under a class's `lock_` is one step. The pool's `lock_`
  is held over several steps and is a variable.
* Throwing paths are steps that change nothing but the thread's `pc`. The one
  exception is `ReleaseToReceiverThrows`: the exception of
  `getAllocationClassFor(receiver)` leaves `releaseSlab()` after the slab has
  left its class, and the step returns with the slab in no place.
* A class id is a number: classes are `0 .. n-1`, `kInvalidClassId` is -1, and
  the sets `Victims` and `Receivers` of the configurations may hold ids past
  the last class (2 in `Progress.cfg` and `BadReceiver.cfg`). `ClassId` is a
  signed type of `ClassIdModulus` values, and `ToClassId` is the
  `static_cast<ClassId>` the two lookups apply to `ac_.size()`.
* `completeSlabRelease()` blocks while chunks are held: the action is enabled
  only when `AllFreed` holds, and the thread is idle until then. For safety
  this is what a blocked thread is. It leaves out one behaviour: a thread that
  holds a chunk of the slab and blocks in `completeSlabRelease()` cannot free
  it. The threads of the model free before they complete.
* `startSlabRelease()` of a class blocks on `startSlabReleaseLock_` in the same
  way: `StartSlabRelease` is enabled when the lock is free.
* Whether `AllocationClass::free()` ever returns true is not in the sources:
  the constant `EagerReclaim` chooses. When it does, the class gives the slab
  up in `free()` itself: `MemoryPool::free()` hands the slab to the
  SlabAllocator at once (`MemoryPool.cpp:264-266`) and calls the class no
  more, so a class that kept the slab would own memory the pool has returned.
  The specification calls the return value a signal and does not say which.
* Where the specification and the declarations of `AllocationClass.h` leave a
  choice, the model takes the reading under which the class can work, and the
  findings name the other:
  `canAllocateFromCurrentSlabLocked()` tests the mark of the current slab (the
  steps of `allocate()` in the specification do not, its invariants ask for
  it); the alloc map of a drain calls only carved chunks allocated (the
  specification says every chunk that is not on the free list);
  `addSlabAndAllocate()` is `addSlabLocked()` followed by `allocateLocked()`,
  the two helpers the header declares, which makes the new slab the current
  one when, as in the pool's call, the old one is used up or marked;
  `abortSlabRelease()` leaves `canAllocate_` alone.
* A class keeps one offset, `currOffset_`. A slab that stopped being the
  current one counts as carved to its end (`CarvedIdx`).
* The headers are stamped in the step that calls `addSlab()` or
  `addSlabAndAllocate()`; `MemoryPool.cpp` itself never writes one. The field
  `advised` is in the model because `forEachAllocation()` reads it; nothing in
  the sources sets it.
* The class's free list is first-in first-out, as `push_front()` and
  `pop_front()` of the header file make it.
* The statistics `nSlabResize_`, `nSlabRebalance_`, `nSlabReleaseAborted_`,
  the prefetches of `forEachAllocation` and the texts of exceptions are left
  out: nothing reads them.
* A thread holds at most one context. A context that `releaseFromFreeSlabs()`
  returned is never aborted: `abortSlabRelease()` would index `ac_` with -1,
  which has no outcome a model can name (see the findings).
* In `MemoryFreeList`, `next` and `prev` of a node have any value until the node
  is pushed: the class does not initialise them. `expected` is a history
  variable, the list a correct caller expects.

## 3. Runs

All pool runs use `SlabSize = 4`, allocation sizes `<<2, 3>>` (class 0 has two
chunks in a slab, class 1 one chunk and an unused tail), two threads,
`PruneLimit = 1`, `SizeTModulus = 32`, and `MaxSize = 8` (two slabs) unless
said otherwise.

| run | configuration | what it asks | result |
|---|---|---|---|
| `accounting` | `Accounting.cfg`: 2 slabs, one of which other pools may take; requests 0, 2, 3, 4; eager reclaim; resize | Are both counters exact in every intermediate state, does the slab counter stay within `maxSize_`, and is every step a step of `PoolContract`? | holds, 207,300 states |
| `rebalance` | `Rebalance.cfg`: 3 slabs; victim class 0; receiver class 1 or the pool's free list; any hint | Is a chunk ever handed out twice, a live chunk without its slab, a slab with two owners or none, a drain waiting for a chunk nobody holds, a chunk of a draining slab handed out, the pool above its size, `getCurrentUsedSize()` off by more than the slab a `releaseSlab()` is moving, a carved chunk that is with no caller and on no list? | holds, 367,189 states |
| `release_protocol` | `AbortIteration.cfg`: 2 slabs; requests of class 0 only; any hint; `shouldAbortFn()` true or false; both threads abort; both slabs walked, as slabs of either class | Do mark, alloc maps and `activeReleases_` agree in every state, is a walked slab never under release, is every step a step of `SlabRelease`, and does a step lose any chunk but the ones freed into the alloc map of the slab whose release it aborts? | holds, 410,318 states |
| `progress` | `Progress.cfg`: `FairSpec`, 1 slab, which is also walked; both modes; victims class 0, `kInvalidClassId` and 2; receivers `kInvalidClassId` and 2 | Does every call return, also the ones that throw and the loops of `pruneFreeAllocs()` and `forEachAllocation()`, does every drain end, and is a held chunk always in a slab of its class? | holds, 30,536 states |
| `memory_free_list` | `FreeListNodes.cfg`: 3 nodes, no `release()` | Do the pointers hold the list the callers expect, first in, first out, and does `tail` name the last node? | holds, 6,280 states |
| `memory_free_list_cuts` | `ReleaseCuts.cfg`: 3 nodes, `release()` of any expected node | Does `release()` ever link a node in or reorder the list? | holds, 19,501 states |
| `free_list_resize` | `FreeListResize.cfg` | `QuiescentCheckState`: between calls the pool passes its own `checkState()` | **violated** |
| `eager_iteration` | `EagerIteration.cfg`: eager reclaim with walks | `IterationExcludesRelease` | **violated** |
| `odd_max_size` | `OddMaxSize.cfg`: `MaxSize = 6` | `SlabCounterWithinMax` | **violated** |
| `abort_leak` | `AbortLeak.cfg`: aborts allowed | `DrainWaitsOnlyForLiveChunks` | **violated** |
| `bad_receiver` | `BadReceiver.cfg`: rebalance from class 0 to the pool or to class 2, which the pool does not have | `SlabSingleOwner` | **violated** |
| `memory_free_list_release` | `FreeListRelease.cfg`: `release()` allowed | `ListIsExpected` | **violated** |

### The properties

Invariants of `MemoryPool`:

* `TypeOK`: the one type invariant.
* `SlabAccountingExact`: `currSlabAllocSize_` is `Slab::kSize` times the slabs
  the classes hold plus the reservations and minus the decrements in flight.
* `AllocAccountingExact`: `currAllocSize_` is the sum of the sizes of the chunks
  callers hold, corrected by the additions and subtractions in flight.
* `SlabCounterWithinMax`, `PoolSlabsWithinMax`: the counter, and the number of
  slabs the pool really holds, never pass `maxSize_`.
* `UsedSizeTracksPoolSlabs`: whenever `lock_` is free, which is when
  `getCurrentUsedSize()` can run, also in the middle of other threads' calls,
  its result is the size of the slabs whose header names the pool plus one
  `Slab::kSize` for every `releaseSlab()` that has pushed its slab on
  `freeSlabs_` or given it away and has not yet subtracted it. The window of
  `MemoryPool.cpp:295-301` is in the formula; nothing else makes the result
  differ.
* `ChunkExclusive`: no chunk is held, or on its way to a caller, twice; no
  chunk is at once held and on a free list; none is on a free list twice or
  on the lists of two classes.
* `LiveChunksBacked`: a held chunk lies in a slab of its class, with a header
  that names the pool and the class.
* `SlabSingleOwner`: every slab is in exactly one place: a class, the pool's
  free list, a call in progress, or the SlabAllocator.
* `DrainWaitsOnlyForLiveChunks`: a chunk the alloc map of a draining slab calls
  allocated is held by a caller, or about to be.
* `IterationExcludesRelease`: the slab a walk is on is in its class and not
  marked.
* `ReleaseBookkeeping`: a slab is marked exactly when it has an alloc map and a
  context, and `activeReleases_` counts them.
* `NoChunkLost`: without aborts, every chunk a class has carved out of a slab
  it holds is with a caller, on the class's free list, taken off it by a
  `startSlabRelease()` in progress, or freed into the alloc map of a marked
  slab. `ChunkExclusive` says a chunk is in at most one place; this says it is
  in at least one, through every order of `allocate()`, `free()`, releases and
  slabs that come back from the pool and are carved again.
* `QuiescentCheckState`: what `checkState()` tests, in states between calls.

Temporal properties of `MemoryPool`:

* `ImplementsContract`: `MemoryPool` implements `PoolContract` under the
  refinement mapping `owned <- PoolSlabs`, `lent <- Live`,
  `Capacity <- MaxSize \div SlabSize`.
* `ImplementsSlabRelease`: `MemoryPool` implements `SlabRelease` under the
  mapping `phase[s] <- Phase(s)`, which reads the phase of a slab off its
  header, the alloc map of its class and the call that is pruning it. It says
  what no invariant does: an abort never returns a drained slab to service, a
  slab leaves a class only from `inactive` or `drained`, a mark is never put
  on a slab that is already under release, and one step moves one slab.
* `DrainNeverGrows`: no step hands out a chunk of a slab whose context is out.
* `LossOnlyByAbort`: the chunks a step loses were, before the step, freed into
  the alloc map of a marked slab. That is the loss the header of
  `abortSlabRelease()` announces (`AllocationClass.h:309`). The undo of a
  `startSlabRelease()` that `shouldAbortFn()` stops puts every pruned chunk
  back on the free list; the chunks callers freed into the alloc map between
  two batches go with the map, and the property allows that loss too.
* `CallsReturn`: a call that has started returns (liveness).
* `DrainCompletes`: a context that is not released is consumed (liveness).

Properties of `MemoryFreeList`:

* `ListIsExpected`: a walk from `head` sees exactly the list the callers expect.
* `TailIsLastNode`: while the list is not empty `tail` is its last node and has
  no successor.
* `ReleaseOnlyCuts`: the walk after a `release()` is a beginning of the walk
  before it.

### Bounds

* **Two threads** are enough for every race of the hazards list: each is
  between two calls, or between one call and the drain it waits for.
* **Two or three slabs with `MaxSize` of two slabs**: the pool reaches its
  limit, the SlabAllocator runs out (`ForeignSlabs` lets other pools take the
  last slab), and a slab can travel from class to class while another one is
  allocated from.
* **Sizes 2 and 3 in slabs of 4**: class 0 has a slab that is partly carved,
  partly freed and partly held at once; class 1 has the unused tail and a
  different chunk size, so a slab that changes class changes its layout.
* **`PruneLimit = 1`**: every freed chunk of a slab is a batch of its own, so
  `shouldAbortFn()` and other threads get in between any two.
* **`SizeTModulus = 32`**: the counters wrap as `size_t` does; 32 is above
  every value a correct pool reaches, so a wrap is visible as a value no sum of
  slabs gives.
* **Three nodes** for the free list: a head, a middle node and a tail, and all
  4,096 initial values of their `next` and `prev`.
* Nothing in the model counts without bound: every step moves slabs and chunks
  among finitely many places, so no state constraint is used.

* **`ClassIdModulus = 65536`**: the 16 bits the specification gives the class
  id of a header. With two classes the cast of `ac_.size()` is exact; the
  findings say what happens where it is not.
* **A class id of 2** stands for every id of `ac_.size()` or more: the code
  tests `cid < ac_.size()` and nothing else.

Symmetry over threads and slabs is used in the safety runs; the `progress` run
uses none.

Two properties are weaker than their names may suggest. `IterationExcludesRelease`
is checked with the `try_lock` and the test of the header as two steps, in the
order of the code; the model has no variant with the two in the other order.
`LiveChunksBacked` does not exercise the cast of `ac_.size()` in any run of
the table (see the findings).

### Fairness

`FairSpec` is `Spec` with:

* weak fairness of `Continue(t)`, the steps of a call in progress: the
  operating system schedules a runnable thread;
* strong fairness of `AllocateRetry(t)` and `ReleaseToFreeSlabs(t)`, the two
  steps that acquire `lock_`: a thread that waits for a mutex that is free
  again and again gets it. `std::mutex` does not promise this; the property is
  stated under that assumption;
* strong fairness of `CompleteSlabRelease(t)`: the thread blocks in
  `completeSlabRelease()` and is woken when the last chunk is freed;
* strong fairness of `FreeDrained`, a `free()` of a chunk of a marked slab: the
  owners of the allocations of a slab under release give them up. This is the
  obligation the interface puts on callers, and `DrainCompletes` says that it
  is sufficient.

No fairness is assumed of the start of a call: callers may stop calling.

## 4. Findings

| run | where | what |
|---|---|---|
| `free_list_resize` | `MemoryPool.cpp:282` | A slab rebalanced to the pool's free list and then released from it is counted out of `currSlabAllocSize_` twice; the counter ends below `currAllocSize_`, or wraps. |
| `eager_iteration` | `MemoryPool.cpp:264` | If `AllocationClass::free()` returns true, `free()` releases the slab with neither `startSlabReleaseLock_` nor the mark, beside a walk of `forEachAllocation()`. |
| `odd_max_size` | `MemoryPool.cpp:198` | With a `maxSize_` that is not a multiple of `Slab::kSize` the pool takes one slab more than `maxSize_`. |
| `abort_leak` | `AllocationClass.h:309` | Chunks freed during a drain that is aborted are on no free list; the next drain of the slab waits for them for ever. |
| `memory_free_list_release` | `AllocationClass.h:57` | `release()` of the head drops the list; `release()` of another node leaves it listed. |
| `bad_receiver` | `MemoryPool.cpp:290` | `startSlabRelease()` never tests that the pool has a class of the receiver's id. `releaseSlab()` finds out, by the exception of `getAllocationClassFor()`, after the slab has left the victim: the slab is in no class, on no list and not with the SlabAllocator, and `currSlabAllocSize_` counts it for ever. |
| – | `MemoryPool.cpp:130` | The lookups compare a class id with `static_cast<ClassId>(ac_.size())`. A pool with half as many classes as `ClassId` has values is built, and the cast is negative: `allocate()` works, `free()` and the release calls throw for every argument. Checked with `ClassIdModulus = 4` in the configuration of `rebalance`: `LiveChunksBacked` is violated by the first `allocate()`. |
| – | `AllocationClass.h:433` | The specification builds the alloc map of a drain with every chunk index that is not on the free list as allocated. For the current slab that counts the indexes never carved, which nobody can free: `completeSlabRelease()` would wait for ever. The model counts carved chunks only; with the rule as worded (`AllocMapOfWholeSlab`) `DrainCompletes` fails in `progress`. |
| – | `AllocationClass.h:359` | The steps of `allocate()` in the specification carve the current slab without a test of its mark, against the specification's own invariant. The model tests the mark; without the test (`CanAllocateIgnoresRelease`) `DrainNeverGrows` fails in `rebalance`. |
| – | `MemoryPool.cpp:255` | The pool never writes a slab header, although the specification says `addSlab` stamps it. |
| – | `AllocationClass.h:69` | The free list is first-in first-out; the specification calls it a LIFO. |
| – | `MemoryPool.cpp:130` | `getAllocationClassFor(ClassId)` does not test `cid < 0`; `abortSlabRelease()` reaches it with -1. |

## 5. Mutation runs

For every property of every passing run `PROJECT.json` names a definition that
models code and a variant of it with a plausible defect: a dropped test under
the lock, a missing pop, a decrement before the push, a prune batch that is one chunk
short, a pointer that is not cleared. TLC finds the property violated when the
variant replaces the definition, under the run's own configuration. The
variants are defined in the modules, directly before the definitions they
replace.

## 6. What is not modelled

* The bodies of `AllocationClass` member functions other than
  `forEachAllocation`, `isFull` and the accessors are not among the sources;
  the model follows the specification for them.
* The SlabAllocator's memory, memory advising, the address arithmetic of
  `getAllocIdx`, serialisation and the statistics.
* `isFull()` has no caller in the sources and its comment promises nothing
  (`AllocationClass.h:131-134`: a hint, not a guarantee). `canAllocate_` is
  state of the class and `IsFull` an operator; no property is stated of them.
* `isAllocFreed()` and `processAllocForRelease()` of a class only read the
  alloc map of a slab under release and change nothing.
* A context that is used twice, or after its slab has come back to the class.
  `abortSlabRelease()` and `completeSlabRelease()` take the context by const
  reference (`MemoryPool.cpp:356`, `:365`), so the caller keeps it, still
  unreleased, after the call, and nothing in it tells a stale context from a
  fresh one. `AllocationClass.h:313` makes a context whose slab "has not yet
  been released" the caller's duty. The threads of the model give a context
  up when the call that ends its release returns. With threads that keep it,
  a second `completeSlabRelease()` meets the alloc map of another thread's
  release of the same slab and takes the slab away under it; what the class
  does then is in `AllocationClass.cpp`, which is not among the sources, so
  the case is not checked.
* The use `AllocationClass` makes of `MemoryFreeList::release()` when it prunes
  the free list: the caller is in `AllocationClass.cpp`, which is not among
  the sources, and the specification tells implementers to disregard the list
  as it is written. A composition would have to invent the calls the class
  makes. `MemoryFreeList` is checked on its own, and `AllocationClass` uses
  the list as the sequence that `MemoryFreeList` is shown to hold.
* `std::lower_bound` in `getAllocationClassId(size)` is the standard
  library's; the model takes its result, the smallest class that fits, and
  does not model the search.
* `abortSlabRelease()` of the context `releaseFromFreeSlabs()` returns
  (`MemoryPool.cpp:358`): `getAllocationClassFor()` lets the class id -1
  through and indexes `ac_` with it. The behaviour is undefined and has no
  outcome a model could name; `Aborters` never abort such a context.
* The two `throw` statements of `completeSlabRelease()` for a context whose
  class or slab is not the pool's: the contexts of the model all come from
  `startSlabRelease()`, so the tests are guards that always pass.

`AllocationClass`, the SlabAllocator with the slab headers, and
`SlabReleaseContext` stay partly modelled for one reason: their bodies are
not in the repository. What the model has of them follows the declarations,
the comments of `AllocationClass.h` and the specification, and is marked so
in `PROJECT.json`.

## 7. Plan

Done: the pool with all its calls and the paths that throw, the classes, the
release protocol with abort and iteration, the pool's contract and the
refinement to it, the release protocol as an abstract specification and the
refinement to it, progress under fairness for every kind of release and for
walks, that no chunk is lost except by an abort, the free list with its
pointers.

Open (items 1 and 3 are out of reach of a five-minute run with the present
bounds):

1. A rebalance run with both classes as victims and receivers and with hints,
   so that a slab goes from class 0 to class 1 and back directly. With three
   slabs it has more than 3.5 million states. Without hints it has 352,161
   states and all invariants of `rebalance` hold; the run of the table keeps
   the hints and one victim class, and a slab still returns to class 0 by way
   of the pool's free list.
2. A run with a pool of half as many classes as `ClassId` has values, for
   the cast of `ac_.size()`, and a run with callers that keep a context after
   the call that ended its release.
3. `progress` with two slabs: the liveness check does not finish in five
   minutes. One slab, two chunks and two threads already has a drain that
   waits for both threads.

## 8. Running

```
cd tla
tlc -workers 2 -config Accounting.cfg MCMemoryPool
tlc -workers 2 -config FreeListNodes.cfg MCMemoryFreeList
```

Every configuration of the table in section 3 runs in under three minutes with
two workers.
