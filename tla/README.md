# AviSynthMinus: a TLA+ verification project

AviSynth+ is a frame server: a script builds a graph of filters, the host asks
the last one for frame *n*, and requests travel down the graph.  Pixels are the
business of the filters.  What makes the core hard is everything around them:
caches that several threads fill and evict at once, a prefetcher that computes
frames ahead of their readers, a thread pool that is torn down while jobs are
queued, locks that filters share by name, and frames whose memory is recycled
under reference counts.  This directory models that part, checks it with TLC and
proves the central invariants with TLAPS.  All paths below are relative to
`src/avs_core/core/` unless they say otherwise.

## 1. Inventory

| Component | Source | State | Operations | Used by / uses |
|---|---|---|---|---|
| Frame cache | `LruCache.h`, `SimpleLruCache.h`, `ObjectPool.h` | two LRU lists (cached frames, ghosts of evicted ones), capacities, entries with `value`, `locks`, `state` | `lookup`, `commit_value`, `rollback`, `set_limits` | AvsCache, Prefetcher |
| Named global locks | `avisynth.cpp` 104-165 | map name -> (mutex, users) | `acquire`, `release` | filters, through the environment |
| Thread pool | `ThreadPool.cpp/.h`, `mpmc_bounded_queue.h` | ring buffer, `finished`, `NumRunning`, promises of a `JobCompletion` | `QueueJob`, `ThreadFunc`, `Finish`, `Join`, `Wait`, `Reset` | Prefetcher, ParallelJob users |
| AvsCache, video | `cache.cpp` 160-294 | one LruCache per cached filter | `GetFrame`, cache hints | memory manager |
| AvsCache, audio | `cache.cpp` 303-640 | sample buffer, its window, score, policy | `GetAudio`, hints | CacheGuard |
| CacheGuard | `cache.cpp` 640-897 | one AvsCache per device, recorded hints | `GetCache`, `SetCacheHints` | MTGuard |
| Prefetcher | `Prefetcher.cpp` | pattern detection, `running_workers`, `worker_exception` | `GetFrame`, `SchedulePrefetch`, `ThreadWorker`, destruction | LruCache, ThreadPool |
| Device transfer | `DeviceManager.cpp` | prefetch queue per device | as Prefetcher | LruCache, ThreadPool |
| Frame registry | `avisynth.cpp` 3400-3900, `interface.cpp` | buffers by size, free/used frames, reference counts | `NewVideoFrame`, `Subframe`, `MakeWritable`, `ShrinkCache` | everything |
| Memory manager | `avisynth.cpp` 4340-4470 | registry of caches in LRU order | `ManageCache` | LruCache limits |
| MTGuard | `MTGuard.cpp` | filter instances per thread, a lock | `EnableMT`, `GetFrame` | CacheGuard |
| Frame properties | `AVSMap.h`, `avisynth.cpp` 2700-2760 | copy-on-write maps | get, set, drain at shutdown | frames |
| BufferPool | `BufferPool.cpp` | free buffers by size | `Allocate`, `Free`, `FreeAll` | filters |
| Parser, plugins, C interface, filter graph dump, filters | elsewhere | sequential or numeric | | |

How they interact: a reader's request passes an AvsCache, whose LruCache either
answers, makes the reader wait for another thread that computes the same frame,
or makes it the producer.  A producer calls the next filter *without* any lock.
The Prefetcher takes the producer's handle in the reader's thread and passes it
to a job; the job, in a pool thread, commits or rolls back.  The order of locks
is CacheGuard's mutex, the environment's memory mutex, LruCache's mutex; the pool
has two mutexes that are never nested the other way round.

### What is hard, and what correctness means

* **Raw entry pointers across waits.**  `lookup` sleeps on a condition variable
  inside an entry that other threads may evict, remove or recycle.  Correct: an
  entry somebody owns or waits on is never recycled; its lock count is exact.
* **Hand-over after a failure.**  A producer that throws passes its role on to
  one waiter.  Correct: one producer per unfinished entry, no orphaned entry, no
  forgotten waiter, no reader with a wrong or half-written frame.
* **Notification after unlock.**  `commit_value`, `rollback`, `push_front` and
  `pop_back` notify when they have released the mutex.  Correct: no lost wake-up.
* **Closing a pool under load.**  `Finish` meets blocked clients, sleeping and
  running workers.  Correct: it returns, afterwards nothing runs, every job is
  either run, refused or given back, exactly once.
* **Nodes erased under a waiter.**  The named locks keep an iterator while they
  wait outside the registry lock.  Correct: mutual exclusion per name, no dangling
  iterator, no leaked node.
* **A job that carries a handle.**  The Prefetcher's reader looks a frame up and
  passes the handle through the pool to a worker.  Correct: however jobs fail, are
  refused or are left over, the entry has one owner until it is committed or rolled
  back, the worker count does not drift, and every `GetFrame` comes back.
* **Counts that move while they are read.**  Frames and buffers have reference
  counts that change without a lock while the registry, under its mutex, looks for
  a free buffer.  Correct: counts are exact, nothing is deleted under a holder, and
  whoever `IsWritable` lets write is alone on the buffer.
* **A window of samples.**  The audio cache shifts, restarts and extends a window
  and once gives up its mutex in between.  Correct: no copy leaves the buffer, and
  every answer is the clip's samples.
* **Bounds.**  Ring-buffer wrap-around, a cache whose entries are all locked,
  a capacity of zero.

`PROJECT.json` lists these hazards one by one, at the line where they bite, with
the properties that would catch them; for those without a property it says why.

## 2. Modules

| Module | Models | Role |
|---|---|---|
| `FrameEntries` | what the frame cache promises about the entry of a frame | abstract specification |
| `SimpleLruCache` | `SimpleLruCache.h` | list operations as operators |
| `LruCache` | `LruCache.h` and the protocol of its callers in `cache.cpp`, `Prefetcher.cpp` | specification, implements `FrameEntries` |
| `NamedLocks` | what the named locks promise: a request is granted only when no thread holds the name, or fails | abstract specification |
| `GlobalLock` | `GlobalLockManager` | specification, implements `NamedLocks` |
| `CircularBuffer` | `circular_buffer` | operators on a record |
| `JobFifo` | what the message queue promises | abstract specification |
| `ThreadPool` | `ThreadPool`, `mpmc_bounded_queue`, `JobCompletion` | specification, implements `JobFifo` |
| `Prefetcher` | `Prefetcher.cpp` | specification, built on `JobFifo`, its cache implements `FrameEntries` |
| `PatternDetector` | the interval detector of `Prefetcher::GetFrame` | specification |
| `FrameRegistry` | `FrameRegistry2`, `GetNewFrame`, `Subframe`, `MakeWritable`, the counts in `interface.cpp` | specification |
| `AudioCache` | the audio half of `AvsCache`, `CacheGuard::ApplyHints` | specification |
| `CacheManager` | `ManageCache`, `ShrinkCache`'s effect on caches | specification |
| `LruCacheProofs`, `GlobalLockProofs`, `ThreadPoolProofs`, `PrefetcherProofs`, `PatternDetectorProofs`, `FrameRegistryProofs`, `AudioCacheProofs` | | theorems |
| `ListLemmas` | | lemmas on lists without repetitions, induction and recursion, used by the proofs of the cache, the pool and the Prefetcher |
| `MCLruCache`, `MCGlobalLock`, `MCThreadPool`, `MCPrefetcher`, `MCFrameRegistry`, `MCAudioCache`, `MCCacheManager` | | instances for TLC (`PatternDetector` needs none) |

Two compositions carry the project.  `ThreadPool` is proved to implement `JobFifo`,
and `Prefetcher` is built on `JobFifo` (its `Pool`), so what is checked of the
Prefetcher holds over the real queue.  The Prefetcher's cache is LruCache's entry
protocol (state and locks per key) without storage, ghosts and growth.  Both are
proved to implement `FrameEntries`: a frame's entry is `ABSENT`, `EMPTY`,
`AVAILABLE` or `ROLLED_BACK`, it is computed by one producer at a time, those who
wait leave it only when it is committed or by taking over, it never goes away under
them, and only a committed entry nobody waits for is evicted.  So the two models of
one class, made from different call sites, are held to one contract; what the
contract does not say, that a waiter is resolved, is shown by `WaitersResolved`.

The modules also contain operators marked "Faulty": a definition changed the way
a plausible slip would change the code.  No specification uses them; each one,
put in the place of the definition that follows it, makes one property fail, which
is how the properties are known to have teeth.  The pairing is in `PROJECT.json`.

### LruCache

`order` and `slot` are MainCache (a list of keys and the entry stored under each),
`limits` its four capacity fields, `ghosts`/`ghostCap` the ghost list, `heap` the
`LruEntry` objects, `ghosted` their counters.  `pc`, `key` and `ent` say where
each caller is; `got` is the answer of the last lookup that reported
`FOUND_AND_READY`, with the frame it asked for.

An action is the code between two points where the mutex is given up.  `lookup`
is `LookupReady`, `LookupNotAvailable`, `LookupWait`, `LookupSuppressed` and
`LookupMiss` (trim, insert, ghost lookup, growth, second trim, in this order),
and after a wait `WaitAgain`, `WaitOver` or `TakeOver`.  `commit_value` is
`CommitValue` followed by `NotifyAll`, `rollback` is `RollbackRemove`, or
`RollbackHandOver` followed by `NotifyOne`.  `Fill` is the store through the
handle, outside the mutex.  Any thread may take any of the parameters `block` and
`suppress`: between them that covers AvsCache (blocking), Prefetcher's lookahead
(not blocking) and its `GetFrame` (blocking, never suppressed).

Abstractions: the content of frame *k* is *k*, so that a mix-up is visible; the
free lists are the choice of any entry not in use; `ghosted` counts to 2, because
only `> 1` is ever tested.  An entry removed by `rollback` is never returned to
`EntryPool` in the code; nothing refers to it, so the model may use its identity
again.  A notification that comes after the entry's storage has been recycled
reaches whoever waits on that storage then.  The pointer `g` into the ghost list
is taken to survive the trim in between (in the code that list has at least 50
places).

### GlobalLock

`namedMutexes`, `users` and `owner` are the map, `it` the iterator with which a
thread waits outside the registry lock, `held` what it has acquired.  `acquire`
is `ReserveExisting` or `ReserveNew`, then `LockMutex` or, when `mutex.lock()`
throws, `LockThrows`; `release` is `Release`.  Node addresses are recycled.
Threads release only what they hold and lock a name once, as `std::mutex`
demands; running out of memory inside the map is left out.

### ThreadPool

`buf` is the ring buffer with its three indices, `wpc/wjob`, `cpc/cjob` and `fpc`
are the positions of workers, clients and callers of `Finish`.  A pass through
the loop of `push_front` or `pop_back` is one action (`PushRefused`, `PushWait`,
`PushStore`; `PopFinished`, `PopWait`, `PopTake`), and the `notify_one` after the
unlock is another.  `Exit` is the worker's end under the pool's mutex; `Finish`
runs up to its wait, `FinishDrain` is the rest with `pop_remain`.  A job is named
by the number of the `QueueJob` call that made it; `fulfilled`, `left` and
`refused` are the three ways it ends.  Condition variables wake up
spuriously in all three models.

`completion` is a client's `JobCompletion`, the jobs of its batch in order.  `Get`
reads a future and leaves it invalid (written `NoJob`); a `Wait` that comes to an
invalid future throws and so ends as well.  `Add` on a full object throws and
changes nothing, so it is a guard.  `Reset` is taken to be called only when no job
of the batch is pending; the code does not check this.  Destroying a completion
is `Wait`, and a new one starts like one that was reset.  `Join` and the pool's
destructor are `Finish` and the joining of threads that have left.  Job code does
not itself queue jobs.

### Prefetcher

`order`, `state` and `locks` are VideoCache, `queue`, `closed` the pool, `closer`
who closed it.  A call of `GetFrame` is `AskFrame` (or `Rethrow`, when a worker has
failed before), the loop of `SchedulePrefetch` (`Advance`, then the lookup ahead:
`AheadFound` or `AheadMissing`, and for the latter `QueueJob` or, when the pool is
closed, `QueueCancelled`), `ScheduleDone`, the blocking lookup (`LookupReady`,
`LookupWait`, `LookupMiss`, `WaitOver`, `TakeOver`), `ChildAnswers` or
`ChildThrows`, and, once the frame is there, a second `SchedulePrefetch` that goes on
where the first one stopped, up to `GetFrameReturns`.  A worker is `StartJob`, `JobAnswers` or
`JobThrows`, and then `JobDone` or `JobFailed`, so that the commit or roll-back and
the counting off are separate steps.  `Destroy` and `DestroyRollback` are
`~PrefetcherPimpl`; `EnvJoin` and `EnvDiscard` are `~ScriptEnvironment`, which
joins every pool and drops what `Finish` returns.

The stride (`IsLocked ? LockedPattern : 1`) may be any at each call, which is more
than the unsynchronised detector fields can produce.  Not here: a cache without
capacity, calls while an `Invoke` runs (they go straight to the child), content.
`HandlesOwned` and `GetFrameComesBack` exclude a pool that the environment has
joined: the code does drop handles there, and a reader that still came would wait.

### PatternDetector

The fields of the detector, call after call.  `StayLocked`, `LosePattern` and
`GainPattern` are the branches; `steady`, `interval` and `wasLocked` remember what
the reader did, for the properties only.

### FrameRegistry

`vfb`, `refcount` and `registry` are the VideoFrame objects and where they are
listed, `data_size`, `vfbRefcount` and `free_count` the buffers, `held` who has a
`PVideoFrame` of what.  Each access to a count is an action: `Release` is the
decrement of the frame's count (`DropOld` in an assignment), `ReleaseBuffer` that of
the buffer's; `CheckFrame` and `CheckBuffer` are the two halves of
`IsWritable`.  `GetNewFrame` goes through `Search`, `AllocateWithin`,
`ShrinkCache`/`ShrinkCollect`, a second `Search`, `AllocateBeyond`, `CollectAll` and
the last allocation, under `memory_mutex`; `Adopt` is the first `PVideoFrame`.
`new` may throw in every allocation.  The two passes that delete free buffers
(`ShrinkCollect`, `CollectAll`) read each count when its turn comes, while other
threads release without the mutex; what they meet free is therefore any subset of
what is free at their end, since under the mutex a free buffer stays free.
`Subframe` and `RegisterSubFrame` are the two steps of a subframe; `Close` is
`frame_properties_closing`.  Sizes are rounded already, memory is the sum of the
buffers' sizes, there is one device.

### AudioCache

Sample *i* is represented by *i*, so a wrong offset is visible.  `AudioCache`,
`AudioCacheStart`, `CacheCount` and `MaxSampleCount` are the window, the `ac_`
variables the automatic policy.  `GetAudio` (clipping, score), `TestOn` and
`SwitchOn`, `TestOff` and `SwitchOff` (each test of the policy and the score, and the
call of `SetCacheHints` that follows it even if a hint has come in between),
`Decide`, `ReadDirect`, `Lock`, `Upsize`, `TooSmall` and then `KeepTail` (the read outside the
mutex), `Restart`, `Extend` (with `Shift` or `Forget`), `Hit`, and the end of the
child's read, `ReadDone` or `ReadFails`, which leaves unknown samples.  `torn` is
set by a failed read of a `Restart`: `CacheCount` has been set before it, so the
window then counts samples that were never read, and nothing is claimed from there
on.

Automatic switching frees or reallocates the buffer *before* the mutex is taken.
In the code nothing keeps it from doing so while another call copies under the
mutex, with undefined results (`cache.cpp:361`, a hazard no property covers).  The
model assumes that it does not fall into another call's critical section, and that
each `SetCacheHints` is one step; otherwise calls and hints interleave with it
freely, two readers in automatic mode included.  The score is updated in one step:
in the code a second caller may come between the addition and the clamping, which
moves the score by a few points and nothing else.  `realloc` is taken to succeed.
Sizes a hint asks for may exceed the 8 MB of automatic upsizing (`MaxSize`);
`BufferMax` bounds them.

### CacheManager

`CacheRegistry`, in LRU order, and `FrontCache`; of each cache the four capacities
and the number of entries.  `RegisterCache`, `UnRegisterCache`, `NodCache`,
`NodAndExpandCache` and `ShrinkCache` are the operations, `Store` and `Grow` what
lookups do meanwhile.  Whether memory is scarce is an input.  The oldest cache may be
the one that grows: it is then cut to one less than it has and grown afterwards, both
in `NodAndExpandCache`.

## 3. Runs

| Run | Instance | States | Shows |
|---|---|---|---|
| `lru_handover` | 2 threads, 3 frames, capacity from 0 to 2, grown by ghosts, shrunk by `set_limits`, 1 failure | 288 thousand | pointers stay live, the right frame, committed frames are final, both lists stay consistent, the size exceeds the capacity by at most one entry per thread, implements `FrameEntries` |
| `lru_live` | 3 threads, 1 frame, 2 failures | 27 thousand | locks are counted, one producer, an heir after every roll-back, whoever blocks in `lookup` is resolved |
| `lru_null` | 3 threads, 1 failure | stops at the trace | a disagreement, see section 6 |
| `global_lock` | 3 threads, 2 names, 3 node addresses | 1,285 | exclusion, valid iterators, exact counts, no leaked node, implements `NamedLocks` |
| `thread_pool` | 2 workers, 2 clients, 2 callers of `Finish`, 3 jobs, queue of 2 | 603 thousand | every job ends once, `NumRunning` is exact, `Finish` is final, implements `JobFifo` |
| `thread_pool_live` | 1 worker, 2 clients, 1 `Finish`, 3 jobs, queue of 1 | 118 thousand | `Finish`, `QueueJob` and `JobCompletion::Wait` return |
| `frame_registry` | 2 threads, 1 cache, 3 frames, 2 buffers, sizes 2 and 3, memory for 4 | 349 thousand | counts are exact, nothing dangles, no buffer is lost, a writer is alone, nothing goes away while the environment closes |
| `audio_cache` | 2 threads, a clip of 4 samples, buffers up to 3, requests that start before and end after the clip | 2.9 million | the window is right, every copy is in bounds, every answer is right |
| `prefetcher` | 2 callers, 1 worker, 1 frame ahead, queue of 1, 3 calls | 343 thousand | one owner per handle, exact worker count, bounded overlap, the cache implements `FrameEntries`, `GetFrame` comes back |
| `prefetch_pattern` | 10 frames, lock length 3 | 36 thousand | a locked detector follows its reader, never from lock to lock |
| `prefetch_pattern_lock` | as above | stops at the trace | a disagreement, see section 6 |
| `cache_manager` | 3 caches | stops at the trace | a disagreement, see section 6 |

**Bounds.**  Three callers of the cache are the least with which a waiter and a
late-comer compete around one roll-back; two failures make a chain of hand-overs.
Growth needs a frame that becomes a ghost twice and comes back, which three frames
in at most two slots give; `SizeMax` stands for the largest `size_t`.  With three
nodes and two names a name can be erased and registered at another address while
an old waiter is still there.  Three jobs in a queue of two (of one in the liveness
run) fill it, block a client and wrap both indices; two concurrent `Finish` calls
are what the environment's and the Prefetcher's destruction can produce.
Two threads and a cache make a frame that is found free, shared and released at
once; memory for little more than one buffer makes every path of `GetNewFrame`
happen, out-of-memory included.  In the audio run an automatic buffer has 1
sample, an upsized or default one 2, a hinted one 3, above the automatic maximum, and
the largest request, 4, fits none of them; one jump of the reader switches
caching on and one or two linear reads switch it off.  The Prefetcher's queue of one makes a reader block in
`QueueJob` behind its own worker, and three calls let one reader meet another's
job, its failure and its take-over; the safety properties were also checked with 2
frames ahead (4.5 million states) and with unlimited calls (10 million).
`MaxCalls`, `MaxFailures`, `Strides` and `Requests` bound what the code does not.

**Symmetry** is used for interchangeable threads, entries, frames and buffers, in
safety runs only.  **Deadlock** checking is off where the system really stops: the
thread pool and the Prefetcher when they are finished, and the one-property run of
`CacheManager`.

**Fairness.**  A thread that can take a step takes it: weak fairness of each
caller's `Step`, of each worker, client and finisher, and in the Prefetcher of
`CallerStep` and `WorkerStep`.  It says that operating-system threads are scheduled,
mutexes are handed out and `child->GetFrame` and jobs end.  Nobody has to call
anything, no clip has to be destroyed, and no spurious wake-up is counted on: a
waiter is resolved by notifications alone.

## 4. Proofs

TLAPS proves the following for every set of threads, frames, entries, nodes,
names, workers, buffers and jobs, and for every capacity, clip, request and hint:
every invariant, action property and refinement that a passing run checks.  Only
liveness is left to TLC.

**LruCache.**  From finitely many threads, a null pointer that is no entry, a
null frame that is no frame, and an entry for each frame (`ObjectPool` allocates
on demand).  `IInv` is the conjunction of the type invariant, `EntriesOK`,
`HandlesAreLive`, `LockAccounting`, `SingleProducer`, `HeirExists` and
`RightFrame`.  None of them is inductive alone: pointers stay live because entries
with locks are not evicted, so the count must be exact; `rollback` decides by
`locks = 1` whether anybody waits, which is right only because there is one
producer; a rolled back entry has an heir because the other locks belong to
waiters; and a reader gets the right frame because the entry is live and carries
its own key.  The proof has one lemma per action; the counting is done on the set
of threads that share an entry's locks.  `Invariance` is the theorem; the named
consequences are `PointersStayLive`, `SingleFlight`, `LocksCounted`,
`NeverAbandoned`, `CorrectFrame`, `EntriesConsistent`, `TypeCorrect`, and the action
property `PublishedFrameIsFinal`.

`LInv` adds the two lists and the capacities.  `ListsOK` and `SizeBound` lean on
`IInv` (an evicted key has an entry, without locks; there are no more locked keys
than threads that lock one, since each carries its key) and on `LimitsOK`: growing
never takes the capacity to zero, so the key a miss has just put in front is not
among those its own second trim takes.  The new key is the one entry the thread
adds, and that thread held no lock: hence one entry per thread and not one more.
What `trim` leaves is a recursive function of the list, and so is the row of ghosts
that evictions leave behind.  Nothing in the library says what such functions
compute in a form the provers can use, because the induction theorems take a
predicate as a parameter.  `ListLemmas` therefore states induction over sets of
naturals (`NatIsInductive`, from the well-foundedness of `<`) and the existence of a
function given by its first value and a step (`RecursionExists`); `WithoutFacts`
and `GhostsAfterOK` follow, and with them `ListsConsistent` and `SizeIsBounded`.

`Refinement` is the implementation of `FrameEntries`: the state of a frame's entry
is that of the `LruEntry` MainCache has for it, or `ABSENT`, and those who wait for
it are the callers asleep in `lookup` with that key.  A miss is a `Start`, with all
that its two trims evict; `set_limits` is an `Evict`; `rollback` is `Abandon` or
`HandOver`, by its test of `locks = 1`; `WaitOver` and `TakeOver` are `Answered` and
`TakeOver`; `CommitValue` is `Commit`.  Everything else, notifications, `Fill`,
spurious wake-ups, a lookup that is answered at once, leaves both alone.  The proof
needs the invariant in every case: a victim has no locks, therefore no waiter and no
producer, therefore it is `AVAILABLE`; the entry a waiter wakes up on is still the one
stored under its key; a producer with the only lock has nobody waiting.

**GlobalLock.**  `IInv` adds to the type invariant that a node belongs to one
name, that waiters' iterators are registered, and that `users` is the number of
waiters and holders.  It gives `Exclusion`, `IteratorsValid`, `UsersExact` and
`NoLeak`, and `Refinement`.  The mapping is the identity on `want` and `held`: what a
thread has asked for and what it has acquired are the same in both specifications,
and the nodes, their owners and counts are what `NamedLocks` does not have.  There a
name is granted only when no thread has it in `held`; in the manager a thread looks
only at the mutex of its own node.  The step from one to the other is the invariant:
a waiter's node is the registered one (`NoDanglingIterator`), and whoever holds the
name owns the mutex of the registered node (`OwnerRegistered`), so a free mutex means
that nobody holds the name.  A release or a failed lock that erased a node in use would
end this, and does so in the mutants.  `WaitsOrIdle` says that a thread without an
iterator has no request open.

**ThreadPool.**  From a non-empty finite set of workers and a positive capacity.
`IInv` is the type invariant (which includes that the ring buffer's indices stay
in the array), the exactness of `NumRunning`, and `ControlOK`: nobody leaves
before `finish()`, a job is held only between `pop_back` and its end, `Finish`
returns only when nobody runs.  `CountIsExact` and `FinishMeansOver` follow.
`JInv` strengthens it by what happens to jobs: `head` is `tail + size` modulo the
capacity, `HandsOK` says exactly in which places a worker or a client has a job in
hand, and the six places a job can be in share none and miss none.  A step that moves
a job takes it from one place and puts it in another; the others move none.
`NoJobLost` is the consequence, and `QueueIsFifo` the refinement: with the queue
mapped to the contents of the ring buffer in order, `PushStore` appends, `PopTake`
takes the first, `FinishDrain` empties, wrap-around included, and everything else
stutters.

**Prefetcher.**  From finitely many callers and workers and a set of frames that has
the clip's.  `IInv` says that handles are apart (no two of the callers that are about to
queue or compute, the queued jobs and the busy workers have the same frame), and of
each entry that it is `EMPTY` if somebody has its handle, that `locks` is the number of
its waiters and one more while it is `EMPTY`, that it is not gone while somebody waits
and that a rolled back one has a waiter; only that an `EMPTY` entry has an owner ends
when the environment drops handles.  The counter is similar: `running_workers` is
never less than the jobs under way and equal to them while the pool is open; and those
beyond `nPrefetchFrames` are covered by the callers that have passed the test and not
yet raised it.
`HandlesAreOwned`, `CounterIsExact` and `OvershootIsBounded` follow, and `Refinement`:
lookups ahead and in `GetFrame`, jobs that commit or fail, take-overs and the
destructor's roll-back of all the jobs left in the queue (one `Abandon` of several
entries) are steps of `FrameEntries`.  Handles the environment drops stay `EMPTY` for
ever, which the contract, being about safety, allows; `GetFrameComesBack` is where
that case has to be excluded.

**FrameRegistry.**  From finite sets of holders, frames and buffers and positive sizes.
`IInv` adds to the counts that `memory_mutex` is with the one thread inside the
allocation (`MutexOwned`), what a search may still find (`ClosedToSearch`), that a
thread inside `GetNewFrame` has asked for something (`Requested`), that the frame to
be dropped in an assignment is held (`OldHeld`), that frames in hand are listed unless
they are new subframes and are all different (`ListedUnlessSub`, `InHandApart`), and
that what the first half of `IsWritable` saw remains true until the second
(`CheckedStays`): a frame with one holder, who is busy checking it, cannot be shared by
anybody else, and a buffer with one user cannot get another one except through that
frame.  The results are `CountsAreExact`, `NothingIsDangling`, `NoBufferIsLost`,
`WritersAreAlone` and the action property `DrainIsSafe`.

**PatternDetector.**  From a positive clip length and lock length.  `FollowsReader`
is not inductive: it needs to know how the counters relate while the reader is
under way.  `HitsTrailMisses` says that off the locked pattern every hit was a miss
first, `HitsKeepUp` that since the reader changed its interval either it has been
locked on or the hits have kept up with the repetitions.  `ReaderIsFollowed` and
the action property `RelockIsIndirect` follow, the latter says that one branch of
`GetFrame` is dead code.

**AudioCache.**  From sizes that are naturals with default and automatic size within
the automatic maximum, requests of at least one sample, hints up to any `BufferMax`
that is not below it, and marks
(`Silence`, `Junk`) that are no samples.  `WindowIsRight` alone is not inductive:
another thread might read into the window (`MutexOK` excludes it), the child might
be asked for samples beyond the window's end and leave a gap (`NoGap`), a shift
might move the window past the request (`InBounds`), and a request might reach
beyond the clip (`CallsOK`).  The lemmas follow what a step touches: steps that
leave the window alone, that change the buffer, that move the window, that give up
the mutex.  `WindowCorrect`, `CopiesInBounds` and `AnswersCorrect` are the results;
they hold until the read of a restart fails (`torn`), as the properties say, and
under the assumption on automatic switching above.

**Only model-checked.**  The liveness properties `WaitersResolved`, `FinishReturns`,
`QueueJobReturns`, `WaitResolved` and `GetFrameComesBack`: fairness and `ENABLED` are
out of the prover's reach.  The three disagreements of section 6 are traces, not
theorems.

**What the proofs found.**  `NothingDangles` did not say that the buffer saved by a
`Release` under way is a buffer at all; it does now.  The Prefetcher's assumption on
its frames left out that the clip's frames are among them.  `ListsOK` did not say that
the ghosts' capacity is a number.  The Prefetcher's invariant bounded `locks` only from
below once the environment had dropped handles, which does not exclude an idle entry
that is locked for ever or a rolled back one nobody will take over; the refinement
needed the exact count, TLC confirmed it, and it is inductive without exceptions.

## 5. Reading a property back into the code

* `HandlesAreLive`, `LockAccounting`: `++(entry->locks)` in `lookup` is the only
  thing between a sleeping reader and `MainEvictEvent`.
* `SingleProducer`, `HeirExists`: the switch after `ready_cond.wait`, and
  `rollback`'s test of `locks == 1`.
* `KeepsContract`: `entry->locks` in `MainEvictEvent`, the test `locks == 1` in
  `rollback` and the state a waiter finds after `ready_cond.wait`, taken together.
* `CommittedIsFinal`: the comments "fill result before Commit!" and "not after
  commit!" in `cache.cpp` and `Prefetcher.cpp`.
* `Reclaimed`, `NoDanglingIterator`: the reservation in `GlobalLockManager`.
* `HandlesOwned`: the lookup in `SchedulePrefetch`, `p->cache_handle` on its way
  through the queue, and the roll-back of left-over jobs in `~PrefetcherPimpl`.
* `WorkersCounted`: both ends of `ThreadWorker` count off.  When `QueueJob` throws
  nobody does, which happens only on a closed pool; the property excludes that.
* `OverlapBound`: `running_workers` is tested and raised in separate steps.
* `CountsExact`, `NothingDangles`: `VideoFrame::Release` reads `vfb` before it
  decrements, since the frame may be reused or deleted at once.
* `WriterIsAlone`: `IsWritable` reads two counts one after the other.
* `WindowIsRight`, `InBounds`: the shift in `GetAudio` and the second look at
  `MaxSampleCount` after the read outside the mutex.
* `JobsConserved`, `FifoSpec`: `circular_buffer` and the two wait loops.
* `WaitResolved`: `QueueJob` takes the promise before it knows whether the queue
  accepts the job.  A refused or left-over job leaves a future that is never
  ready; the property states that this is the only way `Wait` can block.

## 6. Findings

`lru_null` checks what the comment on `LRU_LOOKUP_FOUND_AND_READY` ("Item has
been found and returned") and `assert(result != NULL)` in `AvsCache::GetFrame`
say.  TLC finds it violated: thread 1 produces frame *k*, thread 2 waits for it,
thread 1's child throws and `rollback` marks the entry `ROLLED_BACK`; before
thread 2 has the mutex, thread 3 looks *k* up, skips the wait loop because the
state is not `EMPTY`, and is given the null value as a success.  `RightFrame`
therefore allows null, and says that nothing else can go wrong with the answer.

`prefetch_pattern_lock` checks the comment on `PATTERN_LOCK_LENGTH`, "The number of
intervals a pattern has to repeat itself to become (un)locked".  While nothing is
locked `GetFrame` never sets `Pattern`, which starts as 1, so a reader that begins
with any other interval is never locked on; TLC gives the shortest such sequence of
requests.  `FollowsReader` says what does hold: a detector that is locked follows.

`cache_manager` checks the comment in `MC_NodAndExpandCache`, to take a slot away
from "a cache instance that hasn't been used since long".  The size read there is
that of the cache that grows, not of the one to be shrunk, so the latter may be left
with room for everything it has.

## 7. Plan

Done: the frame cache, the named locks, the pool, the Prefetcher over both, the
pattern detector, the frame registry, the audio cache and the memory manager; the
contracts of the locks, the queue and the frame cache; the proofs of section 4.  Left:
`CacheManager` composed with `FrameRegistry`, so that memory is scarce as a
consequence of the frames the caches hold.

## 8. Not modelled

* **MTGuard.**  `GetFrame` and `GetAudio` hold the `lock_guard` of the instance they
  chose for the whole call: exclusion holds by construction.  What could go wrong is
  `EnableMT` replacing the instances under a running call, and that depends on when
  a host evaluates a script, which is outside `src/`.
* **BufferPool.**  A map of free buffers that one thread environment uses at a time.
* **CacheGuard's list of caches** per device and the replay of hints on a new one:
  with one device there is one cache.  **QueuePrefetcher and device transfer** repeat
  the Prefetcher's protocol for hardware that the default build leaves out.
* **The drain loop of frame properties at shutdown** runs user destructors; the model
  has what it relies on (`ClosingKeepsFrames`).
* **Parser, plugin loading, C interface, filter graph dump, filters.**  Sequential,
  numeric or operating-system code without a state machine of their own.  They are
  also nearly all of the repository: of some 125,000 lines a third are the tables of
  built-in fonts, most of the rest filters, converters and SIMD kernels, audio and
  video file readers, the script language and its function tables.  The share of
  lines a model of the core can stand for is small for that reason.
* Within the modelled components: memory exhaustion outside the registry, debug
  output, statistics getters (`size`, `capacity`, read without the mutex), and the
  destruction of a cache that is still in use, which the shared pointers in the
  handles exclude.
