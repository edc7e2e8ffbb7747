----------------------------- MODULE Prefetcher -----------------------------
(***************************************************************************)
(* Prefetcher: a clip that computes frames ahead of its readers.           *)
(*                                                                         *)
(* Three actors share its state: the callers of GetFrame (the application, *)
(* or the workers of a prefetcher further down the script), the workers of *)
(* its own thread pool, and whoever takes the pool down: ~PrefetcherPimpl  *)
(* or ~ScriptEnvironment.                                                  *)
(*                                                                         *)
(* The two parts it is built from are used through what they promise.  The *)
(* pool is the bounded queue that can be closed of JobFifo, which          *)
(* ThreadPool implements.  The frame cache is reduced to the state and the *)
(* locks of each entry and the order of the keys: a caller that waits goes *)
(* on some time after the entry has changed, as WaitersResolved of         *)
(* LruCache says.  A job is the frame it computes, and the handle it       *)
(* carries is the cache entry of that frame.                               *)
(*                                                                         *)
(* Not here: LRU_LOOKUP_NO_CACHE, which needs a cache without capacity     *)
(* (Create refuses PrefetchFrames <= 0), calls made while an Invoke runs   *)
(* (SuppressThreadCount > 0), which go straight to the child, and the      *)
(* frames' content.                                                        *)
(***************************************************************************)
EXTENDS SimpleLruCache, FiniteSets, Integers

CONSTANTS
  Callers,          \* threads that call GetFrame
  Workers,          \* threads of the pool, nThreads of them
  num_frames,       \* vi.num_frames
  nPrefetchFrames,  \* constructor argument
  QueueCapacity,    \* of the pool: nThreads * 6 in the code
  MaxCalls,         \* bound: the number of GetFrame calls
  Strides,          \* bound: the intervals the readers use
  Frames            \* bound: the frame numbers these lead to

VARIABLES
  order,            \* VideoCache: keys, most recently used first
  state,            \* VideoCache: the state of each frame's entry
  locks,            \* VideoCache: the locks of each frame's entry
  queue, closed,    \* thread_pool: the jobs, and whether it was finished
  closer,           \* thread_pool: who finished it
  running_workers,  \* the atomic counter
  worker_exception_present,
  stride,           \* IsLocked ? LockedPattern : 1
  calls,            \* GetFrame calls so far
  pc, n, pos, again, \* callers: where they are, frame asked for, prefetch_pos,
                     \* and whether this is the second SchedulePrefetch
  wpc, job          \* workers: where they are, and with which frame

cacheVars  == <<order, state, locks>>
counters   == <<running_workers, worker_exception_present>>
detector   == <<stride, calls>>
poolVars   == <<queue, closed, closer>>
callerVars == <<pc, n, pos, again>>
workerVars == <<wpc, job>>
vars == <<cacheVars, poolVars, counters, detector, callerVars, workerVars>>

ASSUME SizesAssumption ==
  /\ {num_frames, nPrefetchFrames, QueueCapacity, MaxCalls} \subseteq Nat \ {0}
  /\ IsFiniteSet(Callers) /\ IsFiniteSet(Workers) /\ IsFiniteSet(Frames)
ASSUME FramesAssumption ==
  /\ 1 \in Strides /\ Strides \subseteq Int \ {0}
  /\ 0 .. num_frames - 1 \subseteq Frames /\ Frames \subseteq Int
  /\ \A f \in 0 .. num_frames - 1, d \in (1 - nPrefetchFrames) .. nPrefetchFrames - 1,
        s \in Strides : f + d + s < num_frames => f + d + s \in Frames

Capacity == nPrefetchFrames * 2

Pool == INSTANCE JobFifo WITH Jobs <- Frames, Capacity <- QueueCapacity

NoFrame == 0  \* in the variables of a thread that has nothing to do

TypeOK ==
  /\ state \in [Frames -> {"ABSENT", "EMPTY", "AVAILABLE", "ROLLED_BACK"}]
  /\ locks \in [Frames -> Nat]
  /\ queue \in Seq(Frames) /\ closed \in BOOLEAN
  /\ closer \in {"nobody", "destructor", "environment"}
  /\ running_workers \in Nat /\ worker_exception_present \in BOOLEAN
  /\ stride \in Strides /\ calls \in 0 .. MaxCalls
  /\ pc \in [Callers -> {"idle", "schedule", "ahead", "queueing", "lookup", "waiting",
                         "producing"}]
  /\ n \in [Callers -> 0 .. num_frames - 1] /\ pos \in [Callers -> Int]
  /\ again \in [Callers -> BOOLEAN]
  /\ wpc \in [Workers -> {"idle", "running", "committed", "rolledBack"}]
  /\ job \in [Workers -> Frames]

Init ==
  /\ order = <<>>
  /\ state = [f \in Frames |-> "ABSENT"] /\ locks = [f \in Frames |-> 0]
  /\ Pool!Init /\ closer = "nobody"
  /\ running_workers = 0 /\ worker_exception_present = FALSE
  /\ stride = 1 /\ calls = 0
  /\ pc = [c \in Callers |-> "idle"] /\ n = [c \in Callers |-> NoFrame]
  /\ pos = [c \in Callers |-> NoFrame] /\ again = [c \in Callers |-> FALSE]
  /\ wpc = [w \in Workers |-> "idle"] /\ job = [w \in Workers |-> NoFrame]

Abs(i) == IF i < 0 THEN -i ELSE i

-----------------------------------------------------------------------------
(* VideoCache                                                              *)

\* What the trim of an insertion takes: surplus entries nobody has locked.
Victims == {f \in Frames : f \in Surplus(order, Capacity) /\ locks[f] = 0}

\* NOT_FOUND: an empty entry, locked for its producer, at the front.
Insert(f) ==
  /\ order' = <<f>> \o Without(order, Victims)
  /\ state' = [k \in Frames |-> IF k = f THEN "EMPTY"
                                ELSE IF k \in Victims THEN "ABSENT" ELSE state[k]]
  /\ locks' = [locks EXCEPT ![f] = 1]

\* commit_value
Commit(f) ==
  /\ state' = [state EXCEPT ![f] = "AVAILABLE"]
  /\ locks' = [locks EXCEPT ![f] = @ - 1]
  /\ UNCHANGED order

\* Faulty: the entry goes although others wait for it.
RollbackRemoves(f) ==
  /\ order' = Without(order, {f})
  /\ state' = [state EXCEPT ![f] = "ABSENT"]
  /\ locks' = [locks EXCEPT ![f] = 0]

\* Faulty: the entry is unlocked, the waiters are not told to take over.
RollbackQuiet(f) ==
  \/ /\ locks[f] = 1
     /\ order' = Without(order, {f})
     /\ state' = [state EXCEPT ![f] = "ABSENT"]
     /\ locks' = [locks EXCEPT ![f] = 0]
  \/ /\ locks[f] > 1
     /\ locks' = [locks EXCEPT ![f] = @ - 1]
     /\ UNCHANGED <<order, state>>

\* rollback: the entry goes, or is left to those that wait for it.
Rollback(f) ==
  \/ /\ locks[f] = 1
     /\ order' = Without(order, {f})
     /\ state' = [state EXCEPT ![f] = "ABSENT"]
     /\ locks' = [locks EXCEPT ![f] = 0]
  \/ /\ locks[f] > 1
     /\ state' = [state EXCEPT ![f] = "ROLLED_BACK"]
     /\ locks' = [locks EXCEPT ![f] = @ - 1]
     /\ UNCHANGED order

-----------------------------------------------------------------------------
(* GetFrame                                                                *)

Goto(c, where) == pc' = [pc EXCEPT ![c] = where]

\* GetFrame returns or throws.
Leave(c) ==
  /\ Goto(c, "idle")
  /\ n' = [n EXCEPT ![c] = NoFrame] /\ pos' = [pos EXCEPT ![c] = NoFrame]
  /\ again' = [again EXCEPT ![c] = FALSE]

\* A call: the pattern detector looks at the request, and unless a worker has
\* failed before, the first SchedulePrefetch begins.  The detector's fields are
\* plain ints that concurrent callers change without a lock, so here it may
\* settle on any of the strides in use; PatternDetector has what it computes
\* when the calls follow each other.  The clip can be called until its
\* destructor runs.
AskFrame(c, f) ==
  /\ pc[c] = "idle" /\ closer # "destructor" /\ ~worker_exception_present
  /\ calls < MaxCalls /\ calls' = calls + 1
  /\ stride' \in Strides
  /\ Goto(c, "schedule")
  /\ n' = [n EXCEPT ![c] = f] /\ pos' = [pos EXCEPT ![c] = f]
  /\ UNCHANGED <<cacheVars, poolVars, counters, again, workerVars>>

\* A worker has failed since the clip was created: its exception is rethrown.
Rethrow(c) ==
  /\ pc[c] = "idle" /\ closer # "destructor" /\ worker_exception_present
  /\ calls < MaxCalls /\ calls' = calls + 1
  /\ stride' \in Strides
  /\ UNCHANGED <<cacheVars, poolVars, counters, callerVars, workerVars>>

-----------------------------------------------------------------------------
(* SchedulePrefetch                                                        *)

\* Faulty: one more than nPrefetchFrames.
MayScheduleMore(c) ==
  running_workers <= nPrefetchFrames /\ Abs(pos[c] - n[c]) < nPrefetchFrames

\* The condition of the loop.
MaySchedule(c) ==
  running_workers < nPrefetchFrames /\ Abs(pos[c] - n[c]) < nPrefetchFrames

\* The next position.  It is not compared with zero.
Advance(c) ==
  /\ pc[c] = "schedule" /\ MaySchedule(c) /\ pos[c] + stride < num_frames
  /\ pos' = [pos EXCEPT ![c] = @ + stride]
  /\ Goto(c, "ahead")
  /\ UNCHANGED <<cacheVars, poolVars, counters, detector, n, again, workerVars>>

\* The loop ends: back to GetFrame, which looks its frame up or, the second
\* time, returns it.
ScheduleDone(c) ==
  /\ pc[c] = "schedule"
  /\ \/ ~MaySchedule(c) /\ ~again[c] /\ pos' = pos
     \/ /\ MaySchedule(c) /\ ~again[c] /\ pos[c] + stride >= num_frames
        /\ pos' = [pos EXCEPT ![c] = @ + stride]
  /\ Goto(c, "lookup")
  /\ UNCHANGED <<cacheVars, poolVars, counters, detector, n, again, workerVars>>

GetFrameReturns(c) ==
  /\ pc[c] = "schedule" /\ again[c]
  /\ MaySchedule(c) => pos[c] + stride >= num_frames
  /\ Leave(c)
  /\ UNCHANGED <<cacheVars, poolVars, counters, detector, workerVars>>

\* The frame at the new position is there or being made: nothing to do.
AheadFound(c) ==
  /\ pc[c] = "ahead" /\ state[pos[c]] # "ABSENT"
  /\ order' = Touch(order, pos[c])
  /\ Goto(c, "schedule")
  /\ UNCHANGED <<state, locks, poolVars, counters, detector, n, pos, again, workerVars>>

\* It is not: take the handle and count the worker.  The counter is a step of
\* its own in the code; only MaySchedule reads it, and that commutes with a
\* lookup.
AheadMissing(c) ==
  /\ pc[c] = "ahead" /\ state[pos[c]] = "ABSENT"
  /\ Insert(pos[c])
  /\ running_workers' = running_workers + 1
  /\ Goto(c, "queueing")
  /\ UNCHANGED <<poolVars, worker_exception_present, detector, n, pos, again, workerVars>>

\* QueueJob, which blocks while the queue is full ...
QueueJob(c) ==
  /\ pc[c] = "queueing"
  /\ Pool!Put(pos[c])
  /\ Goto(c, "schedule")
  /\ UNCHANGED <<cacheVars, closer, counters, detector, n, pos, again, workerVars>>

\* ... and throws when the pool has been finished.  Nobody gives the handle
\* back, nor takes the counter down.
QueueCancelled(c) ==
  /\ pc[c] = "queueing" /\ closed
  /\ Leave(c)
  /\ UNCHANGED <<cacheVars, poolVars, counters, detector, workerVars>>

-----------------------------------------------------------------------------
(* GetFrame: the lookup of its own frame                                   *)

\* FOUND_AND_READY; a rolled back entry counts as ready here too.
LookupReady(c) ==
  /\ pc[c] = "lookup" /\ state[n[c]] \in {"AVAILABLE", "ROLLED_BACK"}
  /\ order' = Touch(order, n[c])
  /\ Goto(c, "schedule") /\ again' = [again EXCEPT ![c] = TRUE]
  /\ UNCHANGED <<state, locks, poolVars, counters, detector, n, pos, workerVars>>

LookupWait(c) ==
  /\ pc[c] = "lookup" /\ state[n[c]] = "EMPTY"
  /\ order' = Touch(order, n[c])
  /\ locks' = [locks EXCEPT ![n[c]] = @ + 1]
  /\ Goto(c, "waiting")
  /\ UNCHANGED <<state, poolVars, counters, detector, n, pos, again, workerVars>>

LookupMiss(c) ==
  /\ pc[c] = "lookup" /\ state[n[c]] = "ABSENT"
  /\ Insert(n[c])
  /\ Goto(c, "producing")
  /\ UNCHANGED <<poolVars, counters, detector, n, pos, again, workerVars>>

WaitOver(c) ==
  /\ pc[c] = "waiting" /\ state[n[c]] = "AVAILABLE"
  /\ locks' = [locks EXCEPT ![n[c]] = @ - 1]
  /\ Goto(c, "schedule") /\ again' = [again EXCEPT ![c] = TRUE]
  /\ UNCHANGED <<order, state, poolVars, counters, detector, n, pos, workerVars>>

\* Whoever was computing the frame gave up: this caller takes its place.
TakeOver(c) ==
  /\ pc[c] = "waiting" /\ state[n[c]] = "ROLLED_BACK"
  /\ state' = [state EXCEPT ![n[c]] = "EMPTY"]
  /\ Goto(c, "producing")
  /\ UNCHANGED <<order, locks, poolVars, counters, detector, n, pos, again, workerVars>>

\* child->GetFrame returns: the frame is stored and committed.
ChildAnswers(c) ==
  /\ pc[c] = "producing"
  /\ Commit(n[c])
  /\ Goto(c, "schedule") /\ again' = [again EXCEPT ![c] = TRUE]
  /\ UNCHANGED <<poolVars, counters, detector, n, pos, workerVars>>

\* child->GetFrame throws: so does GetFrame.
ChildThrows(c) ==
  /\ pc[c] = "producing"
  /\ Rollback(n[c])
  /\ Leave(c)
  /\ UNCHANGED <<poolVars, counters, detector, workerVars>>

-----------------------------------------------------------------------------
(* ThreadWorker                                                            *)

WGoto(w, where) == wpc' = [wpc EXCEPT ![w] = where]

\* The pool hands the oldest job to a worker, which frees the parameters.
StartJob(w) ==
  /\ wpc[w] = "idle"
  /\ Pool!Take
  /\ WGoto(w, "running") /\ job' = [job EXCEPT ![w] = Head(queue)]
  /\ UNCHANGED <<cacheVars, closer, counters, detector, callerVars>>

JobAnswers(w) ==
  /\ wpc[w] = "running"
  /\ Commit(job[w])
  /\ WGoto(w, "committed")
  /\ UNCHANGED <<poolVars, counters, detector, callerVars, job>>

JobThrows(w) ==
  /\ wpc[w] = "running"
  /\ Rollback(job[w])
  /\ WGoto(w, "rolledBack")
  /\ UNCHANGED <<poolVars, counters, detector, callerVars, job>>

JobDone(w) ==
  /\ wpc[w] = "committed"
  /\ running_workers' = running_workers - 1
  /\ WGoto(w, "idle") /\ job' = [job EXCEPT ![w] = NoFrame]
  /\ UNCHANGED <<cacheVars, poolVars, worker_exception_present, detector, callerVars>>

\* Faulty: a worker that failed is never taken off the counter.
JobFailedUncounted(w) ==
  /\ wpc[w] = "rolledBack"
  /\ worker_exception_present' = TRUE
  /\ WGoto(w, "idle") /\ job' = [job EXCEPT ![w] = NoFrame]
  /\ UNCHANGED <<cacheVars, poolVars, running_workers, detector, callerVars>>

\* Under worker_exception_mutex.
JobFailed(w) ==
  /\ wpc[w] = "rolledBack"
  /\ worker_exception_present' = TRUE
  /\ running_workers' = running_workers - 1
  /\ WGoto(w, "idle") /\ job' = [job EXCEPT ![w] = NoFrame]
  /\ UNCHANGED <<cacheVars, poolVars, detector, callerVars>>

-----------------------------------------------------------------------------
(* The end of the pool                                                     *)

others == <<counters, detector, callerVars, workerVars>>

\* ~PrefetcherPimpl, when nobody can call the clip any more: Finish ...
Destroy ==
  /\ closer = "nobody" /\ \A c \in Callers : pc[c] = "idle"
  /\ Pool!Close
  /\ closer' = "destructor"
  /\ UNCHANGED <<cacheVars, others>>

\* Faulty: the handles of the jobs that were not started are dropped.
DestroyRollbackNone ==
  /\ closer = "destructor" /\ queue # <<>> /\ \A w \in Workers : wpc[w] = "idle"
  /\ Pool!Drain
  /\ UNCHANGED <<cacheVars, closer, others>>

\* ... waits for the workers, and the handles of the jobs that were not
\* started are rolled back.  Nobody waits for them.
DestroyRollback ==
  /\ closer = "destructor" /\ queue # <<>> /\ \A w \in Workers : wpc[w] = "idle"
  /\ Pool!Drain
  /\ order' = Without(order, ToSet(queue))
  /\ state' = [f \in Frames |-> IF f \in ToSet(queue) THEN "ABSENT" ELSE state[f]]
  /\ locks' = [f \in Frames |-> IF f \in ToSet(queue) THEN 0 ELSE locks[f]]
  /\ UNCHANGED <<closer, others>>

\* ~ScriptEnvironment joins every pool while clips that refer to each other in
\* a circle may still be in use ...
EnvJoin ==
  /\ closer = "nobody"
  /\ Pool!Close
  /\ closer' = "environment"
  /\ UNCHANGED <<cacheVars, others>>

\* ... and drops what Finish returns.  The destructor, later, gets nothing.
EnvDiscard ==
  /\ closer = "environment" /\ queue # <<>> /\ \A w \in Workers : wpc[w] = "idle"
  /\ Pool!Drain
  /\ UNCHANGED <<cacheVars, closer, others>>

CallerStep(c) ==
  \/ Advance(c) \/ ScheduleDone(c) \/ GetFrameReturns(c)
  \/ AheadFound(c) \/ AheadMissing(c) \/ QueueJob(c) \/ QueueCancelled(c)
  \/ LookupReady(c) \/ LookupWait(c) \/ LookupMiss(c) \/ WaitOver(c) \/ TakeOver(c)
  \/ ChildAnswers(c) \/ ChildThrows(c)

WorkerStep(w) ==
  StartJob(w) \/ JobAnswers(w) \/ JobThrows(w) \/ JobDone(w) \/ JobFailed(w)

Next ==
  \/ \E c \in Callers, f \in 0 .. num_frames - 1 : AskFrame(c, f)
  \/ \E c \in Callers : Rethrow(c) \/ CallerStep(c)
  \/ \E w \in Workers : WorkerStep(w)
  \/ Destroy \/ DestroyRollback \/ EnvJoin \/ EnvDiscard

Spec == Init /\ [][Next]_vars

\* Threads that can go on do; nobody has to ask for anything, and the clip
\* need not come to an end.
Fairness ==
  /\ \A c \in Callers : WF_vars(CallerStep(c))
  /\ \A w \in Workers : WF_vars(WorkerStep(w))

FairSpec == Spec /\ Fairness

-----------------------------------------------------------------------------
(* Properties.                                                             *)

\* A caller has the handle of frame f, to queue it or to compute the frame.
Holds(c, f) ==
  \/ pc[c] = "queueing" /\ pos[c] = f
  \/ pc[c] = "producing" /\ n[c] = f

Runs(w, f) == wpc[w] = "running" /\ job[w] = f

\* Who will commit or roll back the entry of frame f: a job in the queue or
\* on its way there, a worker, or a caller that computes the frame itself.
Owners(f) ==
  {<<"job", i>> : i \in {j \in DOMAIN queue : queue[j] = f}}
  \cup {<<"caller", c>> : c \in {d \in Callers : Holds(d, f)}}
  \cup {<<"worker", w>> : w \in {v \in Workers : Runs(v, f)}}

Waiters(f) == {c \in Callers : pc[c] = "waiting" /\ n[c] = f}

\* A handle travels from the caller that looked ahead through the queue to a
\* worker, or back to the destructor: on the way an empty entry always has
\* exactly one owner, any other has none, and its locks are that owner and
\* those that wait.  (An environment that joins the pool drops handles.)
HandlesOwned ==
  closer # "environment" => \A f \in Frames :
    /\ Cardinality(Owners(f)) = IF state[f] = "EMPTY" THEN 1 ELSE 0
    /\ locks[f] = Cardinality(Owners(f)) + Cardinality(Waiters(f))

Contract == INSTANCE FrameEntries WITH
  Threads <- Callers, Keys <- Frames, waiting <- [f \in Frames |-> Waiters(f)]

\* The Prefetcher keeps to the contract of the frame cache that LruCache
\* offers (KeepsContract there), with handles that travel through the queue,
\* jobs that fail, and pools that are closed by the destructor or by the
\* environment: no caller's entry is taken from under it, and the handles the
\* destructor rolls back are those of entries nobody waits for.
KeepsContract == Contract!Spec

\* The jobs on their way to the queue, in it, or with a worker.
InFlight ==
  Cardinality({c \in Callers : pc[c] = "queueing"}) + Len(queue)
  + Cardinality({w \in Workers : wpc[w] # "idle"})

\* running_workers is the number of jobs that are on their way to the queue,
\* in it, or with a worker that has not counted itself off, whatever failed;
\* so a failure never lowers the number of frames prefetched for good.
WorkersCounted == closer = "nobody" => running_workers = InFlight

\* The counter is tested and raised in two steps, so callers may overshoot
\* nPrefetchFrames, but each of them by one job at most.
OverlapBound == running_workers <= nPrefetchFrames + Cardinality(Callers) - 1

\* GetFrame always comes back: no caller is left waiting for a frame whose job
\* failed, was queued behind others or was taken over, nor for room in the
\* queue.  Excepted is a pool that the environment joined: see EnvDiscard.
GetFrameComesBack ==
  \A c \in Callers : pc[c] # "idle" ~> (pc[c] = "idle" \/ closer = "environment")

-----------------------------------------------------------------------------
(* Why they hold: the inductive invariant.                                 *)

Owned(f) ==
  \/ f \in ToSet(queue)
  \/ \E c \in Callers : Holds(c, f)
  \/ \E w \in Workers : Runs(w, f)

\* No handle is in two places.
HandlesApart ==
  /\ IsInjective(queue)
  /\ \A f \in Frames :
       /\ \A c, d \in Callers : Holds(c, f) /\ Holds(d, f) => c = d
       /\ \A v, w \in Workers : Runs(v, f) /\ Runs(w, f) => v = w
       /\ \A c \in Callers : Holds(c, f) => f \notin ToSet(queue)
       /\ \A w \in Workers : Runs(w, f) => f \notin ToSet(queue)
       /\ \A c \in Callers, w \in Workers : ~(Holds(c, f) /\ Runs(w, f))

\* An entry in state st with lk locks, which nw callers wait for.  An owned
\* entry is empty; the locks are those of the callers that wait and, while it
\* is empty, one for its producer; it is not gone while somebody waits, and
\* rolled back only if somebody does.  Exact: every empty entry is owned,
\* which is so until the environment drops handles.
EntryOK(st, lk, owned, nw, exact) ==
  /\ owned => st = "EMPTY"
  /\ lk = nw + (IF st = "EMPTY" THEN 1 ELSE 0)
  /\ nw > 0 => st # "ABSENT"
  /\ st = "ROLLED_BACK" => nw > 0
  /\ exact /\ st = "EMPTY" => owned

EntriesOK ==
  \A f \in Frames :
    EntryOK(state[f], locks[f], Owned(f), Cardinality(Waiters(f)), closer # "environment")

\* Who can be where, and when the pool is closed.
PlacesOK ==
  /\ closed <=> closer # "nobody"
  /\ closer = "destructor" => \A c \in Callers : pc[c] = "idle"
  /\ \A c \in Callers : pc[c] \in {"ahead", "queueing"} => pos[c] \in Frames

\* A caller that has passed MaySchedule may still add one to the counter, and
\* every job in flight will take one off.
CountOK ==
  /\ running_workers + Cardinality({c \in Callers : pc[c] = "ahead"})
       <= nPrefetchFrames + Cardinality(Callers) - 1
  /\ running_workers >= InFlight
  /\ WorkersCounted

IInv == TypeOK /\ HandlesApart /\ EntriesOK /\ PlacesOK /\ CountOK
=============================================================================
