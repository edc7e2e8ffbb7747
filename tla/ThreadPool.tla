----------------------------- MODULE ThreadPool -----------------------------
(***************************************************************************)
(* ThreadPool with its mpmc_bounded_queue and JobCompletion.               *)
(*                                                                         *)
(* There are two mutexes.  The queue's m_mutex covers one pass through the *)
(* loops of push_front() and pop_back(): a pass is one action, and so is   *)
(* the notify_one() that follows the unlock.  The pool's Mutex covers      *)
(* NumRunning: a worker's exit, and Finish() up to its wait on FinishCond. *)
(* No holder of m_mutex asks for Mutex.                                    *)
(*                                                                         *)
(* A job is one call of QueueJob, and is named by the number of the call.  *)
(***************************************************************************)
EXTENDS CircularBuffer, FiniteSets, Sequences, SequencesExt

CONSTANTS
  Workers,        \* the pool's threads
  Clients,        \* threads that queue jobs
  Finishers,      \* threads that call Finish()
  MaxCalls,       \* bound: how often QueueJob is called
  JobsPerThread,  \* 6 in the code
  max_jobs        \* capacity of each client's JobCompletion

ASSUME WorkersAssumption == IsFiniteSet(Workers) /\ Workers # {}
ASSUME SizesAssumption ==
  JobsPerThread \in Nat \ {0} /\ max_jobs \in Nat /\ MaxCalls \in Nat

Jobs  == 1 .. MaxCalls
NoJob == 0  \* a default constructed item
Items == Jobs \cup {NoJob}

VARIABLES
  buf,         \* m_container
  finished,    \* the queue is finished
  NumRunning,  \* workers that have not left
  wpc, wjob,   \* worker: where it is in ThreadFunc, and its `data'
  cpc, cjob,   \* client: where it is in QueueJob or Wait, and its itemData
  completion,  \* client -> the jobs in its JobCompletion, in order; NoJob once
               \* the future has been read and is no longer valid
  fpc,         \* finisher: where it is in Finish
  calls,       \* number of QueueJob calls so far
  fulfilled,   \* jobs that ran to their end: their promise, if any, is set
  left,        \* jobs Finish() has returned unexecuted
  refused      \* jobs whose QueueJob threw "Threadpool is cancelled"

queueVars  == <<buf, finished>>
workerVars == <<wpc, wjob, NumRunning>>
clientVars == <<cpc, cjob, completion>>
ends       == <<fulfilled, left, refused>>
vars       == <<queueVars, workerVars, clientVars, fpc, calls, ends>>

\* Where a thread can be.
WorkerPlaces   == {"pop", "popWait", "popWoken", "popped", "run", "exit", "gone"}
ClientPlaces   == {"idle", "push", "pushWait", "pushWoken", "pushed", "wait"}
FinisherPlaces == {"idle", "wait", "woken", "done"}

Capacity == Cardinality(Workers) * JobsPerThread

TypeOK ==
  /\ buf \in [array : [0 .. Capacity - 1 -> Items],
              head : 0 .. Capacity - 1, tail : 0 .. Capacity - 1,
              size : 0 .. Capacity]
  /\ finished \in BOOLEAN
  /\ NumRunning \in 0 .. Cardinality(Workers)
  /\ wpc \in [Workers -> WorkerPlaces]
  /\ wjob \in [Workers -> Items]
  /\ cpc \in [Clients -> ClientPlaces]
  /\ cjob \in [Clients -> Items]
  /\ completion \in [Clients -> Seq(Items)]
  /\ fpc \in [Finishers -> FinisherPlaces]
  /\ calls \in 0 .. MaxCalls
  /\ fulfilled \subseteq Items /\ left \subseteq Items /\ refused \subseteq Items

\* The pool after its constructor: all threads have been started.
Init ==
  /\ buf = NewBuffer(Capacity, NoJob)
  /\ finished = FALSE
  /\ NumRunning = Cardinality(Workers)
  /\ wpc = [w \in Workers |-> "pop"]
  /\ wjob = [w \in Workers |-> NoJob]
  /\ cpc = [c \in Clients |-> "idle"]
  /\ cjob = [c \in Clients |-> NoJob]
  /\ completion = [c \in Clients |-> <<>>]
  /\ fpc = [f \in Finishers |-> "idle"]
  /\ calls = 0
  /\ fulfilled = {} /\ left = {} /\ refused = {}

-----------------------------------------------------------------------------
(* Where a job is.                                                         *)

Queued == ToSet(Contents(buf, Capacity))
AtWorker == {wjob[w] : w \in Workers} \ {NoJob}
Offered == {cjob[c] : c \in {d \in Clients : cpc[d] # "pushed"}} \ {NoJob}
Places == <<Queued, AtWorker, Offered, fulfilled, left, refused>>

Asleep(where, at) == {x \in DOMAIN where : where[x] = at}

\* notify_one on a condition variable: one of the sleepers, if there are any.
NotifyOne(where, at, woken) ==
  IF Asleep(where, at) = {} THEN {where}
  ELSE {[where EXCEPT ![x] = woken] : x \in Asleep(where, at)}

NotifyAll(where, at, woken) ==
  [x \in DOMAIN where |-> IF where[x] = at THEN woken ELSE where[x]]

-----------------------------------------------------------------------------
(* QueueJob() and push_front().                                            *)

\* The item is made up and, with a completion object, gets a promise: Add().
\* (Add throws, and nothing changes, when the object is full.)
QueueJob(c, withCompletion) ==
  /\ cpc[c] = "idle" /\ calls < MaxCalls
  /\ calls' = calls + 1
  /\ withCompletion => Len(completion[c]) < max_jobs
  /\ completion' = IF withCompletion
                   THEN [completion EXCEPT ![c] = Append(@, calls')] ELSE completion
  /\ cpc' = [cpc EXCEPT ![c] = "push"]
  /\ cjob' = [cjob EXCEPT ![c] = calls']
  /\ UNCHANGED <<queueVars, workerVars, fpc, ends>>

Pushing(c) == cpc[c] \in {"push", "pushWoken"}

\* The queue is finished: QueueJob throws.  The promise Add() gave stays.
PushRefused(c) ==
  /\ Pushing(c) /\ finished
  /\ cpc' = [cpc EXCEPT ![c] = "idle"]
  /\ cjob' = [cjob EXCEPT ![c] = NoJob]
  /\ refused' = refused \cup {cjob[c]}
  /\ UNCHANGED <<queueVars, workerVars, completion, fpc, fulfilled, left, calls>>

PushWait(c) ==
  /\ Pushing(c) /\ ~finished /\ IsFull(buf, Capacity)
  /\ cpc' = [cpc EXCEPT ![c] = "pushWait"]
  /\ UNCHANGED <<queueVars, workerVars, cjob, completion, fpc, ends, calls>>

PushStore(c) ==
  /\ Pushing(c) /\ ~finished /\ ~IsFull(buf, Capacity)
  /\ buf' = PushFront(buf, Capacity, cjob[c])
  /\ cpc' = [cpc EXCEPT ![c] = "pushed"]
  /\ UNCHANGED <<finished, workerVars, cjob, completion, fpc, ends, calls>>

\* m_not_empty.notify_one(), after the unlock.
NotifyNotEmpty(c) ==
  /\ cpc[c] = "pushed"
  /\ wpc' \in NotifyOne(wpc, "popWait", "popWoken")
  /\ cpc' = [cpc EXCEPT ![c] = "idle"]
  /\ cjob' = [cjob EXCEPT ![c] = NoJob]
  /\ UNCHANGED <<queueVars, wjob, NumRunning, completion, fpc, ends, calls>>

-----------------------------------------------------------------------------
(* JobCompletion.                                                          *)

\* A future is ready when its job has run, whether it returned or threw.
Ready(c, i) == completion[c][i] \in fulfilled

\* Get(i) returns the value, or throws what the job threw.  std::future::get
\* leaves the future invalid.
Get(c, i) ==
  /\ cpc[c] = "idle" /\ Ready(c, i)
  /\ completion' = [completion EXCEPT ![c] = [@ EXCEPT ![i] = NoJob]]
  /\ UNCHANGED <<queueVars, workerVars, cpc, cjob, fpc, ends, calls>>

Wait(c) ==
  /\ cpc[c] = "idle" /\ completion[c] # <<>>
  /\ cpc' = [cpc EXCEPT ![c] = "wait"]
  /\ UNCHANGED <<queueVars, workerVars, cjob, completion, fpc, ends, calls>>

\* The futures are waited for in turn; at an invalid one Wait() throws.
WaitReturns(c) ==
  /\ cpc[c] = "wait"
  /\ \A i \in DOMAIN completion[c] :
       Ready(c, i) \/ \E j \in 1 .. i : completion[c][j] = NoJob
  /\ cpc' = [cpc EXCEPT ![c] = "idle"]
  /\ UNCHANGED <<queueVars, workerVars, cjob, completion, fpc, ends, calls>>

\* New promises for a new batch.  The callers do it when no job is pending:
\* a pending one has a pointer to the promise.
Reset(c) ==
  /\ cpc[c] = "idle" /\ completion[c] # <<>>
  /\ \A i \in DOMAIN completion[c] : Ready(c, i) \/ completion[c][i] = NoJob
  /\ completion' = [completion EXCEPT ![c] = <<>>]
  /\ UNCHANGED <<queueVars, workerVars, cpc, cjob, fpc, ends, calls>>

-----------------------------------------------------------------------------
(* ThreadFunc() and pop_back().                                            *)

Popping(w) == wpc[w] \in {"pop", "popWoken"}

PopFinished(w) ==
  /\ Popping(w) /\ finished
  /\ wpc' = [wpc EXCEPT ![w] = "exit"]
  /\ UNCHANGED <<queueVars, wjob, NumRunning, clientVars, fpc, ends, calls>>

PopWait(w) ==
  /\ Popping(w) /\ ~finished /\ IsEmpty(buf)
  /\ wpc' = [wpc EXCEPT ![w] = "popWait"]
  /\ UNCHANGED <<queueVars, wjob, NumRunning, clientVars, fpc, ends, calls>>

\* Faulty: goes on popping after finish().
PopTakeAlways(w) ==
  /\ Popping(w) /\ ~IsEmpty(buf)
  /\ wjob' = [wjob EXCEPT ![w] = Back(buf)]
  /\ buf' = PopBack(buf, Capacity)
  /\ wpc' = [wpc EXCEPT ![w] = "popped"]
  /\ UNCHANGED <<finished, NumRunning, clientVars, fpc, ends, calls>>

PopTake(w) ==
  /\ Popping(w) /\ ~finished /\ ~IsEmpty(buf)
  /\ wjob' = [wjob EXCEPT ![w] = Back(buf)]
  /\ buf' = PopBack(buf, Capacity)
  /\ wpc' = [wpc EXCEPT ![w] = "popped"]
  /\ UNCHANGED <<finished, NumRunning, clientVars, fpc, ends, calls>>

\* Faulty: nobody is told that there is room.
NotifyNotFullNobody(w) ==
  /\ wpc[w] = "popped"
  /\ wpc' = [wpc EXCEPT ![w] = "run"]
  /\ UNCHANGED <<queueVars, wjob, NumRunning, clientVars, fpc, ends, calls>>

\* m_not_full.notify_one(), after the unlock.
NotifyNotFull(w) ==
  /\ wpc[w] = "popped"
  /\ cpc' \in NotifyOne(cpc, "pushWait", "pushWoken")
  /\ wpc' = [wpc EXCEPT ![w] = "run"]
  /\ UNCHANGED <<queueVars, wjob, NumRunning, cjob, completion, fpc, ends, calls>>

\* Faulty: an exception leaves the promise unset.
RunJobUnset(w) ==
  /\ wpc[w] = "run"
  /\ fulfilled' \in {fulfilled, fulfilled \cup {wjob[w]}}
  /\ wjob' = [wjob EXCEPT ![w] = NoJob]
  /\ wpc' = [wpc EXCEPT ![w] = "pop"]
  /\ UNCHANGED <<queueVars, NumRunning, clientVars, fpc, left, refused, calls>>

\* data.Func returns or throws; either way the promise, if any, is set.
RunJob(w) ==
  /\ wpc[w] = "run"
  /\ fulfilled' = fulfilled \cup {wjob[w]}
  /\ wjob' = [wjob EXCEPT ![w] = NoJob]
  /\ wpc' = [wpc EXCEPT ![w] = "pop"]
  /\ UNCHANGED <<queueVars, NumRunning, clientVars, fpc, left, refused, calls>>

\* Faulty: the last worker does not notify / the count is decremented without
\* the mutex, so that a decrement may get lost.
ExitQuiet(w) ==
  /\ wpc[w] = "exit"
  /\ NumRunning' = NumRunning - 1
  /\ wpc' = [wpc EXCEPT ![w] = "gone"]
  /\ UNCHANGED <<queueVars, wjob, clientVars, fpc, ends, calls>>

ExitUnlocked(w) ==
  /\ wpc[w] = "exit"
  /\ NumRunning' \in {NumRunning - 1, NumRunning}
  /\ fpc' = IF NumRunning' = 0 THEN NotifyAll(fpc, "wait", "woken") ELSE fpc
  /\ wpc' = [wpc EXCEPT ![w] = "gone"]
  /\ UNCHANGED <<queueVars, wjob, clientVars, ends, calls>>

\* The pool is cancelled: the last worker to leave tells Finish().
Exit(w) ==
  /\ wpc[w] = "exit"
  /\ NumRunning' = NumRunning - 1
  /\ fpc' = IF NumRunning' = 0 THEN NotifyAll(fpc, "wait", "woken") ELSE fpc
  /\ wpc' = [wpc EXCEPT ![w] = "gone"]
  /\ UNCHANGED <<queueVars, wjob, clientVars, ends, calls>>

-----------------------------------------------------------------------------
(* Finish(), also the first thing Join() and the destructor do.            *)

\* Up to the first wait on FinishCond; finish() wakes everybody.
Finish(f) ==
  /\ fpc[f] = "idle" /\ NumRunning > 0
  /\ finished' = TRUE
  /\ cpc' = IF finished THEN cpc ELSE NotifyAll(cpc, "pushWait", "pushWoken")
  /\ wpc' = IF finished THEN wpc ELSE NotifyAll(wpc, "popWait", "popWoken")
  /\ fpc' = [fpc EXCEPT ![f] = "wait"]
  /\ UNCHANGED <<buf, wjob, NumRunning, cjob, completion, ends, calls>>

\* Nobody runs any more: an empty vector is returned.
FinishNothing(f) ==
  /\ fpc[f] = "idle" /\ NumRunning = 0
  /\ fpc' = [fpc EXCEPT ![f] = "done"]
  /\ UNCHANGED <<queueVars, workerVars, clientVars, ends, calls>>

FinishWaitAgain(f) ==
  /\ fpc[f] = "woken" /\ NumRunning > 0
  /\ fpc' = [fpc EXCEPT ![f] = "wait"]
  /\ UNCHANGED <<queueVars, workerVars, clientVars, ends, calls>>

\* Faulty: an `if' in place of the `while' around FinishCond.wait.
FinishDrainEarly(f) ==
  /\ fpc[f] = "woken"
  /\ left' = left \cup Queued
  /\ buf' = [buf EXCEPT !.tail = (@ + buf.size) % Capacity, !.size = 0]
  /\ fpc' = [fpc EXCEPT ![f] = "done"]
  /\ UNCHANGED <<finished, workerVars, clientVars, fulfilled, refused, calls>>

\* pop_remain() until the buffer is empty; the items are returned.
FinishDrain(f) ==
  /\ fpc[f] = "woken" /\ NumRunning = 0
  /\ left' = left \cup Queued
  /\ buf' = [buf EXCEPT !.tail = (@ + buf.size) % Capacity, !.size = 0]
  /\ fpc' = [fpc EXCEPT ![f] = "done"]
  /\ UNCHANGED <<finished, workerVars, clientVars, fulfilled, refused, calls>>

\* Condition variables may wake up without being notified.
SpuriousWakeup ==
  \/ /\ Asleep(wpc, "popWait") # {}
     /\ wpc' \in NotifyOne(wpc, "popWait", "popWoken")
     /\ UNCHANGED <<queueVars, wjob, NumRunning, clientVars, fpc, ends, calls>>
  \/ /\ Asleep(cpc, "pushWait") # {}
     /\ cpc' \in NotifyOne(cpc, "pushWait", "pushWoken")
     /\ UNCHANGED <<queueVars, workerVars, cjob, completion, fpc, ends, calls>>
  \/ /\ Asleep(fpc, "wait") # {}
     /\ fpc' \in NotifyOne(fpc, "wait", "woken")
     /\ UNCHANGED <<queueVars, workerVars, clientVars, ends, calls>>

WorkerStep(w) ==
  \/ PopFinished(w) \/ PopWait(w) \/ PopTake(w) \/ NotifyNotFull(w)
  \/ RunJob(w) \/ Exit(w)

ClientStep(c) ==
  \/ PushRefused(c) \/ PushWait(c) \/ PushStore(c) \/ NotifyNotEmpty(c)
  \/ WaitReturns(c)

FinisherStep(f) == FinishWaitAgain(f) \/ FinishDrain(f)

Next ==
  \/ \E w \in Workers : WorkerStep(w)
  \/ \E c \in Clients :
       \/ ClientStep(c) \/ Wait(c) \/ Reset(c)
       \/ \E i \in DOMAIN completion[c] : Get(c, i)
       \/ \E b \in BOOLEAN : QueueJob(c, b)
  \/ \E f \in Finishers : FinisherStep(f) \/ Finish(f) \/ FinishNothing(f)
  \/ SpuriousWakeup

Spec == Init /\ [][Next]_vars

\* A thread that can go on does: jobs end, and mutexes are handed out.  No
\* client has to queue anything, and nobody has to call Finish().
Fairness ==
  /\ \A w \in Workers : WF_vars(WorkerStep(w))
  /\ \A c \in Clients : WF_vars(ClientStep(c))
  /\ \A f \in Finishers : WF_vars(FinisherStep(f))

FairSpec == Spec /\ Fairness

-----------------------------------------------------------------------------
(* Properties.                                                             *)

\* A job is in exactly one place from QueueJob on: at its client, queued, at
\* one worker, run, refused, or returned by Finish().  None is lost
\* when the buffer wraps, when the pool is finished or when both meet, and
\* none is run twice or both run and returned.
JobsConserved ==
  /\ IsInjective(Contents(buf, Capacity))
  /\ \A v, w \in Workers : wjob[v] # NoJob /\ wjob[v] = wjob[w] => v = w
  /\ NoJob \notin Queued
  /\ \A i, j \in DOMAIN Places : i # j => Places[i] \cap Places[j] = {}
  /\ UNION ToSet(Places) = 1 .. calls

\* NumRunning counts the workers that have not left.
RunningCounted == NumRunning = Cardinality({w \in Workers : wpc[w] # "gone"})

\* When Finish() has returned, to any of its callers, no job runs and none
\* will: the caller may destroy what the jobs use.
FinishIsFinal ==
  \A f \in Finishers : fpc[f] = "done" =>
    finished /\ \A w \in Workers : wpc[w] = "gone" /\ wjob[w] = NoJob

\* What the workers and finishers know of each other: nobody leaves before
\* finish(), a job is held only between pop_back() and the end of its run, and
\* Finish() returns only when nobody runs.
ControlOK ==
  /\ \A w \in Workers : wpc[w] \in {"exit", "gone"} => finished
  /\ \A w \in Workers : wjob[w] # NoJob => wpc[w] \in {"popped", "run"}
  /\ \A f \in Finishers : fpc[f] # "idle" => finished
  /\ \A f \in Finishers : fpc[f] = "done" => NumRunning = 0

\* The inductive invariant behind FinishIsFinal.
IInv == TypeOK /\ RunningCounted /\ ControlOK

\* What JobsConserved and FifoSpec rest on besides: head is where the items
\* from tail on end, also when the buffer is full; a client or a worker has a
\* job in hand just when it is at work on it; no two clients offer the same.
HandsOK ==
  /\ buf.head = (buf.tail + buf.size) % Capacity
  /\ \A c \in Clients : cjob[c] = NoJob <=> cpc[c] \in {"idle", "wait"}
  /\ \A w \in Workers : wpc[w] \in {"popped", "run"} => wjob[w] # NoJob
  /\ \A c, d \in Clients :
       /\ {cpc[c], cpc[d]} \subseteq {"push", "pushWait", "pushWoken"}
       /\ cjob[c] = cjob[d]
       => c = d

JInv == IInv /\ HandsOK /\ JobsConserved

\* The ring buffer, its two condition variables and finish() implement a
\* bounded FIFO that can be closed.
Fifo == INSTANCE JobFifo WITH queue <- Contents(buf, Capacity), closed <- finished
FifoSpec == Fifo!Spec

\* Finish() returns: no worker sleeps through it, and the last one wakes it.
FinishReturns == \A f \in Finishers : fpc[f] \in {"wait", "woken"} ~> fpc[f] = "done"

\* No QueueJob call blocks for ever, however full the queue is and whenever
\* the pool is finished.
QueueJobReturns ==
  \A c \in Clients : cpc[c] \in {"push", "pushWait", "pushWoken"} ~> cpc[c] = "idle"

\* JobCompletion::Wait() returns unless one of its jobs was cancelled with
\* the pool: refused after Add(), or left in the queue.
WaitResolved ==
  \A c \in Clients :
    cpc[c] = "wait" ~> \/ cpc[c] # "wait"
                       \/ ToSet(completion[c]) \cap (left \cup refused) # {}
=============================================================================
