-------------------------- MODULE ThreadPoolProofs --------------------------
(***************************************************************************)
(* Proofs about ThreadPool, for any number of workers, clients and         *)
(* finishers and any queue capacity.                                       *)
(***************************************************************************)
EXTENDS ThreadPool, ListLemmas, FiniteSetTheorems, SequenceTheorems, TLAPS

(* The queue has room for at least one job.                                *)
LEMMA CapacityPositive == Capacity \in Nat \ {0}
  <1>1. Cardinality(Workers) \in Nat /\ Cardinality(Workers) # 0
    BY WorkersAssumption, FS_CardinalityType, FS_EmptySet
  <1>2. ASSUME NEW n \in Nat, n # 0, NEW c \in Nat \ {0}
        PROVE  n * c \in Nat \ {0}
    BY <1>2, SMT
  <1>3. QED
    BY <1>1, <1>2, SizesAssumption DEF Capacity

(* The indices of the ring buffer wrap within the array.                   *)
LEMMA Wraps ==
  ASSUME NEW n \in Nat
  PROVE  n % Capacity \in 0 .. Capacity - 1
  <1>1. ASSUME NEW c \in Nat \ {0}
        PROVE  n % c \in 0 .. c - 1
    OBVIOUS
  <1>2. QED
    BY <1>1, CapacityPositive

(* n is where the threads of S are after a notification.                   *)
Woken(n, where, S, T, at, woken) ==
  /\ n \in [S -> T]
  /\ \A x \in S : n[x] = where[x] \/ (where[x] = at /\ n[x] = woken)

(* A notification changes nothing but sleepers into woken threads.         *)
LEMMA Notified ==
  ASSUME NEW S, NEW T, NEW where \in [S -> T], NEW at, NEW woken \in T
  PROVE  /\ Woken(where, where, S, T, at, woken)
         /\ \A n \in NotifyOne(where, at, woken) : Woken(n, where, S, T, at, woken)
         /\ Woken(NotifyAll(where, at, woken), where, S, T, at, woken)
  <1>1. ASSUME NEW n \in NotifyOne(where, at, woken)
        PROVE  Woken(n, where, S, T, at, woken)
    <2>1. CASE n = where
      BY <2>1 DEF Woken
    <2>2. CASE n # where
      <3>1. PICK x \in Asleep(where, at) : n = [where EXCEPT ![x] = woken]
        BY <1>1, <2>2 DEF NotifyOne
      <3>2. x \in S /\ where[x] = at
        BY <3>1 DEF Asleep
      <3>3. QED
        BY <3>1, <3>2 DEF Woken
    <2>3. QED
      BY <2>1, <2>2
  <1>2. Woken(NotifyAll(where, at, woken), where, S, T, at, woken)
    BY DEF NotifyAll, Woken
  <1>3. QED
    BY <1>1, <1>2 DEF Woken

Staying == {w \in Workers : wpc[w] # "gone"}

(* The workers that have not left are finitely many.                       *)
LEMMA StayingFinite ==
  /\ IsFiniteSet(Staying)
  /\ Cardinality(Staying) \in Nat
  <1>1. Staying \in SUBSET Workers
    BY DEF Staying
  <1>2. QED
    BY <1>1, FS_Subset, FS_CardinalityType, WorkersAssumption

(* When NumRunning is zero all workers have left, and finish() was called. *)
LEMMA NobodyRuns ==
  ASSUME IInv, NumRunning = 0
  PROVE  finished /\ \A w \in Workers : wpc[w] = "gone" /\ wjob[w] = NoJob
  <1>1. Staying = {}
    BY StayingFinite, FS_EmptySet DEF IInv, RunningCounted, Staying
  <1>2. \A w \in Workers : wpc[w] = "gone"
    BY <1>1 DEF Staying
  <1>3. QED
    BY <1>2, WorkersAssumption DEF IInv, ControlOK

(* The invariant survives a step that lets nobody leave, gives no worker   *)
(* a job it does not hold, and lets no Finish() return early.              *)
LEMMA NobodyLeaves ==
  ASSUME IInv, TypeOK', NumRunning' = NumRunning,
         finished => finished',
         \A w \in Workers : /\ wpc'[w] = "gone" <=> wpc[w] = "gone"
                            /\ wpc'[w] = "exit" => finished'
                            /\ wjob'[w] # NoJob => wpc'[w] \in {"popped", "run"},
         \A f \in Finishers : /\ fpc'[f] # "idle" => finished'
                              /\ fpc'[f] = "done" => NumRunning = 0
  PROVE  IInv'
  <1>1. RunningCounted'
    BY DEF IInv, RunningCounted
  <1>2. ControlOK'
    BY DEF IInv, ControlOK
  <1>3. QED
    BY <1>1, <1>2 DEF IInv

-----------------------------------------------------------------------------
(* The ring buffer keeps its type.                                         *)

BufferType ==
  [array : [0 .. Capacity - 1 -> Items],
   head : 0 .. Capacity - 1, tail : 0 .. Capacity - 1, size : 0 .. Capacity]

(* Its fields are set one by one.                                          *)
LEMMA SetFields ==
  ASSUME NEW b \in BufferType, NEW i \in 0 .. Capacity - 1, NEW n \in 0 .. Capacity
  PROVE  /\ [b EXCEPT !.tail = i, !.size = n] \in BufferType
         /\ \A x \in Items : [b EXCEPT !.array[b.head] = x, !.head = i, !.size = n]
                              \in BufferType
  BY DEF BufferType

(* Both indices, moved forward, wrap within the array.                     *)
LEMMA NextIndex ==
  ASSUME NEW b \in BufferType
  PROVE  /\ (b.head + 1) % Capacity \in 0 .. Capacity - 1
         /\ (b.tail + 1) % Capacity \in 0 .. Capacity - 1
         /\ (b.tail + b.size) % Capacity \in 0 .. Capacity - 1
  <1>1. b.head + 1 \in Nat /\ b.tail + 1 \in Nat /\ b.tail + b.size \in Nat
    BY CapacityPositive DEF BufferType
  <1>2. QED
    BY <1>1, Wraps

(* push_front stays within the array.                                      *)
LEMMA PushStaysInside ==
  ASSUME NEW b \in BufferType, NEW item \in Items, ~IsFull(b, Capacity)
  PROVE  PushFront(b, Capacity, item) \in BufferType
  <1>1. b.size + 1 \in 0 .. Capacity
    BY CapacityPositive DEF BufferType, IsFull
  <1>2. QED
    BY <1>1, NextIndex, SetFields, Zenon DEF PushFront

(* pop_back stays within the array, and yields what an element holds.      *)
LEMMA PopStaysInside ==
  ASSUME NEW b \in BufferType, ~IsEmpty(b)
  PROVE  PopBack(b, Capacity) \in BufferType /\ Back(b) \in Items
  <1>1. b.size - 1 \in 0 .. Capacity
    BY CapacityPositive DEF BufferType, IsEmpty
  <1>2. Back(b) \in Items
    BY DEF BufferType, Back
  <1>3. QED
    BY <1>1, <1>2, NextIndex, SetFields, Zenon DEF PopBack

(* What the buffer holds are items.                                        *)
LEMMA ContentsAreItems ==
  ASSUME NEW b \in BufferType
  PROVE  ToSet(Contents(b, Capacity)) \subseteq Items
  <1>1. ASSUME NEW i \in 1 .. b.size
        PROVE  b.array[(b.tail + i - 1) % Capacity] \in Items
    <2>1. b.tail + i - 1 \in Nat
      BY CapacityPositive DEF BufferType
    <2>2. QED
      BY <2>1, Wraps DEF BufferType
  <1>2. QED
    BY <1>1 DEF Contents, ToSet

(* Draining moves tail to head.                                            *)
LEMMA DrainStaysInside ==
  ASSUME NEW b \in BufferType
  PROVE  [b EXCEPT !.tail = (@ + b.size) % Capacity, !.size = 0] \in BufferType
  <1>1. 0 \in 0 .. Capacity
    BY CapacityPositive
  <1>2. QED
    BY <1>1, NextIndex, SetFields, Zenon

-----------------------------------------------------------------------------
(* The pool after its constructor satisfies the invariant.                 *)
LEMMA InitIInv == Init => IInv
  <1> SUFFICES ASSUME Init PROVE IInv
    OBVIOUS
  <1>1. Cardinality(Workers) \in Nat
    BY WorkersAssumption, FS_CardinalityType
  <1>2. buf \in BufferType
    BY CapacityPositive DEF Init, NewBuffer, BufferType, Items
  <1>3. completion \in [Clients -> Seq(Items)]
    BY DEF Init
  <1>4. TypeOK
    <2>1. NumRunning \in 0 .. Cardinality(Workers)
      BY <1>1 DEF Init
    <2>2. calls \in 0 .. MaxCalls
      BY SizesAssumption DEF Init
    <2>3. /\ wpc \in [Workers -> WorkerPlaces]
          /\ cpc \in [Clients -> ClientPlaces]
          /\ fpc \in [Finishers -> FinisherPlaces]
          /\ wjob \in [Workers -> Items]
          /\ cjob \in [Clients -> Items]
      BY DEF Init, Items, WorkerPlaces, ClientPlaces, FinisherPlaces
    <2>4. QED
      BY <1>2, <1>3, <2>1, <2>2, <2>3, Zenon DEF Init, TypeOK, BufferType
  <1>5. RunningCounted
    <2>1. {w \in Workers : wpc[w] # "gone"} = Workers
      BY DEF Init
    <2>2. QED
      BY <2>1 DEF Init, RunningCounted
  <1>6. ControlOK
    BY DEF Init, ControlOK
  <1>7. QED
    BY <1>4, <1>5, <1>6 DEF IInv

-----------------------------------------------------------------------------
(* What the three condition variables' notifications do.                   *)

WorkersWoken(n) == Woken(n, wpc, Workers, WorkerPlaces, "popWait", "popWoken")

ClientsWoken(n) == Woken(n, cpc, Clients, ClientPlaces, "pushWait", "pushWoken")
FinishersWoken(n) == Woken(n, fpc, Finishers, FinisherPlaces, "wait", "woken")

(* m_not_empty only moves workers asleep in pop_back.                      *)
LEMMA NotEmptyNotified ==
  ASSUME TypeOK
  PROVE  /\ WorkersWoken(wpc)
         /\ \A n \in NotifyOne(wpc, "popWait", "popWoken") : WorkersWoken(n)
         /\ WorkersWoken(NotifyAll(wpc, "popWait", "popWoken"))
  <1>1. wpc \in [Workers -> WorkerPlaces] /\ "popWoken" \in WorkerPlaces
    BY DEF TypeOK, WorkerPlaces
  <1>2. QED
    BY <1>1, Notified, Zenon DEF WorkersWoken

(* m_not_full only moves clients asleep in push_front.                     *)
LEMMA NotFullNotified ==
  ASSUME TypeOK
  PROVE  /\ ClientsWoken(cpc)
         /\ \A n \in NotifyOne(cpc, "pushWait", "pushWoken") : ClientsWoken(n)
         /\ ClientsWoken(NotifyAll(cpc, "pushWait", "pushWoken"))
  <1>1. cpc \in [Clients -> ClientPlaces] /\ "pushWoken" \in ClientPlaces
    BY DEF TypeOK, ClientPlaces
  <1>2. QED
    BY <1>1, Notified, Zenon DEF ClientsWoken

(* FinishCond only moves callers asleep in Finish().                       *)
LEMMA FinishNotified ==
  ASSUME TypeOK
  PROVE  /\ FinishersWoken(fpc)
         /\ \A n \in NotifyOne(fpc, "wait", "woken") : FinishersWoken(n)
         /\ FinishersWoken(NotifyAll(fpc, "wait", "woken"))
  <1>1. fpc \in [Finishers -> FinisherPlaces] /\ "woken" \in FinisherPlaces
    BY DEF TypeOK, FinisherPlaces
  <1>2. QED
    BY <1>1, Notified, Zenon DEF FinishersWoken

-----------------------------------------------------------------------------
(* Every step preserves the invariant.  First the clients: they change     *)
(* what NobodyLeaves speaks of only by waking a worker.                    *)

(* Nothing NobodyLeaves speaks of changes.                                 *)
LEMMA WorkersUntouched ==
  ASSUME IInv, TypeOK', UNCHANGED <<finished, workerVars, fpc>>
  PROVE  IInv'
  BY NobodyLeaves DEF IInv, ControlOK, workerVars

(* A client names a job and takes a promise.                               *)
LEMMA QueueJobKeeps ==
  ASSUME IInv, NEW c \in Clients, NEW b \in BOOLEAN, QueueJob(c, b)
  PROVE  IInv'
  <1>1. calls' \in 0 .. MaxCalls /\ calls' \in Items
    BY SizesAssumption DEF IInv, TypeOK, QueueJob, Jobs, Items
  <1>2. completion' \in [Clients -> Seq(Items)]
    <2>1. Append(completion[c], calls') \in Seq(Items)
      BY <1>1 DEF IInv, TypeOK
    <2>2. QED
      BY <2>1 DEF IInv, TypeOK, ClientPlaces, QueueJob
  <1>3. TypeOK'
    BY <1>1, <1>2
       DEF IInv, TypeOK, ClientPlaces, QueueJob, queueVars, workerVars, ends, Items
  <1>4. QED
    BY <1>3, WorkersUntouched DEF QueueJob, queueVars

(* push_front finds the queue finished.                                    *)
LEMMA PushRefusedKeeps ==
  ASSUME IInv, NEW c \in Clients, PushRefused(c)
  PROVE  IInv'
  <1>1. TypeOK'
    BY DEF IInv, TypeOK, ClientPlaces, PushRefused, queueVars, workerVars, Items
  <1>2. QED
    BY <1>1, WorkersUntouched DEF PushRefused, queueVars

(* push_front waits for room.                                              *)
LEMMA PushWaitKeeps ==
  ASSUME IInv, NEW c \in Clients, PushWait(c)
  PROVE  IInv'
  <1>1. TypeOK'
    BY DEF IInv, TypeOK, ClientPlaces, PushWait, queueVars, workerVars, ends
  <1>2. QED
    BY <1>1, WorkersUntouched DEF PushWait, queueVars

(* push_front stores a job.                                                *)
LEMMA PushStoreKeeps ==
  ASSUME IInv, NEW c \in Clients, PushStore(c)
  PROVE  IInv'
  <1>1. buf' \in BufferType
    BY PushStaysInside DEF IInv, TypeOK, PushStore, BufferType
  <1>2. TypeOK'
    BY <1>1 DEF IInv, TypeOK, ClientPlaces, PushStore, workerVars, ends, BufferType
  <1>3. QED
    BY <1>2, WorkersUntouched DEF PushStore

(* push_front wakes a worker.                                              *)
LEMMA NotifyNotEmptyKeeps ==
  ASSUME IInv, NEW c \in Clients, NotifyNotEmpty(c)
  PROVE  IInv'
  <1>1. WorkersWoken(wpc')
    BY NotEmptyNotified DEF IInv, NotifyNotEmpty
  <1>2. TypeOK'
    BY <1>1
       DEF Woken, WorkersWoken, IInv, TypeOK, ClientPlaces, NotifyNotEmpty,
           queueVars, ends, Items
  <1>3. QED
    BY <1>1, <1>2, NobodyLeaves
       DEF Woken, WorkersWoken, NotifyNotEmpty, queueVars, IInv, ControlOK

(* JobCompletion: Wait, Get and Reset.                                     *)
LEMMA CompletionKeeps ==
  ASSUME IInv, NEW c \in Clients,
         \/ Wait(c) \/ WaitReturns(c) \/ Reset(c)
         \/ \E i \in DOMAIN completion[c] : Get(c, i)
  PROVE  IInv'
  <1>1. TypeOK'
    <2>1. completion' \in [Clients -> Seq(Items)]
      <3>1. << >> \in Seq(Items)
        OBVIOUS
      <3>2. ASSUME NEW i \in DOMAIN completion[c]
            PROVE  [completion[c] EXCEPT ![i] = NoJob] \in Seq(Items)
        BY DEF IInv, TypeOK, Items
      <3>3. QED
        BY <3>1, <3>2 DEF IInv, TypeOK, Wait, WaitReturns, Reset, Get
    <2>2. cpc' \in [Clients -> ClientPlaces]
      BY DEF IInv, TypeOK, ClientPlaces, Wait, WaitReturns, Reset, Get
    <2>3. QED
      BY <2>1, <2>2
         DEF IInv, TypeOK, Wait, WaitReturns, Reset, Get, queueVars, workerVars, ends
  <1>2. QED
    BY <1>1, WorkersUntouched DEF Wait, WaitReturns, Reset, Get, queueVars

-----------------------------------------------------------------------------
(* The workers.                                                            *)

(* pop_back finds the queue finished, or waits.                            *)
LEMMA PopFinishedKeeps ==
  ASSUME IInv, NEW w \in Workers, PopFinished(w) \/ PopWait(w)
  PROVE  IInv'
  <1>1. TypeOK'
    BY DEF IInv, TypeOK, WorkerPlaces, PopFinished, PopWait, queueVars, clientVars, ends
  <1>2. QED
    BY <1>1, NobodyLeaves
       DEF PopFinished, PopWait, Popping, queueVars, IInv, TypeOK, ControlOK

(* pop_back takes a job.                                                   *)
LEMMA PopTakeKeeps ==
  ASSUME IInv, NEW w \in Workers, PopTake(w)
  PROVE  IInv'
  <1>1. buf' \in BufferType /\ Back(buf) \in Items
    BY PopStaysInside DEF IInv, TypeOK, PopTake, BufferType
  <1>2. TypeOK'
    BY <1>1 DEF IInv, TypeOK, WorkerPlaces, PopTake, clientVars, ends, BufferType
  <1>3. QED
    BY <1>2, NobodyLeaves DEF PopTake, Popping, IInv, TypeOK, ControlOK

(* pop_back wakes a client.                                                *)
LEMMA NotifyNotFullKeeps ==
  ASSUME IInv, NEW w \in Workers, NotifyNotFull(w)
  PROVE  IInv'
  <1>1. ClientsWoken(cpc')
    BY NotFullNotified DEF IInv, NotifyNotFull
  <1>2. TypeOK'
    BY <1>1
       DEF Woken, ClientsWoken, IInv, TypeOK, WorkerPlaces, NotifyNotFull, queueVars,
           ends
  <1>3. QED
    BY <1>2, NobodyLeaves DEF NotifyNotFull, queueVars, IInv, TypeOK, ControlOK

(* A job runs to its end.                                                  *)
LEMMA RunJobKeeps ==
  ASSUME IInv, NEW w \in Workers, RunJob(w)
  PROVE  IInv'
  <1>1. TypeOK'
    BY DEF IInv, TypeOK, WorkerPlaces, RunJob, queueVars, clientVars, Items
  <1>2. QED
    BY <1>1, NobodyLeaves DEF RunJob, queueVars, IInv, TypeOK, ControlOK

(* The one step that lets a worker leave.                                  *)
LEMMA ExitKeeps ==
  ASSUME IInv, NEW w \in Workers, Exit(w)
  PROVE  IInv'
  <1>1. w \in Staying
    BY DEF Exit, Staying
  <1>2. {v \in Workers : wpc'[v] # "gone"} = Staying \ {w}
    BY DEF Exit, Staying, IInv, TypeOK
  <1>3. Cardinality(Staying \ {w}) = Cardinality(Staying) - 1
    BY <1>1, StayingFinite, FS_RemoveElement
  <1>4. NumRunning = Cardinality(Staying) /\ NumRunning # 0
    <2>1. NumRunning = Cardinality(Staying)
      BY DEF IInv, RunningCounted, Staying
    <2>2. QED
      BY <2>1, <1>1, StayingFinite, FS_EmptySet
  <1>5. RunningCounted'
    BY <1>2, <1>3, <1>4 DEF RunningCounted, Exit
  <1>6. NumRunning' \in 0 .. Cardinality(Workers)
    <2>1. Cardinality(Workers) \in Nat
      BY WorkersAssumption, FS_CardinalityType
    <2>2. QED
      BY <2>1, <1>4 DEF IInv, TypeOK, WorkerPlaces, ClientPlaces, FinisherPlaces, Exit
  <1>7. FinishersWoken(fpc')
    BY FinishNotified DEF IInv, Exit
  <1>8. TypeOK'
    BY <1>6, <1>7
       DEF Woken, FinishersWoken, IInv, TypeOK, WorkerPlaces, Exit, queueVars,
           clientVars, ends
  <1>9. ControlOK'
    BY <1>4, <1>7 DEF Woken, FinishersWoken, IInv, TypeOK, ControlOK, Exit, queueVars
  <1>10. QED
    BY <1>5, <1>8, <1>9 DEF IInv

-----------------------------------------------------------------------------
(* Finish(), and wake-ups.                                                 *)

(* Finish() closes the queue and wakes everybody.                          *)
LEMMA FinishKeeps ==
  ASSUME IInv, NEW f \in Finishers, Finish(f)
  PROVE  IInv'
  <1>1. WorkersWoken(wpc')
    BY NotEmptyNotified DEF IInv, Finish
  <1>2. ClientsWoken(cpc')
    BY NotFullNotified DEF IInv, Finish
  <1>3. TypeOK'
    BY <1>1, <1>2
       DEF Woken, WorkersWoken, ClientsWoken, IInv, TypeOK, FinisherPlaces, Finish,
           ends
  <1>4. QED
    BY <1>1, <1>3, NobodyLeaves
       DEF Woken, WorkersWoken, ClientsWoken, Finish, IInv, TypeOK, ControlOK

(* Finish() finds nobody running, or wakes up too early.                   *)
LEMMA FinishNothingKeeps ==
  ASSUME IInv, NEW f \in Finishers, FinishNothing(f) \/ FinishWaitAgain(f)
  PROVE  IInv'
  <1>1. TypeOK'
    BY DEF IInv, TypeOK, FinisherPlaces, FinishNothing, FinishWaitAgain, queueVars,
           workerVars,
           clientVars, ends
  <1>2. finished
    BY NobodyRuns DEF FinishNothing, FinishWaitAgain, IInv, ControlOK
  <1>3. QED
    BY <1>1, <1>2, NobodyLeaves
       DEF FinishNothing, FinishWaitAgain, queueVars, workerVars, IInv, TypeOK, ControlOK

(* Finish() collects the jobs left over.                                   *)
LEMMA FinishDrainKeeps ==
  ASSUME IInv, NEW f \in Finishers, FinishDrain(f)
  PROVE  IInv'
  <1>1. buf \in BufferType
    BY DEF IInv, TypeOK, FinisherPlaces, BufferType
  <1>2. buf' \in BufferType
    BY <1>1, DrainStaysInside DEF FinishDrain
  <1>3. left' \subseteq Items
    BY <1>1, ContentsAreItems DEF IInv, TypeOK, FinishDrain, Queued
  <1>4. TypeOK'
    BY <1>2, <1>3
       DEF IInv, TypeOK, FinisherPlaces, FinishDrain, workerVars, clientVars,
           BufferType
  <1>5. QED
    BY <1>4, NobodyLeaves DEF FinishDrain, workerVars, IInv, TypeOK, ControlOK

(* A condition variable wakes up by itself.                                *)
LEMMA WakeupKeeps ==
  ASSUME IInv, SpuriousWakeup
  PROVE  IInv'
  <1>1. WorkersWoken(wpc')
    BY NotEmptyNotified DEF IInv, SpuriousWakeup, workerVars
  <1>2. ClientsWoken(cpc')
    BY NotFullNotified DEF IInv, SpuriousWakeup, clientVars
  <1>3. FinishersWoken(fpc')
    BY FinishNotified DEF IInv, SpuriousWakeup
  <1>4. UNCHANGED <<buf, finished, NumRunning, wjob, cjob, completion,
                    fulfilled, left, refused, calls>>
    BY DEF SpuriousWakeup, queueVars, workerVars, clientVars, ends
  <1>5. TypeOK'
    BY <1>1, <1>2, <1>3, <1>4
       DEF Woken, WorkersWoken, ClientsWoken, FinishersWoken, IInv, TypeOK
  <1>6. QED
    BY <1>1, <1>3, <1>4, <1>5, NobodyLeaves
       DEF Woken, WorkersWoken, ClientsWoken, FinishersWoken, IInv, ControlOK

-----------------------------------------------------------------------------
(* The invariant, and what follows from it.                                *)

(* Every step keeps it.                                                    *)
LEMMA NextIInv == IInv /\ [Next]_vars => IInv'
  <1> SUFFICES ASSUME IInv, [Next]_vars PROVE IInv'
    OBVIOUS
  <1>1. ASSUME NEW w \in Workers, WorkerStep(w)
        PROVE  IInv'
    BY <1>1, PopFinishedKeeps, PopTakeKeeps, NotifyNotFullKeeps, RunJobKeeps,
       ExitKeeps DEF WorkerStep
  <1>2. ASSUME NEW c \in Clients, ClientStep(c)
        PROVE  IInv'
    BY <1>2, PushRefusedKeeps, PushWaitKeeps, PushStoreKeeps, NotifyNotEmptyKeeps,
       CompletionKeeps DEF ClientStep
  <1>3. ASSUME NEW f \in Finishers, FinisherStep(f) \/ Finish(f) \/ FinishNothing(f)
        PROVE  IInv'
    BY <1>3, FinishKeeps, FinishNothingKeeps, FinishDrainKeeps DEF FinisherStep
  <1>4. CASE UNCHANGED vars
    <2>1. UNCHANGED <<finished, workerVars, fpc>>
      BY <1>4 DEF vars, queueVars
    <2>2. TypeOK'
      BY <1>4 DEF vars, queueVars, workerVars, clientVars, ends, IInv, TypeOK
    <2>3. QED
      BY <2>1, <2>2, WorkersUntouched
  <1>5. QED
    BY <1>1, <1>2, <1>3, <1>4, QueueJobKeeps, CompletionKeeps, WakeupKeeps DEF Next

(* ThreadPool's invariant is inductive: the count of running workers, what *)
(* a worker that leaves has seen, and what a returned Finish() has seen.   *)
THEOREM Invariance == Spec => []IInv
  BY InitIInv, NextIInv, PTL DEF Spec

(* ThreadFunc's and Finish()'s NumRunning is the number of workers that    *)
(* have not left, whichever of them leave at the same time.                *)
THEOREM CountIsExact == Spec => []RunningCounted
  <1>1. IInv => RunningCounted
    BY DEF IInv
  <1>2. QED
    BY <1>1, Invariance, PTL

(* When a call of Finish() has returned no worker runs, and none holds a   *)
(* job.                                                                    *)
THEOREM FinishMeansOver == Spec => []FinishIsFinal
  <1>1. IInv => FinishIsFinal
    <2> SUFFICES ASSUME IInv, NEW f \in Finishers, fpc[f] = "done"
                 PROVE  finished /\ \A w \in Workers : wpc[w] = "gone" /\ wjob[w] = NoJob
      BY DEF FinishIsFinal
    <2>1. NumRunning = 0
      BY DEF IInv, ControlOK
    <2>2. QED
      BY <2>1, NobodyRuns
  <1>2. QED
    BY <1>1, Invariance, PTL

(* Every reachable state is well typed, the ring's indices included.       *)
THEOREM TypeCorrect == Spec => []TypeOK
  <1>1. IInv => TypeOK
    BY DEF IInv
  <1>2. QED
    BY <1>1, Invariance, PTL

-----------------------------------------------------------------------------
(* The ring buffer is a queue.                                             *)

(* An index that has gone round at most once.                              *)
LEMMA WrapsOnce ==
  ASSUME NEW c \in Nat \ {0}, NEW n \in Nat, n < 2 * c
  PROVE  n % c = IF n < c THEN n ELSE n - c
  OBVIOUS

(* An index in range stays where it is.                                    *)
LEMMA InRange ==
  ASSUME NEW c \in Nat \ {0}, NEW t \in 0 .. c - 1
  PROVE  t % c = t
  OBVIOUS

(* The item after the first: the index moves one on, and wraps alike.      *)
LEMMA NextItem ==
  ASSUME NEW c \in Nat \ {0}, NEW t \in 0 .. c - 1, NEW i \in 1 .. c
  PROVE  (((t + 1) % c) + i - 1) % c = (t + i) % c
  <1>1. \A n \in Nat : n < 2 * c => n % c = IF n < c THEN n ELSE n - c
    BY WrapsOnce
  <1>2. (t + 1) % c = IF t + 1 < c THEN t + 1 ELSE 0
    BY <1>1
  <1>3. CASE t + 1 < c
    BY <1>2, <1>3
  <1>4. CASE t + 1 = c
    <2>1. ((t + 1) % c) + i - 1 = i - 1 /\ i - 1 < c /\ i - 1 \in Nat
      BY <1>2, <1>4
    <2>2. (i - 1) % c = i - 1
      BY <2>1, <1>1
    <2>3. t + i = c + (i - 1) /\ t + i \in Nat /\ t + i < 2 * c
      BY <1>4, <2>1
    <2>4. (t + i) % c = IF t + i < c THEN t + i ELSE t + i - c
      BY <2>3, <1>1
    <2>5. ~(t + i < c) /\ t + i - c = i - 1
      BY <2>1, <2>3
    <2>6. QED
      BY <2>1, <2>2, <2>4, <2>5
  <1>5. QED
    BY <1>3, <1>4

(* head, one past the last item, moves on with the size.                   *)
LEMMA HeadFollows ==
  ASSUME NEW c \in Nat \ {0}, NEW t \in 0 .. c - 1, NEW z \in 0 .. c, z < c
  PROVE  (((t + z) % c) + 1) % c = (t + z + 1) % c
  OBVIOUS

(* An item stored at head is not on top of another.                        *)
LEMMA HeadIsFree ==
  ASSUME NEW c \in Nat \ {0}, NEW t \in 0 .. c - 1, NEW z \in 0 .. c, z < c,
         NEW i \in 1 .. z
  PROVE  (t + i - 1) % c # (t + z) % c
  <1>0. \A n \in Nat : n < 2 * c => n % c = IF n < c THEN n ELSE n - c
    BY WrapsOnce
  <1>1. t + z \in Nat /\ t + z < 2 * c /\ t + i - 1 \in Nat /\ t + i - 1 < 2 * c
    OBVIOUS
  <1>2. (t + z) % c = IF t + z < c THEN t + z ELSE t + z - c
    BY <1>0, <1>1
  <1>3. (t + i - 1) % c = IF t + i - 1 < c THEN t + i - 1 ELSE t + i - 1 - c
    BY <1>0, <1>1
  <1>4. QED
    BY <1>2, <1>3

(* What a buffer holds, as a sequence.                                     *)
LEMMA ContentsShape ==
  ASSUME NEW b \in BufferType
  PROVE  /\ b.size \in Nat
         /\ DOMAIN Contents(b, Capacity) = 1 .. b.size
         /\ Contents(b, Capacity) \in Seq(Items)
         /\ Len(Contents(b, Capacity)) = b.size
         /\ \A i \in 1 .. b.size :
              Contents(b, Capacity)[i] = b.array[(b.tail + i - 1) % Capacity]
  <1>1. b.size \in Nat
    BY CapacityPositive DEF BufferType
  <1>2. \A i \in 1 .. b.size :
          Contents(b, Capacity)[i] = b.array[(b.tail + i - 1) % Capacity]
    BY DEF Contents
  <1>3. DOMAIN Contents(b, Capacity) = 1 .. b.size
    BY DEF Contents
  <1>4. Contents(b, Capacity) \in [1 .. b.size -> Items]
    BY ContentsAreItems DEF ToSet, Contents
  <1>5. Contents(b, Capacity) \in Seq(Items)
    BY <1>1, <1>4, SeqDef
  <1>6. Len(Contents(b, Capacity)) = b.size
    <2>1. DOMAIN Contents(b, Capacity) = 1 .. Len(Contents(b, Capacity))
      BY <1>5, LenProperties
    <2>2. Len(Contents(b, Capacity)) \in Nat
      BY <1>5, LenProperties
    <2>3. QED
      BY <1>1, <1>3, <2>1, <2>2
  <1>7. QED
    BY <1>1, <1>2, <1>3, <1>5, <1>6

\* head is where the items that start at tail end.
RingOK(b) == b.head = (b.tail + b.size) % Capacity

(* push_front appends.                                                     *)
LEMMA PushAppends ==
  ASSUME NEW b \in BufferType, RingOK(b), ~IsFull(b, Capacity), NEW x \in Items
  PROVE  /\ Contents(PushFront(b, Capacity, x), Capacity) = Append(Contents(b, Capacity), x)
         /\ RingOK(PushFront(b, Capacity, x))
  <1> DEFINE n == PushFront(b, Capacity, x)
             s == Contents(b, Capacity)
             r == Contents(n, Capacity)
  <1>1. /\ b.tail \in 0 .. Capacity - 1 /\ b.head \in 0 .. Capacity - 1
        /\ b.size \in 0 .. Capacity /\ b.size < Capacity /\ Capacity \in Nat \ {0}
    BY CapacityPositive DEF BufferType, IsFull
  <1>2. n \in BufferType
    BY PushStaysInside
  <1>3. /\ n.tail = b.tail /\ n.size = b.size + 1 /\ n.head = (b.head + 1) % Capacity
        /\ n.array = [b.array EXCEPT ![b.head] = x]
    BY DEF PushFront, BufferType
  <1>4. /\ \A i \in 1 .. b.size : (b.tail + i - 1) % Capacity # b.head
        /\ (b.head + 1) % Capacity = (b.tail + b.size + 1) % Capacity
    <2>1. ASSUME NEW i \in 1 .. b.size
          PROVE  (b.tail + i - 1) % Capacity # (b.tail + b.size) % Capacity
      BY <1>1, HeadIsFree, Zenon
    <2>2. (((b.tail + b.size) % Capacity) + 1) % Capacity = (b.tail + b.size + 1) % Capacity
      BY <1>1, HeadFollows, Zenon
    <2>3. QED
      BY <2>1, <2>2, Zenon DEF RingOK
  <1>5. s \in Seq(Items) /\ Len(s) = b.size
    BY ContentsShape
  <1>6. r \in Seq(Items) /\ Len(r) = b.size + 1
    BY <1>2, <1>3, ContentsShape
  <1>7. ASSUME NEW i \in 1 .. b.size + 1
        PROVE  r[i] = Append(s, x)[i]
    <2>1. r[i] = [b.array EXCEPT ![b.head] = x][(b.tail + i - 1) % Capacity]
      BY <1>2, <1>3, ContentsShape
    <2>2. (b.tail + i - 1) % Capacity \in DOMAIN b.array
      <3>1. b.tail + i - 1 \in Nat
        BY <1>1
      <3>2. QED
        BY <3>1, Wraps DEF BufferType
    <2>3. CASE i = b.size + 1
      <3>1. b.tail + i - 1 = b.tail + b.size
        BY <2>3, <1>1
      <3>2. r[i] = x
        BY <2>1, <2>2, <3>1 DEF RingOK, BufferType
      <3>3. QED
        BY <3>2, <2>3, <1>5
    <2>4. CASE i # b.size + 1
      <3>1. i \in 1 .. b.size
        BY <2>4, <1>1
      <3>2. r[i] = s[i]
        BY <2>1, <2>2, <3>1, <1>4, ContentsShape
      <3>3. QED
        BY <3>1, <3>2, <1>5
    <2>5. QED
      BY <2>3, <2>4
  <1>8. r = Append(s, x)
    <2>1. Append(s, x) \in Seq(Items) /\ Len(Append(s, x)) = b.size + 1
      BY <1>5
    <2>2. QED
      BY <2>1, <1>6, <1>7, SeqEqual
  <1>9. RingOK(n)
    <2>1. b.tail + (b.size + 1) = b.tail + b.size + 1
      BY <1>1
    <2>2. QED
      BY <1>3, <1>4, <2>1 DEF RingOK
  <1>10. QED
    BY <1>8, <1>9

(* pop_back takes the oldest item.                                         *)
LEMMA PopTails ==
  ASSUME NEW b \in BufferType, RingOK(b), ~IsEmpty(b)
  PROVE  /\ Contents(b, Capacity) # << >>
         /\ Contents(PopBack(b, Capacity), Capacity) = Tail(Contents(b, Capacity))
         /\ Back(b) = Contents(b, Capacity)[1]
         /\ RingOK(PopBack(b, Capacity))
  <1> DEFINE n == PopBack(b, Capacity)
             s == Contents(b, Capacity)
             r == Contents(n, Capacity)
  <1>1. /\ b.tail \in 0 .. Capacity - 1 /\ b.size \in 1 .. Capacity
        /\ b.size \in 0 .. Capacity /\ Capacity \in Nat \ {0}
    BY CapacityPositive DEF BufferType, IsEmpty
  <1>2. n \in BufferType
    BY PopStaysInside
  <1>3. /\ n.tail = (b.tail + 1) % Capacity /\ n.size = b.size - 1 /\ n.head = b.head
        /\ n.array = b.array
    BY DEF PopBack, BufferType
  <1>4. ASSUME NEW i \in 1 .. b.size
        PROVE  (((b.tail + 1) % Capacity) + i - 1) % Capacity = (b.tail + i) % Capacity
    <2>1. i \in 1 .. Capacity
      BY <1>1
    <2>2. QED
      BY <1>1, <2>1, NextItem, Zenon
  <1>5. s \in Seq(Items) /\ Len(s) = b.size
    BY ContentsShape
  <1>6. s # << >>
    BY <1>1, <1>5
  <1>7. r \in Seq(Items) /\ Len(r) = b.size - 1
    BY <1>2, <1>3, ContentsShape
  <1>8. Tail(s) \in Seq(Items) /\ Len(Tail(s)) = b.size - 1
        /\ \A i \in 1 .. b.size - 1 : Tail(s)[i] = s[i + 1]
    BY <1>5, <1>6, HeadTailProperties
  <1>9. ASSUME NEW i \in 1 .. b.size - 1
        PROVE  r[i] = Tail(s)[i]
    <2>1. r[i] = b.array[(((b.tail + 1) % Capacity) + i - 1) % Capacity]
      BY <1>2, <1>3, ContentsShape
    <2>2. i \in 1 .. b.size /\ i + 1 \in 1 .. b.size
      BY <1>1
    <2>3. r[i] = b.array[(b.tail + i) % Capacity]
      BY <2>1, <2>2, <1>4
    <2>4. s[i + 1] = b.array[(b.tail + (i + 1) - 1) % Capacity]
      BY <2>2, ContentsShape
    <2>5. b.tail + (i + 1) - 1 = b.tail + i
      BY <1>1
    <2>6. QED
      BY <2>3, <2>4, <2>5, <1>8
  <1>10. r = Tail(s)
    BY <1>7, <1>8, <1>9, SeqEqual
  <1>11. Back(b) = s[1]
    <2>1. s[1] = b.array[(b.tail + 1 - 1) % Capacity]
      BY <1>1, ContentsShape
    <2>2. b.tail + 1 - 1 = b.tail
      BY <1>1
    <2>3. b.tail % Capacity = b.tail
      BY <1>1, InRange, Zenon
    <2>4. QED
      BY <2>1, <2>2, <2>3 DEF Back
  <1>12. RingOK(n)
    <2>1. ((b.tail + 1) % Capacity) + (b.size - 1) = ((b.tail + 1) % Capacity) + b.size - 1
      <3>1. (b.tail + 1) % Capacity \in Int
        BY NextIndex
      <3>2. ASSUME NEW x \in Int PROVE x + (b.size - 1) = x + b.size - 1
        BY <1>1
      <3>3. QED
        BY <3>1, <3>2
    <2>2. (((b.tail + 1) % Capacity) + b.size - 1) % Capacity = (b.tail + b.size) % Capacity
      <3>1. b.size \in 1 .. b.size
        BY <1>1
      <3>2. QED
        BY <3>1, <1>4, Zenon
    <2>3. QED
      BY <2>1, <2>2, <1>3 DEF RingOK
  <1>13. QED
    BY <1>6, <1>10, <1>11, <1>12

(* Draining leaves nothing.                                                *)
LEMMA DrainEmpties ==
  ASSUME NEW b \in BufferType, RingOK(b), NEW n,
         n = [b EXCEPT !.tail = (@ + b.size) % Capacity, !.size = 0]
  PROVE  Contents(n, Capacity) = << >> /\ RingOK(n)
  <1>1. n \in BufferType
    BY DrainStaysInside
  <1>2. n.size = 0 /\ n.tail = (b.tail + b.size) % Capacity /\ n.head = b.head
    BY DEF BufferType
  <1>3. Contents(n, Capacity) \in Seq(Items) /\ Len(Contents(n, Capacity)) = 0
    BY <1>1, <1>2, ContentsShape
  <1>4. Contents(n, Capacity) = << >>
    BY <1>3, EmptySeq
  <1>5. RingOK(n)
    <2>1. n.tail % Capacity = n.tail
      <3>1. n.tail \in 0 .. Capacity - 1
        BY <1>1 DEF BufferType
      <3>2. QED
        BY <3>1, CapacityPositive, InRange, Zenon
    <2>2. n.tail + n.size = n.tail
      BY <1>1, <1>2, CapacityPositive DEF BufferType
    <2>3. QED
      BY <2>1, <2>2, <1>2 DEF RingOK
  <1>6. QED
    BY <1>4, <1>5

-----------------------------------------------------------------------------
(* Where the jobs are.                                                     *)

\* Six sets have no element in common.
Apart(Q, A, O, F, L, R) ==
  \A x : /\ x \in Q => x \notin A /\ x \notin O /\ x \notin F /\ x \notin L /\ x \notin R
         /\ x \in A => x \notin O /\ x \notin F /\ x \notin L /\ x \notin R
         /\ x \in O => x \notin F /\ x \notin L /\ x \notin R
         /\ x \in F => x \notin L /\ x \notin R
         /\ x \in L => x \notin R

\* ... and their elements are those of N.
Holding(Q, A, O, F, L, R, N) ==
  \A x : x \in N <=> x \in Q \/ x \in A \/ x \in O \/ x \in F \/ x \in L \/ x \in R

(* What JobsConserved says of its tuple of places.                         *)
LEMMA SixPlaces ==
  ASSUME NEW Q, NEW A, NEW O, NEW F, NEW L, NEW R, NEW N,
         NEW P, P = <<Q, A, O, F, L, R>>
  PROVE  /\ (\A i, j \in DOMAIN P : i # j => P[i] \cap P[j] = {})
              <=> Apart(Q, A, O, F, L, R)
         /\ UNION ToSet(P) = N <=> Holding(Q, A, O, F, L, R, N)
  <1>1. DOMAIN P = 1 .. 6
    OBVIOUS
  <1>2. P[1] = Q /\ P[2] = A /\ P[3] = O /\ P[4] = F /\ P[5] = L /\ P[6] = R
    OBVIOUS
  <1>3. ASSUME \A i, j \in 1 .. 6 : i # j => P[i] \cap P[j] = {}
        PROVE  Apart(Q, A, O, F, L, R)
    <2>1. /\ Q \cap A = {} /\ Q \cap O = {} /\ Q \cap F = {} /\ Q \cap L = {} /\ Q \cap R = {}
          /\ A \cap O = {} /\ A \cap F = {} /\ A \cap L = {} /\ A \cap R = {}
          /\ O \cap F = {} /\ O \cap L = {} /\ O \cap R = {}
          /\ F \cap L = {} /\ F \cap R = {} /\ L \cap R = {}
      BY <1>2, <1>3
    <2>2. QED
      BY <2>1 DEF Apart
  <1>4. ASSUME Apart(Q, A, O, F, L, R), NEW i \in 1 .. 6, NEW j \in 1 .. 6, i # j
        PROVE  P[i] \cap P[j] = {}
    <2>1. i \in {1, 2, 3, 4, 5, 6} /\ j \in {1, 2, 3, 4, 5, 6}
      OBVIOUS
    <2>2. QED
      BY <1>2, <1>4, <2>1 DEF Apart
  <1>5. UNION ToSet(P) = Q \cup A \cup O \cup F \cup L \cup R
    <2>1. ToSet(P) = {Q, A, O, F, L, R}
      <3>1. \A i \in 1 .. 6 : i = 1 \/ i = 2 \/ i = 3 \/ i = 4 \/ i = 5 \/ i = 6
        OBVIOUS
      <3>2. ToSet(P) = {P[i] : i \in 1 .. 6}
        BY <1>1 DEF ToSet
      <3>3. QED
        BY <3>1, <3>2, <1>2
    <2>2. QED
      BY <2>1
  <1>6. UNION ToSet(P) = N <=> Holding(Q, A, O, F, L, R, N)
    BY <1>5 DEF Holding
  <1>7. QED
    BY <1>1, <1>3, <1>4, <1>6

\* What JobsConserved says, of a queue s, the workers' jobs wj, the jobs offered,
\* run, left and refused, and the number of calls.
Held(wj) == {wj[w] : w \in Workers} \ {NoJob}

Conserved(s, wj, O, F, L, R, n) ==
  /\ IsInjective(s)
  /\ \A v, w \in Workers : wj[v] # NoJob /\ wj[v] = wj[w] => v = w
  /\ NoJob \notin ToSet(s)
  /\ Apart(ToSet(s), Held(wj), O, F, L, R)
  /\ Holding(ToSet(s), Held(wj), O, F, L, R, 1 .. n)

(* JobsConserved in this form, before and after a step.                    *)
LEMMA Conserves ==
  /\ JobsConserved <=>
       Conserved(Contents(buf, Capacity), wjob, Offered, fulfilled, left, refused, calls)
  /\ JobsConserved' <=>
       Conserved(Contents(buf', Capacity), wjob', Offered', fulfilled', left', refused',
                 calls')
  <1>1. /\ (\A i, j \in DOMAIN Places : i # j => Places[i] \cap Places[j] = {})
             <=> Apart(Queued, AtWorker, Offered, fulfilled, left, refused)
        /\ UNION ToSet(Places) = 1 .. calls
             <=> Holding(Queued, AtWorker, Offered, fulfilled, left, refused, 1 .. calls)
    <2> DEFINE P == Places
               N == 1 .. calls
    <2>1. P = <<Queued, AtWorker, Offered, fulfilled, left, refused>>
      BY DEF Places
    <2> HIDE DEF P, N
    <2>2. /\ (\A i, j \in DOMAIN P : i # j => P[i] \cap P[j] = {})
               <=> Apart(Queued, AtWorker, Offered, fulfilled, left, refused)
          /\ UNION ToSet(P) = N
               <=> Holding(Queued, AtWorker, Offered, fulfilled, left, refused, N)
      BY <2>1, SixPlaces
    <2>3. QED
      BY <2>2 DEF P, N
  <1>2. /\ (\A i, j \in DOMAIN Places' : i # j => Places'[i] \cap Places'[j] = {})
             <=> Apart(Queued', AtWorker', Offered', fulfilled', left', refused')
        /\ UNION ToSet(Places') = 1 .. calls'
             <=> Holding(Queued', AtWorker', Offered', fulfilled', left', refused',
                         1 .. calls')
    <2> DEFINE P == Places'
               N == 1 .. calls'
    <2>1. P = <<Queued', AtWorker', Offered', fulfilled', left', refused'>>
      BY DEF Places
    <2> HIDE DEF P, N
    <2>2. /\ (\A i, j \in DOMAIN P : i # j => P[i] \cap P[j] = {})
               <=> Apart(Queued', AtWorker', Offered', fulfilled', left', refused')
          /\ UNION ToSet(P) = N
               <=> Holding(Queued', AtWorker', Offered', fulfilled', left', refused', N)
      BY <2>1, SixPlaces
    <2>3. QED
      BY <2>2 DEF P, N
  <1>3. /\ Queued = ToSet(Contents(buf, Capacity)) /\ AtWorker = Held(wjob)
        /\ Queued' = ToSet(Contents(buf', Capacity)) /\ AtWorker' = Held(wjob')
    BY DEF Queued, AtWorker, Held
  <1>4. JobsConserved <=>
          Conserved(Contents(buf, Capacity), wjob, Offered, fulfilled, left, refused, calls)
    BY <1>1, <1>3, Zenon DEF JobsConserved, Conserved
  <1>5. JobsConserved' <=>
          Conserved(Contents(buf', Capacity), wjob', Offered', fulfilled', left', refused',
                    calls')
    BY <1>2, <1>3, Zenon DEF JobsConserved, Conserved
  <1>6. QED
    BY <1>4, <1>5

-----------------------------------------------------------------------------
(* How a job moves.                                                        *)

(* QueueJob makes up a new job.                                            *)
LEMMA JobMadeUp ==
  ASSUME NEW s, NEW wj, NEW O, NEW F, NEW L, NEW R, NEW n \in Nat,
         Conserved(s, wj, O, F, L, R, n)
  PROVE  Conserved(s, wj, O \cup {n + 1}, F, L, R, n + 1)
  <1>1. n + 1 \notin 1 .. n
    OBVIOUS
  <1>2. \A x : x \in 1 .. n + 1 <=> x \in 1 .. n \/ x = n + 1
    OBVIOUS
  <1>3. Holding(ToSet(s), Held(wj), O \cup {n + 1}, F, L, R, 1 .. n + 1)
    BY <1>2, Zenon DEF Conserved, Holding
  <1>4. Apart(ToSet(s), Held(wj), O \cup {n + 1}, F, L, R)
    BY <1>1 DEF Conserved, Holding, Apart
  <1>5. QED
    BY <1>3, <1>4 DEF Conserved

(* QueueJob throws.                                                        *)
LEMMA JobRefused ==
  ASSUME NEW s, NEW wj, NEW O, NEW F, NEW L, NEW R, NEW n,
         Conserved(s, wj, O, F, L, R, n), NEW x \in O
  PROVE  Conserved(s, wj, O \ {x}, F, L, R \cup {x}, n)
  <1>1. Holding(ToSet(s), Held(wj), O \ {x}, F, L, R \cup {x}, 1 .. n)
    BY DEF Conserved, Holding
  <1>2. Apart(ToSet(s), Held(wj), O \ {x}, F, L, R \cup {x})
    BY DEF Conserved, Apart
  <1>3. QED
    BY <1>1, <1>2 DEF Conserved

(* push_front stores a job.                                                *)
LEMMA JobStored ==
  ASSUME NEW s \in Seq(Items), NEW wj, NEW O, NEW F, NEW L, NEW R, NEW n,
         Conserved(s, wj, O, F, L, R, n), NEW x \in Items, x \in O, x # NoJob
  PROVE  Conserved(Append(s, x), wj, O \ {x}, F, L, R, n)
  <1>1. x \notin ToSet(s) /\ IsInjective(s)
    BY DEF Conserved, Apart
  <1>2. ToSet(Append(s, x)) = ToSet(s) \cup {x} /\ IsInjective(Append(s, x))
    BY <1>1, AppendedOnce
  <1>3. Holding(ToSet(s) \cup {x}, Held(wj), O \ {x}, F, L, R, 1 .. n)
    BY DEF Conserved, Holding
  <1>4. Apart(ToSet(s) \cup {x}, Held(wj), O \ {x}, F, L, R)
    BY DEF Conserved, Apart
  <1>5. QED
    BY <1>2, <1>3, <1>4, Zenon DEF Conserved

(* pop_back hands a job to a worker that has none.                         *)
LEMMA JobTaken ==
  ASSUME NEW s \in Seq(Items), NEW wj \in [Workers -> Items], NEW O, NEW F, NEW L, NEW R,
         NEW n, Conserved(s, wj, O, F, L, R, n), s # << >>,
         NEW w \in Workers, wj[w] = NoJob
  PROVE  Conserved(Tail(s), [wj EXCEPT ![w] = s[1]], O, F, L, R, n)
  <1> DEFINE k == [wj EXCEPT ![w] = s[1]]
  <1>1. /\ ToSet(Tail(s)) = ToSet(s) \ {s[1]} /\ IsInjective(Tail(s))
        /\ s[1] \in ToSet(s) /\ s[1] # NoJob
    BY HeadTaken DEF Conserved
  <1>2. k[w] = s[1] /\ \A v \in Workers : v # w => k[v] = wj[v]
    OBVIOUS
  <1>3. Held(k) = Held(wj) \cup {s[1]}
    BY <1>1, <1>2 DEF Held
  <1>4. s[1] \notin Held(wj)
    BY <1>1 DEF Conserved, Apart
  <1>5. \A v, u \in Workers : k[v] # NoJob /\ k[v] = k[u] => v = u
    BY <1>1, <1>2, <1>4 DEF Held, Conserved
  <1>6. Holding(ToSet(s) \ {s[1]}, Held(wj) \cup {s[1]}, O, F, L, R, 1 .. n)
    BY <1>1 DEF Conserved, Holding
  <1>7. Apart(ToSet(s) \ {s[1]}, Held(wj) \cup {s[1]}, O, F, L, R)
    BY <1>1 DEF Conserved, Apart
  <1> HIDE DEF k
  <1>8. Conserved(Tail(s), k, O, F, L, R, n)
    BY <1>1, <1>3, <1>5, <1>6, <1>7, Zenon DEF Conserved
  <1>9. QED
    BY <1>8 DEF k

(* A worker has run its job.                                               *)
LEMMA JobRun ==
  ASSUME NEW s, NEW wj \in [Workers -> Items], NEW O, NEW F, NEW L, NEW R, NEW n,
         Conserved(s, wj, O, F, L, R, n), NEW w \in Workers, wj[w] # NoJob
  PROVE  Conserved(s, [wj EXCEPT ![w] = NoJob], O, F \cup {wj[w]}, L, R, n)
  <1> DEFINE k == [wj EXCEPT ![w] = NoJob]
             x == wj[w]
  <1>1. k[w] = NoJob /\ \A v \in Workers : v # w => k[v] = wj[v]
    OBVIOUS
  <1>2. x \in Held(wj)
    BY DEF Held
  <1>3. \A v \in Workers : v # w => wj[v] # x
    BY DEF Conserved
  <1>4. Held(k) = Held(wj) \ {x}
    BY <1>1, <1>3 DEF Held
  <1>5. \A v, u \in Workers : k[v] # NoJob /\ k[v] = k[u] => v = u
    BY <1>1 DEF Conserved
  <1> HIDE DEF k, x
  <1>6. Holding(ToSet(s), Held(wj) \ {x}, O, F \cup {x}, L, R, 1 .. n)
    BY <1>2 DEF Conserved, Holding
  <1>7. Apart(ToSet(s), Held(wj) \ {x}, O, F \cup {x}, L, R)
    BY <1>2 DEF Conserved, Apart
  <1>8. Conserved(s, k, O, F \cup {x}, L, R, n)
    BY <1>4, <1>5, <1>6, <1>7, Zenon DEF Conserved
  <1>9. QED
    BY <1>8 DEF k, x

(* Finish() takes what is left.                                            *)
LEMMA JobsLeft ==
  ASSUME NEW s, NEW wj, NEW O, NEW F, NEW L, NEW R, NEW n,
         Conserved(s, wj, O, F, L, R, n)
  PROVE  Conserved(<< >>, wj, O, F, L \cup ToSet(s), R, n)
  <1>1. ToSet(<< >>) = {} /\ IsInjective(<< >>)
    BY DEF ToSet, IsInjective
  <1>2. Holding({}, Held(wj), O, F, L \cup ToSet(s), R, 1 .. n)
    BY DEF Conserved, Holding
  <1>3. Apart({}, Held(wj), O, F, L \cup ToSet(s), R)
    BY DEF Conserved, Apart
  <1>4. QED
    BY <1>1, <1>2, <1>3 DEF Conserved

-----------------------------------------------------------------------------
(* Every step keeps JInv.  First the steps that move no job.               *)

(* Clients stay pushed, or at rest; no worker takes up a job.              *)
LEMMA NothingPlaced ==
  ASSUME JInv, IInv',
         UNCHANGED <<buf, wjob, cjob, fulfilled, left, refused, calls>>,
         \A c \in Clients : /\ cpc'[c] = "pushed" <=> cpc[c] = "pushed"
                            /\ cpc'[c] \in {"idle", "wait"} <=> cpc[c] \in {"idle", "wait"},
         \A w \in Workers : wpc'[w] \in {"popped", "run"} => wpc[w] \in {"popped", "run"}
  PROVE  JInv'
  <1>1. Offered' = Offered
    BY DEF Offered
  <1>2. JobsConserved'
    <2>1. Conserved(Contents(buf, Capacity), wjob, Offered, fulfilled, left, refused, calls)
      BY Conserves DEF JInv
    <2>2. QED
      BY <2>1, <1>1, Conserves
  <1>3. HandsOK'
    <2>1. cpc \in [Clients -> ClientPlaces] /\ cpc' \in [Clients -> ClientPlaces]
      BY DEF JInv, IInv, TypeOK
    <2>2. \A c \in Clients : cpc'[c] \in {"push", "pushWait", "pushWoken"}
                               => cpc[c] \in {"push", "pushWait", "pushWoken"}
      BY <2>1 DEF ClientPlaces
    <2>3. QED
      BY <2>2 DEF JInv, HandsOK
  <1>4. QED
    BY <1>2, <1>3 DEF JInv

(* A step that concerns neither jobs nor clients.                          *)
LEMMA NobodyMoves ==
  ASSUME JInv, IInv', UNCHANGED <<buf, wjob, cpc, cjob, fulfilled, left, refused, calls>>,
         \A w \in Workers : wpc'[w] \in {"popped", "run"} => wpc[w] \in {"popped", "run"}
  PROVE  JInv'
  BY NothingPlaced

(* Waiting for room in push_front, and JobCompletion.                      *)
LEMMA ClientWaits ==
  ASSUME JInv, IInv', NEW c \in Clients,
         \/ PushWait(c) \/ Wait(c) \/ WaitReturns(c) \/ Reset(c)
         \/ \E i \in DOMAIN completion[c] : Get(c, i)
  PROVE  JInv'
  <1>1. UNCHANGED <<buf, wjob, wpc, cjob, fulfilled, left, refused, calls>>
    BY DEF PushWait, Wait, WaitReturns, Reset, Get, queueVars, workerVars, ends
  <1>2. cpc \in [Clients -> ClientPlaces]
    BY DEF JInv, IInv, TypeOK
  <1>3. \A d \in Clients : /\ cpc'[d] = "pushed" <=> cpc[d] = "pushed"
                           /\ cpc'[d] \in {"idle", "wait"} <=> cpc[d] \in {"idle", "wait"}
    BY <1>2 DEF PushWait, Pushing, Wait, WaitReturns, Reset, Get
  <1>4. QED
    BY <1>1, <1>3, NothingPlaced

(* Waiting, or giving up, in pop_back, and leaving.                        *)
LEMMA WorkerWaits ==
  ASSUME JInv, IInv', NEW w \in Workers, PopFinished(w) \/ PopWait(w) \/ Exit(w)
  PROVE  JInv'
  <1>1. UNCHANGED <<buf, wjob, cpc, cjob, fulfilled, left, refused, calls>>
    BY DEF PopFinished, PopWait, Exit, queueVars, clientVars, ends
  <1>2. \A v \in Workers : wpc'[v] \in {"popped", "run"} => wpc[v] \in {"popped", "run"}
    BY DEF JInv, IInv, TypeOK, PopFinished, PopWait, Exit
  <1>3. QED
    BY <1>1, <1>2, NobodyMoves

(* pop_back wakes a client.                                                *)
LEMMA RoomNotified ==
  ASSUME JInv, IInv', NEW w \in Workers, NotifyNotFull(w)
  PROVE  JInv'
  <1>1. UNCHANGED <<buf, wjob, cjob, fulfilled, left, refused, calls>>
    BY DEF NotifyNotFull, queueVars, ends
  <1>2. ClientsWoken(cpc')
    BY NotFullNotified DEF JInv, IInv, NotifyNotFull
  <1>3. \A d \in Clients : /\ cpc'[d] = "pushed" <=> cpc[d] = "pushed"
                           /\ cpc'[d] \in {"idle", "wait"} <=> cpc[d] \in {"idle", "wait"}
    BY <1>2 DEF ClientsWoken, Woken
  <1>4. \A v \in Workers : wpc'[v] \in {"popped", "run"} => wpc[v] \in {"popped", "run"}
    BY DEF JInv, IInv, TypeOK, NotifyNotFull
  <1>5. QED
    BY <1>1, <1>3, <1>4, NothingPlaced

(* Finish() up to its wait, and wake-ups.                                  *)
LEMMA EverybodyWakes ==
  ASSUME JInv, IInv', (\E f \in Finishers : Finish(f)) \/ SpuriousWakeup
  PROVE  JInv'
  <1>1. UNCHANGED <<buf, wjob, cjob, fulfilled, left, refused, calls>>
    BY DEF Finish, SpuriousWakeup, queueVars, workerVars, clientVars, ends
  <1>2. ClientsWoken(cpc')
    BY NotFullNotified DEF JInv, IInv, Finish, SpuriousWakeup, clientVars
  <1>3. WorkersWoken(wpc')
    BY NotEmptyNotified DEF JInv, IInv, Finish, SpuriousWakeup, workerVars
  <1>4. \A d \in Clients : /\ cpc'[d] = "pushed" <=> cpc[d] = "pushed"
                           /\ cpc'[d] \in {"idle", "wait"} <=> cpc[d] \in {"idle", "wait"}
    BY <1>2 DEF ClientsWoken, Woken
  <1>5. \A v \in Workers : wpc'[v] \in {"popped", "run"} => wpc[v] \in {"popped", "run"}
    BY <1>3 DEF WorkersWoken, Woken
  <1>6. QED
    BY <1>1, <1>4, <1>5, NothingPlaced

(* Finish() when nobody runs, or woken too early.                          *)
LEMMA FinishWaits ==
  ASSUME JInv, IInv', NEW f \in Finishers, FinishNothing(f) \/ FinishWaitAgain(f)
  PROVE  JInv'
  BY NobodyMoves
     DEF FinishNothing, FinishWaitAgain, queueVars, workerVars, clientVars, ends

-----------------------------------------------------------------------------
(* The steps that move a job.                                              *)

(* QueueJob.                                                               *)
LEMMA QueueJobPlaces ==
  ASSUME JInv, IInv', NEW c \in Clients, NEW b \in BOOLEAN, QueueJob(c, b)
  PROVE  JInv'
  <1>1. /\ cpc[c] = "idle" /\ calls' = calls + 1 /\ calls \in Nat
        /\ cpc' = [cpc EXCEPT ![c] = "push"] /\ cjob' = [cjob EXCEPT ![c] = calls + 1]
        /\ cpc \in [Clients -> ClientPlaces] /\ cjob \in [Clients -> Items]
        /\ UNCHANGED <<buf, wjob, wpc, fulfilled, left, refused>>
    BY SizesAssumption DEF JInv, IInv, TypeOK, QueueJob, queueVars, workerVars, ends
  <1>2. calls + 1 # NoJob /\ calls + 1 \notin 1 .. calls
    BY <1>1 DEF NoJob
  <1>3. cjob[c] = NoJob
    BY <1>1 DEF JInv, HandsOK
  <1>4. cpc'[c] = "push" /\ cjob'[c] = calls + 1
        /\ \A d \in Clients : d # c => cpc'[d] = cpc[d] /\ cjob'[d] = cjob[d]
    BY <1>1
  <1>5. Offered' = Offered \cup {calls + 1}
    BY <1>1, <1>2, <1>3, <1>4 DEF Offered
  <1>6. Conserved(Contents(buf, Capacity), wjob, Offered, fulfilled, left, refused, calls)
    BY Conserves DEF JInv
  <1>7. Conserved(Contents(buf, Capacity), wjob, Offered \cup {calls + 1}, fulfilled, left,
                  refused, calls + 1)
    BY <1>1, <1>6, JobMadeUp
  <1>8. JobsConserved'
    BY <1>1, <1>5, <1>7, Conserves
  <1>9. calls + 1 \notin Offered
    BY <1>2, <1>6 DEF Conserved, Holding
  <1>10. HandsOK'
    <2>1. (\A d \in Clients : cjob[d] = NoJob <=> cpc[d] \in {"idle", "wait"})'
      BY <1>2, <1>4 DEF JInv, HandsOK
    <2>2. \A d \in Clients : d # c /\ cpc[d] \in {"push", "pushWait", "pushWoken"}
                               => cjob[d] # calls + 1
      BY <1>2, <1>9 DEF Offered
    <2>3. (\A x, y \in Clients :
             /\ {cpc[x], cpc[y]} \subseteq {"push", "pushWait", "pushWoken"}
             /\ cjob[x] = cjob[y]
             => x = y)'
      BY <1>4, <2>2 DEF JInv, HandsOK
    <2>4. QED
      BY <1>1, <2>1, <2>3 DEF JInv, HandsOK
  <1>11. QED
    BY <1>8, <1>10 DEF JInv

(* What a client that leaves push_front's loop takes from the jobs offered. *)
LEMMA OfferTaken ==
  ASSUME JInv, NEW c \in Clients, Pushing(c),
         \A d \in Clients : d # c => cpc'[d] = cpc[d] /\ cjob'[d] = cjob[d],
         cpc'[c] = "pushed" \/ cjob'[c] = NoJob
  PROVE  /\ cjob[c] \in Offered /\ cjob[c] # NoJob /\ cjob[c] \in Items
         /\ Offered' = Offered \ {cjob[c]}
  <1>1. /\ cpc[c] \in {"push", "pushWait", "pushWoken"}
        /\ cpc[c] # "pushed" /\ cjob[c] # NoJob /\ cjob[c] \in Items
    BY DEF Pushing, JInv, HandsOK, IInv, TypeOK
  <1>2. cjob[c] \in Offered
    BY <1>1 DEF Offered
  <1>3. \A d \in Clients : cpc[d] # "pushed" /\ cjob[d] # NoJob
                             => cpc[d] \in {"push", "pushWait", "pushWoken"}
    BY DEF JInv, HandsOK, IInv, TypeOK, ClientPlaces
  <1>4. \A d \in Clients : d # c /\ cpc[d] # "pushed" => cjob[d] # cjob[c]
    BY <1>1, <1>3 DEF JInv, HandsOK
  <1>5. Offered' = Offered \ {cjob[c]}
    BY <1>1, <1>4 DEF Offered
  <1>6. QED
    BY <1>1, <1>2, <1>5

(* push_front finds the queue finished.                                    *)
LEMMA PushRefusedPlaces ==
  ASSUME JInv, IInv', NEW c \in Clients, PushRefused(c)
  PROVE  JInv'
  <1>1. /\ Pushing(c) /\ refused' = refused \cup {cjob[c]}
        /\ UNCHANGED <<buf, wjob, wpc, fulfilled, left, calls>>
        /\ cpc'[c] = "idle" /\ cjob'[c] = NoJob
        /\ \A d \in Clients : d # c => cpc'[d] = cpc[d] /\ cjob'[d] = cjob[d]
    BY DEF JInv, IInv, TypeOK, PushRefused, queueVars, workerVars
  <1>2. cjob[c] \in Offered /\ Offered' = Offered \ {cjob[c]}
    BY <1>1, OfferTaken
  <1>3. JobsConserved'
    <2>1. Conserved(Contents(buf, Capacity), wjob, Offered, fulfilled, left, refused, calls)
      BY Conserves DEF JInv
    <2>2. Conserved(Contents(buf, Capacity), wjob, Offered \ {cjob[c]}, fulfilled, left,
                    refused \cup {cjob[c]}, calls)
      BY <1>2, <2>1, JobRefused
    <2>3. QED
      BY <1>1, <1>2, <2>2, Conserves
  <1>4. HandsOK'
    BY <1>1 DEF JInv, HandsOK
  <1>5. QED
    BY <1>3, <1>4 DEF JInv

(* push_front stores a job.                                                *)
LEMMA PushStorePlaces ==
  ASSUME JInv, IInv', NEW c \in Clients, PushStore(c)
  PROVE  JInv'
  <1>1. /\ Pushing(c) /\ ~IsFull(buf, Capacity) /\ buf' = PushFront(buf, Capacity, cjob[c])
        /\ UNCHANGED <<cjob, wjob, wpc, fulfilled, left, refused, calls>>
        /\ cpc'[c] = "pushed" /\ \A d \in Clients : d # c => cpc'[d] = cpc[d]
        /\ buf \in BufferType
    BY DEF JInv, IInv, TypeOK, BufferType, PushStore, workerVars, ends
  <1>2. /\ cjob[c] \in Offered /\ cjob[c] # NoJob /\ cjob[c] \in Items
        /\ Offered' = Offered \ {cjob[c]}
    BY <1>1, OfferTaken
  <1>3. RingOK(buf)
    BY DEF JInv, HandsOK, RingOK
  <1>4. Contents(buf', Capacity) = Append(Contents(buf, Capacity), cjob[c]) /\ RingOK(buf')
    BY <1>1, <1>2, <1>3, PushAppends
  <1>5. JobsConserved'
    <2>1. Conserved(Contents(buf, Capacity), wjob, Offered, fulfilled, left, refused, calls)
      BY Conserves DEF JInv
    <2>2. Contents(buf, Capacity) \in Seq(Items)
      BY <1>1, ContentsShape
    <2>3. Conserved(Append(Contents(buf, Capacity), cjob[c]), wjob, Offered \ {cjob[c]},
                    fulfilled, left, refused, calls)
      BY <1>2, <2>1, <2>2, JobStored
    <2>4. QED
      BY <1>1, <1>2, <1>4, <2>3, Conserves
  <1>6. HandsOK'
    <2>1. (buf.head = (buf.tail + buf.size) % Capacity)'
      BY <1>4 DEF RingOK
    <2>2. (\A d \in Clients : cjob[d] = NoJob <=> cpc[d] \in {"idle", "wait"})'
      BY <1>1, <1>2 DEF JInv, HandsOK
    <2>3. (\A x, y \in Clients :
             /\ {cpc[x], cpc[y]} \subseteq {"push", "pushWait", "pushWoken"}
             /\ cjob[x] = cjob[y]
             => x = y)'
      BY <1>1 DEF JInv, HandsOK
    <2>4. QED
      BY <1>1, <2>1, <2>2, <2>3 DEF JInv, HandsOK
  <1>7. QED
    BY <1>5, <1>6 DEF JInv

(* push_front wakes a worker, and its client is done with the job.         *)
LEMMA ItemNotified ==
  ASSUME JInv, IInv', NEW c \in Clients, NotifyNotEmpty(c)
  PROVE  JInv'
  <1>1. /\ cpc[c] = "pushed" /\ UNCHANGED <<buf, wjob, fulfilled, left, refused, calls>>
        /\ cpc'[c] = "idle" /\ cjob'[c] = NoJob
        /\ \A d \in Clients : d # c => cpc'[d] = cpc[d] /\ cjob'[d] = cjob[d]
    BY DEF JInv, IInv, TypeOK, NotifyNotEmpty, queueVars, ends
  <1>2. Offered' = Offered
    BY <1>1 DEF Offered
  <1>3. JobsConserved'
    <2>1. Conserved(Contents(buf, Capacity), wjob, Offered, fulfilled, left, refused, calls)
      BY Conserves DEF JInv
    <2>2. QED
      BY <1>1, <1>2, <2>1, Conserves
  <1>4. WorkersWoken(wpc')
    BY NotEmptyNotified DEF JInv, IInv, NotifyNotEmpty
  <1>5. \A v \in Workers : wpc'[v] \in {"popped", "run"} => wpc[v] \in {"popped", "run"}
    BY <1>4 DEF WorkersWoken, Woken
  <1>6. HandsOK'
    BY <1>1, <1>5 DEF JInv, HandsOK
  <1>7. QED
    BY <1>3, <1>6 DEF JInv

(* pop_back takes a job.                                                   *)
LEMMA PopTakePlaces ==
  ASSUME JInv, IInv', NEW w \in Workers, PopTake(w)
  PROVE  JInv'
  <1>1. /\ Popping(w) /\ ~IsEmpty(buf) /\ buf' = PopBack(buf, Capacity)
        /\ wjob' = [wjob EXCEPT ![w] = Back(buf)] /\ wjob \in [Workers -> Items]
        /\ \A v \in Workers : v # w => wpc'[v] = wpc[v]
        /\ UNCHANGED <<cpc, cjob, fulfilled, left, refused, calls>>
        /\ buf \in BufferType
    BY DEF JInv, IInv, TypeOK, BufferType, PopTake, clientVars, ends
  <1>2. wjob[w] = NoJob
    BY <1>1 DEF Popping, JInv, IInv, ControlOK
  <1>3. RingOK(buf)
    BY DEF JInv, HandsOK, RingOK
  <1>4. /\ Contents(buf, Capacity) # << >> /\ Back(buf) = Contents(buf, Capacity)[1]
        /\ Contents(buf', Capacity) = Tail(Contents(buf, Capacity)) /\ RingOK(buf')
    BY <1>1, <1>3, PopTails
  <1>5. Offered' = Offered
    BY <1>1 DEF Offered
  <1>6. Conserved(Contents(buf, Capacity), wjob, Offered, fulfilled, left, refused, calls)
    BY Conserves DEF JInv
  <1>7. Contents(buf, Capacity) \in Seq(Items)
    BY <1>1, ContentsShape
  <1>8. JobsConserved'
    <2>1. Conserved(Tail(Contents(buf, Capacity)),
                    [wjob EXCEPT ![w] = Contents(buf, Capacity)[1]],
                    Offered, fulfilled, left, refused, calls)
      BY <1>1, <1>2, <1>4, <1>6, <1>7, JobTaken
    <2>2. QED
      BY <1>1, <1>4, <1>5, <2>1, Conserves
  <1>9. HandsOK'
    <2>1. (buf.head = (buf.tail + buf.size) % Capacity)'
      BY <1>4 DEF RingOK
    <2>2. wjob'[w] # NoJob
      <3>1. IsInjective(Contents(buf, Capacity)) /\ NoJob \notin ToSet(Contents(buf, Capacity))
        BY <1>6 DEF Conserved
      <3>2. Contents(buf, Capacity)[1] # NoJob
        BY <3>1, <1>4, <1>7, HeadTaken
      <3>3. QED
        BY <3>2, <1>1, <1>4
    <2>3. (\A v \in Workers : wpc[v] \in {"popped", "run"} => wjob[v] # NoJob)'
      BY <2>2, <1>1 DEF JInv, HandsOK
    <2>4. QED
      BY <2>1, <2>3, <1>1 DEF JInv, HandsOK
  <1>10. QED
    BY <1>8, <1>9 DEF JInv

(* A job runs to its end.                                                  *)
LEMMA RunJobPlaces ==
  ASSUME JInv, IInv', NEW w \in Workers, RunJob(w)
  PROVE  JInv'
  <1>1. /\ wpc[w] = "run" /\ fulfilled' = fulfilled \cup {wjob[w]}
        /\ wjob' = [wjob EXCEPT ![w] = NoJob] /\ wjob \in [Workers -> Items]
        /\ wpc'[w] = "pop" /\ \A v \in Workers : v # w => wpc'[v] = wpc[v]
        /\ UNCHANGED <<buf, cpc, cjob, left, refused, calls>>
    BY DEF JInv, IInv, TypeOK, RunJob, queueVars, clientVars
  <1>2. wjob[w] # NoJob
    BY <1>1 DEF JInv, HandsOK
  <1>3. Offered' = Offered
    BY <1>1 DEF Offered
  <1>4. JobsConserved'
    <2>1. Conserved(Contents(buf, Capacity), wjob, Offered, fulfilled, left, refused, calls)
      BY Conserves DEF JInv
    <2>2. Conserved(Contents(buf, Capacity), [wjob EXCEPT ![w] = NoJob], Offered,
                    fulfilled \cup {wjob[w]}, left, refused, calls)
      BY <1>1, <1>2, <2>1, JobRun
    <2>3. QED
      BY <1>1, <1>3, <2>2, Conserves
  <1>5. HandsOK'
    BY <1>1 DEF JInv, HandsOK
  <1>6. QED
    BY <1>4, <1>5 DEF JInv

(* Finish() collects the jobs left over.                                   *)
LEMMA FinishDrainPlaces ==
  ASSUME JInv, IInv', NEW f \in Finishers, FinishDrain(f)
  PROVE  JInv'
  <1>1. /\ buf' = [buf EXCEPT !.tail = (@ + buf.size) % Capacity, !.size = 0]
        /\ left' = left \cup ToSet(Contents(buf, Capacity))
        /\ UNCHANGED <<wjob, wpc, cpc, cjob, fulfilled, refused, calls>>
        /\ buf \in BufferType
    BY DEF JInv, IInv, TypeOK, BufferType, FinishDrain, workerVars, clientVars, Queued
  <1>2. RingOK(buf)
    BY DEF JInv, HandsOK, RingOK
  <1>3. Contents(buf', Capacity) = << >> /\ RingOK(buf')
    BY <1>1, <1>2, DrainEmpties
  <1>4. Offered' = Offered
    BY <1>1 DEF Offered
  <1>5. JobsConserved'
    <2>1. Conserved(Contents(buf, Capacity), wjob, Offered, fulfilled, left, refused, calls)
      BY Conserves DEF JInv
    <2>2. Conserved(<< >>, wjob, Offered, fulfilled,
                    left \cup ToSet(Contents(buf, Capacity)), refused, calls)
      BY <2>1, JobsLeft
    <2>3. QED
      BY <1>1, <1>3, <1>4, <2>2, Conserves
  <1>6. HandsOK'
    <2>1. (buf.head = (buf.tail + buf.size) % Capacity)'
      BY <1>3 DEF RingOK
    <2>2. QED
      BY <2>1, <1>1 DEF JInv, HandsOK
  <1>7. QED
    BY <1>5, <1>6 DEF JInv

-----------------------------------------------------------------------------
(* No job is lost, and the queue is a FIFO.                                *)

(* A new pool has no job anywhere.                                         *)
LEMMA InitJInv == Init => JInv
  <1> SUFFICES ASSUME Init PROVE JInv
    OBVIOUS
  <1>1. IInv
    BY InitIInv
  <1>2. buf.head = 0 /\ buf.tail = 0 /\ buf.size = 0 /\ buf \in BufferType
    BY <1>1 DEF Init, NewBuffer, IInv, TypeOK, BufferType
  <1>3. HandsOK
    <2>1. 0 \in 0 .. Capacity - 1
      BY CapacityPositive
    <2>2. 0 % Capacity = 0
      BY <2>1, CapacityPositive, InRange, Zenon
    <2>3. buf.head = (buf.tail + buf.size) % Capacity
      BY <1>2, <2>2
    <2>4. \A c \in Clients : cjob[c] = NoJob /\ cpc[c] = "idle"
      BY DEF Init
    <2>5. \A w \in Workers : wpc[w] = "pop"
      BY DEF Init
    <2>6. QED
      BY <2>3, <2>4, <2>5 DEF HandsOK
  <1>4. JobsConserved
    <2>1. Contents(buf, Capacity) = << >>
      BY <1>2, ContentsShape, EmptySeq
    <2>2. ToSet(<< >>) = {} /\ IsInjective(<< >>)
      BY DEF ToSet, IsInjective
    <2>3. \A w \in Workers : wjob[w] = NoJob
      BY DEF Init
    <2>4. Held(wjob) = {}
      BY <2>3 DEF Held
    <2>5. Offered = {}
      BY DEF Offered, Init
    <2>6. 1 .. calls = {} /\ fulfilled = {} /\ left = {} /\ refused = {}
      BY DEF Init
    <2>7. /\ Apart({}, {}, {}, {}, {}, {})
          /\ Holding({}, {}, {}, {}, {}, {}, {})
      BY DEF Apart, Holding
    <2>8. Conserved(Contents(buf, Capacity), wjob, Offered, fulfilled, left, refused, calls)
      BY <2>1, <2>2, <2>3, <2>4, <2>5, <2>6, <2>7, Zenon DEF Conserved
    <2>9. QED
      BY <2>8, Conserves
  <1>5. QED
    BY <1>1, <1>3, <1>4 DEF JInv

(* Every step keeps the invariant.                                         *)
LEMMA NextJInv == JInv /\ [Next]_vars => JInv'
  <1> SUFFICES ASSUME JInv, [Next]_vars PROVE JInv'
    OBVIOUS
  <1>0. IInv'
    BY NextIInv DEF JInv
  <1>1. ASSUME NEW w \in Workers, WorkerStep(w)
        PROVE  JInv'
    BY <1>0, <1>1, WorkerWaits, PopTakePlaces, RoomNotified, RunJobPlaces
       DEF WorkerStep
  <1>2. ASSUME NEW c \in Clients, ClientStep(c)
        PROVE  JInv'
    BY <1>0, <1>2, PushRefusedPlaces, ClientWaits, PushStorePlaces, ItemNotified
       DEF ClientStep
  <1>3. ASSUME NEW f \in Finishers, FinisherStep(f) \/ Finish(f) \/ FinishNothing(f)
        PROVE  JInv'
    BY <1>0, <1>3, EverybodyWakes, FinishWaits, FinishDrainPlaces DEF FinisherStep
  <1>4. CASE UNCHANGED vars
    <2>1. UNCHANGED <<buf, wjob, cpc, cjob, fulfilled, left, refused, calls, wpc>>
      BY <1>4 DEF vars, queueVars, workerVars, clientVars, ends
    <2>2. QED
      BY <1>0, <2>1, NobodyMoves
  <1>5. QED
    BY <1>0, <1>1, <1>2, <1>3, <1>4, ClientWaits, QueueJobPlaces, EverybodyWakes DEF Next

(* The invariant behind JobsConserved and FifoSpec: where the ring's head  *)
(* is, and who has a job in hand.                                          *)
THEOREM JobsInvariance == Spec => []JInv
  BY InitJInv, NextJInv, PTL DEF Spec

(* QueueJob, pop_back, ThreadFunc and Finish() lose no job and run none    *)
(* twice, whatever the capacity, however the ring wraps and whenever the   *)
(* pool is finished: each call's job is in exactly one place.              *)
THEOREM NoJobLost == Spec => []JobsConserved
  <1>1. JInv => JobsConserved
    BY DEF JInv
  <1>2. QED
    BY <1>1, JobsInvariance, PTL

-----------------------------------------------------------------------------
(* The refinement: the queue of JobFifo is what the ring buffer holds.     *)

FifoVars == <<Contents(buf, Capacity), finished>>

(* A new pool's queue is empty and open.                                   *)
LEMMA FifoInit == Init => Fifo!Init
  <1> SUFFICES ASSUME Init PROVE Contents(buf, Capacity) = << >> /\ finished = FALSE
    BY DEF Fifo!Init
  <1>1. buf \in BufferType /\ buf.size = 0
    BY InitIInv DEF Init, NewBuffer, IInv, TypeOK, BufferType
  <1>2. QED
    BY <1>1, ContentsShape, EmptySeq DEF Init

(* push_front that stores a job is Put: there was room, and it goes last.  *)
LEMMA PushIsPut ==
  ASSUME JInv, NEW c \in Clients, PushStore(c)
  PROVE  \E j \in Jobs : Fifo!Put(j)
  <1>1. /\ Pushing(c) /\ ~finished /\ ~IsFull(buf, Capacity) /\ finished' = finished
        /\ buf' = PushFront(buf, Capacity, cjob[c]) /\ buf \in BufferType /\ RingOK(buf)
    BY DEF JInv, IInv, TypeOK, HandsOK, BufferType, PushStore, RingOK
  <1>2. cjob[c] \in Jobs /\ cjob[c] \in Items
    BY <1>1 DEF JInv, IInv, TypeOK, HandsOK, Pushing, Items
  <1>3. Contents(buf', Capacity) = Append(Contents(buf, Capacity), cjob[c])
    BY <1>1, <1>2, PushAppends
  <1>4. Len(Contents(buf, Capacity)) < Capacity
    <2>1. Len(Contents(buf, Capacity)) = buf.size
      BY <1>1, ContentsShape
    <2>2. buf.size \in 0 .. Capacity /\ buf.size # Capacity
      BY <1>1 DEF BufferType, IsFull
    <2>3. QED
      BY <2>1, <2>2, CapacityPositive
  <1>5. Fifo!Put(cjob[c])
    BY <1>1, <1>3, <1>4 DEF Fifo!Put
  <1>6. QED
    BY <1>2, <1>5

(* pop_back that takes a job is Take: it is the oldest.                    *)
LEMMA PopIsTake ==
  ASSUME JInv, NEW w \in Workers, PopTake(w)
  PROVE  Fifo!Take
  <1>1. /\ ~finished /\ ~IsEmpty(buf) /\ finished' = finished
        /\ buf' = PopBack(buf, Capacity) /\ buf \in BufferType /\ RingOK(buf)
    BY DEF JInv, IInv, TypeOK, HandsOK, BufferType, PopTake, RingOK
  <1>2. QED
    BY <1>1, PopTails DEF Fifo!Take

(* Finish() closes the queue once.                                         *)
LEMMA FinishIsClose ==
  ASSUME NEW f \in Finishers, Finish(f), JInv
  PROVE  Fifo!Close \/ UNCHANGED FifoVars
  <1>1. finished' = TRUE /\ buf' = buf
    BY DEF Finish
  <1>2. finished = TRUE \/ finished = FALSE
    BY Zenon DEF JInv, IInv, TypeOK
  <1>3. QED
    BY <1>1, <1>2, Zenon DEF Fifo!Close, FifoVars

(* Finish() drains a queue that is closed.                                 *)
LEMMA FinishIsDrain ==
  ASSUME NEW f \in Finishers, FinishDrain(f), JInv
  PROVE  Fifo!Drain
  <1>1. /\ finished /\ finished' = finished
        /\ buf' = [buf EXCEPT !.tail = (@ + buf.size) % Capacity, !.size = 0]
        /\ buf \in BufferType /\ RingOK(buf)
    BY DEF FinishDrain, JInv, IInv, TypeOK, ControlOK, HandsOK, BufferType, RingOK
  <1>2. Contents(buf', Capacity) = << >>
    BY <1>1, DrainEmpties
  <1>3. QED
    BY <1>1, <1>2 DEF Fifo!Drain

(* Every other step leaves the queue alone.                                *)
LEMMA QueueUntouched ==
  ASSUME UNCHANGED queueVars
  PROVE  UNCHANGED FifoVars
  BY DEF queueVars, FifoVars

(* Every step of the pool is a step of the queue, or leaves it alone.      *)
LEMMA FifoNext == JInv /\ [Next]_vars => [Fifo!Next]_FifoVars
  <1> SUFFICES ASSUME JInv, [Next]_vars PROVE Fifo!Next \/ UNCHANGED FifoVars
    OBVIOUS
  <1>1. ASSUME NEW w \in Workers, WorkerStep(w)
        PROVE  Fifo!Next \/ UNCHANGED FifoVars
    <2>1. CASE PopTake(w)
      BY <2>1, PopIsTake DEF Fifo!Next
    <2>2. CASE ~PopTake(w)
      BY <1>1, <2>2, QueueUntouched
         DEF WorkerStep, PopFinished, PopWait, NotifyNotFull, RunJob, Exit
    <2>3. QED
      BY <2>1, <2>2
  <1>2. ASSUME NEW c \in Clients, ClientStep(c)
        PROVE  Fifo!Next \/ UNCHANGED FifoVars
    <2>1. CASE PushStore(c)
      BY <2>1, PushIsPut DEF Fifo!Next
    <2>2. CASE ~PushStore(c)
      BY <1>2, <2>2, QueueUntouched
         DEF ClientStep, PushRefused, PushWait, NotifyNotEmpty, WaitReturns
    <2>3. QED
      BY <2>1, <2>2
  <1>3. ASSUME NEW c \in Clients,
               \/ Wait(c) \/ Reset(c) \/ \E i \in DOMAIN completion[c] : Get(c, i)
               \/ \E b \in BOOLEAN : QueueJob(c, b)
        PROVE  UNCHANGED FifoVars
    BY <1>3, QueueUntouched DEF Wait, Reset, Get, QueueJob
  <1>4. ASSUME NEW f \in Finishers, FinisherStep(f) \/ Finish(f) \/ FinishNothing(f)
        PROVE  Fifo!Next \/ UNCHANGED FifoVars
    <2>1. CASE Finish(f)
      BY <2>1, FinishIsClose DEF Fifo!Next
    <2>2. CASE FinishDrain(f)
      BY <2>2, FinishIsDrain DEF Fifo!Next
    <2>3. CASE FinishWaitAgain(f) \/ FinishNothing(f)
      BY <2>3, QueueUntouched DEF FinishWaitAgain, FinishNothing
    <2>4. QED
      BY <1>4, <2>1, <2>2, <2>3 DEF FinisherStep
  <1>5. CASE SpuriousWakeup
    BY <1>5, QueueUntouched DEF SpuriousWakeup
  <1>6. CASE UNCHANGED vars
    BY <1>6, QueueUntouched DEF vars
  <1>7. QED
    BY <1>1, <1>2, <1>3, <1>4, <1>5, <1>6 DEF Next

(* mpmc_bounded_queue implements JobFifo: its ring buffer, seen through    *)
(* Contents, changes only as a bounded first-in first-out queue that can   *)
(* be closed and drained does.                                             *)
THEOREM QueueIsFifo == Spec => FifoSpec
  <1>1. Init => Fifo!Init
    BY FifoInit
  <1>2. JInv /\ [Next]_vars => [Fifo!Next]_<<Contents(buf, Capacity), finished>>
    BY FifoNext DEF FifoVars
  <1>3. QED
    BY <1>1, <1>2, JobsInvariance, PTL DEF Spec, FifoSpec, Fifo!Spec
=============================================================================
