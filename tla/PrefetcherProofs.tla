-------------------------- MODULE PrefetcherProofs --------------------------
(***************************************************************************)
(* Proofs about Prefetcher, for any number of callers and workers, any     *)
(* length of the clip and any number of frames to prefetch.                *)
(***************************************************************************)
EXTENDS Prefetcher, ListLemmas, FiniteSetTheorems, SequenceTheorems, TLAPS

(* Sets that differ by one element.                                        *)
LEMMA OneApart ==
  ASSUME NEW A, IsFiniteSet(A), NEW x
  PROVE  /\ Cardinality(A) \in Nat
         /\ x \notin A => Cardinality(A \cup {x}) = Cardinality(A) + 1
         /\ x \in A => Cardinality(A \ {x}) = Cardinality(A) - 1 /\ Cardinality(A) >= 1
  <1>1. Cardinality(A) \in Nat
    BY FS_CardinalityType
  <1>2. x \notin A => Cardinality(A \cup {x}) = Cardinality(A) + 1
    BY FS_AddElement
  <1>3. ASSUME x \in A
        PROVE  Cardinality(A \ {x}) = Cardinality(A) - 1 /\ Cardinality(A) >= 1
    <2>1. Cardinality(A \ {x}) = Cardinality(A) - 1
      BY <1>3, FS_RemoveElement
    <2>2. Cardinality(A) # 0
      BY <1>3, FS_EmptySet
    <2>3. QED
      BY <2>1, <2>2, <1>1
  <1>4. QED
    BY <1>1, <1>2, <1>3

\* The threads of S that are at v, and that are not.
At(S, g, v) == {y \in S : g[y] = v}
Off(S, g, v) == {y \in S : g[y] # v}

(* Counting the threads at a place.                                        *)
LEMMA AtType ==
  ASSUME NEW S, IsFiniteSet(S), NEW g, NEW v
  PROVE  /\ IsFiniteSet(At(S, g, v)) /\ Cardinality(At(S, g, v)) \in Nat
         /\ Cardinality(At(S, g, v)) <= Cardinality(S)
         /\ IsFiniteSet(Off(S, g, v)) /\ Cardinality(Off(S, g, v)) \in Nat
  <1>1. At(S, g, v) \in SUBSET S /\ Off(S, g, v) \in SUBSET S
    BY DEF At, Off
  <1>2. QED
    BY <1>1, FS_Subset, FS_CardinalityType

(* One thread moves from g to h.                                           *)
LEMMA Moved ==
  ASSUME NEW S, IsFiniteSet(S), NEW g, NEW h, NEW x \in S,
         \A y \in S : y # x => h[y] = g[y], NEW v
  PROVE  /\ g[x] # v /\ h[x] = v
              => Cardinality(At(S, h, v)) = Cardinality(At(S, g, v)) + 1
         /\ g[x] = v /\ h[x] # v
              => Cardinality(At(S, h, v)) = Cardinality(At(S, g, v)) - 1
         /\ (g[x] = v <=> h[x] = v) => At(S, h, v) = At(S, g, v)
  <1>1. IsFiniteSet(At(S, g, v))
    BY AtType
  <1>2. ASSUME g[x] # v, h[x] = v
        PROVE  Cardinality(At(S, h, v)) = Cardinality(At(S, g, v)) + 1
    <2>1. At(S, h, v) = At(S, g, v) \cup {x} /\ x \notin At(S, g, v)
      BY <1>2 DEF At
    <2>2. QED
      BY <2>1, <1>1, OneApart
  <1>3. ASSUME g[x] = v, h[x] # v
        PROVE  Cardinality(At(S, h, v)) = Cardinality(At(S, g, v)) - 1
    <2>1. At(S, h, v) = At(S, g, v) \ {x} /\ x \in At(S, g, v)
      BY <1>3 DEF At
    <2>2. QED
      BY <2>1, <1>1, OneApart
  <1>4. ASSUME g[x] = v <=> h[x] = v PROVE At(S, h, v) = At(S, g, v)
    BY <1>4 DEF At
  <1>5. QED
    BY <1>2, <1>3, <1>4

(* ... seen from those that are elsewhere.                                 *)
LEMMA MovedOff ==
  ASSUME NEW S, IsFiniteSet(S), NEW g, NEW h, NEW x \in S,
         \A y \in S : y # x => h[y] = g[y], NEW v
  PROVE  /\ g[x] = v /\ h[x] # v
              => Cardinality(Off(S, h, v)) = Cardinality(Off(S, g, v)) + 1
         /\ g[x] # v /\ h[x] = v
              => Cardinality(Off(S, h, v)) = Cardinality(Off(S, g, v)) - 1
         /\ (g[x] = v <=> h[x] = v) => Off(S, h, v) = Off(S, g, v)
  <1>1. IsFiniteSet(Off(S, g, v))
    BY AtType
  <1>2. ASSUME g[x] = v, h[x] # v
        PROVE  Cardinality(Off(S, h, v)) = Cardinality(Off(S, g, v)) + 1
    <2>1. Off(S, h, v) = Off(S, g, v) \cup {x} /\ x \notin Off(S, g, v)
      BY <1>2 DEF Off
    <2>2. QED
      BY <2>1, <1>1, OneApart
  <1>3. ASSUME g[x] # v, h[x] = v
        PROVE  Cardinality(Off(S, h, v)) = Cardinality(Off(S, g, v)) - 1
    <2>1. Off(S, h, v) = Off(S, g, v) \ {x} /\ x \in Off(S, g, v)
      BY <1>3 DEF Off
    <2>2. QED
      BY <2>1, <1>1, OneApart
  <1>4. ASSUME g[x] = v <=> h[x] = v PROVE Off(S, h, v) = Off(S, g, v)
    BY <1>4 DEF Off
  <1>5. QED
    BY <1>2, <1>3, <1>4

(* A caller moves.                                                         *)
LEMMA CallerMoved ==
  ASSUME NEW p, NEW q, NEW c \in Callers, \A d \in Callers : d # c => q[d] = p[d]
  PROVE  \A v :
           /\ p[c] # v /\ q[c] = v
                => Cardinality(At(Callers, q, v)) = Cardinality(At(Callers, p, v)) + 1
           /\ p[c] = v /\ q[c] # v
                => Cardinality(At(Callers, q, v)) = Cardinality(At(Callers, p, v)) - 1
           /\ (p[c] = v <=> q[c] = v) => At(Callers, q, v) = At(Callers, p, v)
  <1> SUFFICES ASSUME NEW v
               PROVE
           /\ p[c] # v /\ q[c] = v
                => Cardinality(At(Callers, q, v)) = Cardinality(At(Callers, p, v)) + 1
           /\ p[c] = v /\ q[c] # v
                => Cardinality(At(Callers, q, v)) = Cardinality(At(Callers, p, v)) - 1
           /\ (p[c] = v <=> q[c] = v) => At(Callers, q, v) = At(Callers, p, v)
    OBVIOUS
  <1>1. IsFiniteSet(Callers)
    BY SizesAssumption
  <1>2. QED
    BY <1>1, Moved, ZenonT(60)

(* A worker moves.                                                         *)
LEMMA WorkerMoved ==
  ASSUME NEW p, NEW q, NEW w \in Workers, \A u \in Workers : u # w => q[u] = p[u]
  PROVE  \A v :
           /\ p[w] = v /\ q[w] # v
                => Cardinality(Off(Workers, q, v)) = Cardinality(Off(Workers, p, v)) + 1
           /\ p[w] # v /\ q[w] = v
                => Cardinality(Off(Workers, q, v)) = Cardinality(Off(Workers, p, v)) - 1
           /\ (p[w] = v <=> q[w] = v) => Off(Workers, q, v) = Off(Workers, p, v)
  <1> SUFFICES ASSUME NEW v
               PROVE
           /\ p[w] = v /\ q[w] # v
                => Cardinality(Off(Workers, q, v)) = Cardinality(Off(Workers, p, v)) + 1
           /\ p[w] # v /\ q[w] = v
                => Cardinality(Off(Workers, q, v)) = Cardinality(Off(Workers, p, v)) - 1
           /\ (p[w] = v <=> q[w] = v) => Off(Workers, q, v) = Off(Workers, p, v)
    OBVIOUS
  <1>1. IsFiniteSet(Workers)
    BY SizesAssumption
  <1>2. QED
    BY <1>1, MovedOff, ZenonT(60)

-----------------------------------------------------------------------------
(* The counter: r running_workers, a callers past MaySchedule, q callers   *)
(* about to queue, l jobs queued, b busy workers.                          *)

Count(r, a, q, l, b, open) ==
  /\ r + a <= nPrefetchFrames + Cardinality(Callers) - 1
  /\ r >= q + l + b
  /\ open => r = q + l + b

(* CountOK in this form, before and after a step.                          *)
LEMMA Counts ==
  /\ CountOK <=> Count(running_workers, Cardinality(At(Callers, pc, "ahead")),
                       Cardinality(At(Callers, pc, "queueing")), Len(queue),
                       Cardinality(Off(Workers, wpc, "idle")), closer = "nobody")
  /\ CountOK' <=> Count(running_workers', Cardinality(At(Callers, pc', "ahead")),
                        Cardinality(At(Callers, pc', "queueing")), Len(queue'),
                        Cardinality(Off(Workers, wpc', "idle")), closer' = "nobody")
  BY DEF CountOK, WorkersCounted, InFlight, Count, At, Off

(* The four numbers are natural.                                           *)
LEMMA CountTypes ==
  ASSUME NEW p, NEW q
  PROVE  /\ Cardinality(Callers) \in Nat /\ nPrefetchFrames \in Nat \ {0}
         /\ Cardinality(At(Callers, p, "ahead")) \in Nat
         /\ Cardinality(At(Callers, p, "ahead")) <= Cardinality(Callers)
         /\ Cardinality(At(Callers, p, "queueing")) \in Nat
         /\ Cardinality(Off(Workers, q, "idle")) \in Nat
  BY AtType, FS_CardinalityType, SizesAssumption

(* ... in the counts that a step of a caller changes.                      *)
LEMMA CallerStepCounts ==
  ASSUME NEW c \in Callers, \A d \in Callers : d # c => pc'[d] = pc[d]
  PROVE  \A v \in {"ahead", "queueing"} :
           /\ pc[c] # v /\ pc'[c] = v
                => Cardinality(At(Callers, pc', v)) = Cardinality(At(Callers, pc, v)) + 1
           /\ pc[c] = v /\ pc'[c] # v
                => Cardinality(At(Callers, pc', v)) = Cardinality(At(Callers, pc, v)) - 1
           /\ (pc[c] = v <=> pc'[c] = v) => At(Callers, pc', v) = At(Callers, pc, v)
  <1>1. \A v :
           /\ pc[c] # v /\ pc'[c] = v
                => Cardinality(At(Callers, pc', v)) = Cardinality(At(Callers, pc, v)) + 1
           /\ pc[c] = v /\ pc'[c] # v
                => Cardinality(At(Callers, pc', v)) = Cardinality(At(Callers, pc, v)) - 1
           /\ (pc[c] = v <=> pc'[c] = v) => At(Callers, pc', v) = At(Callers, pc, v)
    BY CallerMoved, Zenon
  <1>2. QED
    BY <1>1

(* ... and of a worker.                                                    *)
LEMMA WorkerStepCounts ==
  ASSUME NEW w \in Workers, \A u \in Workers : u # w => wpc'[u] = wpc[u]
  PROVE  \A v \in {"idle"} :
           /\ wpc[w] = v /\ wpc'[w] # v
                => Cardinality(Off(Workers, wpc', v)) = Cardinality(Off(Workers, wpc, v)) + 1
           /\ wpc[w] # v /\ wpc'[w] = v
                => Cardinality(Off(Workers, wpc', v)) = Cardinality(Off(Workers, wpc, v)) - 1
           /\ (wpc[w] = v <=> wpc'[w] = v) => Off(Workers, wpc', v) = Off(Workers, wpc, v)
  <1>1. \A v :
           /\ wpc[w] = v /\ wpc'[w] # v
                => Cardinality(Off(Workers, wpc', v)) = Cardinality(Off(Workers, wpc, v)) + 1
           /\ wpc[w] # v /\ wpc'[w] = v
                => Cardinality(Off(Workers, wpc', v)) = Cardinality(Off(Workers, wpc, v)) - 1
           /\ (wpc[w] = v <=> wpc'[w] = v) => Off(Workers, wpc', v) = Off(Workers, wpc, v)
    BY WorkerMoved, Zenon
  <1>2. QED
    BY <1>1

(* All the numbers at once.                                                *)
LEMMA NumbersCounted ==
  ASSUME IInv
  PROVE  /\ Cardinality(At(Callers, pc, "ahead")) \in Nat /\ Cardinality(Callers) \in Nat
         /\ Cardinality(At(Callers, pc, "queueing")) \in Nat /\ nPrefetchFrames \in Nat
         /\ Cardinality(Off(Workers, wpc, "idle")) \in Nat
         /\ running_workers \in Nat /\ Len(queue) \in Nat
  <1>1. /\ Cardinality(At(Callers, pc, "ahead")) \in Nat /\ Cardinality(Callers) \in Nat
        /\ Cardinality(At(Callers, pc, "queueing")) \in Nat /\ nPrefetchFrames \in Nat
        /\ Cardinality(Off(Workers, wpc, "idle")) \in Nat
    BY CountTypes
  <1>2. running_workers \in Nat /\ queue \in Seq(Frames)
    BY DEF IInv, TypeOK
  <1>3. Len(queue) \in Nat
    BY <1>2, LenProperties
  <1>4. QED
    BY <1>1, <1>2, <1>3

-----------------------------------------------------------------------------
(* What a step does to the entries.                                        *)

(* Those that wait for a frame are finitely many.                          *)
LEMMA WaitersFinite ==
  ASSUME NEW f
  PROVE  IsFiniteSet(Waiters(f)) /\ Cardinality(Waiters(f)) \in Nat
  <1>1. Waiters(f) \in SUBSET Callers
    BY DEF Waiters
  <1>2. QED
    BY <1>1, FS_Subset, FS_CardinalityType, SizesAssumption

(* A step that concerns the entry of f, and may evict others that nobody   *)
(* has locked.                                                             *)
LEMMA OnlyEntry ==
  ASSUME IInv, NEW f \in Frames, closer' = closer,
         \A k \in Frames : k # f =>
           /\ Owned(k)' <=> Owned(k)
           /\ Waiters(k)' = Waiters(k) /\ locks'[k] = locks[k]
           /\ state'[k] = state[k] \/ (state'[k] = "ABSENT" /\ locks[k] = 0),
         EntryOK(state'[f], locks'[f], Owned(f)', Cardinality(Waiters(f)'),
                 closer # "environment")
  PROVE  EntriesOK'
  <1> SUFFICES ASSUME NEW k \in Frames
               PROVE  EntryOK(state'[k], locks'[k], Owned(k)', Cardinality(Waiters(k)'),
                              closer # "environment")
    BY DEF EntriesOK
  <1>1. EntryOK(state[k], locks[k], Owned(k), Cardinality(Waiters(k)), closer # "environment")
    BY DEF IInv, EntriesOK
  <1>2. Cardinality(Waiters(k)) \in Nat
    BY WaitersFinite
  <1>3. CASE k = f
    BY <1>3
  <1>4. CASE k # f /\ state'[k] = state[k]
    BY <1>1, <1>4 DEF EntryOK
  <1>5. CASE k # f /\ state'[k] = "ABSENT" /\ locks[k] = 0
    <2>1. ~Owned(k) /\ Cardinality(Waiters(k)) = 0
      BY <1>1, <1>2, <1>5 DEF EntryOK
    <2>2. QED
      BY <1>1, <1>5, <2>1 DEF EntryOK
  <1>6. QED
    BY <1>3, <1>4, <1>5

(* A step that concerns no entry.                                          *)
LEMMA NoEntry ==
  ASSUME IInv, UNCHANGED <<state, locks, closer>>,
         \A k \in Frames : (Owned(k)' <=> Owned(k)) /\ Waiters(k)' = Waiters(k)
  PROVE  EntriesOK'
  <1> SUFFICES ASSUME NEW k \in Frames
               PROVE  EntryOK(state'[k], locks'[k], Owned(k)', Cardinality(Waiters(k)'),
                              closer # "environment")
    BY DEF EntriesOK
  <1>1. EntryOK(state[k], locks[k], Owned(k), Cardinality(Waiters(k)), closer # "environment")
    BY DEF IInv, EntriesOK
  <1>2. QED
    BY <1>1 DEF EntryOK

-----------------------------------------------------------------------------
(* Who has which handle after a step of caller c.                          *)

\* Only c moves.
OnlyCaller(c) ==
  /\ \A d \in Callers : d # c => pc'[d] = pc[d] /\ pos'[d] = pos[d] /\ n'[d] = n[d]
  /\ UNCHANGED <<queue, wpc, job>>

(* c has the same handles as before.                                       *)
LEMMA HandlesKept ==
  ASSUME IInv, NEW c \in Callers, OnlyCaller(c),
         \A k \in Frames : Holds(c, k)' <=> Holds(c, k)
  PROVE  HandlesApart' /\ \A k \in Frames : Owned(k)' <=> Owned(k)
  <1>1. \A k \in Frames : \A d \in Callers : Holds(d, k)' <=> Holds(d, k)
    BY DEF OnlyCaller, Holds
  <1>2. \A k \in Frames : \A w \in Workers : Runs(w, k)' <=> Runs(w, k)
    BY DEF OnlyCaller, Runs
  <1>3. HandlesApart'
    BY <1>1, <1>2 DEF IInv, HandlesApart, OnlyCaller
  <1>4. QED
    BY <1>1, <1>2, <1>3 DEF Owned, OnlyCaller

(* c gets the handle of an entry that nobody owns.                         *)
LEMMA HandleTaken ==
  ASSUME IInv, NEW c \in Callers, OnlyCaller(c), NEW f \in Frames, ~Owned(f),
         \A k \in Frames : ~Holds(c, k) /\ (Holds(c, k)' <=> k = f)
  PROVE  HandlesApart' /\ \A k \in Frames : Owned(k)' <=> Owned(k) \/ k = f
  <1>1. \A k \in Frames : \A d \in Callers : d # c => (Holds(d, k)' <=> Holds(d, k))
    BY DEF OnlyCaller, Holds
  <1>2. \A k \in Frames : \A w \in Workers : Runs(w, k)' <=> Runs(w, k)
    BY DEF OnlyCaller, Runs
  <1>3. HandlesApart'
    BY <1>1, <1>2 DEF IInv, HandlesApart, OnlyCaller, Owned
  <1>4. QED
    BY <1>1, <1>2, <1>3 DEF Owned, OnlyCaller

(* c gives up the one handle it has.                                       *)
LEMMA HandleReleased ==
  ASSUME IInv, NEW c \in Callers, OnlyCaller(c), NEW f \in Frames,
         \A k \in Frames : (Holds(c, k) <=> k = f) /\ ~Holds(c, k)'
  PROVE  HandlesApart' /\ \A k \in Frames : Owned(k)' <=> Owned(k) /\ k # f
  <1>1. \A k \in Frames : \A d \in Callers : d # c => (Holds(d, k)' <=> Holds(d, k))
    BY DEF OnlyCaller, Holds
  <1>2. \A k \in Frames : \A w \in Workers : Runs(w, k)' <=> Runs(w, k)
    BY DEF OnlyCaller, Runs
  <1>3. HandlesApart'
    BY <1>1, <1>2 DEF IInv, HandlesApart, OnlyCaller
  <1>4. ~Owned(f)'
    BY <1>1, <1>2 DEF IInv, HandlesApart, OnlyCaller, Owned
  <1>5. ASSUME NEW k \in Frames, k # f PROVE Owned(k)' <=> Owned(k)
    BY <1>1, <1>2, <1>5 DEF Owned, OnlyCaller
  <1>6. QED
    BY <1>3, <1>4, <1>5

-----------------------------------------------------------------------------
(* Every step keeps the invariant.  First a caller that touches no handle. *)

\* Places at which a caller neither has a handle nor waits.
Free == {"idle", "schedule", "ahead", "lookup"}

(* Between two such places.                                                *)
LEMMA FreeMoves ==
  ASSUME IInv, TypeOK', NEW c \in Callers, OnlyCaller(c), pc[c] \in Free, pc'[c] \in Free,
         UNCHANGED <<state, locks, closed, closer, running_workers>>,
         pc'[c] # "idle" => closer # "destructor",
         pc'[c] = "ahead" => /\ pc[c] # "ahead" /\ pos'[c] \in Frames
                             /\ running_workers < nPrefetchFrames
  PROVE  IInv'
  <1>1. \A k \in Frames : Holds(c, k)' <=> Holds(c, k)
    BY DEF Holds, Free
  <1>2. HandlesApart' /\ \A k \in Frames : Owned(k)' <=> Owned(k)
    BY <1>1, HandlesKept
  <1>3. \A k \in Frames : Waiters(k)' = Waiters(k)
    BY DEF Waiters, OnlyCaller, Free
  <1>4. EntriesOK'
    BY <1>2, <1>3, NoEntry
  <1>5. PlacesOK'
    <2>1. closed' <=> closer' # "nobody"
      BY DEF IInv, PlacesOK
    <2>2. (closer = "destructor" => \A d \in Callers : pc[d] = "idle")'
      BY DEF IInv, PlacesOK, OnlyCaller
    <2>3. (\A d \in Callers : pc[d] \in {"ahead", "queueing"} => pos[d] \in Frames)'
      BY DEF IInv, PlacesOK, OnlyCaller, Free
    <2>4. QED
      BY <2>1, <2>2, <2>3 DEF PlacesOK
  <1>6. CountOK'
    <2>1. At(Callers, pc', "queueing") = At(Callers, pc, "queueing")
      BY DEF At, OnlyCaller, Free
    <2>2. \A d \in Callers : d # c => pc'[d] = pc[d]
      BY DEF OnlyCaller
    <2>3. Count(running_workers, Cardinality(At(Callers, pc, "ahead")),
                Cardinality(At(Callers, pc, "queueing")), Len(queue),
                Cardinality(Off(Workers, wpc, "idle")), closer = "nobody")
      BY Counts DEF IInv
    <2>4. /\ Cardinality(At(Callers, pc, "ahead")) \in Nat /\ Cardinality(Callers) \in Nat
          /\ Cardinality(At(Callers, pc', "ahead")) \in Nat /\ nPrefetchFrames \in Nat
          /\ Cardinality(At(Callers, pc', "ahead")) <= Cardinality(Callers)
          /\ running_workers \in Nat
      BY CountTypes DEF IInv, TypeOK
    <2>5. running_workers + Cardinality(At(Callers, pc', "ahead"))
            <= nPrefetchFrames + Cardinality(Callers) - 1
      <3>1. CASE pc'[c] = "ahead"
        BY <3>1, <2>4
      <3>2. CASE pc'[c] # "ahead" /\ pc[c] = "ahead"
        <4>1. Cardinality(At(Callers, pc', "ahead")) = Cardinality(At(Callers, pc, "ahead")) - 1
          BY <2>2, <3>2, CallerStepCounts
        <4>2. QED
          BY <4>1, <2>3, <2>4 DEF Count
      <3>3. CASE pc'[c] # "ahead" /\ pc[c] # "ahead"
        <4>1. At(Callers, pc', "ahead") = At(Callers, pc, "ahead")
          BY <2>2, <3>3 DEF At
        <4>2. QED
          BY <4>1, <2>3 DEF Count
      <3>4. QED
        BY <3>1, <3>2, <3>3
    <2>6. QED
      BY <2>1, <2>3, <2>5, Counts DEF Count, OnlyCaller
  <1>7. QED
    BY <1>2, <1>4, <1>5, <1>6 DEF IInv

(* A call of GetFrame.                                                     *)
LEMMA AskFrameKeeps ==
  ASSUME IInv, NEW c \in Callers, NEW f \in 0 .. num_frames - 1, AskFrame(c, f)
  PROVE  IInv'
  <1>1. calls' \in 0 .. MaxCalls
    BY SizesAssumption DEF IInv, TypeOK, AskFrame
  <1>2. n' \in [Callers -> 0 .. num_frames - 1] /\ pos' \in [Callers -> Int]
    BY SizesAssumption DEF IInv, TypeOK, AskFrame
  <1>3. pc[c] = "idle" /\ pc' = [pc EXCEPT ![c] = "schedule"]
    BY DEF AskFrame, Goto
  <1>4. TypeOK'
    BY <1>1, <1>2, <1>3
       DEF IInv, TypeOK, AskFrame, cacheVars, poolVars, counters, workerVars
  <1>5. OnlyCaller(c)
    BY <1>3 DEF IInv, TypeOK, AskFrame, OnlyCaller, poolVars, workerVars
  <1>6. UNCHANGED <<state, locks, closed, closer, running_workers>> /\ closer # "destructor"
    BY DEF AskFrame, cacheVars, poolVars, counters
  <1>7. pc'[c] = "schedule"
    BY <1>3 DEF IInv, TypeOK
  <1>8. QED
    BY <1>3, <1>4, <1>5, <1>6, <1>7, FreeMoves DEF Free

(* A caller that is not idle knows that the clip is still there.           *)
LEMMA NotDestroyed ==
  ASSUME IInv, NEW c \in Callers, pc[c] # "idle"
  PROVE  closer # "destructor" /\ (closed => closer = "environment")
  <1>1. closer # "destructor"
    BY DEF IInv, PlacesOK
  <1>2. QED
    BY <1>1 DEF IInv, PlacesOK, TypeOK

(* The next position of SchedulePrefetch is a frame.                       *)
LEMMA AdvanceKeeps ==
  ASSUME IInv, NEW c \in Callers, Advance(c)
  PROVE  IInv'
  <1>1. /\ pc[c] = "schedule" /\ running_workers < nPrefetchFrames
        /\ pos[c] + stride < num_frames /\ pos' = [pos EXCEPT ![c] = pos[c] + stride]
        /\ pc' = [pc EXCEPT ![c] = "ahead"]
        /\ Abs(pos[c] - n[c]) < nPrefetchFrames
        /\ UNCHANGED <<state, locks, queue, closed, closer, running_workers,
                       worker_exception_present, stride, calls, n, again, wpc, job>>
    BY DEF Advance, MaySchedule, Goto, cacheVars, poolVars, counters, detector, workerVars
  <1>2. /\ pos[c] \in Int /\ n[c] \in 0 .. num_frames - 1 /\ stride \in Strides
        /\ stride \in Int /\ nPrefetchFrames \in Nat /\ num_frames \in Nat
    BY SizesAssumption, FramesAssumption DEF IInv, TypeOK
  <1>3. pos[c] + stride \in Frames
    <2>1. pos[c] - n[c] \in (1 - nPrefetchFrames) .. nPrefetchFrames - 1
      BY <1>1, <1>2 DEF Abs
    <2>2. n[c] + (pos[c] - n[c]) + stride = pos[c] + stride
      BY <1>2
    <2>3. n[c] + (pos[c] - n[c]) + stride < num_frames
      BY <1>1, <2>2
    <2>4. n[c] + (pos[c] - n[c]) + stride \in Frames
      BY <1>2, <2>1, <2>3, FramesAssumption
    <2>5. QED
      BY <2>2, <2>4
  <1>4. TypeOK'
    <2>1. pos' \in [Callers -> Int]
      BY <1>1, <1>2 DEF IInv, TypeOK
    <2>2. QED
      BY <1>1, <2>1 DEF IInv, TypeOK
  <1>5. OnlyCaller(c) /\ pc'[c] = "ahead" /\ pos'[c] \in Frames
    BY <1>1, <1>3 DEF IInv, TypeOK, OnlyCaller
  <1>6. closer # "destructor"
    BY <1>1, NotDestroyed
  <1>7. QED
    BY <1>1, <1>4, <1>5, <1>6, FreeMoves DEF Free

(* SchedulePrefetch ends, GetFrame returns, or a lookup finds a frame.     *)
LEMMA FreeKeeps ==
  ASSUME IInv, NEW c \in Callers,
         \/ ScheduleDone(c) \/ GetFrameReturns(c) \/ AheadFound(c) \/ LookupReady(c)
  PROVE  IInv'
  <1>1. /\ UNCHANGED <<state, locks, queue, closed, closer, running_workers,
                       worker_exception_present, stride, calls, wpc, job>>
    BY DEF ScheduleDone, GetFrameReturns, AheadFound, LookupReady, Goto, Leave,
           cacheVars, poolVars, counters, detector, workerVars
  <1>2. /\ pc[c] \in Free /\ pc[c] # "idle"
        /\ \E p \in {"idle", "schedule", "lookup"} : pc' = [pc EXCEPT ![c] = p]
    BY DEF ScheduleDone, GetFrameReturns, AheadFound, LookupReady, Goto, Leave, Free
  <1>3. \E p \in Int : pos' = [pos EXCEPT ![c] = p]
    <2>1. pos \in [Callers -> Int] /\ stride \in Int /\ NoFrame \in Int
      BY FramesAssumption DEF IInv, TypeOK, NoFrame
    <2>2. pos = [pos EXCEPT ![c] = pos[c]] /\ pos[c] \in Int /\ pos[c] + stride \in Int
      BY <2>1
    <2>3. QED
      BY <2>1, <2>2 DEF ScheduleDone, GetFrameReturns, AheadFound, LookupReady, Leave
  <1>4. \E p \in 0 .. num_frames - 1 : n' = [n EXCEPT ![c] = p]
    <2>1. n \in [Callers -> 0 .. num_frames - 1] /\ NoFrame \in 0 .. num_frames - 1
      BY SizesAssumption DEF IInv, TypeOK, NoFrame
    <2>2. n = [n EXCEPT ![c] = n[c]] /\ n[c] \in 0 .. num_frames - 1
      BY <2>1
    <2>3. QED
      BY <2>1, <2>2 DEF ScheduleDone, GetFrameReturns, AheadFound, LookupReady, Leave
  <1>5. again' \in [Callers -> BOOLEAN]
    BY DEF IInv, TypeOK, ScheduleDone, GetFrameReturns, AheadFound, LookupReady, Leave
  <1>6. TypeOK'
    <2>1. pc' \in [Callers -> {"idle", "schedule", "ahead", "queueing", "lookup", "waiting",
                               "producing"}]
      BY <1>2 DEF IInv, TypeOK
    <2>2. pos' \in [Callers -> Int] /\ n' \in [Callers -> 0 .. num_frames - 1]
      BY <1>3, <1>4 DEF IInv, TypeOK
    <2>3. QED
      BY <1>1, <1>5, <2>1, <2>2 DEF IInv, TypeOK
  <1>7. OnlyCaller(c) /\ pc'[c] \in {"idle", "schedule", "lookup"}
    BY <1>1, <1>2, <1>3, <1>4 DEF IInv, TypeOK, OnlyCaller
  <1>8. closer # "destructor"
    BY <1>2, NotDestroyed
  <1>9. QED
    BY <1>1, <1>2, <1>6, <1>7, <1>8, FreeMoves DEF Free

-----------------------------------------------------------------------------
(* A caller that makes a new entry.                                        *)

(* An entry that is not there has no owner, and nobody waits for it.       *)
LEMMA AbsentIsFree ==
  ASSUME IInv, NEW f \in Frames, state[f] = "ABSENT"
  PROVE  ~Owned(f) /\ Cardinality(Waiters(f)) = 0
  <1>1. EntryOK(state[f], locks[f], Owned(f), Cardinality(Waiters(f)), closer # "environment")
    BY DEF IInv, EntriesOK
  <1>2. Cardinality(Waiters(f)) \in Nat
    BY WaitersFinite
  <1>3. QED
    BY <1>1, <1>2 DEF EntryOK

(* The insertion, and the trim that comes with it.                         *)
LEMMA InsertDoes ==
  ASSUME IInv, NEW f \in Frames, Insert(f)
  PROVE  /\ state' \in [Frames -> {"ABSENT", "EMPTY", "AVAILABLE", "ROLLED_BACK"}]
         /\ locks' \in [Frames -> Nat]
         /\ state'[f] = "EMPTY" /\ locks'[f] = 1
         /\ \A k \in Frames : k # f =>
              /\ locks'[k] = locks[k]
              /\ state'[k] = state[k] \/ (state'[k] = "ABSENT" /\ locks[k] = 0)
  <1>1. state' \in [Frames -> {"ABSENT", "EMPTY", "AVAILABLE", "ROLLED_BACK"}]
    BY DEF Insert, IInv, TypeOK
  <1>2. locks' \in [Frames -> Nat]
    BY DEF Insert, IInv, TypeOK
  <1>3. state'[f] = "EMPTY" /\ locks'[f] = 1
    BY DEF Insert, IInv, TypeOK
  <1>4. ASSUME NEW k \in Frames, k # f
        PROVE  /\ locks'[k] = locks[k]
               /\ state'[k] = state[k] \/ (state'[k] = "ABSENT" /\ locks[k] = 0)
    BY <1>4 DEF Insert, IInv, TypeOK, Victims
  <1>5. QED
    BY <1>1, <1>2, <1>3, <1>4

(* It gets the handle of the entry.                                        *)
LEMMA EntryMade ==
  ASSUME IInv, NEW c \in Callers, OnlyCaller(c), NEW f \in Frames, state[f] = "ABSENT",
         Insert(f), closer' = closer, pc[c] \in Free,
         \A k \in Frames : Holds(c, k)' <=> k = f,
         pc'[c] # "waiting"
  PROVE  HandlesApart' /\ EntriesOK'
  <1>1. ~Owned(f) /\ Cardinality(Waiters(f)) = 0
    BY AbsentIsFree
  <1>2. \A k \in Frames : ~Holds(c, k)
    BY DEF Holds, Free
  <1>3. HandlesApart' /\ \A k \in Frames : Owned(k)' <=> Owned(k) \/ k = f
    BY <1>1, <1>2, HandleTaken
  <1>4. \A k \in Frames : Waiters(k)' = Waiters(k)
    BY DEF Waiters, OnlyCaller, Free
  <1>5. EntryOK(state'[f], locks'[f], Owned(f)', Cardinality(Waiters(f)'),
                closer # "environment")
    BY <1>1, <1>3, <1>4, InsertDoes DEF EntryOK
  <1>6. \A k \in Frames : k # f =>
           /\ Owned(k)' <=> Owned(k)
           /\ Waiters(k)' = Waiters(k) /\ locks'[k] = locks[k]
           /\ state'[k] = state[k] \/ (state'[k] = "ABSENT" /\ locks[k] = 0)
    <2>1. \A k \in Frames : k # f =>
           /\ locks'[k] = locks[k]
           /\ state'[k] = state[k] \/ (state'[k] = "ABSENT" /\ locks[k] = 0)
      BY InsertDoes
    <2>2. QED
      BY <1>3, <1>4, <2>1
  <1>7. EntriesOK'
    BY <1>5, <1>6, OnlyEntry
  <1>8. QED
    BY <1>3, <1>7

(* A caller with permission to schedule makes its job: one fewer ahead, one *)
(* more about to queue, one more running.                                  *)
LEMMA CountJobMade ==
  ASSUME NEW r \in Nat, NEW a \in Nat, NEW q \in Nat, NEW l \in Nat, NEW b \in Nat,
         NEW open, Cardinality(Callers) \in Nat, nPrefetchFrames \in Nat,
         Count(r, a, q, l, b, open)
  PROVE  Count(r + 1, a - 1, q + 1, l, b, open)
  <1>1. (r + 1) + (a - 1) = r + a
    OBVIOUS
  <1>2. r >= q + l + b => r + 1 >= (q + 1) + l + b
    OBVIOUS
  <1>3. r = q + l + b => r + 1 = (q + 1) + l + b
    OBVIOUS
  <1>4. QED
    BY <1>1, <1>2, <1>3 DEF Count

(* SchedulePrefetch looks a frame up, and will queue it.                   *)
LEMMA AheadMissingKeeps ==
  ASSUME IInv, NEW c \in Callers, AheadMissing(c)
  PROVE  IInv'
  <1>1. /\ pc[c] = "ahead" /\ state[pos[c]] = "ABSENT" /\ Insert(pos[c])
        /\ running_workers' = running_workers + 1
        /\ pc' = [pc EXCEPT ![c] = "queueing"]
        /\ UNCHANGED <<queue, closed, closer, worker_exception_present, stride, calls,
                       n, pos, again, wpc, job>>
    BY DEF AheadMissing, Goto, poolVars, detector, workerVars
  <1>2. pos[c] \in Frames
    BY <1>1 DEF IInv, PlacesOK
  <1>3. OnlyCaller(c) /\ pc'[c] = "queueing"
    BY <1>1 DEF OnlyCaller, IInv, TypeOK
  <1>4. \A k \in Frames : Holds(c, k)' <=> k = pos[c]
    BY <1>1, <1>3 DEF Holds
  <1>5. HandlesApart' /\ EntriesOK'
    BY <1>1, <1>2, <1>3, <1>4, EntryMade DEF Free
  <1>6. TypeOK'
    <2>1. /\ state' \in [Frames -> {"ABSENT", "EMPTY", "AVAILABLE", "ROLLED_BACK"}]
          /\ locks' \in [Frames -> Nat]
      BY <1>1, <1>2, InsertDoes
    <2>2. running_workers' \in Nat
      BY <1>1 DEF IInv, TypeOK
    <2>3. QED
      BY <1>1, <2>1, <2>2 DEF IInv, TypeOK
  <1>7. PlacesOK'
    BY <1>1, <1>2, <1>3 DEF IInv, PlacesOK, OnlyCaller
  <1>8. CountOK'
    <2>1. \A d \in Callers : d # c => pc'[d] = pc[d]
      BY <1>3 DEF OnlyCaller
    <2>2. /\ Cardinality(At(Callers, pc', "ahead")) = Cardinality(At(Callers, pc, "ahead")) - 1
          /\ Cardinality(At(Callers, pc', "queueing"))
               = Cardinality(At(Callers, pc, "queueing")) + 1
      BY <1>1, <1>3, <2>1, CallerStepCounts
    <2>3. Count(running_workers, Cardinality(At(Callers, pc, "ahead")),
                Cardinality(At(Callers, pc, "queueing")), Len(queue),
                Cardinality(Off(Workers, wpc, "idle")), closer = "nobody")
      BY Counts DEF IInv
    <2>4. /\ Cardinality(At(Callers, pc, "ahead")) \in Nat /\ Cardinality(Callers) \in Nat
          /\ Cardinality(At(Callers, pc, "queueing")) \in Nat /\ nPrefetchFrames \in Nat
          /\ Cardinality(Off(Workers, wpc, "idle")) \in Nat
          /\ running_workers \in Nat /\ Len(queue) \in Nat
      BY NumbersCounted
    <2>5. Count(running_workers', Cardinality(At(Callers, pc', "ahead")),
                Cardinality(At(Callers, pc', "queueing")), Len(queue'),
                Cardinality(Off(Workers, wpc', "idle")), closer' = "nobody")
      <3>1. Count(running_workers + 1, Cardinality(At(Callers, pc, "ahead")) - 1,
                  Cardinality(At(Callers, pc, "queueing")) + 1, Len(queue),
                  Cardinality(Off(Workers, wpc, "idle")), closer = "nobody")
        BY <2>3, <2>4, CountJobMade
      <3>2. QED
        BY <1>1, <2>2, <3>1
    <2>6. QED
      BY <2>5, Counts
  <1>9. QED
    BY <1>5, <1>6, <1>7, <1>8 DEF IInv

(* A step of a caller that is neither past MaySchedule nor about to queue, *)
(* and will not be, leaves the counter's bounds alone.                     *)
LEMMA CountUntouched ==
  ASSUME IInv, NEW c \in Callers, \A d \in Callers : d # c => pc'[d] = pc[d],
         pc[c] \notin {"ahead", "queueing"}, pc'[c] \notin {"ahead", "queueing"},
         UNCHANGED <<running_workers, queue, wpc, closer>>
  PROVE  CountOK'
  <1>1. /\ At(Callers, pc', "ahead") = At(Callers, pc, "ahead")
        /\ At(Callers, pc', "queueing") = At(Callers, pc, "queueing")
    BY DEF At
  <1>2. Count(running_workers, Cardinality(At(Callers, pc, "ahead")),
              Cardinality(At(Callers, pc, "queueing")), Len(queue),
              Cardinality(Off(Workers, wpc, "idle")), closer = "nobody")
    BY Counts DEF IInv
  <1>3. QED
    BY <1>1, <1>2, Counts

(* ... and the places, unless it comes from idle.                          *)
LEMMA PlacesUntouched ==
  ASSUME IInv, NEW c \in Callers, OnlyCaller(c), pc[c] # "idle",
         pc'[c] \notin {"ahead", "queueing"}, UNCHANGED <<closed, closer>>
  PROVE  PlacesOK'
  BY DEF IInv, PlacesOK, OnlyCaller

(* The frame a caller asks for is in the cache's range.                    *)
LEMMA AskedIsFrame ==
  ASSUME IInv, NEW c \in Callers
  PROVE  n[c] \in Frames
  BY FramesAssumption DEF IInv, TypeOK

(* GetFrame finds that it has to compute the frame itself.                 *)
LEMMA LookupMissKeeps ==
  ASSUME IInv, NEW c \in Callers, LookupMiss(c)
  PROVE  IInv'
  <1>1. /\ pc[c] = "lookup" /\ state[n[c]] = "ABSENT" /\ Insert(n[c])
        /\ pc' = [pc EXCEPT ![c] = "producing"]
        /\ UNCHANGED <<queue, closed, closer, running_workers, worker_exception_present,
                       stride, calls, n, pos, again, wpc, job>>
    BY DEF LookupMiss, Goto, poolVars, counters, detector, workerVars
  <1>2. n[c] \in Frames
    BY AskedIsFrame
  <1>3. OnlyCaller(c) /\ pc'[c] = "producing"
    BY <1>1 DEF OnlyCaller, IInv, TypeOK
  <1>4. \A k \in Frames : Holds(c, k)' <=> k = n[c]
    BY <1>1, <1>3 DEF Holds
  <1>5. HandlesApart' /\ EntriesOK'
    BY <1>1, <1>2, <1>3, <1>4, EntryMade DEF Free
  <1>6. TypeOK'
    <2>1. /\ state' \in [Frames -> {"ABSENT", "EMPTY", "AVAILABLE", "ROLLED_BACK"}]
          /\ locks' \in [Frames -> Nat]
      BY <1>1, <1>2, InsertDoes
    <2>2. QED
      BY <1>1, <2>1 DEF IInv, TypeOK
  <1>7. PlacesOK'
    BY <1>1, <1>3, PlacesUntouched
  <1>8. CountOK'
    BY <1>1, <1>3, CountUntouched DEF OnlyCaller
  <1>9. QED
    BY <1>5, <1>6, <1>7, <1>8 DEF IInv

-----------------------------------------------------------------------------
(* A caller that waits.                                                    *)

(* What the invariant says of one entry.                                   *)
LEMMA EntryHas ==
  ASSUME IInv, NEW f \in Frames
  PROVE  /\ EntryOK(state[f], locks[f], Owned(f), Cardinality(Waiters(f)),
                    closer # "environment")
         /\ locks[f] \in Nat /\ Cardinality(Waiters(f)) \in Nat /\ IsFiniteSet(Waiters(f))
         /\ state[f] \in {"ABSENT", "EMPTY", "AVAILABLE", "ROLLED_BACK"}
  BY WaitersFinite DEF IInv, EntriesOK, TypeOK

(* Those who wait, when one begins or ends to.                             *)
LEMMA WaitersChange ==
  ASSUME IInv, NEW c \in Callers, OnlyCaller(c), n'[c] = n[c]
  PROVE  /\ pc[c] # "waiting" /\ pc'[c] = "waiting"
              => Cardinality(Waiters(n[c])') = Cardinality(Waiters(n[c])) + 1
         /\ pc[c] = "waiting" /\ pc'[c] # "waiting"
              => /\ Cardinality(Waiters(n[c])') = Cardinality(Waiters(n[c])) - 1
                 /\ Cardinality(Waiters(n[c])) >= 1
         /\ \A k \in Frames : k # n[c] => Waiters(k)' = Waiters(k)
  <1>1. IsFiniteSet(Waiters(n[c]))
    BY WaitersFinite
  <1>2. ASSUME pc[c] # "waiting", pc'[c] = "waiting"
        PROVE  Cardinality(Waiters(n[c])') = Cardinality(Waiters(n[c])) + 1
    <2>1. Waiters(n[c])' = Waiters(n[c]) \cup {c} /\ c \notin Waiters(n[c])
      BY <1>2 DEF Waiters, OnlyCaller
    <2>2. QED
      BY <2>1, <1>1, OneApart
  <1>3. ASSUME pc[c] = "waiting", pc'[c] # "waiting"
        PROVE  /\ Cardinality(Waiters(n[c])') = Cardinality(Waiters(n[c])) - 1
               /\ Cardinality(Waiters(n[c])) >= 1
    <2>1. Waiters(n[c])' = Waiters(n[c]) \ {c} /\ c \in Waiters(n[c])
      BY <1>3 DEF Waiters, OnlyCaller
    <2>2. QED
      BY <2>1, <1>1, OneApart
  <1>4. \A k \in Frames : k # n[c] => Waiters(k)' = Waiters(k)
    BY DEF Waiters, OnlyCaller
  <1>5. QED
    BY <1>2, <1>3, <1>4

(* GetFrame waits for a frame that somebody computes.                      *)
LEMMA LookupWaitKeeps ==
  ASSUME IInv, NEW c \in Callers, LookupWait(c)
  PROVE  IInv'
  <1>1. /\ pc[c] = "lookup" /\ state[n[c]] = "EMPTY"
        /\ locks' = [locks EXCEPT ![n[c]] = locks[n[c]] + 1]
        /\ pc' = [pc EXCEPT ![c] = "waiting"]
        /\ UNCHANGED <<state, queue, closed, closer, running_workers,
                       worker_exception_present, stride, calls, n, pos, again, wpc, job>>
    BY DEF LookupWait, Goto, poolVars, counters, detector, workerVars
  <1>2. n[c] \in Frames
    BY AskedIsFrame
  <1>3. OnlyCaller(c) /\ pc'[c] = "waiting"
    BY <1>1 DEF OnlyCaller, IInv, TypeOK
  <1>4. locks' \in [Frames -> Nat] /\ locks'[n[c]] = locks[n[c]] + 1
        /\ \A k \in Frames : k # n[c] => locks'[k] = locks[k]
    BY <1>1, <1>2 DEF IInv, TypeOK
  <1>5. TypeOK'
    BY <1>1, <1>4 DEF IInv, TypeOK
  <1>6. HandlesApart' /\ \A k \in Frames : Owned(k)' <=> Owned(k)
    <2>1. \A k \in Frames : Holds(c, k)' <=> Holds(c, k)
      BY <1>1, <1>3 DEF Holds
    <2>2. QED
      BY <2>1, <1>3, HandlesKept
  <1>7. EntriesOK'
    <2>1. /\ Cardinality(Waiters(n[c])') = Cardinality(Waiters(n[c])) + 1
          /\ \A k \in Frames : k # n[c] => Waiters(k)' = Waiters(k)
      BY <1>1, <1>3, WaitersChange
    <2>2. EntryOK(state'[n[c]], locks'[n[c]], Owned(n[c])', Cardinality(Waiters(n[c])'),
                  closer # "environment")
      <3> DEFINE f == n[c]
      <3>1. f \in Frames
        BY <1>2
      <3>2. /\ locks'[f] = locks[f] + 1 /\ Cardinality(Waiters(f)') = Cardinality(Waiters(f)) + 1
            /\ Owned(f)' <=> Owned(f)
            /\ state'[f] = "EMPTY" /\ state[f] = "EMPTY"
        BY <1>1, <1>2, <1>4, <1>6, <2>1
      <3> HIDE DEF f
      <3>3. QED
        BY <3>1, <3>2, EntryHas DEF EntryOK, f
    <2>3. QED
      BY <1>1, <1>2, <1>4, <1>6, <2>1, <2>2, OnlyEntry
  <1>8. PlacesOK'
    BY <1>1, <1>3, PlacesUntouched
  <1>9. CountOK'
    BY <1>1, <1>3, CountUntouched DEF OnlyCaller
  <1>10. QED
    BY <1>5, <1>6, <1>7, <1>8, <1>9 DEF IInv

(* The frame is there.                                                     *)
LEMMA WaitOverKeeps ==
  ASSUME IInv, NEW c \in Callers, WaitOver(c)
  PROVE  IInv'
  <1>1. /\ pc[c] = "waiting" /\ state[n[c]] = "AVAILABLE"
        /\ locks' = [locks EXCEPT ![n[c]] = locks[n[c]] - 1]
        /\ pc' = [pc EXCEPT ![c] = "schedule"] /\ again' = [again EXCEPT ![c] = TRUE]
        /\ UNCHANGED <<state, queue, closed, closer, running_workers,
                       worker_exception_present, stride, calls, n, pos, wpc, job>>
    BY DEF WaitOver, Goto, poolVars, counters, detector, workerVars
  <1>2. n[c] \in Frames
    BY AskedIsFrame
  <1>3. OnlyCaller(c) /\ pc'[c] = "schedule"
    BY <1>1 DEF OnlyCaller, IInv, TypeOK
  <1>4. /\ Cardinality(Waiters(n[c])') = Cardinality(Waiters(n[c])) - 1
        /\ Cardinality(Waiters(n[c])) >= 1
        /\ \A k \in Frames : k # n[c] => Waiters(k)' = Waiters(k)
    BY <1>1, <1>3, WaitersChange
  <1>5. locks[n[c]] - 1 \in Nat
    BY <1>2, <1>4, EntryHas DEF EntryOK
  <1>6. locks' \in [Frames -> Nat] /\ locks'[n[c]] = locks[n[c]] - 1
        /\ \A k \in Frames : k # n[c] => locks'[k] = locks[k]
    BY <1>1, <1>2, <1>5 DEF IInv, TypeOK
  <1>7. TypeOK'
    BY <1>1, <1>6 DEF IInv, TypeOK
  <1>8. HandlesApart' /\ \A k \in Frames : Owned(k)' <=> Owned(k)
    <2>1. \A k \in Frames : Holds(c, k)' <=> Holds(c, k)
      BY <1>1, <1>3 DEF Holds
    <2>2. QED
      BY <2>1, <1>3, HandlesKept
  <1>9. EntriesOK'
    <2>1. EntryOK(state'[n[c]], locks'[n[c]], Owned(n[c])', Cardinality(Waiters(n[c])'),
                  closer # "environment")
      <3> DEFINE f == n[c]
      <3>1. f \in Frames
        BY <1>2
      <3>2. /\ locks'[f] = locks[f] - 1 /\ Cardinality(Waiters(f)') = Cardinality(Waiters(f)) - 1
            /\ Owned(f)' <=> Owned(f)
            /\ state'[f] = "AVAILABLE" /\ state[f] = "AVAILABLE"
        BY <1>1, <1>2, <1>4, <1>6, <1>8
      <3> HIDE DEF f
      <3>3. QED
        BY <3>1, <3>2, EntryHas DEF EntryOK, f
    <2>2. QED
      BY <1>1, <1>2, <1>4, <1>6, <1>8, <2>1, OnlyEntry
  <1>10. PlacesOK'
    BY <1>1, <1>3, PlacesUntouched
  <1>11. CountOK'
    BY <1>1, <1>3, CountUntouched DEF OnlyCaller
  <1>12. QED
    BY <1>7, <1>8, <1>9, <1>10, <1>11 DEF IInv

(* The frame's computation was given up: the caller inherits the handle.   *)
LEMMA TakeOverKeeps ==
  ASSUME IInv, NEW c \in Callers, TakeOver(c)
  PROVE  IInv'
  <1>1. /\ pc[c] = "waiting" /\ state[n[c]] = "ROLLED_BACK"
        /\ state' = [state EXCEPT ![n[c]] = "EMPTY"]
        /\ pc' = [pc EXCEPT ![c] = "producing"]
        /\ UNCHANGED <<locks, queue, closed, closer, running_workers,
                       worker_exception_present, stride, calls, n, pos, again, wpc, job>>
    BY DEF TakeOver, Goto, poolVars, counters, detector, workerVars
  <1>2. n[c] \in Frames
    BY AskedIsFrame
  <1>3. OnlyCaller(c) /\ pc'[c] = "producing"
    BY <1>1 DEF OnlyCaller, IInv, TypeOK
  <1>4. /\ Cardinality(Waiters(n[c])') = Cardinality(Waiters(n[c])) - 1
        /\ Cardinality(Waiters(n[c])) >= 1
        /\ \A k \in Frames : k # n[c] => Waiters(k)' = Waiters(k)
    BY <1>1, <1>3, WaitersChange
  <1>5. state'[n[c]] = "EMPTY" /\ \A k \in Frames : k # n[c] => state'[k] = state[k]
    BY <1>1, <1>2 DEF IInv, TypeOK
  <1>6. TypeOK'
    BY <1>1 DEF IInv, TypeOK
  <1>7. ~Owned(n[c])
    BY <1>1, <1>2, EntryHas DEF EntryOK
  <1>8. HandlesApart' /\ \A k \in Frames : Owned(k)' <=> Owned(k) \/ k = n[c]
    <2>1. \A k \in Frames : ~Holds(c, k) /\ (Holds(c, k)' <=> k = n[c])
      BY <1>1, <1>3 DEF Holds
    <2>2. QED
      BY <2>1, <1>2, <1>3, <1>7, HandleTaken
  <1>9. EntriesOK'
    <2>1. EntryOK(state'[n[c]], locks'[n[c]], Owned(n[c])', Cardinality(Waiters(n[c])'),
                  closer # "environment")
      <3> DEFINE f == n[c]
      <3>1. f \in Frames
        BY <1>2
      <3>2. /\ locks'[f] = locks[f] /\ Cardinality(Waiters(f)') = Cardinality(Waiters(f)) - 1
            /\ Owned(f)' /\ ~Owned(f)
            /\ state'[f] = "EMPTY" /\ state[f] = "ROLLED_BACK"
        BY <1>1, <1>2, <1>4, <1>5, <1>7, <1>8
      <3> HIDE DEF f
      <3>3. QED
        BY <3>1, <3>2, EntryHas DEF EntryOK, f
    <2>2. \A k \in Frames : k # n[c] => (Owned(k)' <=> Owned(k))
      BY <1>8
    <2>3. QED
      BY <1>1, <1>2, <1>4, <1>5, <2>1, <2>2, OnlyEntry
  <1>10. PlacesOK'
    BY <1>1, <1>3, PlacesUntouched
  <1>11. CountOK'
    BY <1>1, <1>3, CountUntouched DEF OnlyCaller
  <1>12. QED
    BY <1>6, <1>8, <1>9, <1>10, <1>11 DEF IInv

-----------------------------------------------------------------------------
(* Whoever has computed a frame, or failed to, gives the handle back.      *)

(* commit_value and rollback.                                              *)
LEMMA EntryReleased ==
  ASSUME IInv, NEW f \in Frames, Owned(f), Commit(f) \/ Rollback(f), closer' = closer,
         \A k \in Frames : Owned(k)' <=> Owned(k) /\ k # f,
         \A k \in Frames : Waiters(k)' = Waiters(k)
  PROVE  /\ EntriesOK' /\ locks' \in [Frames -> Nat]
         /\ state' \in [Frames -> {"ABSENT", "EMPTY", "AVAILABLE", "ROLLED_BACK"}]
  <1>1. /\ EntryOK(state[f], locks[f], Owned(f), Cardinality(Waiters(f)),
                   closer # "environment")
        /\ locks[f] \in Nat /\ Cardinality(Waiters(f)) \in Nat
    BY EntryHas
  <1>2. locks[f] - 1 \in Nat /\ locks[f] = 1 + Cardinality(Waiters(f))
    BY <1>1 DEF EntryOK
  <1>3. /\ locks' = [locks EXCEPT ![f] = locks[f] - 1]
        /\ \E st \in {"ABSENT", "AVAILABLE", "ROLLED_BACK"} :
             /\ state' = [state EXCEPT ![f] = st]
             /\ st = "ABSENT" => locks[f] = 1
             /\ st = "ROLLED_BACK" => locks[f] > 1
    BY <1>2 DEF Commit, Rollback
  <1>4. /\ locks' \in [Frames -> Nat] /\ locks'[f] = locks[f] - 1
        /\ \A k \in Frames : k # f => locks'[k] = locks[k]
    BY <1>2, <1>3 DEF IInv, TypeOK
  <1>5. /\ state' \in [Frames -> {"ABSENT", "EMPTY", "AVAILABLE", "ROLLED_BACK"}]
        /\ state'[f] # "EMPTY" /\ (state'[f] = "ABSENT" => locks[f] = 1)
        /\ state'[f] = "ROLLED_BACK" => locks[f] > 1
        /\ \A k \in Frames : k # f => state'[k] = state[k]
    BY <1>3 DEF IInv, TypeOK
  <1>6. EntryOK(state'[f], locks'[f], Owned(f)', Cardinality(Waiters(f)'),
                closer # "environment")
    <2>1. ~Owned(f)' /\ Waiters(f)' = Waiters(f)
      OBVIOUS
    <2>2. QED
      BY <1>1, <1>2, <1>4, <1>5, <2>1 DEF EntryOK
  <1>7. \A k \in Frames : k # f => (Owned(k)' <=> Owned(k))
    OBVIOUS
  <1>8. EntriesOK'
    BY <1>4, <1>5, <1>6, <1>7, OnlyEntry
  <1>9. QED
    BY <1>4, <1>5, <1>8

(* A caller that computed its frame itself.                                *)
LEMMA ChildKeeps ==
  ASSUME IInv, NEW c \in Callers, ChildAnswers(c) \/ ChildThrows(c)
  PROVE  IInv'
  <1>1. /\ pc[c] = "producing" /\ (Commit(n[c]) \/ Rollback(n[c]))
        /\ UNCHANGED <<queue, closed, closer, running_workers, worker_exception_present,
                       stride, calls, wpc, job>>
    BY DEF ChildAnswers, ChildThrows, poolVars, counters, detector, workerVars
  <1>2. n[c] \in Frames
    BY AskedIsFrame
  <1>3. \E p \in {"idle", "schedule"} : pc' = [pc EXCEPT ![c] = p]
    BY DEF ChildAnswers, ChildThrows, Goto, Leave
  <1>4. \E p \in Int : pos' = [pos EXCEPT ![c] = p]
    <2>1. pos \in [Callers -> Int] /\ NoFrame \in Int
      BY DEF IInv, TypeOK, NoFrame
    <2>2. pos = [pos EXCEPT ![c] = pos[c]] /\ pos[c] \in Int
      BY <2>1
    <2>3. QED
      BY <2>1, <2>2 DEF ChildAnswers, ChildThrows, Leave
  <1>5. \E p \in 0 .. num_frames - 1 : n' = [n EXCEPT ![c] = p]
    <2>1. n \in [Callers -> 0 .. num_frames - 1] /\ NoFrame \in 0 .. num_frames - 1
      BY SizesAssumption DEF IInv, TypeOK, NoFrame
    <2>2. n = [n EXCEPT ![c] = n[c]] /\ n[c] \in 0 .. num_frames - 1
      BY <2>1
    <2>3. QED
      BY <2>1, <2>2 DEF ChildAnswers, ChildThrows, Leave
  <1>6. again' \in [Callers -> BOOLEAN]
    BY DEF IInv, TypeOK, ChildAnswers, ChildThrows, Leave
  <1>7. OnlyCaller(c) /\ pc'[c] \in {"idle", "schedule"}
    BY <1>1, <1>3, <1>4, <1>5 DEF IInv, TypeOK, OnlyCaller
  <1>8. HandlesApart' /\ \A k \in Frames : Owned(k)' <=> Owned(k) /\ k # n[c]
    <2>1. \A k \in Frames : (Holds(c, k) <=> k = n[c]) /\ ~Holds(c, k)'
      BY <1>1, <1>7 DEF Holds
    <2>2. QED
      BY <2>1, <1>2, <1>7, HandleReleased
  <1>9. \A k \in Frames : Waiters(k)' = Waiters(k)
    BY <1>1, <1>7 DEF Waiters, OnlyCaller
  <1>10. Owned(n[c])
    BY <1>1 DEF Owned, Holds
  <1>11. /\ EntriesOK' /\ locks' \in [Frames -> Nat]
         /\ state' \in [Frames -> {"ABSENT", "EMPTY", "AVAILABLE", "ROLLED_BACK"}]
    BY <1>1, <1>2, <1>8, <1>9, <1>10, EntryReleased
  <1>12. TypeOK'
    <2>1. pc' \in [Callers -> {"idle", "schedule", "ahead", "queueing", "lookup", "waiting",
                               "producing"}]
      BY <1>3 DEF IInv, TypeOK
    <2>2. pos' \in [Callers -> Int] /\ n' \in [Callers -> 0 .. num_frames - 1]
      BY <1>4, <1>5 DEF IInv, TypeOK
    <2>3. QED
      BY <1>1, <1>6, <1>11, <2>1, <2>2 DEF IInv, TypeOK
  <1>13. PlacesOK'
    BY <1>1, <1>7, PlacesUntouched
  <1>14. CountOK'
    BY <1>1, <1>7, CountUntouched DEF OnlyCaller
  <1>15. QED
    BY <1>8, <1>11, <1>12, <1>13, <1>14 DEF IInv

-----------------------------------------------------------------------------
(* The queue.                                                              *)

(* The handle goes from the caller into the queue.                         *)
LEMMA QueueJobKeeps ==
  ASSUME IInv, NEW c \in Callers, QueueJob(c)
  PROVE  IInv'
  <1> DEFINE f == pos[c]
  <1>1. /\ pc[c] = "queueing" /\ queue' = Append(queue, f)
        /\ pc' = [pc EXCEPT ![c] = "schedule"]
        /\ UNCHANGED <<state, locks, closed, closer, running_workers,
                       worker_exception_present, stride, calls, n, pos, again, wpc, job>>
    BY DEF QueueJob, Pool!Put, Goto, cacheVars, counters, detector, workerVars
  <1>2. f \in Frames /\ queue \in Seq(Frames)
    BY <1>1 DEF IInv, PlacesOK, TypeOK
  <1>3. pc'[c] = "schedule" /\ \A d \in Callers : d # c => pc'[d] = pc[d]
    BY <1>1 DEF IInv, TypeOK
  <1>4. Holds(c, f) /\ f \notin ToSet(queue) /\ IsInjective(queue)
    BY <1>1, <1>2 DEF Holds, IInv, HandlesApart
  <1> HIDE DEF f
  <1>5. ToSet(queue') = ToSet(queue) \cup {f} /\ IsInjective(queue')
    BY <1>1, <1>2, <1>4, AppendedOnce
  <1>6. /\ \A k \in Frames : \A d \in Callers : d # c => (Holds(d, k)' <=> Holds(d, k))
        /\ \A k \in Frames : ~Holds(c, k)' /\ (Holds(c, k) <=> k = f)
    BY <1>1, <1>3 DEF Holds, f
  <1>7. \A k \in Frames : \A w \in Workers : Runs(w, k)' <=> Runs(w, k)
    BY <1>1 DEF Runs
  <1>8. HandlesApart'
    BY <1>5, <1>6, <1>7 DEF IInv, HandlesApart
  <1>9. \A k \in Frames : Owned(k)' <=> Owned(k)
    BY <1>5, <1>6, <1>7 DEF Owned
  <1>10. \A k \in Frames : Waiters(k)' = Waiters(k)
    BY <1>1, <1>3 DEF Waiters
  <1>11. EntriesOK'
    BY <1>1, <1>9, <1>10, NoEntry
  <1>12. TypeOK'
    <2>1. queue' \in Seq(Frames)
      BY <1>1, <1>2
    <2>2. QED
      BY <1>1, <2>1 DEF IInv, TypeOK
  <1>13. PlacesOK'
    BY <1>1, <1>3 DEF IInv, PlacesOK
  <1>14. CountOK'
    <2>1. /\ Cardinality(At(Callers, pc', "queueing"))
               = Cardinality(At(Callers, pc, "queueing")) - 1
          /\ At(Callers, pc', "ahead") = At(Callers, pc, "ahead")
      BY <1>1, <1>3, CallerStepCounts
    <2>2. Len(queue') = Len(queue) + 1
      BY <1>1, <1>2
    <2>3. Count(running_workers, Cardinality(At(Callers, pc, "ahead")),
                Cardinality(At(Callers, pc, "queueing")), Len(queue),
                Cardinality(Off(Workers, wpc, "idle")), closer = "nobody")
      BY Counts DEF IInv
    <2>4. Count(running_workers', Cardinality(At(Callers, pc', "ahead")),
                Cardinality(At(Callers, pc', "queueing")), Len(queue'),
                Cardinality(Off(Workers, wpc', "idle")), closer' = "nobody")
      BY <1>1, <2>1, <2>2, <2>3, NumbersCounted DEF Count
    <2>5. QED
      BY <2>4, Counts
  <1>15. QED
    BY <1>8, <1>11, <1>12, <1>13, <1>14 DEF IInv

(* The pool is finished: the handle is dropped.  It was the environment    *)
(* that finished it, since a caller is inside the clip.                    *)
LEMMA QueueCancelledKeeps ==
  ASSUME IInv, NEW c \in Callers, QueueCancelled(c)
  PROVE  IInv'
  <1>1. /\ pc[c] = "queueing" /\ closed /\ pc' = [pc EXCEPT ![c] = "idle"]
        /\ n' = [n EXCEPT ![c] = NoFrame] /\ pos' = [pos EXCEPT ![c] = NoFrame]
        /\ UNCHANGED <<state, locks, queue, closed, closer, running_workers,
                       worker_exception_present, stride, calls, wpc, job>>
    BY DEF QueueCancelled, Leave, Goto, cacheVars, poolVars, counters, detector, workerVars
  <1>2. closer = "environment"
    BY <1>1, NotDestroyed
  <1>3. OnlyCaller(c) /\ pc'[c] = "idle"
    BY <1>1 DEF IInv, TypeOK, OnlyCaller
  <1>4. pos[c] \in Frames
    BY <1>1 DEF IInv, PlacesOK
  <1>5. HandlesApart' /\ \A k \in Frames : Owned(k)' <=> Owned(k) /\ k # pos[c]
    <2>1. \A k \in Frames : (Holds(c, k) <=> k = pos[c]) /\ ~Holds(c, k)'
      BY <1>1, <1>3 DEF Holds
    <2>2. QED
      BY <2>1, <1>3, <1>4, HandleReleased
  <1>6. EntriesOK'
    <2> SUFFICES ASSUME NEW k \in Frames
                 PROVE  EntryOK(state[k], locks[k], Owned(k)', Cardinality(Waiters(k)'),
                                closer # "environment")
      BY <1>1 DEF EntriesOK
    <2>1. Waiters(k)' = Waiters(k)
      BY <1>1, <1>3 DEF Waiters, OnlyCaller
    <2>2. Owned(k)' => Owned(k)
      BY <1>5
    <2>3. QED
      BY <1>2, <2>1, <2>2, EntryHas DEF EntryOK
  <1>7. TypeOK'
    <2>1. n' \in [Callers -> 0 .. num_frames - 1] /\ pos' \in [Callers -> Int]
      BY <1>1, SizesAssumption DEF IInv, TypeOK, NoFrame
    <2>2. again' \in [Callers -> BOOLEAN]
      BY DEF IInv, TypeOK, QueueCancelled, Leave
    <2>3. QED
      BY <1>1, <2>1, <2>2 DEF IInv, TypeOK
  <1>8. PlacesOK'
    BY <1>1, <1>3, PlacesUntouched
  <1>9. CountOK'
    <2>1. /\ Cardinality(At(Callers, pc', "queueing"))
               = Cardinality(At(Callers, pc, "queueing")) - 1
          /\ At(Callers, pc', "ahead") = At(Callers, pc, "ahead")
      BY <1>1, <1>3, CallerStepCounts DEF OnlyCaller
    <2>2. Count(running_workers, Cardinality(At(Callers, pc, "ahead")),
                Cardinality(At(Callers, pc, "queueing")), Len(queue),
                Cardinality(Off(Workers, wpc, "idle")), closer = "nobody")
      BY Counts DEF IInv
    <2>3. Count(running_workers', Cardinality(At(Callers, pc', "ahead")),
                Cardinality(At(Callers, pc', "queueing")), Len(queue'),
                Cardinality(Off(Workers, wpc', "idle")), closer' = "nobody")
      BY <1>1, <1>2, <2>1, <2>2, NumbersCounted DEF Count
    <2>4. QED
      BY <2>3, Counts
  <1>10. QED
    BY <1>5, <1>6, <1>7, <1>8, <1>9 DEF IInv

-----------------------------------------------------------------------------
(* The workers.                                                            *)

\* Only w moves, and no entry changes hands but by it.
OnlyWorker(w) ==
  /\ \A v \in Workers : v # w => wpc'[v] = wpc[v] /\ job'[v] = job[v]
  /\ UNCHANGED <<pc, n, pos, closed, closer>>

(* What a worker's step leaves alone.                                      *)
LEMMA CallersUntouched ==
  ASSUME IInv, NEW w \in Workers, OnlyWorker(w)
  PROVE  /\ PlacesOK'
         /\ \A k \in Frames : Waiters(k)' = Waiters(k)
         /\ \A k \in Frames : \A c \in Callers : Holds(c, k)' <=> Holds(c, k)
         /\ \A k \in Frames : \A v \in Workers : v # w => (Runs(v, k)' <=> Runs(v, k))
         /\ At(Callers, pc', "ahead") = At(Callers, pc, "ahead")
         /\ At(Callers, pc', "queueing") = At(Callers, pc, "queueing")
  BY DEF OnlyWorker, IInv, PlacesOK, Waiters, Holds, Runs, At

(* A worker takes the oldest handle from the queue.                        *)
LEMMA StartJobKeeps ==
  ASSUME IInv, NEW w \in Workers, StartJob(w)
  PROVE  IInv'
  <1> DEFINE f == queue[1]
  <1>1. /\ wpc[w] = "idle" /\ queue # << >> /\ queue' = Tail(queue)
        /\ wpc' = [wpc EXCEPT ![w] = "running"] /\ job' = [job EXCEPT ![w] = Head(queue)]
        /\ UNCHANGED <<state, locks, closed, closer, running_workers,
                       worker_exception_present, stride, calls, n, pc, pos, again>>
    BY DEF StartJob, Pool!Take, WGoto, cacheVars, counters, detector, callerVars
  <1>2. queue \in Seq(Frames) /\ Head(queue) = f /\ f \in Frames
        /\ queue' \in Seq(Frames) /\ Len(queue') = Len(queue) - 1
    <2>1. queue \in Seq(Frames)
      BY DEF IInv, TypeOK
    <2>2. Head(queue) = f /\ Head(queue) \in Frames /\ Tail(queue) \in Seq(Frames)
          /\ Len(Tail(queue)) = Len(queue) - 1
      BY <2>1, <1>1, HeadTailProperties
    <2>3. QED
      BY <1>1, <2>1, <2>2
  <1>3. /\ ToSet(queue') = ToSet(queue) \ {f} /\ IsInjective(queue')
        /\ f \in ToSet(queue)
    BY <1>1, <1>2, HeadTaken DEF IInv, HandlesApart
  <1> HIDE DEF f
  <1>4. OnlyWorker(w) /\ wpc'[w] = "running" /\ job'[w] = f
    BY <1>1, <1>2 DEF OnlyWorker, IInv, TypeOK
  <1>5. /\ PlacesOK'
        /\ \A k \in Frames : Waiters(k)' = Waiters(k)
        /\ \A k \in Frames : \A c \in Callers : Holds(c, k)' <=> Holds(c, k)
        /\ \A k \in Frames : \A v \in Workers : v # w => (Runs(v, k)' <=> Runs(v, k))
    BY <1>4, CallersUntouched
  <1>6. \A k \in Frames : ~Runs(w, k) /\ (Runs(w, k)' <=> k = f)
    BY <1>1, <1>4 DEF Runs
  <1>7. HandlesApart'
    BY <1>3, <1>5, <1>6 DEF IInv, HandlesApart
  <1>8. \A k \in Frames : Owned(k)' <=> Owned(k)
    BY <1>3, <1>5, <1>6 DEF Owned
  <1>9. EntriesOK'
    BY <1>1, <1>5, <1>8, NoEntry
  <1>10. TypeOK'
    BY <1>1, <1>2 DEF IInv, TypeOK
  <1>11. CountOK'
    <2>1. Cardinality(Off(Workers, wpc', "idle")) = Cardinality(Off(Workers, wpc, "idle")) + 1
      BY <1>1, <1>4, WorkerStepCounts DEF OnlyWorker
    <2>2. Count(running_workers, Cardinality(At(Callers, pc, "ahead")),
                Cardinality(At(Callers, pc, "queueing")), Len(queue),
                Cardinality(Off(Workers, wpc, "idle")), closer = "nobody")
      BY Counts DEF IInv
    <2>3. Count(running_workers', Cardinality(At(Callers, pc', "ahead")),
                Cardinality(At(Callers, pc', "queueing")), Len(queue'),
                Cardinality(Off(Workers, wpc', "idle")), closer' = "nobody")
      <3>1. /\ running_workers' = running_workers /\ pc' = pc /\ closer' = closer
            /\ Len(queue') = Len(queue) - 1
        BY <1>1, <1>2
      <3>2. ASSUME NEW r \in Nat, NEW a \in Nat, NEW q \in Nat, NEW l \in Nat, NEW b \in Nat,
                   NEW open, Count(r, a, q, l, b, open)
            PROVE  Count(r, a, q, l - 1, b + 1, open)
        BY <3>2 DEF Count
      <3>3. Count(running_workers, Cardinality(At(Callers, pc, "ahead")),
                  Cardinality(At(Callers, pc, "queueing")), Len(queue) - 1,
                  Cardinality(Off(Workers, wpc, "idle")) + 1, closer = "nobody")
        BY <2>2, <3>2, NumbersCounted
      <3>4. QED
        BY <2>1, <3>1, <3>3
    <2>4. QED
      BY <2>3, Counts
  <1>12. QED
    BY <1>5, <1>7, <1>9, <1>10, <1>11 DEF IInv

(* A worker has computed its frame, or failed to.                          *)
LEMMA JobEndsKeeps ==
  ASSUME IInv, NEW w \in Workers, JobAnswers(w) \/ JobThrows(w)
  PROVE  IInv'
  <1>1. /\ wpc[w] = "running" /\ (Commit(job[w]) \/ Rollback(job[w]))
        /\ \E p \in {"committed", "rolledBack"} : wpc' = [wpc EXCEPT ![w] = p]
        /\ UNCHANGED <<queue, closed, closer, running_workers, worker_exception_present,
                       stride, calls, pc, n, pos, again, job>>
    BY DEF JobAnswers, JobThrows, WGoto, poolVars, counters, detector, callerVars
  <1>2. job[w] \in Frames
    BY DEF IInv, TypeOK
  <1>3. OnlyWorker(w) /\ wpc'[w] \in {"committed", "rolledBack"}
    BY <1>1 DEF OnlyWorker, IInv, TypeOK
  <1>4. /\ PlacesOK'
        /\ \A k \in Frames : Waiters(k)' = Waiters(k)
        /\ \A k \in Frames : \A c \in Callers : Holds(c, k)' <=> Holds(c, k)
        /\ \A k \in Frames : \A v \in Workers : v # w => (Runs(v, k)' <=> Runs(v, k))
    BY <1>3, CallersUntouched
  <1>5. \A k \in Frames : ~Runs(w, k)' /\ (Runs(w, k) <=> k = job[w])
    BY <1>1, <1>3 DEF Runs
  <1>6. HandlesApart'
    BY <1>1, <1>4, <1>5 DEF IInv, HandlesApart
  <1>7. ~Owned(job[w])'
    BY <1>1, <1>2, <1>4, <1>5 DEF IInv, HandlesApart, Owned
  <1>8. ASSUME NEW k \in Frames, k # job[w] PROVE Owned(k)' <=> Owned(k)
    BY <1>1, <1>4, <1>5, <1>8 DEF Owned
  <1>9. Owned(job[w])
    BY <1>2, <1>5 DEF Owned
  <1>10. /\ EntriesOK' /\ locks' \in [Frames -> Nat]
         /\ state' \in [Frames -> {"ABSENT", "EMPTY", "AVAILABLE", "ROLLED_BACK"}]
    <2>1. ASSUME NEW k \in Frames PROVE Owned(k)' <=> Owned(k) /\ k # job[w]
      <3>1. CASE k = job[w]
        BY <1>1, <1>7, <3>1
      <3>2. CASE k # job[w]
        BY <1>8, <3>2
      <3>3. QED
        BY <3>1, <3>2
    <2>2. QED
      <3>1. closer' = closer /\ \A k \in Frames : Waiters(k)' = Waiters(k)
        BY <1>1, <1>4
      <3>2. QED
        BY <1>1, <1>2, <1>9, <2>1, <3>1, EntryReleased, Zenon
  <1>11. TypeOK'
    BY <1>1, <1>10 DEF IInv, TypeOK
  <1>12. CountOK'
    <2>1. Off(Workers, wpc', "idle") = Off(Workers, wpc, "idle")
      BY <1>1, <1>3 DEF OnlyWorker, Off
    <2>2. Count(running_workers, Cardinality(At(Callers, pc, "ahead")),
                Cardinality(At(Callers, pc, "queueing")), Len(queue),
                Cardinality(Off(Workers, wpc, "idle")), closer = "nobody")
      BY Counts DEF IInv
    <2>3. QED
      BY <1>1, <2>1, <2>2, Counts
  <1>13. QED
    BY <1>4, <1>6, <1>10, <1>11, <1>12 DEF IInv

(* A worker takes itself off the counter.                                  *)
LEMMA JobCountedOff ==
  ASSUME IInv, NEW w \in Workers, JobDone(w) \/ JobFailed(w)
  PROVE  IInv'
  <1>1. /\ wpc[w] \in {"committed", "rolledBack"} /\ running_workers' = running_workers - 1
        /\ wpc' = [wpc EXCEPT ![w] = "idle"] /\ job' = [job EXCEPT ![w] = NoFrame]
        /\ UNCHANGED <<state, locks, queue, closed, closer, stride, calls, pc, n, pos, again>>
    BY DEF JobDone, JobFailed, WGoto, cacheVars, poolVars, detector, callerVars
  <1>2. NoFrame \in Frames
    BY SizesAssumption, FramesAssumption DEF NoFrame
  <1>3. OnlyWorker(w) /\ wpc'[w] = "idle"
    BY <1>1 DEF OnlyWorker, IInv, TypeOK
  <1>4. /\ PlacesOK'
        /\ \A k \in Frames : Waiters(k)' = Waiters(k)
        /\ \A k \in Frames : \A c \in Callers : Holds(c, k)' <=> Holds(c, k)
        /\ \A k \in Frames : \A v \in Workers : v # w => (Runs(v, k)' <=> Runs(v, k))
    BY <1>3, CallersUntouched
  <1>5. \A k \in Frames : ~Runs(w, k)' /\ ~Runs(w, k)
    BY <1>1, <1>3 DEF Runs
  <1>6. HandlesApart'
    BY <1>1, <1>4, <1>5 DEF IInv, HandlesApart
  <1>7. \A k \in Frames : Owned(k)' <=> Owned(k)
    BY <1>1, <1>4, <1>5 DEF Owned
  <1>8. EntriesOK'
    BY <1>1, <1>4, <1>7, NoEntry
  <1>9. /\ Cardinality(Off(Workers, wpc', "idle")) = Cardinality(Off(Workers, wpc, "idle")) - 1
        /\ Cardinality(Off(Workers, wpc, "idle")) >= 1
    <2>1. Cardinality(Off(Workers, wpc', "idle")) = Cardinality(Off(Workers, wpc, "idle")) - 1
      BY <1>1, <1>3, WorkerStepCounts DEF OnlyWorker
    <2>2. Cardinality(Off(Workers, wpc', "idle")) \in Nat
      BY CountTypes
    <2>3. QED
      BY <2>1, <2>2, NumbersCounted
  <1>10. Count(running_workers, Cardinality(At(Callers, pc, "ahead")),
               Cardinality(At(Callers, pc, "queueing")), Len(queue),
               Cardinality(Off(Workers, wpc, "idle")), closer = "nobody")
    BY Counts DEF IInv
  <1>11. CountOK'
    <2>1. Count(running_workers', Cardinality(At(Callers, pc', "ahead")),
                Cardinality(At(Callers, pc', "queueing")), Len(queue'),
                Cardinality(Off(Workers, wpc', "idle")), closer' = "nobody")
      BY <1>1, <1>9, <1>10, NumbersCounted, SMTT(30) DEF Count
    <2>2. QED
      BY <2>1, Counts
  <1>12. TypeOK'
    <2>1. running_workers' \in Nat
      BY <1>1, <1>9, <1>10, NumbersCounted DEF Count
    <2>2. worker_exception_present' \in BOOLEAN
      BY Zenon DEF IInv, TypeOK, JobDone, JobFailed
    <2>3. QED
      BY <1>1, <1>2, <2>1, <2>2 DEF IInv, TypeOK
  <1>13. QED
    BY <1>4, <1>6, <1>8, <1>11, <1>12 DEF IInv

-----------------------------------------------------------------------------
(* The end of the pool.                                                    *)

\* What the steps below leave alone, and what follows.
PoolOnly ==
  UNCHANGED <<pc, n, pos, again, wpc, job, running_workers, worker_exception_present,
              stride, calls>>

(* No thread moves.                                                        *)
LEMMA NobodyMoves ==
  ASSUME IInv, PoolOnly
  PROVE  /\ \A k \in Frames : Waiters(k)' = Waiters(k)
         /\ \A k \in Frames : \A c \in Callers : Holds(c, k)' <=> Holds(c, k)
         /\ \A k \in Frames : \A w \in Workers : Runs(w, k)' <=> Runs(w, k)
  BY DEF PoolOnly, Waiters, Holds, Runs

(* The pool is closed, by the destructor or by the environment.            *)
LEMMA CloseKeeps ==
  ASSUME IInv, Destroy \/ EnvJoin
  PROVE  IInv'
  <1>1. /\ PoolOnly /\ closer = "nobody" /\ closed' = TRUE
        /\ closer' \in {"destructor", "environment"}
        /\ UNCHANGED <<state, locks, queue>>
        /\ closer' = "destructor" => \A c \in Callers : pc[c] = "idle"
    BY DEF Destroy, EnvJoin, Pool!Close, cacheVars, others, counters, detector, callerVars,
           workerVars, PoolOnly
  <1>2. /\ \A k \in Frames : Waiters(k)' = Waiters(k)
        /\ \A k \in Frames : \A c \in Callers : Holds(c, k)' <=> Holds(c, k)
        /\ \A k \in Frames : \A w \in Workers : Runs(w, k)' <=> Runs(w, k)
    BY <1>1, NobodyMoves
  <1>3. TypeOK'
    <2>1. closed' \in BOOLEAN
      BY <1>1, Zenon
    <2>2. QED
      BY <1>1, <2>1 DEF IInv, TypeOK, PoolOnly
  <1>4. HandlesApart'
    BY <1>1, <1>2 DEF IInv, HandlesApart
  <1>5. EntriesOK'
    <2> SUFFICES ASSUME NEW k \in Frames
                 PROVE  EntryOK(state[k], locks[k], Owned(k)', Cardinality(Waiters(k)'),
                                closer' # "environment")
      BY <1>1 DEF EntriesOK
    <2>1. Waiters(k)' = Waiters(k)
      BY <1>2
    <2>2. Owned(k)' <=> Owned(k)
      BY <1>1, <1>2 DEF Owned
    <2>3. QED
      BY <1>1, <2>1, <2>2, EntryHas DEF EntryOK
  <1>6. PlacesOK'
    BY <1>1 DEF IInv, PlacesOK, PoolOnly
  <1>7. CountOK'
    BY <1>1 DEF IInv, CountOK, WorkersCounted, InFlight, PoolOnly
  <1>8. QED
    BY <1>3, <1>4, <1>5, <1>6, <1>7 DEF IInv

(* A queue that is thrown away takes nothing off the counter.              *)
LEMMA DrainCounts ==
  ASSUME IInv, PoolOnly, closer # "nobody", closer' = closer, queue' = << >>
  PROVE  CountOK'
  <1>1. Len(queue') = 0
    BY EmptySeq
  <1>2. pc' = pc /\ wpc' = wpc /\ running_workers' = running_workers
    BY DEF PoolOnly
  <1>3. Count(running_workers, Cardinality(At(Callers, pc, "ahead")),
              Cardinality(At(Callers, pc, "queueing")), Len(queue),
              Cardinality(Off(Workers, wpc, "idle")), closer = "nobody")
    BY Counts DEF IInv
  <1>4. ASSUME NEW r \in Nat, NEW a \in Nat, NEW q \in Nat, NEW l \in Nat, NEW b \in Nat,
               Count(r, a, q, l, b, FALSE)
        PROVE  Count(r, a, q, 0, b, FALSE)
    BY <1>4 DEF Count
  <1>5. (closer = "nobody") = FALSE /\ (closer' = "nobody") = FALSE
    OBVIOUS
  <1>6. Count(running_workers, Cardinality(At(Callers, pc, "ahead")),
              Cardinality(At(Callers, pc, "queueing")), Len(queue),
              Cardinality(Off(Workers, wpc, "idle")), FALSE)
    BY <1>3, <1>5
  <1>7. Count(running_workers, Cardinality(At(Callers, pc, "ahead")),
              Cardinality(At(Callers, pc, "queueing")), 0,
              Cardinality(Off(Workers, wpc, "idle")), FALSE)
    BY <1>4, <1>6, NumbersCounted
  <1>8. QED
    BY <1>1, <1>2, <1>5, <1>7, Counts

(* An empty queue has no handle.                                           *)
LEMMA EmptyQueue ==
  ToSet(<< >>) = {} /\ IsInjective(<< >>) /\ << >> \in Seq(Frames)
  BY DEF ToSet, IsInjective

(* ~PrefetcherPimpl rolls the entries of the queue back.                   *)
LEMMA DestroyRollbackKeeps ==
  ASSUME IInv, DestroyRollback
  PROVE  IInv'
  <1>1. /\ PoolOnly /\ closer = "destructor" /\ queue' = << >>
        /\ state' = [f \in Frames |-> IF f \in ToSet(queue) THEN "ABSENT" ELSE state[f]]
        /\ locks' = [f \in Frames |-> IF f \in ToSet(queue) THEN 0 ELSE locks[f]]
        /\ UNCHANGED <<closed, closer>>
    BY DEF DestroyRollback, Pool!Drain, others, counters, detector, callerVars,
           workerVars, PoolOnly
  <1>2. /\ \A k \in Frames : Waiters(k)' = Waiters(k)
        /\ \A k \in Frames : \A c \in Callers : Holds(c, k)' <=> Holds(c, k)
        /\ \A k \in Frames : \A w \in Workers : Runs(w, k)' <=> Runs(w, k)
    BY <1>1, NobodyMoves
  <1>3. ToSet(queue') = {} /\ IsInjective(queue') /\ queue' \in Seq(Frames)
    BY <1>1, EmptyQueue
  <1>4. TypeOK'
    <2>1. /\ state' \in [Frames -> {"ABSENT", "EMPTY", "AVAILABLE", "ROLLED_BACK"}]
          /\ locks' \in [Frames -> Nat]
      BY <1>1 DEF IInv, TypeOK
    <2>2. QED
      BY <1>1, <1>3, <2>1 DEF IInv, TypeOK, PoolOnly
  <1>5. HandlesApart'
    BY <1>2, <1>3 DEF IInv, HandlesApart
  <1>6. EntriesOK'
    <2> SUFFICES ASSUME NEW k \in Frames
                 PROVE  EntryOK(state'[k], locks'[k], Owned(k)', Cardinality(Waiters(k)'),
                                closer' # "environment")
      BY DEF EntriesOK
    <2>1. Waiters(k)' = Waiters(k) /\ Waiters(k) = {}
      BY <1>1, <1>2 DEF IInv, PlacesOK, Waiters
    <2>2. Cardinality(Waiters(k)') = 0 /\ Cardinality(Waiters(k)) = 0
      BY <2>1, FS_EmptySet
    <2>3. CASE k \in ToSet(queue)
      <3>1. ~Owned(k)'
        BY <2>3, <1>2, <1>3 DEF IInv, HandlesApart, Owned
      <3>2. state'[k] = "ABSENT" /\ locks'[k] = 0
        BY <2>3, <1>1
      <3>3. QED
        BY <2>2, <3>1, <3>2 DEF EntryOK
    <2>4. CASE k \notin ToSet(queue)
      <3>1. Owned(k)' <=> Owned(k)
        BY <2>4, <1>2, <1>3 DEF Owned
      <3>2. state'[k] = state[k] /\ locks'[k] = locks[k]
        BY <2>4, <1>1
      <3>3. QED
        BY <1>1, <2>2, <3>1, <3>2, EntryHas DEF EntryOK
    <2>5. QED
      BY <2>3, <2>4
  <1>7. PlacesOK'
    BY <1>1 DEF IInv, PlacesOK, PoolOnly
  <1>8. CountOK'
    BY <1>1, DrainCounts
  <1>9. QED
    BY <1>4, <1>5, <1>6, <1>7, <1>8 DEF IInv

(* ~ScriptEnvironment drops the handles of the queue.                      *)
LEMMA EnvDiscardKeeps ==
  ASSUME IInv, EnvDiscard
  PROVE  IInv'
  <1>1. /\ PoolOnly /\ closer = "environment" /\ queue' = << >>
        /\ UNCHANGED <<state, locks, closed, closer>>
    BY DEF EnvDiscard, Pool!Drain, cacheVars, others, counters, detector, callerVars,
           workerVars, PoolOnly
  <1>2. /\ \A k \in Frames : Waiters(k)' = Waiters(k)
        /\ \A k \in Frames : \A c \in Callers : Holds(c, k)' <=> Holds(c, k)
        /\ \A k \in Frames : \A w \in Workers : Runs(w, k)' <=> Runs(w, k)
    BY <1>1, NobodyMoves
  <1>3. ToSet(queue') = {} /\ IsInjective(queue') /\ queue' \in Seq(Frames)
    BY <1>1, EmptyQueue
  <1>4. TypeOK'
    BY <1>1, <1>3 DEF IInv, TypeOK, PoolOnly
  <1>5. HandlesApart'
    BY <1>2, <1>3 DEF IInv, HandlesApart
  <1>6. EntriesOK'
    <2> SUFFICES ASSUME NEW k \in Frames
                 PROVE  EntryOK(state[k], locks[k], Owned(k)', Cardinality(Waiters(k)'),
                                closer # "environment")
      BY <1>1 DEF EntriesOK
    <2>1. Waiters(k)' = Waiters(k)
      BY <1>2
    <2>2. Owned(k)' => Owned(k)
      BY <1>2, <1>3 DEF Owned
    <2>3. QED
      BY <1>1, <2>1, <2>2, EntryHas DEF EntryOK
  <1>7. PlacesOK'
    BY <1>1 DEF IInv, PlacesOK, PoolOnly
  <1>8. CountOK'
    BY <1>1, DrainCounts
  <1>9. QED
    BY <1>4, <1>5, <1>6, <1>7, <1>8 DEF IInv

(* A call that rethrows, and a step that changes nothing.                  *)
LEMMA NothingKeeps ==
  ASSUME IInv, UNCHANGED <<state, locks, queue, closed, closer, running_workers,
                           worker_exception_present, pc, n, pos, again, wpc, job>>,
         stride' \in Strides, calls' \in 0 .. MaxCalls
  PROVE  IInv'
  <1>1. TypeOK'
    BY DEF IInv, TypeOK
  <1>2. HandlesApart' /\ PlacesOK' /\ CountOK'
    BY DEF IInv, HandlesApart, PlacesOK, CountOK, WorkersCounted, InFlight, Holds, Runs
  <1>3. \A k \in Frames : (Owned(k)' <=> Owned(k)) /\ Waiters(k)' = Waiters(k)
    BY DEF Owned, Waiters, Holds, Runs
  <1>4. EntriesOK'
    BY <1>3, NoEntry
  <1>5. QED
    BY <1>1, <1>2, <1>4 DEF IInv

-----------------------------------------------------------------------------
(* The invariant, and what follows from it.                                *)

(* A new prefetcher satisfies it.                                          *)
LEMMA InitIInv == Init => IInv
  <1> SUFFICES ASSUME Init PROVE IInv
    OBVIOUS
  <1>1. /\ queue = << >> /\ closed = FALSE /\ closer = "nobody" /\ running_workers = 0
        /\ \A c \in Callers : pc[c] = "idle"
        /\ \A w \in Workers : wpc[w] = "idle"
        /\ \A f \in Frames : state[f] = "ABSENT" /\ locks[f] = 0
    BY DEF Init, Pool!Init
  <1>2. ToSet(queue) = {} /\ IsInjective(queue) /\ queue \in Seq(Frames) /\ Len(queue) = 0
    BY <1>1, EmptyQueue, EmptySeq
  <1>3. TypeOK
    <2>1. NoFrame \in Frames /\ NoFrame \in 0 .. num_frames - 1 /\ NoFrame \in Int
      BY SizesAssumption, FramesAssumption DEF NoFrame
    <2>2. calls \in 0 .. MaxCalls /\ stride \in Strides
      BY SizesAssumption, FramesAssumption DEF Init
    <2>3. closed \in BOOLEAN /\ worker_exception_present \in BOOLEAN
          /\ again \in [Callers -> BOOLEAN]
      BY Zenon DEF Init, Pool!Init
    <2>4. /\ n \in [Callers -> 0 .. num_frames - 1] /\ pos \in [Callers -> Int]
          /\ job \in [Workers -> Frames]
      BY <2>1 DEF Init
    <2>5. QED
      BY <1>2, <2>2, <2>3, <2>4 DEF Init, TypeOK
  <1>4. HandlesApart
    BY <1>1, <1>2 DEF HandlesApart, Holds, Runs
  <1>5. EntriesOK
    <2> SUFFICES ASSUME NEW f \in Frames
                 PROVE  EntryOK(state[f], locks[f], Owned(f), Cardinality(Waiters(f)),
                                closer # "environment")
      BY DEF EntriesOK
    <2>1. ~Owned(f)
      BY <1>1, <1>2 DEF Owned, Holds, Runs
    <2>2. Waiters(f) = {}
      BY <1>1 DEF Waiters
    <2>3. QED
      BY <1>1, <2>1, <2>2, FS_EmptySet DEF EntryOK
  <1>6. PlacesOK
    BY <1>1 DEF PlacesOK
  <1>7. CountOK
    <2>1. /\ At(Callers, pc, "ahead") = {} /\ At(Callers, pc, "queueing") = {}
          /\ Off(Workers, wpc, "idle") = {}
      BY <1>1 DEF At, Off
    <2>2. Cardinality({}) = 0
      BY FS_EmptySet
    <2>3. Cardinality(Callers) \in Nat /\ nPrefetchFrames \in Nat \ {0}
      BY CountTypes
    <2>4. Count(running_workers, Cardinality(At(Callers, pc, "ahead")),
                Cardinality(At(Callers, pc, "queueing")), Len(queue),
                Cardinality(Off(Workers, wpc, "idle")), closer = "nobody")
      <3>1. Count(0, 0, 0, 0, 0, TRUE)
        BY <2>3 DEF Count
      <3>2. (closer = "nobody") = TRUE
        BY <1>1
      <3>3. QED
        BY <1>1, <1>2, <2>1, <2>2, <3>1, <3>2, Zenon
    <2>5. QED
      BY <2>4, Counts
  <1>8. QED
    BY <1>3, <1>4, <1>5, <1>6, <1>7 DEF IInv

(* Every step keeps it.                                                    *)
LEMMA NextIInv == IInv /\ [Next]_vars => IInv'
  <1> SUFFICES ASSUME IInv, [Next]_vars PROVE IInv'
    OBVIOUS
  <1>1. ASSUME NEW c \in Callers, CallerStep(c) PROVE IInv'
    BY <1>1, AdvanceKeeps, FreeKeeps, AheadMissingKeeps, QueueJobKeeps, QueueCancelledKeeps,
       LookupWaitKeeps, LookupMissKeeps, WaitOverKeeps, TakeOverKeeps, ChildKeeps
       DEF CallerStep
  <1>2. ASSUME NEW c \in Callers, Rethrow(c) PROVE IInv'
    <2>1. calls' \in 0 .. MaxCalls /\ stride' \in Strides
      BY <1>2, SizesAssumption DEF IInv, TypeOK, Rethrow
    <2>2. QED
      BY <1>2, <2>1, NothingKeeps
         DEF Rethrow, cacheVars, poolVars, counters, callerVars, workerVars
  <1>3. ASSUME NEW w \in Workers, WorkerStep(w) PROVE IInv'
    BY <1>3, StartJobKeeps, JobEndsKeeps, JobCountedOff DEF WorkerStep
  <1>4. CASE UNCHANGED vars
    <2>1. calls' \in 0 .. MaxCalls /\ stride' \in Strides
      BY <1>4 DEF IInv, TypeOK, vars, detector
    <2>2. QED
      BY <1>4, <2>1, NothingKeeps
         DEF vars, cacheVars, poolVars, counters, detector, callerVars, workerVars
  <1>5. QED
    BY <1>1, <1>2, <1>3, <1>4, AskFrameKeeps, CloseKeeps, DestroyRollbackKeeps,
       EnvDiscardKeeps DEF Next

(* Prefetcher's invariant is inductive: where the handle of each entry is, *)
(* what its locks stand for, and what the counter counts.                  *)
THEOREM Invariance == Spec => []IInv
  BY InitIInv, NextIInv, PTL DEF Spec

(* Every reachable state is well typed: prefetch_pos never leads outside   *)
(* the frames the strides reach, and no lock count or counter goes below   *)
(* zero.                                                                   *)
THEOREM TypeCorrect == Spec => []TypeOK
  <1>1. IInv => TypeOK
    BY DEF IInv
  <1>2. QED
    BY <1>1, Invariance, PTL

(* running_workers is the number of jobs in flight, whatever fails.        *)
THEOREM CounterIsExact == Spec => []WorkersCounted
  <1>1. IInv => WorkersCounted
    BY DEF IInv, CountOK
  <1>2. QED
    BY <1>1, Invariance, PTL

(* However many callers race between testing running_workers and raising   *)
(* it, each overshoots by one at most.                                     *)
THEOREM OvershootIsBounded == Spec => []OverlapBound
  <1>1. ASSUME IInv PROVE OverlapBound
    <2>1. Count(running_workers, Cardinality(At(Callers, pc, "ahead")),
                Cardinality(At(Callers, pc, "queueing")), Len(queue),
                Cardinality(Off(Workers, wpc, "idle")), closer = "nobody")
      BY <1>1, Counts DEF IInv
    <2>2. QED
      BY <1>1, <2>1, NumbersCounted DEF Count, OverlapBound
  <1>2. QED
    BY <1>1, Invariance, PTL

(* The owners of an entry: none, or one.                                   *)
LEMMA OneOwner ==
  ASSUME IInv, NEW f \in Frames
  PROVE  Cardinality(Owners(f)) = IF Owned(f) THEN 1 ELSE 0
  <1>1. CASE ~Owned(f)
    <2>1. /\ {j \in DOMAIN queue : queue[j] = f} = {} /\ {d \in Callers : Holds(d, f)} = {}
          /\ {v \in Workers : Runs(v, f)} = {}
      BY <1>1 DEF Owned, ToSet
    <2>2. Owners(f) = {}
      BY <2>1 DEF Owners
    <2>3. QED
      BY <1>1, <2>2, FS_EmptySet
  <1>2. CASE f \in ToSet(queue)
    <2>1. PICK i \in DOMAIN queue : queue[i] = f
      BY <1>2 DEF ToSet
    <2>2. {j \in DOMAIN queue : queue[j] = f} = {i}
      BY <2>1 DEF IInv, HandlesApart, IsInjective
    <2>3. {d \in Callers : Holds(d, f)} = {} /\ {v \in Workers : Runs(v, f)} = {}
      BY <1>2 DEF IInv, HandlesApart
    <2>4. Owners(f) = {<<"job", i>>}
      BY <2>2, <2>3 DEF Owners
    <2>5. QED
      BY <1>2, <2>4, FS_Singleton DEF Owned
  <1>3. CASE \E c \in Callers : Holds(c, f)
    <2>1. PICK c \in Callers : Holds(c, f)
      BY <1>3
    <2>2. {d \in Callers : Holds(d, f)} = {c}
      BY <2>1 DEF IInv, HandlesApart
    <2>3. {j \in DOMAIN queue : queue[j] = f} = {} /\ {v \in Workers : Runs(v, f)} = {}
      BY <2>1 DEF IInv, HandlesApart, ToSet
    <2>4. Owners(f) = {<<"caller", c>>}
      BY <2>2, <2>3 DEF Owners
    <2>5. QED
      BY <1>3, <2>4, FS_Singleton DEF Owned
  <1>4. CASE \E w \in Workers : Runs(w, f)
    <2>1. PICK w \in Workers : Runs(w, f)
      BY <1>4
    <2>2. {v \in Workers : Runs(v, f)} = {w}
      BY <2>1 DEF IInv, HandlesApart
    <2>3. {j \in DOMAIN queue : queue[j] = f} = {} /\ {d \in Callers : Holds(d, f)} = {}
      BY <2>1 DEF IInv, HandlesApart, ToSet
    <2>4. Owners(f) = {<<"worker", w>>}
      BY <2>2, <2>3 DEF Owners
    <2>5. QED
      BY <1>4, <2>4, FS_Singleton DEF Owned
  <1>5. QED
    BY <1>1, <1>2, <1>3, <1>4 DEF Owned

(* The handle of an empty entry is always with exactly one caller, job or  *)
(* worker, and the locks are that owner's and those of the callers that    *)
(* wait, through failures, take-overs and the destructor's rollback.       *)
THEOREM HandlesAreOwned == Spec => []HandlesOwned
  <1>1. ASSUME IInv PROVE HandlesOwned
    <2> SUFFICES ASSUME closer # "environment", NEW f \in Frames
                 PROVE  /\ Cardinality(Owners(f)) = IF state[f] = "EMPTY" THEN 1 ELSE 0
                        /\ locks[f] = Cardinality(Owners(f)) + Cardinality(Waiters(f))
      BY DEF HandlesOwned
    <2>1. Cardinality(Owners(f)) = IF Owned(f) THEN 1 ELSE 0
      BY <1>1, OneOwner
    <2>2. /\ Owned(f) <=> state[f] = "EMPTY"
          /\ locks[f] = Cardinality(Waiters(f)) + (IF Owned(f) THEN 1 ELSE 0)
          /\ Cardinality(Waiters(f)) \in Nat
      BY <1>1, EntryHas DEF EntryOK
    <2>3. QED
      BY <2>1, <2>2
  <1>2. QED
    BY <1>1, Invariance, PTL

-----------------------------------------------------------------------------
(* The contract of the frame cache, one lemma per step of FrameEntries.    *)

WaitersStay == \A k \in Frames : Waiters(k)' = Waiters(k)

(* An entry without locks is gone, or committed and wanted by nobody.      *)
LEMMA UnlockedIsIdle ==
  ASSUME IInv, NEW f \in Frames, locks[f] = 0, state[f] # "ABSENT"
  PROVE  state[f] = "AVAILABLE" /\ Waiters(f) = {}
  <1>1. Cardinality(Waiters(f)) = 0 /\ state[f] # "EMPTY" /\ state[f] # "ROLLED_BACK"
    BY EntryHas DEF EntryOK
  <1>2. Waiters(f) = {}
    BY <1>1, WaitersFinite, FS_EmptySet
  <1>3. QED
    BY <1>1, <1>2, EntryHas

(* NOT_FOUND starts an entry; what is trimmed for it is idle.              *)
LEMMA InsertStarts ==
  ASSUME IInv, NEW f \in Frames, state[f] = "ABSENT", Insert(f), WaitersStay
  PROVE  Contract!Next
  <1> DEFINE V == {k \in Victims : state[k] # "ABSENT"}
  <1>1. V \in SUBSET Frames
    BY DEF Victims
  <1>2. \A k \in V : state[k] = "AVAILABLE" /\ Waiters(k) = {}
    BY UnlockedIsIdle DEF Victims
  <1>3. \A k \in Frames : state[k] \in {"ABSENT", "EMPTY", "AVAILABLE", "ROLLED_BACK"}
    BY DEF IInv, TypeOK
  <1>4. state' = [k \in Frames |-> IF k = f THEN "EMPTY"
                                   ELSE IF k \in V THEN "ABSENT" ELSE state[k]]
    BY <1>3 DEF Insert
  <1> HIDE DEF V
  <1>5. Contract!Idle(V)
    BY <1>1, <1>2 DEF Contract!Idle
  <1>6. state' = [Contract!Gone(V) EXCEPT ![f] = "EMPTY"]
    BY <1>4 DEF Contract!Gone
  <1>7. Contract!Start(f, V)
    BY <1>5, <1>6 DEF Contract!Start, WaitersStay
  <1>8. QED
    BY <1>1, <1>7 DEF Contract!Next

(* The owner of a handle commits ...                                       *)
LEMMA CommitCommits ==
  ASSUME IInv, NEW f \in Frames, Owned(f), Commit(f), WaitersStay
  PROVE  Contract!Next
  <1>1. state[f] = "EMPTY"
    BY EntryHas DEF EntryOK
  <1>2. Contract!Commit(f)
    BY <1>1 DEF Contract!Commit, Commit, WaitersStay
  <1>3. QED
    BY <1>2 DEF Contract!Next

(* ... or rolls back: the locks tell whether somebody waits.               *)
LEMMA RollbackGivesUp ==
  ASSUME IInv, NEW f \in Frames, Owned(f), Rollback(f), WaitersStay
  PROVE  Contract!Next
  <1>1. state[f] = "EMPTY" /\ locks[f] = Cardinality(Waiters(f)) + 1
    BY EntryHas DEF EntryOK
  <1>2. CASE locks[f] = 1
    <2>1. Cardinality(Waiters(f)) = 0
      BY <1>1, <1>2, EntryHas
    <2>2. Waiters(f) = {}
      BY <2>1, WaitersFinite, FS_EmptySet
    <2>3. state' = [state EXCEPT ![f] = "ABSENT"]
      BY <1>2 DEF Rollback
    <2>4. state' = Contract!Gone({f})
      BY <2>3 DEF Contract!Gone, IInv, TypeOK
    <2>5. Contract!Abandon({f})
      BY <1>1, <2>2, <2>4 DEF Contract!Abandon, WaitersStay
    <2>6. QED
      BY <2>5 DEF Contract!Next
  <1>3. CASE locks[f] > 1
    <2>1. Cardinality(Waiters(f)) # 0
      BY <1>1, <1>3, EntryHas
    <2>2. Waiters(f) # {}
      BY <2>1, FS_EmptySet
    <2>3. state' = [state EXCEPT ![f] = "ROLLED_BACK"]
      BY <1>3 DEF Rollback
    <2>4. Contract!HandOver(f)
      BY <1>1, <2>2, <2>3 DEF Contract!HandOver, WaitersStay
    <2>5. QED
      BY <2>4 DEF Contract!Next
  <1>4. QED
    BY <1>2, <1>3 DEF Rollback

(* Callers that begin and end to wait.                                     *)
LEMMA WaitsAndLeaves ==
  ASSUME IInv, NEW c \in Callers, LookupWait(c) \/ WaitOver(c) \/ TakeOver(c)
  PROVE  Contract!Next
  <1>1. n[c] \in Frames
    BY AskedIsFrame
  <1>2. CASE LookupWait(c)
    <2>1. /\ pc[c] = "lookup" /\ state[n[c]] = "EMPTY" /\ state' = state
          /\ pc' = [pc EXCEPT ![c] = "waiting"] /\ n' = n
      BY <1>2 DEF LookupWait, Goto
    <2>2. \A j \in Frames : c \notin Waiters(j)
      BY <2>1 DEF Waiters
    <2>3. \A k \in Frames : Waiters(k)' = IF k = n[c] THEN Waiters(k) \cup {c} ELSE Waiters(k)
      BY <2>1 DEF Waiters, IInv, TypeOK
    <2>4. Contract!Wait(c, n[c])
      BY <1>1, <2>1, <2>2, <2>3 DEF Contract!Wait
    <2>5. QED
      BY <1>1, <2>4 DEF Contract!Next
  <1>3. CASE WaitOver(c)
    <2>1. /\ pc[c] = "waiting" /\ state[n[c]] = "AVAILABLE" /\ state' = state
          /\ pc' = [pc EXCEPT ![c] = "schedule"] /\ n' = n
      BY <1>3 DEF WaitOver, Goto
    <2>2. c \in Waiters(n[c])
      BY <2>1 DEF Waiters
    <2>3. \A k \in Frames : Waiters(k)' = IF k = n[c] THEN Waiters(k) \ {c} ELSE Waiters(k)
      BY <2>1 DEF Waiters, IInv, TypeOK
    <2>4. Contract!Answered(c, n[c])
      BY <1>1, <2>1, <2>2, <2>3 DEF Contract!Answered
    <2>5. QED
      BY <1>1, <2>4 DEF Contract!Next
  <1>4. CASE TakeOver(c)
    <2>1. /\ pc[c] = "waiting" /\ state[n[c]] = "ROLLED_BACK"
          /\ state' = [state EXCEPT ![n[c]] = "EMPTY"]
          /\ pc' = [pc EXCEPT ![c] = "producing"] /\ n' = n
      BY <1>4 DEF TakeOver, Goto
    <2>2. c \in Waiters(n[c])
      BY <2>1 DEF Waiters
    <2>3. \A k \in Frames : Waiters(k)' = IF k = n[c] THEN Waiters(k) \ {c} ELSE Waiters(k)
      BY <2>1 DEF Waiters, IInv, TypeOK
    <2>4. Contract!TakeOver(c, n[c])
      BY <1>1, <2>1, <2>2, <2>3 DEF Contract!TakeOver
    <2>5. QED
      BY <1>1, <2>4 DEF Contract!Next
  <1>5. QED
    BY <1>2, <1>3, <1>4

(* Any other step of a caller.                                             *)
LEMMA CallerKeepsContract ==
  ASSUME IInv, NEW c \in Callers, CallerStep(c)
  PROVE  Contract!Next \/ (state' = state /\ WaitersStay)
  <1>1. ASSUME NEW where, pc[c] # "waiting", where # "waiting",
               pc' = [pc EXCEPT ![c] = where], \A d \in Callers : d # c => n'[d] = n[d]
        PROVE  WaitersStay
    BY <1>1 DEF Waiters, WaitersStay, IInv, TypeOK
  <1>2. ASSUME pc[c] # "waiting", Leave(c) PROVE WaitersStay
    <2>1. /\ pc' = [pc EXCEPT ![c] = "idle"] /\ n' = [n EXCEPT ![c] = NoFrame]
      BY <1>2 DEF Leave, Goto
    <2>2. \A d \in Callers : d # c => n'[d] = n[d]
      BY <2>1 DEF IInv, TypeOK
    <2>3. QED
      BY <1>1, <1>2, <2>1, <2>2
  <1>3. CASE \/ Advance(c) \/ ScheduleDone(c) \/ AheadFound(c) \/ QueueJob(c) \/ LookupReady(c)
    <2>1. \E where \in {"ahead", "lookup", "schedule"} : pc' = [pc EXCEPT ![c] = where]
      BY <1>3 DEF Advance, ScheduleDone, AheadFound, QueueJob, LookupReady, Goto
    <2>2. pc[c] # "waiting" /\ n' = n /\ state' = state
      BY <1>3 DEF Advance, ScheduleDone, AheadFound, QueueJob, LookupReady, cacheVars
    <2>3. QED
      BY <1>1, <2>1, <2>2
  <1>4. CASE GetFrameReturns(c) \/ QueueCancelled(c)
    BY <1>2, <1>4 DEF GetFrameReturns, QueueCancelled, cacheVars
  <1>5. CASE AheadMissing(c)
    <2>1. pc[c] = "ahead" /\ state[pos[c]] = "ABSENT" /\ Insert(pos[c]) /\ n' = n
          /\ pc' = [pc EXCEPT ![c] = "queueing"]
      BY <1>5 DEF AheadMissing, Goto
    <2>2. WaitersStay
      BY <1>1, <2>1
    <2>3. pos[c] \in Frames
      BY <2>1 DEF IInv, PlacesOK
    <2>4. QED
      BY <2>1, <2>2, <2>3, InsertStarts, Zenon
  <1>6. CASE LookupMiss(c)
    <2>1. pc[c] = "lookup" /\ state[n[c]] = "ABSENT" /\ Insert(n[c]) /\ n' = n
          /\ pc' = [pc EXCEPT ![c] = "producing"]
      BY <1>6 DEF LookupMiss, Goto
    <2>2. WaitersStay
      BY <1>1, <2>1
    <2>3. QED
      BY <2>1, <2>2, AskedIsFrame, InsertStarts, Zenon
  <1>7. CASE ChildAnswers(c) \/ ChildThrows(c)
    <2>1. n[c] \in Frames /\ pc[c] = "producing"
      BY <1>7, AskedIsFrame DEF ChildAnswers, ChildThrows
    <2>2. Owned(n[c])
      BY <2>1 DEF Owned, Holds
    <2>3. CASE ChildAnswers(c)
      <3>1. Commit(n[c]) /\ n' = n /\ pc' = [pc EXCEPT ![c] = "schedule"]
        BY <2>3 DEF ChildAnswers, Goto
      <3>2. WaitersStay
        BY <1>1, <2>1, <3>1
      <3>3. QED
        BY <2>1, <2>2, <3>1, <3>2, CommitCommits, Zenon
    <2>4. CASE ChildThrows(c)
      <3>1. Rollback(n[c]) /\ WaitersStay
        BY <1>2, <2>1, <2>4 DEF ChildThrows
      <3>2. QED
        BY <2>1, <2>2, <3>1, RollbackGivesUp, Zenon
    <2>5. QED
      BY <1>7, <2>3, <2>4
  <1>8. CASE LookupWait(c) \/ WaitOver(c) \/ TakeOver(c)
    BY <1>8, WaitsAndLeaves, Zenon
  <1>9. QED
    BY <1>3, <1>4, <1>5, <1>6, <1>7, <1>8, Zenon DEF CallerStep

(* A worker's step; the destructor's rollback of what it did not start.    *)
LEMMA WorkerKeepsContract ==
  ASSUME IInv, NEW w \in Workers, WorkerStep(w)
  PROVE  Contract!Next \/ (state' = state /\ WaitersStay)
  <1>1. pc' = pc /\ n' = n
    BY DEF WorkerStep, StartJob, JobAnswers, JobThrows, JobDone, JobFailed, callerVars
  <1>2. WaitersStay
    BY <1>1 DEF WaitersStay, Waiters
  <1>3. CASE StartJob(w) \/ JobDone(w) \/ JobFailed(w)
    BY <1>2, <1>3 DEF StartJob, JobDone, JobFailed, cacheVars
  <1>4. CASE JobAnswers(w) \/ JobThrows(w)
    <2>1. job[w] \in Frames /\ wpc[w] = "running" /\ (Commit(job[w]) \/ Rollback(job[w]))
      BY <1>4 DEF JobAnswers, JobThrows, IInv, TypeOK
    <2>2. Owned(job[w])
      BY <2>1 DEF Owned, Runs
    <2>3. QED
      BY <1>2, <2>1, <2>2, CommitCommits, RollbackGivesUp, Zenon
  <1>5. QED
    BY <1>3, <1>4 DEF WorkerStep

LEMMA DestructorKeepsContract ==
  ASSUME IInv, DestroyRollback
  PROVE  Contract!Next
  <1>1. /\ closer = "destructor" /\ pc' = pc /\ n' = n
        /\ state' = [f \in Frames |-> IF f \in ToSet(queue) THEN "ABSENT" ELSE state[f]]
    BY DEF DestroyRollback, others, callerVars
  <1>2. ToSet(queue) \in SUBSET Frames
    BY DEF IInv, TypeOK, ToSet
  <1>3. \A f \in ToSet(queue) : state[f] = "EMPTY"
    BY <1>2, EntryHas DEF EntryOK, Owned
  <1>4. \A f \in Frames : Waiters(f) = {}
    BY <1>1 DEF Waiters, IInv, PlacesOK
  <1>5. WaitersStay
    BY <1>1 DEF WaitersStay, Waiters
  <1>6. state' = Contract!Gone(ToSet(queue))
    BY <1>1 DEF Contract!Gone
  <1>7. Contract!Abandon(ToSet(queue))
    BY <1>2, <1>3, <1>4, <1>5, <1>6 DEF Contract!Abandon, WaitersStay
  <1>8. QED
    BY <1>2, <1>7 DEF Contract!Next

(* The Prefetcher implements FrameEntries: with handles on their way       *)
(* through the queue, failing jobs and pools that close, an entry is       *)
(* computed by one thread at a time, stays as long as somebody waits for   *)
(* it, and is rolled back to its waiters if there are any.                 *)
THEOREM Refinement == Spec => KeepsContract
  <1> DEFINE waiting == [f \in Frames |-> Waiters(f)]
  <1>1. Init => Contract!Init
    BY DEF Init, Contract!Init, Waiters
  <1>2. IInv /\ [Next]_vars => [Contract!Next]_<<state, waiting>>
    <2> SUFFICES ASSUME IInv, [Next]_vars
                 PROVE  Contract!Next \/ (state' = state /\ WaitersStay)
      BY DEF WaitersStay
    <2>1. ASSUME pc' = pc, n' = n, state' = state PROVE state' = state /\ WaitersStay
      BY <2>1 DEF WaitersStay, Waiters
    <2>2. CASE UNCHANGED vars
      BY <2>1, <2>2 DEF vars, cacheVars, callerVars
    <2>3. ASSUME NEW c \in Callers, NEW f \in 0 .. num_frames - 1, AskFrame(c, f)
          PROVE  state' = state /\ WaitersStay
      <3>1. /\ state' = state /\ pc[c] = "idle" /\ pc' = [pc EXCEPT ![c] = "schedule"]
            /\ n' = [n EXCEPT ![c] = f]
        BY <2>3 DEF AskFrame, Goto, cacheVars
      <3>2. QED
        BY <3>1 DEF WaitersStay, Waiters, IInv, TypeOK
    <2>4. ASSUME NEW c \in Callers, Rethrow(c) PROVE state' = state /\ WaitersStay
      BY <2>1, <2>4 DEF Rethrow, cacheVars, callerVars
    <2>5. CASE Destroy \/ EnvJoin \/ EnvDiscard
      BY <2>1, <2>5 DEF Destroy, EnvJoin, EnvDiscard, others, cacheVars, callerVars
    <2>6. QED
      BY <2>2, <2>3, <2>4, <2>5, CallerKeepsContract, WorkerKeepsContract,
         DestructorKeepsContract, Zenon DEF Next
  <1>3. QED
    BY <1>1, <1>2, Invariance, PTL DEF Spec, KeepsContract, Contract!Spec, Contract!entryVars
=============================================================================
