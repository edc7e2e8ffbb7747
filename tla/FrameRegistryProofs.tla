------------------------- MODULE FrameRegistryProofs -------------------------
(***************************************************************************)
(* Proofs about FrameRegistry, for any number of threads, caches, frames   *)
(* and buffers, and any sizes, memory limit and threshold.                 *)
(*                                                                         *)
(* First what the counts say about holders and users; then, for each kind  *)
(* of step, what it does to the holders of a frame and the users of a      *)
(* buffer, and from that the inductive invariant.                          *)
(***************************************************************************)
EXTENDS FrameRegistry, FiniteSetTheorems, TLAPS

\* The holders that refcount[f] counts.
HeldBy(f) == {h \in Holders : f \in held[h]}

-----------------------------------------------------------------------------
(* What the counts say.                                                    *)

(* The sets that are counted are finite.                                   *)
LEMMA CountedFinite ==
  ASSUME NEW f, NEW b
  PROVE  /\ IsFiniteSet(HeldBy(f)) /\ Cardinality(HeldBy(f)) \in Nat
         /\ IsFiniteSet(Users(b)) /\ Cardinality(Users(b)) \in Nat
  <1>1. HeldBy(f) \in SUBSET Holders
    BY DEF HeldBy
  <1>2. IsFiniteSet(HeldBy(f))
    BY <1>1, HoldersAssumption, FS_Subset
  <1>3. IsFiniteSet(Threads)
    BY HoldersAssumption, FS_Subset DEF Holders
  <1>4. IsFiniteSet(Frames \cup Threads)
    BY <1>3, ObjectsAssumption, FS_Union
  <1>5. Users(b) \in SUBSET (Frames \cup Threads)
    BY DEF Users, Live, InHand
  <1>6. IsFiniteSet(Users(b))
    BY <1>4, <1>5, FS_Subset
  <1>7. QED
    BY <1>2, <1>6, FS_CardinalityType

(* A finite set's count is zero when it is empty, and one when it is a     *)
(* given element alone.                                                    *)
LEMMA CountZeroOne ==
  ASSUME NEW S, IsFiniteSet(S), NEW x \in S
  PROVE  /\ Cardinality(S) \in Nat \ {0}
         /\ Cardinality(S) = 1 => S = {x}
  <1>1. Cardinality(S) # 0
    BY FS_EmptySet
  <1>2. Cardinality(S) \in Nat
    BY FS_CardinalityType
  <1>3. ASSUME Cardinality(S) = 1 PROVE S = {x}
    BY <1>3, FS_Singleton
  <1>4. QED
    BY <1>1, <1>2, <1>3

(* A held frame is there, on a buffer that is there, counted and listed.   *)
LEMMA HeldIsThere ==
  ASSUME IInv, NEW h \in Holders, NEW f \in held[h]
  PROVE  /\ f \in Frames /\ f \in registry
         /\ vfb[f] \in Buffers /\ vfb[f] # NoBuffer /\ data_size[vfb[f]] # 0
         /\ refcount[f] \in Nat /\ refcount[f] > 0
         /\ refcount[f] = Cardinality(HeldBy(f))
         /\ f \in Users(vfb[f])
         /\ refcount[f] = 1 => HeldBy(f) = {h}
  <1>1. f \in Frames /\ f \in registry
    BY DEF IInv, TypeOK, NothingDangles
  <1>2. vfb[f] \in Buffers /\ vfb[f] # NoBuffer /\ data_size[vfb[f]] # 0
    BY <1>1 DEF IInv, TypeOK, NothingDangles, ListedUnlessSub
  <1>3. refcount[f] = Cardinality(HeldBy(f))
    BY <1>1, <1>2 DEF IInv, CountsExact, HeldBy
  <1>4. h \in HeldBy(f)
    BY DEF HeldBy
  <1>5. refcount[f] \in Nat \ {0} /\ (refcount[f] = 1 => HeldBy(f) = {h})
    BY <1>3, <1>4, CountedFinite, CountZeroOne
  <1>6. refcount[f] > 0
    BY <1>5
  <1>7. f \in Users(vfb[f])
    BY <1>1, <1>6 DEF Users, Live
  <1>8. QED
    BY <1>1, <1>2, <1>3, <1>5, <1>6, <1>7

(* A frame nobody holds has count zero.                                    *)
LEMMA UnheldCount ==
  ASSUME IInv, NEW f \in Frames, vfb[f] # NoBuffer, \A h \in Holders : f \notin held[h]
  PROVE  refcount[f] = 0
  <1>1. HeldBy(f) = {}
    BY DEF HeldBy
  <1>2. refcount[f] = Cardinality(HeldBy(f))
    BY DEF IInv, CountsExact, HeldBy
  <1>3. QED
    BY <1>1, <1>2, FS_EmptySet

(* A buffer that is free or not there has no users: no frame on it is held *)
(* or in a thread's hands, and all of them are listed.                     *)
LEMMA FreeIsUnused ==
  ASSUME IInv, NEW b \in Buffers, data_size[b] = 0 \/ Free(b)
  PROVE  /\ Users(b) = {}
         /\ \A f \in Frames : vfb[f] = b =>
              /\ refcount[f] = 0 /\ f \in registry
              /\ \A h \in Holders : f \notin held[h]
              /\ \A t \in InHand : obj[t] # f
         /\ \A t \in InHand : vfb[obj[t]] # b
         /\ \A t \in Threads : pc[t] = "release" => saved[t] # b
         /\ data_size[b] = 0 => \A f \in Frames : vfb[f] # b
  <1>1. ASSUME data_size[b] = 0
        PROVE  Users(b) = {} /\ \A f \in Frames : vfb[f] # b
    <2>1. \A f \in Frames : vfb[f] # b
      BY <1>1, ObjectsAssumption DEF IInv, NothingDangles
    <2>2. \A t \in InHand : vfb[obj[t]] # b
      BY <2>1 DEF IInv, InHandApart
    <2>3. \A t \in Threads : pc[t] = "release" => saved[t] # b
      BY <1>1 DEF IInv, NothingDangles
    <2>4. QED
      BY <2>1, <2>2, <2>3 DEF Users, Live, InHand
  <1>2. ASSUME Free(b), data_size[b] # 0 PROVE Users(b) = {}
    <2>1. Cardinality(Users(b)) = 0
      BY <1>2 DEF IInv, CountsExact, Free
    <2>2. QED
      BY <2>1, CountedFinite, FS_EmptySet
  <1>3. Users(b) = {}
    BY <1>1, <1>2
  <1>4. \A t \in InHand : vfb[obj[t]] # b
    BY <1>3 DEF Users
  <1>5. \A t \in Threads : pc[t] = "release" => saved[t] # b
    BY <1>3 DEF Users
  <1>6. ASSUME NEW f \in Frames, vfb[f] = b
        PROVE  /\ refcount[f] = 0 /\ f \in registry
               /\ \A h \in Holders : f \notin held[h]
               /\ \A t \in InHand : obj[t] # f
    <2>1. ~(refcount[f] > 0)
      BY <1>3, <1>6 DEF Users, Live
    <2>2. refcount[f] = 0
      BY <2>1 DEF IInv, TypeOK
    <2>3. \A h \in Holders : f \notin held[h]
      BY <2>1, HeldIsThere
    <2>4. \A t \in InHand : obj[t] # f
      BY <1>4, <1>6
    <2>5. f \in registry
      BY <2>4, <1>6, ObjectsAssumption DEF IInv, ListedUnlessSub, InHand
    <2>6. QED
      BY <2>2, <2>3, <2>4, <2>5
  <1>7. QED
    BY <1>1, <1>3, <1>4, <1>5, <1>6

(* A frame in a thread's hands is there, and nobody holds it.              *)
LEMMA InHandIsThere ==
  ASSUME IInv, NEW t \in InHand
  PROVE  /\ t \in Threads /\ obj[t] \in Frames
         /\ vfb[obj[t]] \in Buffers /\ vfb[obj[t]] # NoBuffer
         /\ data_size[vfb[obj[t]]] # 0
         /\ \A h \in Holders : obj[t] \notin held[h]
         /\ refcount[obj[t]] = 0
         /\ t \in Users(vfb[obj[t]])
  <1>1. t \in Threads /\ obj[t] \in Frames
    BY DEF IInv, InHandApart, InHand
  <1>2. vfb[obj[t]] \in Buffers /\ vfb[obj[t]] # NoBuffer
    BY <1>1 DEF IInv, TypeOK, NothingDangles
  <1>3. data_size[vfb[obj[t]]] # 0
    BY <1>1, <1>2 DEF IInv, NothingDangles
  <1>4. t \in Users(vfb[obj[t]])
    BY DEF Users
  <1>5. ASSUME NEW h \in Holders, obj[t] \in held[h]
        PROVE  FALSE
    <2>1. CASE pc[t] = "fresh"
      <3>1. Users(vfb[obj[t]]) = {t}
        BY <2>1 DEF IInv, InHandApart
      <3>2. obj[t] \in Users(vfb[obj[t]])
        BY <1>5, HeldIsThere
      <3>3. QED
        BY <3>1, <3>2, <1>1, ObjectsAssumption
    <2>2. CASE pc[t] = "sub"
      BY <2>2, <1>5, HeldIsThere DEF IInv, InHandApart
    <2>3. QED
      BY <2>1, <2>2 DEF InHand
  <1>6. refcount[obj[t]] = 0
    BY <1>1, <1>2, <1>5, UnheldCount
  <1>7. QED
    BY <1>1, <1>2, <1>3, <1>4, <1>5, <1>6

-----------------------------------------------------------------------------
(* Steps that move a thread's control only.                                *)

\* The part of the invariant that is about frames and buffers.
Counted == /\ CountsExact /\ NothingDangles /\ NoBufferLost
           /\ ListedUnlessSub /\ InHandApart

\* The part that is about where the threads are.
Control == MutexOwned /\ ClosedToSearch /\ Requested /\ OldHeld

(* A thread that neither gets nor gives up a frame leaves the users alone. *)
LEMMA NothingMoves ==
  ASSUME IInv, NEW t \in Threads, NEW w,
         pc' = [pc EXCEPT ![t] = w],
         pc[t] \notin {"fresh", "sub", "release"}, w \notin {"fresh", "sub", "release"},
         \A u \in Threads \ {t} : obj'[u] = obj[u],
         UNCHANGED <<frameVars, data_size, vfbRefcount, held, saved>>
  PROVE  /\ Counted'
         /\ \A b : Users(b)' = Users(b)
         /\ w \notin {"check", "writing"} => CheckedStays'
  <1> USE DEF frameVars
  <1>1. \A u \in Threads : pc'[u] = IF u = t THEN w ELSE pc[u]
    BY DEF IInv, TypeOK
  <1>2. InHand' = InHand /\ \A u \in InHand : obj'[u] = obj[u]
    BY <1>1 DEF InHand
  <1>3. ASSUME NEW b PROVE Users(b)' = Users(b)
    <2>1. Live(b)' = Live(b)
      BY DEF Live
    <2>2. {u \in InHand : vfb[obj[u]] = b}' = {u \in InHand : vfb[obj[u]] = b}
      BY <1>2
    <2>3. {u \in Threads : pc[u] = "release" /\ saved[u] = b}'
            = {u \in Threads : pc[u] = "release" /\ saved[u] = b}
      BY <1>1
    <2>4. QED
      BY <2>1, <2>2, <2>3 DEF Users
  <1>4. CountsExact'
    BY <1>3 DEF IInv, CountsExact
  <1>5. NothingDangles'
    BY <1>1, <1>2 DEF IInv, NothingDangles, InHand
  <1>6. NoBufferLost'
    BY DEF IInv, NoBufferLost, Listed
  <1>7. ListedUnlessSub'
    BY <1>1 DEF IInv, ListedUnlessSub
  <1>8. InHandApart'
    <2>1. ASSUME NEW u \in InHand
          PROVE  /\ obj'[u] = obj[u] /\ pc'[u] = pc[u]
                 /\ Users(vfb[obj[u]])' = Users(vfb[obj[u]])
      <3>1. obj'[u] = obj[u] /\ pc'[u] = pc[u]
        BY <1>1, <1>2 DEF InHand
      <3>2. Users(vfb[obj[u]])' = Users(vfb[obj[u]])
        BY <3>1, <1>3
      <3>3. QED
        BY <3>1, <3>2
    <2>2. QED
      BY <2>1, <1>2 DEF IInv, InHandApart
  <1>9. ASSUME w \notin {"check", "writing"} PROVE CheckedStays'
    <2>1. ASSUME NEW u \in Threads, pc'[u] \in {"check", "writing"}
          PROVE  /\ obj'[u] = obj[u] /\ pc'[u] = pc[u]
                 /\ Users(vfb[obj[u]])' = Users(vfb[obj[u]])
      <3>1. obj'[u] = obj[u] /\ pc'[u] = pc[u]
        BY <1>1, <1>9, <2>1
      <3>2. Users(vfb[obj[u]])' = Users(vfb[obj[u]])
        BY <3>1, <1>3
      <3>3. QED
        BY <3>1, <3>2
    <2>2. QED
      BY <2>1 DEF IInv, CheckedStays
  <1>10. QED
    BY <1>3, <1>4, <1>5, <1>6, <1>7, <1>8, <1>9 DEF Counted

(* The invariant after a step, put together from its parts.                *)
LEMMA Parts == TypeOK' /\ Counted' /\ CheckedStays' /\ Control' => IInv'
  BY DEF IInv, Counted, Control

(* GetNewFrame() takes the mutex.                                          *)
LEMMA GetNewFrameIInv ==
  ASSUME IInv, NEW t \in Threads, NEW s \in Sizes, GetNewFrame(t, s)
  PROVE  IInv'
  <1> DEFINE w == IF closing THEN "alloc3" ELSE "search"
  <1> USE DEF GetNewFrame, Go, Lock
  <1>1. s \in Nat /\ s # 0
    BY MemoryAssumption
  <1>2. w \in Allocating /\ w \notin {"fresh", "sub", "release", "check", "writing"}
    BY DEF Allocating
  <1>3. Counted' /\ CheckedStays'
    BY <1>2, NothingMoves DEF bufferVars
  <1>4. TypeOK'
    BY <1>1, <1>2 DEF IInv, TypeOK, frameVars, bufferVars
  <1>5. MutexOwned'
    BY <1>2, ObjectsAssumption DEF IInv, TypeOK, MutexOwned
  <1>6. ClosedToSearch'
    BY DEF IInv, TypeOK, ClosedToSearch, Allocating
  <1>7. Requested'
    BY <1>1, <1>2 DEF IInv, TypeOK, Requested, Allocating
  <1>8. OldHeld'
    BY DEF IInv, TypeOK, OldHeld
  <1>9. QED
    BY <1>3, <1>4, <1>5, <1>6, <1>7, <1>8, Parts DEF Control

(* A step of GetNewFrame() that only goes on to the next, or to the error. *)
LEMMA GoOnIInv ==
  ASSUME IInv, NEW t \in Threads, NEW w,
         \/ /\ pc[t] \in Allocating \ {"alloc3"}
            /\ w \in {"alloc", "alloc2", "shrink", "collect", "search2"}
            /\ UNCHANGED <<memory_mutex, old, req>>
         \/ /\ pc[t] = "alloc3" /\ w = "idle" /\ Unlock(t)
            /\ old' = [old EXCEPT ![t] = NoFrame]
            /\ req' = [req EXCEPT ![t] = 0],
         Go(t, w),
         UNCHANGED <<frameVars, bufferVars, closing, held, obj, saved>>
  PROVE  IInv'
  <1> USE DEF Go, Unlock
  <1>2. /\ w \in Allocating \cup {"idle"} /\ pc[t] \in Allocating
        /\ w \notin {"fresh", "sub", "release", "check", "writing"}
        /\ pc[t] \notin {"fresh", "sub", "release"}
    BY DEF Allocating
  <1>3. Counted' /\ CheckedStays'
    BY <1>2, NothingMoves DEF bufferVars
  <1>4. TypeOK'
    BY <1>2 DEF IInv, TypeOK, frameVars, bufferVars
  <1>5. MutexOwned'
    BY <1>2, ObjectsAssumption DEF IInv, TypeOK, MutexOwned, Allocating
  <1>6. ClosedToSearch'
    BY DEF IInv, TypeOK, ClosedToSearch, Allocating
  <1>7. Requested'
    BY DEF IInv, TypeOK, Requested, Allocating
  <1>8. OldHeld'
    BY DEF IInv, TypeOK, OldHeld
  <1>9. QED
    BY <1>3, <1>4, <1>5, <1>6, <1>7, <1>8, Parts DEF Control

(* IsWritable() reads the frame's count: a count of one is the thread's    *)
(* own reference.                                                          *)
LEMMA CheckFrameIInv ==
  ASSUME IInv, NEW t \in Threads, NEW f \in Frames, CheckFrame(t, f)
  PROVE  IInv'
  <1> USE DEF CheckFrame, Go
  <1>1. PICK w \in {"check", "new"} :
          /\ pc' = [pc EXCEPT ![t] = w]
          /\ w = "check" => refcount[f] = 1 /\ obj' = [obj EXCEPT ![t] = f] /\ old' = old
          /\ w = "new" => obj' = obj /\ old' = [old EXCEPT ![t] = f]
    OBVIOUS
  <1>2. t \in Holders /\ pc[t] = "idle" /\ f \in held[t]
    BY DEF Holders
  <1>3. \A u \in Threads \ {t} : obj'[u] = obj[u]
    BY <1>1 DEF IInv, TypeOK
  <1>4. /\ Counted' /\ \A b : Users(b)' = Users(b)
        /\ w = "new" => CheckedStays'
    BY <1>1, <1>2, <1>3, NothingMoves DEF bufferVars
  <1>5. TypeOK'
    BY <1>1 DEF IInv, TypeOK, frameVars, bufferVars
  <1>6. Control'
    <2>1. MutexOwned'
      BY <1>1, <1>2 DEF IInv, TypeOK, MutexOwned, Allocating
    <2>2. ClosedToSearch'
      BY <1>1 DEF IInv, TypeOK, ClosedToSearch, Allocating
    <2>3. Requested'
      BY <1>1, <1>2 DEF IInv, TypeOK, Requested, Allocating
    <2>4. OldHeld'
      BY <1>1, <1>2 DEF IInv, TypeOK, OldHeld
    <2>5. QED
      BY <2>1, <2>2, <2>3, <2>4 DEF Control
  <1>7. ASSUME w = "check" PROVE CheckedStays'
    <2>1. HeldBy(f) = {t}
      BY <1>1, <1>2, <1>7, HeldIsThere
    <2>2. \A h \in Holders : f \in held[h] <=> h = t
      BY <2>1 DEF HeldBy
    <2>3. /\ pc'[t] = "check" /\ obj'[t] = f /\ held' = held /\ vfb' = vfb
          /\ \A u \in Threads \ {t} : pc'[u] = pc[u]
      BY <1>1, <1>7 DEF IInv, TypeOK, frameVars
    <2>4. ASSUME NEW u \in Threads, u # t PROVE Users(vfb[obj[u]])' = Users(vfb[obj[u]])
      BY <2>3, <2>4, <1>3, <1>4
    <2>5. QED
      BY <2>2, <2>3, <2>4, <1>3 DEF IInv, CheckedStays
  <1>8. QED
    BY <1>1, <1>4, <1>5, <1>6, <1>7, Parts

(* IsWritable() reads the buffer's count: a count of one is the frame's.   *)
LEMMA CheckBufferIInv ==
  ASSUME IInv, NEW t \in Threads, CheckBuffer(t)
  PROVE  IInv'
  <1> DEFINE b == vfb[obj[t]]
  <1> USE DEF CheckBuffer, Go
  <1>1. PICK w \in {"writing", "new"} :
          /\ pc' = [pc EXCEPT ![t] = w]
          /\ w = "writing" => vfbRefcount[b] = 1 /\ obj' = obj /\ old' = old
          /\ w = "new" => /\ obj' = [obj EXCEPT ![t] = NoFrame]
                          /\ old' = [old EXCEPT ![t] = obj[t]]
    OBVIOUS
  <1>2. t \in Holders /\ pc[t] = "check" /\ obj[t] \in Frames /\ obj[t] \in held[t]
    BY DEF Holders, IInv, CheckedStays
  <1>3. \A u \in Threads \ {t} : obj'[u] = obj[u]
    BY <1>1 DEF IInv, TypeOK
  <1>4. /\ Counted' /\ \A c : Users(c)' = Users(c)
        /\ w = "new" => CheckedStays'
    BY <1>1, <1>2, <1>3, NothingMoves DEF bufferVars
  <1>5. TypeOK'
    BY <1>1, <1>2 DEF IInv, TypeOK, frameVars, bufferVars
  <1>6. Control'
    <2>1. MutexOwned'
      BY <1>1, <1>2 DEF IInv, TypeOK, MutexOwned, Allocating
    <2>2. ClosedToSearch'
      BY <1>1 DEF IInv, TypeOK, ClosedToSearch, Allocating
    <2>3. Requested'
      BY <1>1, <1>2 DEF IInv, TypeOK, Requested, Allocating
    <2>4. OldHeld'
      BY <1>1, <1>2 DEF IInv, TypeOK, OldHeld
    <2>5. QED
      BY <2>1, <2>2, <2>3, <2>4 DEF Control
  <1>7. ASSUME w = "writing" PROVE CheckedStays'
    <2>1. b \in Buffers /\ data_size[b] # 0 /\ obj[t] \in Users(b)
      BY <1>2, HeldIsThere
    <2>2. Cardinality(Users(b)) = 1
      BY <2>1, <1>1, <1>7 DEF IInv, CountsExact
    <2>3. Users(b) = {obj[t]}
      BY <2>1, <2>2, CountedFinite, CountZeroOne
    <2>4. /\ pc'[t] = "writing" /\ obj' = obj /\ held' = held /\ vfb' = vfb
          /\ \A u \in Threads \ {t} : pc'[u] = pc[u]
      BY <1>1, <1>7 DEF IInv, TypeOK, frameVars
    <2>5. ASSUME NEW u \in Threads PROVE Users(vfb[obj[u]])' = Users(vfb[obj[u]])
      BY <2>4, <1>4
    <2>6. QED
      BY <1>2, <2>3, <2>4, <2>5 DEF IInv, CheckedStays
  <1>8. QED
    BY <1>1, <1>4, <1>5, <1>6, <1>7, Parts

(* The write is over.                                                      *)
LEMMA WrittenIInv ==
  ASSUME IInv, NEW t \in Threads, Written(t)
  PROVE  IInv'
  <1> USE DEF Written, Go
  <1>0. \A u \in Threads \ {t} : obj'[u] = obj[u]
    BY DEF IInv, TypeOK
  <1>w. PICK w \in {"idle"} : pc' = [pc EXCEPT ![t] = w]
    OBVIOUS
  <1>1. Counted' /\ CheckedStays'
    BY <1>0, <1>w, NothingMoves DEF bufferVars
  <1>2. TypeOK'
    BY DEF IInv, TypeOK, frameVars, bufferVars
  <1>3. MutexOwned'
    BY DEF IInv, TypeOK, MutexOwned, Allocating
  <1>4. ClosedToSearch'
    BY DEF IInv, TypeOK, ClosedToSearch, Allocating
  <1>5. Requested'
    BY DEF IInv, TypeOK, Requested, Allocating
  <1>6. OldHeld'
    BY DEF IInv, TypeOK, OldHeld
  <1>7. QED
    BY <1>1, <1>2, <1>3, <1>4, <1>5, <1>6, Parts DEF Control

(* The environment closes: the mutex is free, so nobody is inside.         *)
LEMMA CloseIInv ==
  ASSUME IInv, Close
  PROVE  IInv'
  <1> USE DEF Close, frameVars, bufferVars, threadVars
  <1>1. Counted'
    BY DEF IInv, Counted, CountsExact, NothingDangles, NoBufferLost, ListedUnlessSub,
           InHandApart, InHand, Users, Live, Listed
  <1>2. CheckedStays'
    BY DEF IInv, CheckedStays, Users, Live, InHand
  <1>3. TypeOK'
    BY DEF IInv, TypeOK
  <1>4. MutexOwned' /\ Requested' /\ OldHeld'
    BY DEF IInv, MutexOwned, Requested, OldHeld
  <1>5. ClosedToSearch'
    BY ObjectsAssumption DEF IInv, ClosedToSearch, MutexOwned
  <1>6. QED
    BY <1>1, <1>2, <1>3, <1>4, <1>5, Parts DEF Control

-----------------------------------------------------------------------------
(* Letting go: Release() in its two halves.                                *)

(* One element in the place of another does not change the count.          *)
LEMMA CountSwap ==
  ASSUME NEW S, IsFiniteSet(S), NEW x \in S, NEW y, y \notin S
  PROVE  Cardinality((S \ {x}) \cup {y}) = Cardinality(S)
  <1>1. IsFiniteSet(S \ {x}) /\ Cardinality(S \ {x}) = Cardinality(S) - 1
    BY FS_RemoveElement
  <1>2. Cardinality((S \ {x}) \cup {y}) = Cardinality(S \ {x}) + 1
    BY <1>1, FS_AddElement
  <1>3. QED
    BY <1>1, <1>2, FS_CardinalityType

(* The first half of Release(): holder h, of thread t or a cache, lets go of *)
(* frame f, and t goes on to the buffer or to w; and what becomes of the   *)
(* sets that the counters count.                                           *)
LetsGo(t, h, f, w) ==
  /\ w \notin {"fresh", "sub", "release", "check", "writing"}
  /\ pc[t] \notin {"fresh", "sub", "release", "check", "writing"}
  /\ held' = [held EXCEPT ![h] = @ \ {f}]
  /\ refcount' = [refcount EXCEPT ![f] = @ - 1]
  /\ saved' = [saved EXCEPT ![t] = IF refcount[f] = 1 THEN vfb[f] ELSE NoBuffer]
  /\ pc' = [pc EXCEPT ![t] = IF refcount[f] = 1 THEN "release" ELSE w]
  /\ UNCHANGED <<vfb, registry, data_size, vfbRefcount, obj>>

LetGoEffect(t, h, f) ==
  /\ InHand' = InHand
  /\ \A g : HeldBy(g)' = IF g = f THEN HeldBy(g) \ {h} ELSE HeldBy(g)
  /\ \A b : Users(b)' = IF refcount[f] = 1 /\ b = vfb[f]
                          THEN (Users(b) \ {f}) \cup {t} ELSE Users(b)
  /\ \A b : Cardinality(Users(b)') = Cardinality(Users(b))
  /\ t \notin Users(vfb[f])

(* Holder h lets go of frame f.  If it was the last holder, thread t, which *)
(* does it, takes the frame's place among the users of the buffer.         *)
LEMMA LetGoSets ==
  ASSUME IInv, NEW t \in Threads, NEW h \in Holders, h \in Caches \cup {t}, NEW f \in held[h],
         NEW w, LetsGo(t, h, f, w)
  PROVE  LetGoEffect(t, h, f)
  <1> USE DEF LetsGo
  <1>1. f \in Frames /\ refcount[f] \in Nat /\ refcount[f] > 0 /\ f \in Users(vfb[f])
    BY HeldIsThere
  <1>2. /\ \A u \in Threads : u # t => pc'[u] = pc[u] /\ saved'[u] = saved[u]
        /\ pc'[t] = IF refcount[f] = 1 THEN "release" ELSE w
        /\ saved'[t] = IF refcount[f] = 1 THEN vfb[f] ELSE NoBuffer
        /\ \A g \in Frames : refcount'[g] = IF g = f THEN refcount[f] - 1 ELSE refcount[g]
        /\ \A k \in Holders : held'[k] = IF k = h THEN held[h] \ {f} ELSE held[k]
    BY <1>1 DEF IInv, TypeOK
  <1>3. InHand' = InHand
    BY <1>2 DEF InHand
  <1>4. ASSUME NEW g
        PROVE  HeldBy(g)' = IF g = f THEN HeldBy(g) \ {h} ELSE HeldBy(g)
    BY <1>2 DEF HeldBy
  <1>5. ASSUME NEW b
        PROVE  Live(b)' = IF refcount[f] = 1 /\ b = vfb[f] THEN Live(b) \ {f} ELSE Live(b)
    <2>1. \A g \in Frames : refcount'[g] > 0 <=> refcount[g] > 0 /\ (g = f => refcount[f] # 1)
      BY <1>1, <1>2
    <2>2. QED
      BY <2>1 DEF Live
  <1>6. ASSUME NEW b
        PROVE  {u \in Threads : pc[u] = "release" /\ saved[u] = b}'
                 = {u \in Threads : pc[u] = "release" /\ saved[u] = b}
                     \cup (IF refcount[f] = 1 /\ b = vfb[f] THEN {t} ELSE {})
    BY <1>2
  <1>7. ASSUME NEW b
        PROVE  Users(b)' = IF refcount[f] = 1 /\ b = vfb[f]
                             THEN (Users(b) \ {f}) \cup {t} ELSE Users(b)
    <2>1. f \notin Threads
      BY <1>1, ObjectsAssumption
    <2>2. {u \in InHand : vfb[obj[u]] = b}' = {u \in InHand : vfb[obj[u]] = b}
      BY <1>3
    <2>3. {u \in InHand : vfb[obj[u]] = b} \subseteq Threads
      BY DEF InHand
    <2>4. QED
      BY <1>5, <1>6, <2>1, <2>2, <2>3 DEF Users
  <1>8. t \notin Users(vfb[f])
    BY ObjectsAssumption DEF Users, Live, InHand
  <1>9. ASSUME NEW b PROVE Cardinality(Users(b)') = Cardinality(Users(b))
    <2>1. CASE refcount[f] = 1 /\ b = vfb[f]
      BY <2>1, <1>1, <1>7, <1>8, CountedFinite, CountSwap
    <2>2. CASE ~(refcount[f] = 1 /\ b = vfb[f])
      BY <2>2, <1>7
    <2>3. QED
      BY <2>1, <2>2
  <1>10. QED
    BY <1>3, <1>4, <1>7, <1>8, <1>9 DEF LetGoEffect

(* Counts, frames and buffers after the first half of Release().           *)
LEMMA LetGo ==
  ASSUME IInv, NEW t \in Threads, NEW h \in Holders, h \in Caches \cup {t}, NEW f \in held[h],
         NEW w, LetsGo(t, h, f, w)
  PROVE  Counted' /\ CheckedStays' /\ refcount' \in [Frames -> Nat]
  <1>1. /\ f \in Frames /\ f \in registry /\ vfb[f] \in Buffers /\ data_size[vfb[f]] # 0
        /\ refcount[f] \in Nat /\ refcount[f] > 0 /\ refcount[f] = Cardinality(HeldBy(f))
        /\ f \in Users(vfb[f])
    BY HeldIsThere
  <1>2. /\ InHand' = InHand
        /\ \A g : HeldBy(g)' = IF g = f THEN HeldBy(g) \ {h} ELSE HeldBy(g)
        /\ \A b : Users(b)' = IF refcount[f] = 1 /\ b = vfb[f]
                                THEN (Users(b) \ {f}) \cup {t} ELSE Users(b)
        /\ \A b : Cardinality(Users(b)') = Cardinality(Users(b))
    <2>1. LetGoEffect(t, h, f)
      BY LetGoSets, Zenon
    <2>2. QED
      BY <2>1 DEF LetGoEffect
  <1> USE DEF LetsGo
  <1>3. /\ \A u \in Threads : u # t => pc'[u] = pc[u] /\ saved'[u] = saved[u]
        /\ pc'[t] = IF refcount[f] = 1 THEN "release" ELSE w
        /\ saved'[t] = IF refcount[f] = 1 THEN vfb[f] ELSE NoBuffer
        /\ \A g \in Frames : refcount'[g] = IF g = f THEN refcount[f] - 1 ELSE refcount[g]
        /\ \A k \in Holders : held'[k] = IF k = h THEN held[h] \ {f} ELSE held[k]
    BY <1>1 DEF IInv, TypeOK
  <1>4. refcount' \in [Frames -> Nat]
    BY <1>1 DEF IInv, TypeOK
  <1>5. CountsExact'
    <2>1. ASSUME NEW g \in Frames, vfb'[g] # NoBuffer
          PROVE  refcount'[g] = Cardinality(HeldBy(g)')
      <3>1. CASE g = f
        <4>1. h \in HeldBy(f)
          BY DEF HeldBy
        <4>2. Cardinality(HeldBy(f) \ {h}) = Cardinality(HeldBy(f)) - 1
          BY <4>1, CountedFinite, FS_RemoveElement
        <4>3. HeldBy(g)' = HeldBy(f) \ {h}
          BY <3>1, <1>2
        <4>4. QED
          BY <3>1, <4>2, <4>3, <1>1, <1>3
      <3>2. CASE g # f
        <4>1. refcount[g] = Cardinality(HeldBy(g))
          BY <2>1 DEF IInv, CountsExact, HeldBy
        <4>2. QED
          BY <3>2, <4>1, <1>2, <1>3
      <3>3. QED
        BY <3>1, <3>2
    <2>2. ASSUME NEW b \in Buffers, data_size'[b] # 0
          PROVE  vfbRefcount'[b] = Cardinality(Users(b)')
      BY <2>2, <1>2 DEF IInv, CountsExact
    <2>3. QED
      BY <2>1, <2>2 DEF CountsExact, HeldBy
  <1>6. NothingDangles'
    <2>1. \A k \in Holders : \A g \in held'[k] : g \in held[k]
      BY <1>3
    <2>2. \A u \in Threads : pc'[u] = "release" =>
            saved'[u] \in Buffers /\ data_size[saved'[u]] # 0
      BY <1>1, <1>3 DEF IInv, NothingDangles
    <2>3. \A u \in InHand : pc'[u] = "fresh" => pc[u] = "fresh"
      BY <1>3 DEF InHand
    <2>4. QED
      BY <2>1, <2>2, <2>3, <1>2 DEF IInv, NothingDangles
  <1>7. NoBufferLost'
    BY DEF IInv, NoBufferLost, Listed
  <1>8. ListedUnlessSub'
    BY <1>3 DEF IInv, ListedUnlessSub
  <1>9. InHandApart'
    <2>1. ASSUME NEW u \in InHand, pc[u] = "fresh" PROVE Users(vfb[obj[u]])' = {u}
      <3>1. Users(vfb[obj[u]]) = {u}
        BY <2>1 DEF IInv, InHandApart
      <3>2. vfb[obj[u]] # vfb[f]
        BY <3>1, <1>1, ObjectsAssumption DEF InHand
      <3>3. QED
        BY <3>1, <3>2, <1>2
    <2>2. \A u \in InHand : pc'[u] = pc[u]
      BY <1>3 DEF InHand
    <2>3. QED
      BY <2>1, <2>2, <1>2 DEF IInv, InHandApart
  <1>10. CheckedStays'
    <2>1. ASSUME NEW u \in Threads, pc'[u] \in {"check", "writing"}
          PROVE  /\ pc'[u] = pc[u] /\ u # t /\ u # h
                 /\ obj[u] \in Frames /\ \A k \in Holders : obj[u] \in held[k] <=> k = u
                 /\ f # obj[u]
      <3>1. pc'[u] = pc[u] /\ u # t /\ u # h
        BY <2>1, <1>3, HoldersAssumption
      <3>2. obj[u] \in Frames /\ \A k \in Holders : obj[u] \in held[k] <=> k = u
        BY <3>1, <2>1 DEF IInv, CheckedStays
      <3>3. QED
        BY <3>1, <3>2
    <2>2. ASSUME NEW u \in Threads, pc'[u] = "writing"
          PROVE  Users(vfb[obj[u]])' = {obj[u]}
      <3>1. Users(vfb[obj[u]]) = {obj[u]}
        BY <2>1, <2>2 DEF IInv, CheckedStays
      <3>2. vfb[obj[u]] # vfb[f]
        BY <2>1, <2>2, <3>1, <1>1
      <3>3. QED
        BY <3>1, <3>2, <1>2
    <2>3. ASSUME NEW u \in Threads, pc'[u] \in {"check", "writing"}
          PROVE  \A k \in Holders : obj[u] \in held'[k] <=> k = u
      BY <2>1, <2>3, <1>3
    <2>4. QED
      BY <2>1, <2>2, <2>3 DEF CheckedStays
  <1>11. QED
    BY <1>4, <1>5, <1>6, <1>7, <1>8, <1>9, <1>10 DEF Counted

(* Release() of a thread's own reference or of a cache's.                  *)
LEMMA ReleaseIInv ==
  ASSUME IInv, NEW t \in Threads, NEW h \in Holders, NEW f \in Frames, Release(t, h, f)
  PROVE  IInv'
  <1> USE DEF Release, Go
  <1>0. PICK w \in {"idle"} :
          pc' = [pc EXCEPT ![t] = IF refcount[f] = 1 THEN "release" ELSE w]
    OBVIOUS
  <1>1. f \in held[h] /\ h \in Caches \cup {t} /\ vfb[f] \in Buffers
    BY HeldIsThere
  <1>2. Counted' /\ CheckedStays' /\ refcount' \in [Frames -> Nat]
    <2>1. LetsGo(t, h, f, w)
      BY <1>0, <1>1 DEF LetsGo, bufferVars
    <2>2. QED
      BY <1>1, <2>1, LetGo, Zenon
  <1>3. TypeOK'
    <2>1. held' \in [Holders -> SUBSET Frames]
      BY DEF IInv, TypeOK
    <2>2. saved' \in [Threads -> Buffers \cup {NoBuffer}]
      BY <1>1 DEF IInv, TypeOK
    <2>3. QED
      BY <1>2, <2>1, <2>2 DEF IInv, TypeOK, bufferVars
  <1>4. MutexOwned'
    BY DEF IInv, TypeOK, MutexOwned, Requested, Allocating
  <1>5. ClosedToSearch'
    BY DEF IInv, TypeOK, ClosedToSearch, Requested, Allocating
  <1>6. Requested'
    BY DEF IInv, TypeOK, Requested, Allocating
  <1>7. OldHeld'
    <2>1. \A u \in Threads : u # t => held'[u] = held[u]
      BY HoldersAssumption DEF IInv, TypeOK, Holders
    <2>2. QED
      BY <2>1 DEF IInv, TypeOK, OldHeld
  <1>8. QED
    BY <1>2, <1>3, <1>4, <1>5, <1>6, <1>7, Parts DEF Control

(* ShrinkCache() makes a cache let go of a frame.                          *)
LEMMA ShrinkCacheIInv ==
  ASSUME IInv, NEW t \in Threads, NEW c \in Caches, NEW f \in Frames, ShrinkCache(t, c, f)
  PROVE  IInv'
  <1> USE DEF ShrinkCache, Go
  <1>0. PICK w \in {"shrink"} :
          pc' = [pc EXCEPT ![t] = IF refcount[f] = 1 THEN "release" ELSE w]
    OBVIOUS
  <1>1. c \in Holders /\ f \in held[c] /\ c \in Caches \cup {t} /\ vfb[f] \in Buffers
    BY HeldIsThere DEF Holders
  <1>2. Counted' /\ CheckedStays' /\ refcount' \in [Frames -> Nat]
    <2>1. LetsGo(t, c, f, w)
      BY <1>0, <1>1 DEF LetsGo, bufferVars
    <2>2. QED
      BY <1>1, <2>1, LetGo, Zenon
  <1>3. TypeOK'
    <2>1. held' \in [Holders -> SUBSET Frames]
      BY DEF IInv, TypeOK
    <2>2. saved' \in [Threads -> Buffers \cup {NoBuffer}]
      BY <1>1 DEF IInv, TypeOK
    <2>3. QED
      BY <1>2, <2>1, <2>2 DEF IInv, TypeOK, bufferVars, Allocating
  <1>4. MutexOwned'
    BY DEF IInv, TypeOK, MutexOwned, Allocating
  <1>5. ClosedToSearch'
    BY DEF IInv, TypeOK, ClosedToSearch, Allocating
  <1>6. Requested'
    BY DEF IInv, TypeOK, Requested, Allocating
  <1>7. OldHeld'
    <2>1. \A u \in Threads : held'[u] = held[u]
      BY HoldersAssumption DEF IInv, TypeOK, Holders
    <2>2. req[t] # 0
      BY DEF IInv, Requested, Allocating
    <2>3. QED
      BY <2>1, <2>2 DEF IInv, TypeOK, OldHeld
  <1>8. QED
    BY <1>2, <1>3, <1>4, <1>5, <1>6, <1>7, Parts DEF Control

(* MakeWritable() and MakePropertyWritable() let go of the old frame.      *)
LEMMA DropOldIInv ==
  ASSUME IInv, NEW t \in Threads, DropOld(t)
  PROVE  IInv'
  <1> DEFINE f == old[t]
  <1> USE DEF DropOld, Go
  <1>0. PICK w \in {"idle"} :
          pc' = [pc EXCEPT ![t] = IF refcount[f] = 1 THEN "release" ELSE w]
    OBVIOUS
  <1>1. t \in Holders /\ f \in held[t]
    BY DEF Holders, IInv, OldHeld
  <1>2. vfb[f] \in Buffers
    BY <1>1, HeldIsThere
  <1>3. Counted' /\ CheckedStays' /\ refcount' \in [Frames -> Nat]
    <2>1. LetsGo(t, t, f, w)
      BY <1>0, <1>1 DEF LetsGo, bufferVars
    <2>2. QED
      BY <1>1, <2>1, LetGo, Zenon
  <1>4. TypeOK'
    <2>1. held' \in [Holders -> SUBSET Frames]
      BY DEF IInv, TypeOK
    <2>2. saved' \in [Threads -> Buffers \cup {NoBuffer}]
      BY <1>2 DEF IInv, TypeOK
    <2>3. QED
      BY <1>3, <2>1, <2>2 DEF IInv, TypeOK, bufferVars
  <1>5. MutexOwned'
    BY ObjectsAssumption DEF IInv, TypeOK, MutexOwned, Requested, Allocating
  <1>6. ClosedToSearch'
    BY DEF IInv, TypeOK, ClosedToSearch, Requested, Allocating
  <1>7. Requested'
    BY DEF IInv, TypeOK, Requested, Allocating
  <1>8. OldHeld'
    <2>1. \A u \in Threads : u # t => held'[u] = held[u]
      BY DEF IInv, TypeOK, Holders
    <2>2. QED
      BY <2>1 DEF IInv, TypeOK, OldHeld
  <1>9. QED
    BY <1>3, <1>4, <1>5, <1>6, <1>7, <1>8, Parts DEF Control

(* The second half of Release(): the buffer loses the user that stood for  *)
(* the frame.                                                              *)
LEMMA ReleaseBufferIInv ==
  ASSUME IInv, NEW t \in Threads, ReleaseBuffer(t)
  PROVE  IInv'
  <1> DEFINE c == saved[t]
  <1> USE DEF ReleaseBuffer, Go, frameVars
  <1>1. c \in Buffers /\ data_size[c] # 0 /\ t \in Users(c)
    BY DEF IInv, NothingDangles, Users
  <1>2. vfbRefcount[c] = Cardinality(Users(c)) /\ vfbRefcount[c] \in Nat \ {0}
    BY <1>1, CountedFinite, CountZeroOne DEF IInv, CountsExact
  <1>3. /\ \A u \in Threads : u # t => pc'[u] = pc[u] /\ saved'[u] = saved[u]
        /\ pc'[t] = IF req[t] = 0 THEN "idle" ELSE "shrink"
        /\ \A b \in Buffers : vfbRefcount'[b] = IF b = c THEN vfbRefcount[c] - 1
                                                         ELSE vfbRefcount[b]
    BY DEF IInv, TypeOK
  <1>4. InHand' = InHand /\ \A u \in InHand : pc'[u] = pc[u]
    BY <1>3 DEF InHand
  <1>5. ASSUME NEW b PROVE Users(b)' = IF b = c THEN Users(c) \ {t} ELSE Users(b)
    <2>1. Live(b)' = Live(b) /\ t \notin Live(b)
      BY ObjectsAssumption DEF Live
    <2>2. /\ {u \in InHand : vfb[obj[u]] = b}' = {u \in InHand : vfb[obj[u]] = b}
          /\ t \notin InHand
      BY <1>4 DEF InHand
    <2>3. {u \in Threads : pc[u] = "release" /\ saved[u] = b}'
            = {u \in Threads : pc[u] = "release" /\ saved[u] = b} \ {t}
      BY <1>3
    <2>4. QED
      BY <2>1, <2>2, <2>3 DEF Users
  <1>6. CountsExact'
    <2>1. Cardinality(Users(c) \ {t}) = Cardinality(Users(c)) - 1
      BY <1>1, CountedFinite, FS_RemoveElement
    <2>2. ASSUME NEW b \in Buffers, data_size'[b] # 0
          PROVE  vfbRefcount'[b] = Cardinality(Users(b)')
      <3>1. CASE b = c
        BY <3>1, <2>1, <1>2, <1>3, <1>5
      <3>2. CASE b # c
        BY <3>2, <2>2, <1>3, <1>5 DEF IInv, CountsExact
      <3>3. QED
        BY <3>1, <3>2
    <2>3. QED
      BY <2>2 DEF IInv, CountsExact
  <1>7. NothingDangles'
    BY <1>3, <1>4 DEF IInv, NothingDangles
  <1>8. NoBufferLost'
    BY DEF IInv, NoBufferLost, Listed
  <1>9. ListedUnlessSub'
    BY <1>3 DEF IInv, ListedUnlessSub
  <1>10. InHandApart'
    <2>1. ASSUME NEW u \in InHand, pc[u] = "fresh" PROVE Users(vfb[obj[u]])' = {u}
      <3>1. Users(vfb[obj[u]]) = {u}
        BY <2>1 DEF IInv, InHandApart
      <3>2. vfb[obj[u]] # c
        BY <3>1, <2>1, <1>1
      <3>3. QED
        BY <3>1, <3>2, <1>5
    <2>2. QED
      BY <2>1, <1>4 DEF IInv, InHandApart
  <1>11. CheckedStays'
    <2>1. ASSUME NEW u \in Threads, pc[u] = "writing" PROVE Users(vfb[obj[u]])' = {obj[u]}
      <3>1. Users(vfb[obj[u]]) = {obj[u]} /\ obj[u] \in Frames
        BY <2>1 DEF IInv, CheckedStays
      <3>2. vfb[obj[u]] # c
        BY <3>1, <1>1, ObjectsAssumption
      <3>3. QED
        BY <3>1, <3>2, <1>5
    <2>2. \A u \in Threads : pc'[u] \in {"check", "writing"} => pc'[u] = pc[u]
      BY <1>3
    <2>3. QED
      BY <2>1, <2>2 DEF IInv, CheckedStays
  <1>12. TypeOK'
    <2>1. vfbRefcount[c] - 1 \in Nat
      BY <1>2
    <2>2. vfbRefcount' \in [Buffers -> Nat]
      BY <2>1 DEF IInv, TypeOK
    <2>3. QED
      BY <2>2 DEF IInv, TypeOK, Allocating
  <1>13. MutexOwned'
    BY ObjectsAssumption DEF IInv, TypeOK, MutexOwned, Allocating
  <1>14. ClosedToSearch'
    BY DEF IInv, TypeOK, ClosedToSearch, Allocating
  <1>15. Requested'
    BY DEF IInv, TypeOK, Requested, Allocating
  <1>16. OldHeld'
    BY DEF IInv, TypeOK, OldHeld
  <1>17. QED
    BY <1>6, <1>7, <1>8, <1>9, <1>10, <1>11, <1>12, <1>13, <1>14, <1>15, <1>16, Parts
       DEF Control, Counted

-----------------------------------------------------------------------------
(* Getting hold of frames.                                                 *)

(* A PVideoFrame is copied: the frame has one more holder, its buffer the  *)
(* same users.                                                             *)
LEMMA ShareIInv ==
  ASSUME IInv, NEW g \in Holders, NEW h \in Holders, NEW f \in Frames, Share(g, h, f)
  PROVE  IInv'
  <1> USE DEF Share, threadVars, bufferVars
  <1>1. /\ f \in registry /\ refcount[f] \in Nat /\ refcount[f] > 0
        /\ refcount[f] = Cardinality(HeldBy(f))
    BY HeldIsThere
  <1>2. /\ \A e \in Frames : refcount'[e] = IF e = f THEN refcount[f] + 1 ELSE refcount[e]
        /\ \A k \in Holders : held'[k] = IF k = h THEN held[h] \cup {f} ELSE held[k]
    BY DEF IInv, TypeOK
  <1>3. ASSUME NEW b PROVE Users(b)' = Users(b)
    <2>1. \A e \in Frames : refcount'[e] > 0 <=> refcount[e] > 0
      BY <1>1, <1>2
    <2>2. QED
      BY <2>1 DEF Users, Live, InHand
  <1>4. CountsExact'
    <2>1. ASSUME NEW e \in Frames, vfb'[e] # NoBuffer
          PROVE  refcount'[e] = Cardinality(HeldBy(e)')
      <3>1. CASE e = f
        <4>1. HeldBy(f)' = HeldBy(f) \cup {h} /\ h \notin HeldBy(f)
          BY <1>2 DEF HeldBy
        <4>2. Cardinality(HeldBy(f) \cup {h}) = Cardinality(HeldBy(f)) + 1
          BY <4>1, CountedFinite, FS_AddElement
        <4>3. QED
          BY <3>1, <4>1, <4>2, <1>1, <1>2
      <3>2. CASE e # f
        <4>1. HeldBy(e)' = HeldBy(e)
          BY <3>2, <1>2 DEF HeldBy
        <4>2. refcount[e] = Cardinality(HeldBy(e))
          BY <2>1 DEF IInv, CountsExact, HeldBy
        <4>3. QED
          BY <3>2, <4>1, <4>2, <1>2
      <3>3. QED
        BY <3>1, <3>2
    <2>2. QED
      BY <2>1, <1>3 DEF IInv, CountsExact, HeldBy
  <1>5. NothingDangles'
    BY <1>1, <1>2 DEF IInv, NothingDangles, InHand
  <1>6. NoBufferLost' /\ ListedUnlessSub'
    BY DEF IInv, NoBufferLost, ListedUnlessSub, Listed
  <1>7. InHandApart'
    BY <1>3 DEF IInv, InHandApart, InHand
  <1>8. CheckedStays'
    <2>1. ASSUME NEW u \in Threads, pc[u] \in {"check", "writing"} PROVE obj[u] # f
      BY <2>1 DEF IInv, CheckedStays
    <2>2. QED
      BY <2>1, <1>2, <1>3 DEF IInv, CheckedStays
  <1>9. TypeOK'
    <2>1. refcount' \in [Frames -> Nat] /\ held' \in [Holders -> SUBSET Frames]
      BY <1>1 DEF IInv, TypeOK
    <2>2. QED
      BY <2>1 DEF IInv, TypeOK
  <1>10. MutexOwned' /\ ClosedToSearch' /\ Requested'
    BY DEF IInv, MutexOwned, ClosedToSearch, Requested
  <1>11. OldHeld'
    BY <1>2 DEF IInv, OldHeld, Holders
  <1>12. QED
    BY <1>4, <1>5, <1>6, <1>7, <1>8, <1>9, <1>10, <1>11, Parts DEF Control, Counted

(* Thread t gets hold of the frame in its hands: the frame takes t's place *)
(* among the users of the buffer.  Frames in D, which nobody holds or has  *)
(* in hand, may be deleted on the way.                                     *)
LEMMA AdoptSets ==
  ASSUME IInv, NEW t \in InHand, NEW w, w \notin {"fresh", "sub", "release"},
         NEW D, \A f \in D \cap Frames : refcount[f] = 0 /\ \A u \in InHand : obj[u] # f,
         vfb' = VfbWithout(D),
         refcount' = [refcount EXCEPT ![obj[t]] = @ + 1],
         held' = [held EXCEPT ![t] = @ \cup {obj[t]}],
         obj' = [obj EXCEPT ![t] = NoFrame],
         pc' = [pc EXCEPT ![t] = w],
         UNCHANGED saved
  PROVE  /\ InHand' = InHand \ {t}
         /\ \A u \in InHand \ {t} : obj'[u] = obj[u] /\ vfb'[obj[u]] = vfb[obj[u]]
         /\ \A f \in Frames : HeldBy(f)' = IF f = obj[t] THEN {t} ELSE HeldBy(f)
         /\ \A b \in Buffers : Users(b)' = IF b = vfb[obj[t]]
                                             THEN (Users(b) \ {t}) \cup {obj[t]} ELSE Users(b)
         /\ \A b \in Buffers : Cardinality(Users(b)') = Cardinality(Users(b))
         /\ obj[t] \notin Users(vfb[obj[t]])
  <1> DEFINE o == obj[t]
  <1>1. /\ t \in Threads /\ o \in Frames /\ vfb[o] \in Buffers /\ vfb[o] # NoBuffer
        /\ \A h \in Holders : o \notin held[h]
        /\ refcount[o] = 0 /\ t \in Users(vfb[o])
    BY InHandIsThere
  <1>2. /\ \A u \in Threads : u # t => pc'[u] = pc[u] /\ obj'[u] = obj[u]
        /\ pc'[t] = w
        /\ \A f \in Frames : refcount'[f] = IF f = o THEN 1 ELSE refcount[f]
        /\ \A k \in Holders : held'[k] = IF k = t THEN held[t] \cup {o} ELSE held[k]
        /\ \A f \in Frames : vfb'[f] = IF f \in D THEN NoBuffer ELSE vfb[f]
    BY <1>1 DEF IInv, TypeOK, VfbWithout, Holders
  <1>3. InHand' = InHand \ {t}
    BY <1>2 DEF InHand
  <1>4. \A u \in InHand \ {t} : obj'[u] = obj[u] /\ vfb'[obj[u]] = vfb[obj[u]]
    <2>1. \A u \in InHand : u \in Threads /\ obj[u] \in Frames /\ obj[u] \notin D
      BY InHandIsThere
    <2>2. QED
      BY <1>2, <2>1
  <1>5. ASSUME NEW f \in Frames PROVE HeldBy(f)' = IF f = o THEN {t} ELSE HeldBy(f)
    BY <1>1, <1>2 DEF HeldBy, Holders
  <1>6. ASSUME NEW b \in Buffers
        PROVE  Users(b)' = IF b = vfb[o] THEN (Users(b) \ {t}) \cup {o} ELSE Users(b)
    <2>1. o \notin D
      BY <1>1
    <2>2. \A f \in Frames : f # o => (vfb'[f] = b /\ refcount'[f] > 0 <=>
                                      vfb[f] = b /\ refcount[f] > 0)
      BY <1>2, ObjectsAssumption
    <2>3. vfb'[o] = vfb[o] /\ refcount'[o] > 0 /\ ~(refcount[o] > 0)
      BY <1>1, <1>2, <2>1
    <2>4. Live(b)' = IF b = vfb[o] THEN Live(b) \cup {o} ELSE Live(b)
      BY <1>1, <2>2, <2>3 DEF Live
    <2>5. {u \in InHand : vfb[obj[u]] = b}' = {u \in InHand : vfb[obj[u]] = b} \ {t}
      BY <1>3, <1>4
    <2>6. {u \in Threads : pc[u] = "release" /\ saved[u] = b}'
            = {u \in Threads : pc[u] = "release" /\ saved[u] = b}
      BY <1>2 DEF InHand
    <2>7. t \notin Live(b) /\ t \notin {u \in Threads : pc[u] = "release" /\ saved[u] = b}
      BY <1>1, ObjectsAssumption DEF Live, InHand
    <2>8. b # vfb[o] => t \notin {u \in InHand : vfb[obj[u]] = b}
      OBVIOUS
    <2>9. o # t
      BY <1>1, ObjectsAssumption
    <2>10. QED
      BY <2>4, <2>5, <2>6, <2>7, <2>8, <2>9 DEF Users
  <1>7. o \notin Users(vfb[o])
    BY <1>1, ObjectsAssumption DEF Users, Live, InHand
  <1>8. ASSUME NEW b \in Buffers PROVE Cardinality(Users(b)') = Cardinality(Users(b))
    <2>1. CASE b = vfb[o]
      BY <2>1, <1>1, <1>6, <1>7, CountedFinite, CountSwap
    <2>2. CASE b # vfb[o]
      BY <2>2, <1>6
    <2>3. QED
      BY <2>1, <2>2
  <1>9. QED
    BY <1>3, <1>4, <1>5, <1>6, <1>7, <1>8

(* Counts, frames and buffers after it: the frame is listed, and the       *)
(* deleted frames were of its buffer.                                      *)
LEMMA AdoptCounted ==
  ASSUME IInv, NEW t \in InHand, NEW w,
         w \notin {"fresh", "sub", "release", "check", "writing"},
         NEW D, D \subseteq Listed(vfb[obj[t]]),
         \A f \in D \cap Frames : refcount[f] = 0 /\ \A u \in InHand : obj[u] # f,
         vfb' = VfbWithout(D),
         registry' = (registry \ D) \cup {obj[t]},
         refcount' = [refcount EXCEPT ![obj[t]] = @ + 1],
         held' = [held EXCEPT ![t] = @ \cup {obj[t]}],
         obj' = [obj EXCEPT ![t] = NoFrame],
         pc' = [pc EXCEPT ![t] = w],
         UNCHANGED <<saved, data_size, vfbRefcount>>
  PROVE  /\ Counted' /\ CheckedStays'
         /\ vfb' \in [Frames -> Buffers \cup {NoBuffer}] /\ refcount' \in [Frames -> Nat]
         /\ held' \in [Holders -> SUBSET Frames] /\ registry' \subseteq Frames
  <1> DEFINE o == obj[t]
  <1>1. /\ t \in Threads /\ t \in Holders /\ o \in Frames
        /\ vfb[o] \in Buffers /\ vfb[o] # NoBuffer /\ data_size[vfb[o]] # 0
        /\ \A h \in Holders : o \notin held[h]
        /\ refcount[o] = 0 /\ t \in Users(vfb[o])
    BY InHandIsThere DEF Holders
  <1>2. /\ \A u \in Threads : u # t => pc'[u] = pc[u] /\ obj'[u] = obj[u]
        /\ pc'[t] = w
        /\ \A f \in Frames : refcount'[f] = IF f = o THEN 1 ELSE refcount[f]
        /\ \A k \in Holders : held'[k] = IF k = t THEN held[t] \cup {o} ELSE held[k]
        /\ \A f \in Frames : vfb'[f] = IF f \in D THEN NoBuffer ELSE vfb[f]
    BY <1>1 DEF IInv, TypeOK, VfbWithout
  <1>3. w \notin {"fresh", "sub", "release"} /\ UNCHANGED saved
    OBVIOUS
  <1>4. /\ InHand' = InHand \ {t}
        /\ \A u \in InHand \ {t} : obj'[u] = obj[u] /\ vfb'[obj[u]] = vfb[obj[u]]
        /\ \A f \in Frames : HeldBy(f)' = IF f = o THEN {t} ELSE HeldBy(f)
        /\ \A b \in Buffers : Users(b)' = IF b = vfb[o] THEN (Users(b) \ {t}) \cup {o}
                                                        ELSE Users(b)
        /\ \A b \in Buffers : Cardinality(Users(b)') = Cardinality(Users(b))
    BY <1>3, AdoptSets, Zenon
  <1>5. o \notin D /\ D \subseteq registry /\ \A f \in D \cap Frames : vfb[f] = vfb[o]
    BY <1>1 DEF Listed
  <1>6. \A h \in Holders : \A f \in held[h] : f \in Frames /\ f \in registry /\ f \notin D
    BY HeldIsThere
  <1>7. CountsExact'
    <2>1. ASSUME NEW f \in Frames, vfb'[f] # NoBuffer
          PROVE  refcount'[f] = Cardinality(HeldBy(f)')
      <3>1. CASE f = o
        <4>1. HeldBy(f)' = {t} /\ refcount'[f] = 1
          BY <3>1, <1>2, <1>4
        <4>2. Cardinality({t}) = 1
          BY FS_Singleton
        <4>3. QED
          BY <4>1, <4>2
      <3>2. CASE f # o
        <4>1. refcount[f] = Cardinality(HeldBy(f))
          BY <2>1, <1>2 DEF IInv, CountsExact, HeldBy
        <4>2. QED
          BY <3>2, <4>1, <1>2, <1>4
      <3>3. QED
        BY <3>1, <3>2
    <2>2. QED
      BY <2>1, <1>4 DEF IInv, CountsExact, HeldBy
  <1>8. NothingDangles'
    <2>1. \A h \in Holders : \A f \in held'[h] : f \in registry'
      BY <1>2, <1>6
    <2>2. \A u \in InHand' : vfb'[obj'[u]] # NoBuffer /\ (pc'[u] = "fresh" => obj'[u] \in registry')
      <3>1. ASSUME NEW u \in InHand \ {t}
            PROVE  vfb[obj[u]] # NoBuffer /\ pc'[u] = pc[u] /\ obj[u] \notin D
        BY <1>2, InHandIsThere DEF InHand
      <3>2. QED
        BY <3>1, <1>4 DEF IInv, NothingDangles
    <2>3. \A f \in Frames : vfb'[f] # NoBuffer => data_size[vfb'[f]] # 0
      BY <1>2 DEF IInv, NothingDangles
    <2>4. \A u \in Threads : pc'[u] = "release" =>
            saved[u] \in Buffers /\ data_size[saved[u]] # 0
      BY <1>2 DEF IInv, NothingDangles
    <2>5. QED
      BY <2>1, <2>2, <2>3, <2>4 DEF NothingDangles
  <1>9. NoBufferLost'
    <2>1. ASSUME NEW f \in registry' PROVE f \in Frames /\ vfb'[f] # NoBuffer
      BY <1>1, <1>2, <1>5 DEF IInv, TypeOK, ListedUnlessSub
    <2>2. ASSUME NEW b \in Buffers, data_size[b] # 0
          PROVE  \E f \in registry' : vfb'[f] = b
      <3>1. CASE b = vfb[o]
        BY <3>1, <1>1, <1>2, <1>5
      <3>2. CASE b # vfb[o]
        <4>1. PICK f \in registry : vfb[f] = b
          BY <2>2 DEF IInv, NoBufferLost, Listed
        <4>2. f \in Frames /\ f \notin D
          BY <4>1, <3>2, <1>5 DEF IInv, TypeOK
        <4>3. QED
          BY <4>1, <4>2, <1>2
      <3>3. QED
        BY <3>1, <3>2
    <2>3. QED
      BY <2>1, <2>2 DEF NoBufferLost, Listed
  <1>10. ListedUnlessSub'
    <2>1. ASSUME NEW f \in registry' PROVE vfb'[f] # NoBuffer
      BY <1>1, <1>2, <1>5 DEF IInv, TypeOK, ListedUnlessSub
    <2>2. ASSUME NEW f \in Frames, vfb'[f] # NoBuffer, f \notin registry'
          PROVE  \E u \in Threads : pc'[u] = "sub" /\ obj'[u] = f
      <3>1. f # o /\ f \notin registry /\ vfb[f] # NoBuffer
        BY <2>2, <1>2
      <3>2. PICK u \in Threads : pc[u] = "sub" /\ obj[u] = f
        BY <3>1 DEF IInv, ListedUnlessSub
      <3>3. u # t
        BY <3>1, <3>2
      <3>4. QED
        BY <3>2, <3>3, <1>2
    <2>3. QED
      BY <2>1, <2>2 DEF ListedUnlessSub
  <1>11. InHandApart'
    <2>1. ASSUME NEW u \in InHand \ {t}
          PROVE  /\ pc'[u] = pc[u] /\ obj'[u] = obj[u] /\ obj[u] \in Frames /\ obj[u] # o
                 /\ pc[u] = "sub" => obj[u] \notin registry'
                 /\ \A v \in InHand : obj[u] = obj[v] => u = v
      BY <1>2 DEF IInv, InHandApart, InHand
    <2>2. ASSUME NEW u \in InHand \ {t}, pc[u] = "fresh"
          PROVE  Users(vfb[obj[u]])' = {u}
      <3>1. vfb[obj[u]] \in Buffers /\ Users(vfb[obj[u]]) = {u}
        BY <2>2, InHandIsThere DEF IInv, InHandApart
      <3>2. vfb[obj[u]] # vfb[o]
        BY <3>1, <1>1
      <3>3. (vfb[obj[u]])' = vfb[obj[u]]
        BY <1>4
      <3>4. QED
        BY <3>1, <3>2, <3>3, <1>4
    <2>3. QED
      BY <2>1, <2>2, <1>4 DEF InHandApart
  <1>12. CheckedStays'
    <2>1. ASSUME NEW u \in Threads, pc'[u] \in {"check", "writing"}
          PROVE  /\ u # t /\ pc'[u] = pc[u] /\ obj'[u] = obj[u] /\ obj[u] \in Frames
                 /\ \A k \in Holders : obj[u] \in held'[k] <=> k = u
                 /\ vfb'[obj[u]] = vfb[obj[u]] /\ vfb[obj[u]] \in Buffers
      <3>1. u # t /\ pc'[u] = pc[u] /\ obj'[u] = obj[u] /\ u \in Holders
        BY <2>1, <1>2 DEF Holders
      <3>2. obj[u] \in Frames /\ \A k \in Holders : obj[u] \in held[k] <=> k = u
        BY <3>1, <2>1 DEF IInv, CheckedStays
      <3>3. obj[u] # o /\ obj[u] \notin D /\ vfb[obj[u]] \in Buffers
        BY <3>1, <3>2, <1>1, <1>6, HeldIsThere
      <3>4. QED
        BY <3>1, <3>2, <3>3, <1>2
    <2>2. ASSUME NEW u \in Threads, pc'[u] = "writing"
          PROVE  Users(vfb[obj[u]])' = {obj[u]}
      <3>1. Users(vfb[obj[u]]) = {obj[u]} /\ obj[u] \in Frames
        BY <2>1, <2>2 DEF IInv, CheckedStays
      <3>2. vfb[obj[u]] # vfb[o]
        BY <3>1, <1>1, ObjectsAssumption
      <3>3. (vfb[obj[u]])' = vfb[obj[u]] /\ vfb[obj[u]] \in Buffers
        BY <2>1, <2>2
      <3>4. QED
        BY <3>1, <3>2, <3>3, <1>4
    <2>3. QED
      BY <2>1, <2>2 DEF CheckedStays
  <1>13. /\ vfb' \in [Frames -> Buffers \cup {NoBuffer}] /\ refcount' \in [Frames -> Nat]
         /\ held' \in [Holders -> SUBSET Frames] /\ registry' \subseteq Frames
    <2>1. vfb' \in [Frames -> Buffers \cup {NoBuffer}]
      BY DEF IInv, TypeOK, VfbWithout
    <2>2. refcount' \in [Frames -> Nat]
      <3>1. refcount[o] + 1 \in Nat
        BY <1>1
      <3>2. QED
        BY <3>1 DEF IInv, TypeOK
    <2>3. held' \in [Holders -> SUBSET Frames] /\ registry' \subseteq Frames
      BY <1>1 DEF IInv, TypeOK
    <2>4. QED
      BY <2>1, <2>2, <2>3
  <1>14. QED
    BY <1>7, <1>8, <1>9, <1>10, <1>11, <1>12, <1>13 DEF Counted

(* The PVideoFrame of a new frame, made after the mutex was given up.      *)
LEMMA AdoptIInv ==
  ASSUME IInv, NEW t \in Threads, Adopt(t)
  PROVE  IInv'
  <1> USE DEF Adopt, Go, bufferVars
  <1>1. PICK w \in {"idle", "drop"} : /\ pc' = [pc EXCEPT ![t] = w]
                                      /\ w = "idle" <=> old[t] = NoFrame
    OBVIOUS
  <1>2. PICK D : D = {}
    OBVIOUS
  <1>3. t \in InHand /\ obj[t] \in registry
    BY DEF InHand, IInv, NothingDangles
  <1>4. /\ vfb' = VfbWithout(D)
        /\ registry' = (registry \ D) \cup {obj[t]}
        /\ D \subseteq Listed(vfb[obj[t]])
        /\ \A f \in D \cap Frames : refcount[f] = 0 /\ \A u \in InHand : obj[u] # f
        /\ UNCHANGED <<saved, data_size, vfbRefcount>>
        /\ w \notin {"fresh", "sub", "release", "check", "writing"}
    <2>1. vfb' = VfbWithout(D)
      BY <1>2 DEF VfbWithout, IInv, TypeOK
    <2>2. registry' = (registry \ D) \cup {obj[t]}
      BY <1>2, <1>3
    <2>3. QED
      BY <1>2, <2>1, <2>2
  <1>5. /\ Counted' /\ CheckedStays'
        /\ vfb' \in [Frames -> Buffers \cup {NoBuffer}] /\ refcount' \in [Frames -> Nat]
        /\ held' \in [Holders -> SUBSET Frames] /\ registry' \subseteq Frames
    BY <1>1, <1>3, <1>4, AdoptCounted, Zenon
  <1>6. TypeOK'
    BY <1>1, <1>5 DEF IInv, TypeOK
  <1>7. MutexOwned'
    BY <1>1 DEF IInv, TypeOK, MutexOwned, Allocating
  <1>8. ClosedToSearch'
    BY <1>1 DEF IInv, TypeOK, ClosedToSearch, Allocating
  <1>9. Requested'
    BY <1>1 DEF IInv, TypeOK, Requested, Allocating
  <1>10. OldHeld'
    <2>1. \A u \in Threads : held[u] \subseteq held'[u]
      BY DEF IInv, TypeOK, Holders
    <2>2. QED
      BY <1>1, <2>1 DEF IInv, TypeOK, OldHeld
  <1>11. QED
    BY <1>5, <1>6, <1>7, <1>8, <1>9, <1>10, Parts DEF Control

(* RegisterSubFrameInRegistry() deletes frames nobody holds; a new frame   *)
(* of another thread is not among them, because its buffer has no other    *)
(* user.                                                                   *)
LEMMA RegisterSubFrameIInv ==
  ASSUME IInv, NEW t \in Threads, RegisterSubFrame(t)
  PROVE  IInv'
  <1> USE DEF RegisterSubFrame, Go, bufferVars
  <1>1. PICK w \in {"idle", "drop"} : /\ pc' = [pc EXCEPT ![t] = w]
                                      /\ w = "idle" <=> old[t] = NoFrame
    OBVIOUS
  <1>2. PICK D : D = Stale(vfb[obj[t]])
    OBVIOUS
  <1>3. t \in InHand
    BY DEF InHand
  <1>4. ASSUME NEW f \in D, NEW u \in InHand PROVE obj[u] # f
    <2>1. f \in registry /\ vfb[f] = vfb[obj[t]]
      BY <1>2 DEF Stale, Listed
    <2>2. t \in Users(vfb[obj[t]])
      BY <1>3, InHandIsThere
    <2>3. CASE pc[u] = "fresh"
      <3>1. Users(vfb[obj[u]]) = {u} /\ u # t
        BY <2>3 DEF IInv, InHandApart
      <3>2. QED
        BY <2>1, <2>2, <3>1
    <2>4. CASE pc[u] = "sub"
      BY <2>1, <2>4 DEF IInv, InHandApart
    <2>5. QED
      BY <2>3, <2>4 DEF InHand
  <1>5. /\ vfb' = VfbWithout(D)
        /\ registry' = (registry \ D) \cup {obj[t]}
        /\ D \subseteq Listed(vfb[obj[t]])
        /\ \A f \in D \cap Frames : refcount[f] = 0 /\ \A u \in InHand : obj[u] # f
        /\ UNCHANGED <<saved, data_size, vfbRefcount>>
        /\ w \notin {"fresh", "sub", "release", "check", "writing"}
    BY <1>2, <1>4 DEF Stale
  <1>6. /\ Counted' /\ CheckedStays'
        /\ vfb' \in [Frames -> Buffers \cup {NoBuffer}] /\ refcount' \in [Frames -> Nat]
        /\ held' \in [Holders -> SUBSET Frames] /\ registry' \subseteq Frames
    BY <1>1, <1>3, <1>5, AdoptCounted, Zenon
  <1>7. TypeOK'
    BY <1>1, <1>6 DEF IInv, TypeOK
  <1>8. MutexOwned'
    BY <1>1, ObjectsAssumption DEF IInv, TypeOK, MutexOwned, Requested, Allocating
  <1>9. ClosedToSearch'
    BY <1>1 DEF IInv, TypeOK, ClosedToSearch, Allocating
  <1>10. Requested'
    BY <1>1 DEF IInv, TypeOK, Requested, Allocating
  <1>11. OldHeld'
    <2>1. \A u \in Threads : held[u] \subseteq held'[u]
      BY DEF IInv, TypeOK, Holders
    <2>2. QED
      BY <1>1, <2>1 DEF IInv, TypeOK, OldHeld
  <1>12. QED
    BY <1>6, <1>7, <1>8, <1>9, <1>10, <1>11, Parts DEF Control

(* Subframe() makes a frame on the buffer of one the thread holds: the     *)
(* thread is one more user of it.                                          *)
LEMMA SubframeIInv ==
  ASSUME IInv, NEW t \in Threads, NEW f \in Frames, NEW replace \in BOOLEAN,
         Subframe(t, f, replace)
  PROVE  IInv'
  <1> DEFINE c == vfb[f]
  <1> USE DEF Subframe, Go
  <1>1. PICK g \in Frames : /\ vfb[g] = NoBuffer
                            /\ vfb' = [vfb EXCEPT ![g] = vfb[f]]
                            /\ refcount' = [refcount EXCEPT ![g] = 0]
                            /\ vfbRefcount' = [vfbRefcount EXCEPT ![vfb[f]] = @ + 1]
                            /\ obj' = [obj EXCEPT ![t] = g]
    OBVIOUS
  <1>2. /\ t \in Holders /\ pc[t] = "idle" /\ f \in held[t] /\ f \in registry
        /\ c \in Buffers /\ c # NoBuffer /\ data_size[c] # 0 /\ f \in Users(c)
    <2>1. t \in Holders /\ f \in held[t]
      BY DEF Holders
    <2>2. QED
      BY <2>1, HeldIsThere
  <1>3. /\ \A u \in Threads : u # t => pc'[u] = pc[u] /\ obj'[u] = obj[u]
        /\ pc'[t] = "sub" /\ obj'[t] = g
        /\ \A e \in Frames : refcount'[e] = IF e = g THEN 0 ELSE refcount[e]
        /\ \A e \in Frames : vfb'[e] = IF e = g THEN c ELSE vfb[e]
        /\ \A b \in Buffers : vfbRefcount'[b] = IF b = c THEN vfbRefcount[c] + 1
                                                         ELSE vfbRefcount[b]
    BY <1>1, <1>2 DEF IInv, TypeOK
  <1>4. g \notin registry /\ \A h \in Holders : g \notin held[h]
    BY <1>1, HeldIsThere DEF IInv, ListedUnlessSub
  <1>5. InHand' = InHand \cup {t} /\ t \notin InHand
    BY <1>2, <1>3 DEF InHand
  <1>6. ASSUME NEW u \in InHand
        PROVE  /\ u \in Threads /\ u # t /\ pc'[u] = pc[u] /\ obj'[u] = obj[u]
               /\ obj[u] \in Frames /\ obj[u] # g /\ vfb'[obj[u]] = vfb[obj[u]]
               /\ vfb[obj[u]] \in Buffers
    <2>1. /\ u \in Threads /\ obj[u] \in Frames
          /\ vfb[obj[u]] # NoBuffer /\ vfb[obj[u]] \in Buffers
      BY InHandIsThere
    <2>2. QED
      BY <2>1, <1>1, <1>3, <1>5
  <1>7. ASSUME NEW b \in Buffers
        PROVE  Users(b)' = IF b = c THEN Users(b) \cup {t} ELSE Users(b)
    <2>1. Live(b)' = Live(b)
      <3>1. b # NoBuffer
        BY ObjectsAssumption
      <3>2. \A e \in Frames : vfb'[e] = b /\ refcount'[e] > 0 <=> vfb[e] = b /\ refcount[e] > 0
        BY <1>1, <1>3, <3>1
      <3>3. QED
        BY <3>2 DEF Live
    <2>2. {u \in InHand : vfb[obj[u]] = b}'
            = {u \in InHand : vfb[obj[u]] = b} \cup (IF b = c THEN {t} ELSE {})
      BY <1>1, <1>3, <1>5, <1>6
    <2>3. {u \in Threads : pc[u] = "release" /\ saved[u] = b}'
            = {u \in Threads : pc[u] = "release" /\ saved[u] = b}
      BY <1>2, <1>3
    <2>4. QED
      BY <2>1, <2>2, <2>3 DEF Users
  <1>8. t \notin Users(c)
    BY <1>2, <1>5, ObjectsAssumption DEF Users, Live
  <1>9. CountsExact'
    <2>1. ASSUME NEW e \in Frames, vfb'[e] # NoBuffer
          PROVE  refcount'[e] = Cardinality(HeldBy(e)')
      <3>0. HeldBy(e)' = HeldBy(e)
        BY DEF HeldBy
      <3>1. CASE e = g
        <4>1. HeldBy(e) = {}
          BY <3>1, <1>4 DEF HeldBy
        <4>2. QED
          BY <3>0, <3>1, <4>1, <1>3, FS_EmptySet
      <3>2. CASE e # g
        <4>1. refcount[e] = Cardinality(HeldBy(e))
          BY <3>2, <2>1, <1>3 DEF IInv, CountsExact, HeldBy
        <4>2. QED
          BY <3>0, <3>2, <4>1, <1>3
      <3>3. QED
        BY <3>1, <3>2
    <2>2. Cardinality(Users(c) \cup {t}) = Cardinality(Users(c)) + 1
      BY <1>8, CountedFinite, FS_AddElement
    <2>3. ASSUME NEW b \in Buffers, data_size'[b] # 0
          PROVE  vfbRefcount'[b] = Cardinality(Users(b)')
      <3>1. vfbRefcount[b] = Cardinality(Users(b))
        BY <2>3 DEF IInv, CountsExact
      <3>2. CASE b = c
        <4>1. Users(b)' = Users(c) \cup {t} /\ vfbRefcount'[b] = vfbRefcount[b] + 1
          BY <3>2, <1>3, <1>7
        <4>2. QED
          BY <3>1, <3>2, <4>1, <2>2
      <3>3. CASE b # c
        BY <3>1, <3>3, <1>3, <1>7
      <3>4. QED
        BY <3>2, <3>3
    <2>4. QED
      BY <2>1, <2>3 DEF CountsExact, HeldBy
  <1>10. NothingDangles'
    <2>1. \A u \in InHand' : vfb'[obj'[u]] # NoBuffer /\ (pc'[u] = "fresh" => obj'[u] \in registry)
      BY <1>2, <1>3, <1>5, <1>6 DEF IInv, NothingDangles
    <2>2. \A e \in Frames : vfb'[e] # NoBuffer => data_size[vfb'[e]] # 0
      BY <1>2, <1>3 DEF IInv, NothingDangles
    <2>3. \A u \in Threads : pc'[u] = "release" =>
            saved[u] \in Buffers /\ data_size[saved[u]] # 0
      BY <1>3 DEF IInv, NothingDangles
    <2>4. QED
      BY <2>1, <2>2, <2>3 DEF IInv, NothingDangles
  <1>11. \A e \in registry : vfb'[e] = vfb[e]
    BY <1>3, <1>4 DEF IInv, TypeOK
  <1>12. NoBufferLost'
    BY <1>11 DEF IInv, NoBufferLost, Listed
  <1>13. ListedUnlessSub'
    <2>1. ASSUME NEW e \in Frames, vfb'[e] # NoBuffer, e \notin registry
          PROVE  \E u \in Threads : pc'[u] = "sub" /\ obj'[u] = e
      <3>1. CASE e = g
        BY <3>1, <1>3
      <3>2. CASE e # g
        <4>1. PICK u \in Threads : pc[u] = "sub" /\ obj[u] = e
          BY <3>2, <2>1, <1>3 DEF IInv, ListedUnlessSub
        <4>2. QED
          BY <4>1, <1>2, <1>3
      <3>3. QED
        BY <3>1, <3>2
    <2>2. QED
      BY <2>1, <1>11 DEF IInv, ListedUnlessSub
  <1>14. InHandApart'
    <2>1. ASSUME NEW u \in InHand, pc[u] = "fresh" PROVE Users(vfb[obj[u]])' = {u}
      <3>1. Users(vfb[obj[u]]) = {u}
        BY <2>1 DEF IInv, InHandApart
      <3>2. vfb[obj[u]] # c
        BY <3>1, <1>2, <1>6, ObjectsAssumption
      <3>3. (vfb[obj[u]])' = vfb[obj[u]]
        BY <1>6
      <3>4. QED
        BY <3>1, <3>2, <3>3, <1>6, <1>7
    <2>2. QED
      BY <2>1, <1>3, <1>4, <1>5, <1>6 DEF IInv, InHandApart
  <1>15. CheckedStays'
    <2>1. ASSUME NEW u \in Threads, pc'[u] \in {"check", "writing"}
          PROVE  /\ u # t /\ u \in Holders /\ pc'[u] = pc[u] /\ obj'[u] = obj[u]
                 /\ obj[u] \in Frames /\ \A k \in Holders : obj[u] \in held[k] <=> k = u
                 /\ vfb'[obj[u]] = vfb[obj[u]] /\ vfb[obj[u]] \in Buffers
      <3>1. u # t /\ pc'[u] = pc[u] /\ obj'[u] = obj[u] /\ u \in Holders
        BY <2>1, <1>3 DEF Holders
      <3>2. obj[u] \in Frames /\ \A k \in Holders : obj[u] \in held[k] <=> k = u
        BY <3>1, <2>1 DEF IInv, CheckedStays
      <3>3. obj[u] # g /\ vfb[obj[u]] \in Buffers
        BY <3>1, <3>2, <1>4, HeldIsThere
      <3>4. QED
        BY <3>1, <3>2, <3>3, <1>3
    <2>2. ASSUME NEW u \in Threads, pc'[u] = "writing"
          PROVE  Users(vfb[obj[u]])' = {obj[u]}
      <3>1. Users(vfb[obj[u]]) = {obj[u]}
        BY <2>1, <2>2 DEF IInv, CheckedStays
      <3>2. vfb[obj[u]] # c
        BY <2>1, <2>2, <3>1, <1>2
      <3>3. (vfb[obj[u]])' = vfb[obj[u]] /\ vfb[obj[u]] \in Buffers
        BY <2>1, <2>2
      <3>4. QED
        BY <3>1, <3>2, <3>3, <1>7
    <2>3. QED
      BY <2>1, <2>2 DEF CheckedStays
  <1>16. TypeOK'
    <2>1. vfbRefcount[c] + 1 \in Nat
      BY <1>2 DEF IInv, TypeOK
    <2>2. vfbRefcount' \in [Buffers -> Nat] /\ refcount' \in [Frames -> Nat]
      BY <2>1, <1>1 DEF IInv, TypeOK
    <2>3. vfb' \in [Frames -> Buffers \cup {NoBuffer}]
      BY <1>1, <1>2 DEF IInv, TypeOK
    <2>4. QED
      BY <1>1, <2>2, <2>3 DEF IInv, TypeOK
  <1>17. MutexOwned'
    BY <1>2 DEF IInv, TypeOK, MutexOwned, Allocating
  <1>18. ClosedToSearch'
    BY DEF IInv, TypeOK, ClosedToSearch, Allocating
  <1>19. Requested'
    BY DEF IInv, TypeOK, Requested, Allocating
  <1>20. OldHeld'
    BY <1>2 DEF IInv, TypeOK, OldHeld
  <1>21. QED
    BY <1>9, <1>10, <1>12, <1>13, <1>14, <1>15, <1>16, <1>17, <1>18, <1>19, <1>20, Parts
       DEF Control, Counted

-----------------------------------------------------------------------------
(* The registry hands out buffers and deletes them.                        *)

(* Thread t is handed frame f with buffer c, alone: the other frames D that *)
(* were listed with the buffer are gone.                                   *)
HandsOut(t, c, f, D) ==
  /\ data_size[c] = 0 \/ Free(c)
  /\ D \subseteq Listed(c) /\ f \notin D /\ vfb[f] \in {c, NoBuffer}
  /\ registry' = (registry \ D) \cup {f}
  /\ \A e \in Frames : vfb'[e] = IF e = f THEN c ELSE IF e \in D THEN NoBuffer ELSE vfb[e]
  /\ \A e \in Frames : refcount'[e] = IF e = f THEN 0 ELSE refcount[e]
  /\ \A b \in Buffers : vfbRefcount'[b] = IF b = c THEN 1 ELSE vfbRefcount[b]
  /\ \A b \in Buffers : b # c => data_size'[b] = data_size[b]
  /\ data_size'[c] # 0
  /\ obj' = [obj EXCEPT ![t] = f] /\ Go(t, "fresh") /\ Unlock(t)
  /\ UNCHANGED <<closing, held, old, saved, req>>

(* Thread t gets frame f on buffer c, which was free or did not exist; the *)
(* other frames of c may be deleted.  t is then the only user of c.        *)
LEMMA HandOut ==
  ASSUME IInv, NEW t \in Threads, pc[t] \in Allocating, NEW c \in Buffers, NEW f \in Frames,
         NEW D, HandsOut(t, c, f, D)
  PROVE  Counted' /\ CheckedStays' /\ Control'
  <1> USE DEF HandsOut, Go, Unlock
  <1>1. /\ Users(c) = {}
        /\ \A e \in Frames : vfb[e] = c => /\ refcount[e] = 0 /\ e \in registry
                                           /\ \A h \in Holders : e \notin held[h]
        /\ \A u \in InHand : vfb[obj[u]] # c
        /\ \A u \in Threads : pc[u] = "release" => saved[u] # c
    BY FreeIsUnused
  <1>2. c # NoBuffer /\ D \subseteq registry /\ D \subseteq Frames /\ \A e \in D : vfb[e] = c
    BY ObjectsAssumption DEF Listed, IInv, TypeOK
  <1>3. /\ \A u \in Threads : u # t => pc'[u] = pc[u] /\ obj'[u] = obj[u]
        /\ pc'[t] = "fresh" /\ obj'[t] = f
        /\ pc[t] \notin {"fresh", "sub", "release", "check", "writing"}
    BY DEF IInv, TypeOK, Allocating
  <1>4. InHand' = InHand \cup {t} /\ t \notin InHand
    BY <1>3 DEF InHand
  <1>5. ASSUME NEW h \in Holders, NEW e \in held[h]
        PROVE  e \in Frames /\ e \in registry /\ e \notin D /\ e # f /\ vfb'[e] = vfb[e]
    <2>1. e \in Frames /\ e \in registry /\ vfb[e] # NoBuffer
      BY HeldIsThere
    <2>2. vfb[e] # c
      BY <1>1, <2>1
    <2>3. QED
      BY <2>1, <2>2, <1>2
  <1>6. ASSUME NEW u \in InHand
        PROVE  /\ u \in Threads /\ u # t /\ pc'[u] = pc[u] /\ obj'[u] = obj[u]
               /\ obj[u] \in Frames /\ obj[u] # f /\ obj[u] \notin D
               /\ vfb'[obj[u]] = vfb[obj[u]] /\ vfb[obj[u]] \in Buffers
               /\ vfb[obj[u]] # NoBuffer /\ vfb[obj[u]] # c
    <2>1. /\ u \in Threads /\ obj[u] \in Frames
          /\ vfb[obj[u]] # NoBuffer /\ vfb[obj[u]] \in Buffers
      BY InHandIsThere
    <2>2. vfb[obj[u]] # c
      BY <1>1
    <2>3. obj[u] # f /\ obj[u] \notin D
      BY <2>1, <2>2, <1>2
    <2>4. QED
      BY <2>1, <2>2, <2>3, <1>3, <1>4
  <1>7. ASSUME NEW b \in Buffers
        PROVE  Users(b)' = IF b = c THEN {t} ELSE Users(b)
    <2>1. Live(b)' = Live(b) /\ Live(c) = {}
      <3>1. b # NoBuffer
        BY ObjectsAssumption
      <3>2. Live(c) = {}
        BY <1>1 DEF Users
      <3>3. \A e \in Frames : ~(refcount'[e] > 0 /\ vfb'[e] = c)
        BY <1>1, <1>2
      <3>4. \A e \in Frames : b # c =>
              (vfb'[e] = b /\ refcount'[e] > 0 <=> vfb[e] = b /\ refcount[e] > 0)
        BY <1>2, <3>1
      <3>5. QED
        BY <3>2, <3>3, <3>4 DEF Live
    <2>2. {u \in InHand : vfb[obj[u]] = b}'
            = {u \in InHand : vfb[obj[u]] = b} \cup (IF b = c THEN {t} ELSE {})
      BY <1>3, <1>4, <1>6
    <2>3. {u \in Threads : pc[u] = "release" /\ saved[u] = b}'
            = {u \in Threads : pc[u] = "release" /\ saved[u] = b}
      BY <1>3
    <2>4. QED
      BY <1>1, <2>1, <2>2, <2>3 DEF Users
  <1>8. CountsExact'
    <2>1. ASSUME NEW e \in Frames, vfb'[e] # NoBuffer
          PROVE  refcount'[e] = Cardinality(HeldBy(e)')
      <3>0. HeldBy(e)' = HeldBy(e)
        BY DEF HeldBy
      <3>1. CASE e = f
        <4>1. HeldBy(e) = {}
          BY <3>1, <1>5 DEF HeldBy
        <4>2. QED
          BY <3>0, <3>1, <4>1, FS_EmptySet
      <3>2. CASE e # f
        <4>1. refcount[e] = Cardinality(HeldBy(e))
          BY <3>2, <2>1 DEF IInv, CountsExact, HeldBy
        <4>2. QED
          BY <3>0, <3>2, <4>1
      <3>3. QED
        BY <3>1, <3>2
    <2>2. ASSUME NEW b \in Buffers, data_size'[b] # 0
          PROVE  vfbRefcount'[b] = Cardinality(Users(b)')
      <3>1. CASE b = c
        <4>1. Users(b)' = {t} /\ vfbRefcount'[b] = 1
          BY <3>1, <1>7
        <4>2. Cardinality({t}) = 1
          BY FS_Singleton
        <4>3. QED
          BY <4>1, <4>2
      <3>2. CASE b # c
        <4>1. vfbRefcount[b] = Cardinality(Users(b))
          BY <3>2, <2>2 DEF IInv, CountsExact
        <4>2. QED
          BY <3>2, <4>1, <1>7
      <3>3. QED
        BY <3>1, <3>2
    <2>3. QED
      BY <2>1, <2>2 DEF CountsExact, HeldBy
  <1>9. NothingDangles'
    <2>1. \A h \in Holders : \A e \in held[h] : e \in registry'
      BY <1>5
    <2>2. \A u \in InHand' : vfb'[obj'[u]] # NoBuffer /\ (pc'[u] = "fresh" => obj'[u] \in registry')
      BY <1>2, <1>3, <1>4, <1>6 DEF IInv, NothingDangles
    <2>3. \A e \in Frames : vfb'[e] # NoBuffer => data_size'[vfb'[e]] # 0
      <3>1. ASSUME NEW e \in Frames, vfb'[e] # NoBuffer PROVE data_size'[vfb'[e]] # 0
        <4>1. CASE vfb'[e] = c
          BY <4>1
        <4>2. CASE vfb'[e] # c
          <5>1. vfb'[e] = vfb[e] /\ vfb[e] \in Buffers /\ vfb[e] # c
            BY <4>2, <3>1 DEF IInv, TypeOK
          <5>2. QED
            BY <3>1, <5>1 DEF IInv, NothingDangles
        <4>3. QED
          BY <4>1, <4>2
      <3>2. QED
        BY <3>1
    <2>4. \A u \in Threads : pc'[u] = "release" =>
            saved[u] \in Buffers /\ data_size'[saved[u]] # 0
      BY <1>1, <1>3 DEF IInv, NothingDangles
    <2>5. QED
      BY <2>1, <2>2, <2>3, <2>4 DEF NothingDangles
  <1>10. \A e \in registry' : e \in Frames /\ vfb'[e] # NoBuffer
    BY <1>2 DEF IInv, TypeOK, ListedUnlessSub
  <1>11. NoBufferLost'
    <2>1. ASSUME NEW b \in Buffers, data_size'[b] # 0
          PROVE  \E e \in registry' : vfb'[e] = b
      <3>1. CASE b = c
        BY <3>1
      <3>2. CASE b # c
        <4>1. PICK e \in registry : vfb[e] = b
          BY <3>2, <2>1 DEF IInv, NoBufferLost, Listed
        <4>2. e \in Frames /\ e \notin D /\ e # f
          BY <3>2, <4>1, <1>2, ObjectsAssumption DEF IInv, TypeOK
        <4>3. QED
          BY <4>1, <4>2
      <3>3. QED
        BY <3>1, <3>2
    <2>2. QED
      BY <2>1, <1>10 DEF NoBufferLost, Listed
  <1>12. ListedUnlessSub'
    <2>1. ASSUME NEW e \in Frames, vfb'[e] # NoBuffer, e \notin registry'
          PROVE  \E u \in Threads : pc'[u] = "sub" /\ obj'[u] = e
      <3>1. e # f /\ e \notin registry /\ vfb[e] # NoBuffer
        BY <2>1
      <3>2. PICK u \in Threads : pc[u] = "sub" /\ obj[u] = e
        BY <3>1 DEF IInv, ListedUnlessSub
      <3>3. QED
        BY <3>2, <1>3
    <2>2. QED
      BY <2>1, <1>10 DEF ListedUnlessSub
  <1>13. InHandApart'
    <2>1. ASSUME NEW u \in InHand, pc[u] = "fresh" PROVE Users(vfb[obj[u]])' = {u}
      <3>1. Users(vfb[obj[u]]) = {u}
        BY <2>1 DEF IInv, InHandApart
      <3>2. (vfb[obj[u]])' = vfb[obj[u]] /\ vfb[obj[u]] \in Buffers /\ vfb[obj[u]] # c
        BY <1>6
      <3>3. QED
        BY <3>1, <3>2, <1>7
    <2>2. Users(vfb[obj[t]])' = {t}
      <3>1. (vfb[obj[t]])' = c
        BY <1>3
      <3>2. QED
        BY <3>1, <1>7
    <2>3. ASSUME NEW u \in InHand
          PROVE  /\ pc[u] = "sub" => obj[u] \notin registry'
                 /\ \A v \in InHand : obj[u] = obj[v] => u = v
      BY <1>6 DEF IInv, InHandApart
    <2>4. QED
      BY <2>1, <2>2, <2>3, <1>3, <1>4, <1>6 DEF InHandApart
  <1>14. CheckedStays'
    <2>1. ASSUME NEW u \in Threads, pc'[u] \in {"check", "writing"}
          PROVE  /\ pc'[u] = pc[u] /\ obj'[u] = obj[u]
                 /\ obj[u] \in Frames /\ \A k \in Holders : obj[u] \in held[k] <=> k = u
                 /\ vfb'[obj[u]] = vfb[obj[u]] /\ vfb[obj[u]] \in Buffers
      <3>1. pc'[u] = pc[u] /\ obj'[u] = obj[u] /\ u \in Holders
        BY <2>1, <1>3 DEF Holders
      <3>2. obj[u] \in Frames /\ \A k \in Holders : obj[u] \in held[k] <=> k = u
        BY <3>1, <2>1 DEF IInv, CheckedStays
      <3>3. QED
        BY <3>1, <3>2, <1>5, HeldIsThere
    <2>2. ASSUME NEW u \in Threads, pc'[u] = "writing"
          PROVE  Users(vfb[obj[u]])' = {obj[u]}
      <3>1. Users(vfb[obj[u]]) = {obj[u]}
        BY <2>1, <2>2 DEF IInv, CheckedStays
      <3>2. vfb[obj[u]] # c
        BY <3>1, <1>1
      <3>3. (vfb[obj[u]])' = vfb[obj[u]] /\ vfb[obj[u]] \in Buffers
        BY <2>1, <2>2
      <3>4. QED
        BY <3>1, <3>2, <3>3, <1>7
    <2>3. QED
      BY <2>1, <2>2 DEF CheckedStays
  <1>15. MutexOwned'
    BY <1>3, ObjectsAssumption DEF IInv, TypeOK, MutexOwned, Allocating
  <1>16. ClosedToSearch'
    BY <1>3 DEF IInv, TypeOK, ClosedToSearch, Allocating
  <1>17. Requested'
    BY <1>3 DEF IInv, TypeOK, Requested, Allocating
  <1>18. OldHeld'
    BY <1>3 DEF IInv, TypeOK, OldHeld, Allocating
  <1>19. QED
    BY <1>8, <1>9, <1>11, <1>12, <1>13, <1>14, <1>15, <1>16, <1>17, <1>18
       DEF Control, Counted

(* A free buffer is reused for thread t.                                   *)
LEMMA ReuseIInv ==
  ASSUME IInv, NEW t \in Threads, pc[t] \in Allocating, NEW f \in Frames, Reuse(t, f)
  PROVE  IInv'
  <1> USE DEF Reuse
  <1>1. PICK c \in Buffers : c = vfb[f]
    BY DEF IInv, TypeOK, ListedUnlessSub
  <1>2. PICK D : D = Listed(c) \ {f}
    OBVIOUS
  <1>3. Free(c) /\ vfbRefcount[c] = 0 /\ data_size[c] # 0 /\ refcount[f] = 0
    <2>1. Free(c)
      BY <1>1 DEF Fits
    <2>2. QED
      BY <2>1, <1>1, FreeIsUnused DEF Free
  <1>4. /\ D \subseteq Listed(c) /\ f \notin D /\ vfb[f] \in {c, NoBuffer}
        /\ registry' = (registry \ D) \cup {f}
    BY <1>1, <1>2
  <1>5. \A e \in Frames : vfb'[e] = IF e = f THEN c ELSE IF e \in D THEN NoBuffer ELSE vfb[e]
    BY <1>1, <1>2 DEF VfbWithout
  <1>6. \A e \in Frames : refcount'[e] = IF e = f THEN 0 ELSE refcount[e]
    BY <1>3
  <1>7. \A b \in Buffers : vfbRefcount'[b] = IF b = c THEN 1 ELSE vfbRefcount[b]
    BY <1>1, <1>3 DEF IInv, TypeOK
  <1>8. /\ \A b \in Buffers : b # c => data_size'[b] = data_size[b]
        /\ data_size'[c] # 0
        /\ obj' = [obj EXCEPT ![t] = f] /\ Go(t, "fresh") /\ Unlock(t)
        /\ UNCHANGED <<closing, held, old, saved, req>>
    BY <1>3
  <1>9. Counted' /\ CheckedStays' /\ Control'
    <2> HIDE DEF Reuse
    <2>1. data_size[c] = 0 \/ Free(c)
      BY <1>3
    <2>2. HandsOut(t, c, f, D)
      BY <1>4, <1>5, <1>6, <1>7, <1>8, <2>1, Zenon DEF HandsOut
    <2>3. QED
      BY <2>2, HandOut, Zenon
  <1>10. TypeOK'
    <2>1. vfb' \in [Frames -> Buffers \cup {NoBuffer}]
      BY DEF IInv, TypeOK, VfbWithout
    <2>2. vfbRefcount' \in [Buffers -> Nat] /\ free_count' \in [Buffers -> Nat]
      BY <1>1, <1>3 DEF IInv, TypeOK
    <2>3. QED
      BY <2>1, <2>2 DEF IInv, TypeOK, Go, Unlock
  <1>11. QED
    BY <1>9, <1>10, Parts

(* A buffer is allocated for thread t.                                     *)
LEMMA AllocateIInv ==
  ASSUME IInv, NEW t \in Threads, pc[t] \in Allocating, NEW c \in Buffers, NEW f \in Frames,
         Allocate(t, c, f)
  PROVE  IInv'
  <1> USE DEF Allocate
  <1>1. PICK D : D = {}
    OBVIOUS
  <1>2. req[t] \in Nat /\ req[t] # 0
    BY DEF IInv, TypeOK, Requested
  <1>3. /\ D \subseteq Listed(c) /\ f \notin D /\ vfb[f] \in {c, NoBuffer}
        /\ registry' = (registry \ D) \cup {f}
    BY <1>1
  <1>4. /\ \A e \in Frames : vfb'[e] = IF e = f THEN c ELSE IF e \in D THEN NoBuffer ELSE vfb[e]
        /\ \A e \in Frames : refcount'[e] = IF e = f THEN 0 ELSE refcount[e]
    BY <1>1 DEF IInv, TypeOK
  <1>5. /\ \A b \in Buffers : b # c => data_size'[b] = data_size[b]
        /\ \A b \in Buffers : vfbRefcount'[b] = IF b = c THEN 1 ELSE vfbRefcount[b]
        /\ data_size'[c] # 0
    BY <1>2 DEF IInv, TypeOK
  <1>6. Counted' /\ CheckedStays' /\ Control'
    <2>1. /\ data_size[c] = 0 \/ Free(c)
          /\ obj' = [obj EXCEPT ![t] = f] /\ Go(t, "fresh") /\ Unlock(t)
          /\ UNCHANGED <<closing, held, old, saved, req>>
      OBVIOUS
    <2> HIDE DEF Allocate
    <2>2. HandsOut(t, c, f, D)
      BY <1>3, <1>4, <1>5, <2>1, Zenon DEF HandsOut
    <2>3. QED
      BY <2>2, HandOut, Zenon
  <1>7. TypeOK'
    <2>1. vfb' \in [Frames -> Buffers \cup {NoBuffer}] /\ refcount' \in [Frames -> Nat]
      BY DEF IInv, TypeOK
    <2>2. /\ data_size' \in [Buffers -> Nat] /\ vfbRefcount' \in [Buffers -> Nat]
          /\ free_count' \in [Buffers -> Nat]
      BY <1>2 DEF IInv, TypeOK
    <2>3. QED
      BY <2>1, <2>2 DEF IInv, TypeOK, Go, Unlock
  <1>8. QED
    BY <1>6, <1>7, Parts

(* Free buffers, with all their frames, are deleted.                       *)
LEMMA DeleteCounted ==
  ASSUME IInv, NEW t \in Threads, pc[t] \in Allocating, NEW w \in Allocating,
         NEW B \in SUBSET Buffers, \A b \in B : Free(b), Delete(B), Go(t, w),
         UNCHANGED <<refcount, vfbRefcount, held, obj, saved>>
  PROVE  /\ Counted' /\ CheckedStays'
         /\ vfb' \in [Frames -> Buffers \cup {NoBuffer}] /\ data_size' \in [Buffers -> Nat]
         /\ registry' \subseteq Frames
  <1> USE DEF Go
  <1>1. ASSUME NEW b \in B
        PROVE  /\ Users(b) = {}
               /\ \A e \in Frames : vfb[e] = b => /\ refcount[e] = 0 /\ e \in registry
                                                  /\ \A h \in Holders : e \notin held[h]
               /\ \A u \in InHand : vfb[obj[u]] # b
               /\ \A u \in Threads : pc[u] = "release" => saved[u] # b
    BY FreeIsUnused
  <1>2. \A e \in Frames : vfb'[e] = IF vfb[e] \in B THEN NoBuffer ELSE vfb[e]
    BY <1>1 DEF Delete, VfbWithout
  <1>3. /\ \A b \in Buffers : data_size'[b] = IF b \in B THEN 0 ELSE data_size[b]
        /\ registry' = {e \in registry : vfb[e] \notin B}
    BY DEF Delete
  <1>4. NoBuffer \notin B
    BY ObjectsAssumption
  <1>5. /\ \A u \in Threads : u # t => pc'[u] = pc[u]
        /\ pc'[t] = w
        /\ w \notin {"fresh", "sub", "release", "check", "writing"}
        /\ pc[t] \notin {"fresh", "sub", "release", "check", "writing"}
    BY DEF IInv, TypeOK, Allocating
  <1>6. InHand' = InHand /\ \A u \in InHand : pc'[u] = pc[u]
    BY <1>5 DEF InHand
  <1>7. ASSUME NEW u \in InHand
        PROVE  /\ obj[u] \in Frames /\ vfb[obj[u]] \in Buffers /\ vfb[obj[u]] # NoBuffer
               /\ vfb[obj[u]] \notin B /\ vfb'[obj[u]] = vfb[obj[u]]
    BY <1>1, <1>2, InHandIsThere
  <1>8. ASSUME NEW h \in Holders, NEW e \in held[h]
        PROVE  /\ e \in Frames /\ e \in registry /\ vfb[e] \in Buffers /\ vfb[e] \notin B
               /\ vfb'[e] = vfb[e]
    BY <1>1, <1>2, HeldIsThere
  <1>9. ASSUME NEW b \in Buffers PROVE Users(b)' = Users(b)
    <2>1. b # NoBuffer
      BY ObjectsAssumption
    <2>2. \A e \in Frames : refcount[e] > 0 => vfb'[e] = vfb[e]
      BY <1>1, <1>2
    <2>3. \A e \in Frames : vfb'[e] = b => vfb[e] = b
      BY <1>2, <2>1
    <2>4. Live(b)' = Live(b)
      BY <2>2, <2>3 DEF Live
    <2>5. {u \in InHand : vfb[obj[u]] = b}' = {u \in InHand : vfb[obj[u]] = b}
      BY <1>6, <1>7
    <2>6. {u \in Threads : pc[u] = "release" /\ saved[u] = b}'
            = {u \in Threads : pc[u] = "release" /\ saved[u] = b}
      BY <1>5
    <2>7. QED
      BY <2>4, <2>5, <2>6 DEF Users
  <1>10. CountsExact'
    <2>1. \A e \in Frames : vfb'[e] # NoBuffer => vfb[e] # NoBuffer
      BY <1>2
    <2>2. \A b \in Buffers : data_size'[b] # 0 => data_size[b] # 0
      BY <1>3
    <2>3. QED
      BY <2>1, <2>2, <1>9 DEF IInv, CountsExact
  <1>11. NothingDangles'
    <2>1. \A h \in Holders : \A e \in held[h] : e \in registry'
      BY <1>3, <1>8
    <2>2. \A u \in InHand : vfb'[obj[u]] # NoBuffer /\ (pc[u] = "fresh" => obj[u] \in registry')
      BY <1>3, <1>7 DEF IInv, NothingDangles
    <2>3. \A e \in Frames : vfb'[e] # NoBuffer => data_size'[vfb'[e]] # 0
      BY <1>2, <1>3 DEF IInv, TypeOK, NothingDangles
    <2>4. \A u \in Threads : pc'[u] = "release" =>
            saved[u] \in Buffers /\ data_size'[saved[u]] # 0
      BY <1>1, <1>3, <1>5 DEF IInv, NothingDangles
    <2>5. QED
      BY <2>1, <2>2, <2>3, <2>4, <1>6 DEF NothingDangles
  <1>12. \A e \in registry' : e \in Frames /\ e \in registry /\ vfb'[e] = vfb[e]
    BY <1>2, <1>3 DEF IInv, TypeOK
  <1>13. NoBufferLost'
    <2>1. ASSUME NEW b \in Buffers, data_size'[b] # 0
          PROVE  \E e \in registry' : vfb'[e] = b
      <3>1. b \notin B /\ data_size[b] # 0
        BY <2>1, <1>3
      <3>2. PICK e \in registry : vfb[e] = b
        BY <3>1 DEF IInv, NoBufferLost, Listed
      <3>3. e \in registry'
        BY <3>1, <3>2, <1>3
      <3>4. QED
        BY <3>2, <3>3, <1>12
    <2>2. QED
      BY <2>1, <1>12 DEF IInv, ListedUnlessSub, NoBufferLost, Listed
  <1>14. ListedUnlessSub'
    <2>1. ASSUME NEW e \in Frames, vfb'[e] # NoBuffer, e \notin registry'
          PROVE  \E u \in Threads : pc'[u] = "sub" /\ obj[u] = e
      <3>1. e \notin registry /\ vfb[e] # NoBuffer
        BY <2>1, <1>2, <1>3
      <3>2. PICK u \in Threads : pc[u] = "sub" /\ obj[u] = e
        BY <3>1 DEF IInv, ListedUnlessSub
      <3>3. QED
        BY <3>2, <1>5
    <2>2. QED
      BY <2>1, <1>12 DEF IInv, ListedUnlessSub
  <1>15. InHandApart'
    <2>1. ASSUME NEW u \in InHand PROVE Users(vfb[obj[u]])' = Users(vfb[obj[u]])
      <3>1. (vfb[obj[u]])' = vfb[obj[u]] /\ vfb[obj[u]] \in Buffers
        BY <1>7
      <3>2. QED
        BY <3>1, <1>9
    <2>2. QED
      BY <2>1, <1>6, <1>12 DEF IInv, InHandApart
  <1>16. CheckedStays'
    <2>1. ASSUME NEW u \in Threads, pc'[u] \in {"check", "writing"}
          PROVE  /\ pc'[u] = pc[u] /\ Users(vfb[obj[u]])' = Users(vfb[obj[u]])
      <3>1. pc'[u] = pc[u] /\ u \in Holders
        BY <2>1, <1>5 DEF Holders
      <3>2. obj[u] \in held[u]
        BY <3>1, <2>1 DEF IInv, CheckedStays
      <3>3. (vfb[obj[u]])' = vfb[obj[u]] /\ vfb[obj[u]] \in Buffers
        BY <3>1, <3>2, <1>8
      <3>4. QED
        BY <3>1, <3>3, <1>9
    <2>2. QED
      BY <2>1 DEF IInv, CheckedStays
  <1>17. /\ vfb' \in [Frames -> Buffers \cup {NoBuffer}] /\ data_size' \in [Buffers -> Nat]
         /\ registry' \subseteq Frames
    BY DEF IInv, TypeOK, Delete, VfbWithout
  <1>18. QED
    BY <1>10, <1>11, <1>13, <1>14, <1>15, <1>16, <1>17 DEF Counted

-----------------------------------------------------------------------------
(* The steps of GetNewFrame().                                             *)

(* The search finds a free buffer that fits, or goes on.                   *)
LEMMA SearchIInv ==
  ASSUME IInv, NEW t \in Threads, Search(t)
  PROVE  IInv'
  <1>1. pc[t] \in Allocating \ {"alloc3"}
    BY DEF Search, Allocating
  <1>2. CASE \E f \in Frames : Reuse(t, f)
    BY <1>1, <1>2, ReuseIInv
  <1>3. CASE ~\E f \in Frames : Reuse(t, f)
    <2>1. PICK w \in {"alloc", "alloc2"} :
            /\ Go(t, w)
            /\ UNCHANGED <<frameVars, bufferVars, memory_mutex, closing, held, obj,
                           old, saved, req>>
      BY <1>3 DEF Search
    <2>2. QED
      BY <1>1, <2>1, GoOnIInv
  <1>4. QED
    BY <1>2, <1>3

(* The first allocation, within the limit.                                 *)
LEMMA AllocateWithinIInv ==
  ASSUME IInv, NEW t \in Threads, AllocateWithin(t)
  PROVE  IInv'
  <1>1. pc[t] \in Allocating \ {"alloc3"}
    BY DEF AllocateWithin, Allocating
  <1>2. CASE \E b \in Buffers, f \in Frames : Allocate(t, b, f)
    BY <1>1, <1>2, AllocateIInv
  <1>3. CASE ~\E b \in Buffers, f \in Frames : Allocate(t, b, f)
    <2>1. PICK w \in {"shrink"} :
            /\ Go(t, w)
            /\ UNCHANGED <<frameVars, bufferVars, memory_mutex, closing, held, obj,
                           old, saved, req>>
      BY <1>3 DEF AllocateWithin
    <2>2. QED
      BY <1>1, <2>1, GoOnIInv
  <1>4. QED
    BY <1>2, <1>3

(* The later allocations, and the error after the last.                    *)
LEMMA AllocateBeyondIInv ==
  ASSUME IInv, NEW t \in Threads, AllocateBeyond(t)
  PROVE  IInv'
  <1>1. pc[t] \in Allocating
    BY DEF AllocateBeyond, Allocating
  <1>2. CASE \E b \in Buffers, f \in Frames : Allocate(t, b, f)
    BY <1>1, <1>2, AllocateIInv
  <1>3. CASE ~\E b \in Buffers, f \in Frames : Allocate(t, b, f)
    <2>1. PICK w \in {"collect", "idle"} :
            /\ \/ /\ pc[t] \in Allocating \ {"alloc3"} /\ w = "collect"
                  /\ UNCHANGED <<memory_mutex, old, req>>
               \/ /\ pc[t] = "alloc3" /\ w = "idle" /\ Unlock(t)
                  /\ old' = [old EXCEPT ![t] = NoFrame]
                  /\ req' = [req EXCEPT ![t] = 0]
            /\ Go(t, w)
            /\ UNCHANGED <<frameVars, bufferVars, closing, held, obj, saved>>
      BY <1>3 DEF AllocateBeyond, Allocating
    <2>2. QED
      BY <2>1, GoOnIInv
  <1>4. QED
    BY <1>2, <1>3

(* A step of GetNewFrame() that deletes free buffers and goes on.          *)
LEMMA CollectIInv ==
  ASSUME IInv, NEW t \in Threads, pc[t] \in Allocating \ {"alloc3"},
         NEW w \in {"search2", "alloc3"},
         NEW B \in SUBSET Buffers, \A b \in B : Free(b), Delete(B), Go(t, w),
         free_count' \in [Buffers -> Nat],
         UNCHANGED <<refcount, vfbRefcount, memory_mutex, closing, held, obj, old,
                     saved, req>>
  PROVE  IInv'
  <1>1. w \in Allocating /\ pc[t] \in Allocating
    BY DEF Allocating
  <1>2. UNCHANGED <<refcount, vfbRefcount, held, obj, saved>>
    OBVIOUS
  <1>3. /\ Counted' /\ CheckedStays'
        /\ vfb' \in [Frames -> Buffers \cup {NoBuffer}] /\ data_size' \in [Buffers -> Nat]
        /\ registry' \subseteq Frames
    BY <1>1, <1>2, DeleteCounted, Zenon
  <1>4. TypeOK'
    BY <1>1, <1>3 DEF IInv, TypeOK, Go
  <1>5. MutexOwned'
    BY <1>1 DEF IInv, TypeOK, MutexOwned, Allocating, Go
  <1>6. ClosedToSearch'
    BY DEF IInv, TypeOK, ClosedToSearch, Allocating, Go
  <1>7. Requested'
    BY <1>1 DEF IInv, TypeOK, Requested, Allocating, Go
  <1>8. OldHeld'
    BY DEF IInv, TypeOK, OldHeld, Go
  <1>9. QED
    BY <1>3, <1>4, <1>5, <1>6, <1>7, <1>8, Parts DEF Control

(* ShrinkCache() deletes free buffers that have survived long enough.      *)
LEMMA ShrinkCollectIInv ==
  ASSUME IInv, NEW t \in Threads, ShrinkCollect(t)
  PROVE  IInv'
  <1>1. pc[t] \in Allocating \ {"alloc3"}
    BY DEF ShrinkCollect, Allocating
  <1>2. PICK w \in {"search2"} : Go(t, w)
    BY DEF ShrinkCollect
  <1>3. UNCHANGED <<refcount, vfbRefcount, memory_mutex, closing, held, obj, old,
                    saved, req>>
    BY DEF ShrinkCollect
  <1>4. ASSUME NEW B \in MetFree, Delete({b \in B : free_count[b] >= free_thresh}),
               free_count' = [b \in Buffers |-> IF b \in B THEN free_count[b] + 1
                                                           ELSE free_count[b]]
        PROVE  IInv'
    <2> DEFINE D == {b \in B : free_count[b] >= free_thresh}
    <2>1. free_count' \in [Buffers -> Nat]
      BY <1>4 DEF IInv, TypeOK
    <2>2. D \in SUBSET Buffers /\ \A b \in D : Free(b)
      BY DEF MetFree
    <2>3. Delete(D)
      BY <1>4
    <2> HIDE DEF D
    <2>4. QED
      BY <1>1, <1>2, <1>3, <2>1, <2>2, <2>3, CollectIInv
  <1>5. CASE UNCHANGED <<vfb, registry, data_size, free_count>>
    BY <1>1, <1>2, <1>3, <1>5, GoOnIInv DEF frameVars, bufferVars
  <1>6. QED
    BY <1>4, <1>5 DEF ShrinkCollect

(* The last resort deletes all free buffers up to the size that is needed. *)
LEMMA CollectAllIInv ==
  ASSUME IInv, NEW t \in Threads, CollectAll(t)
  PROVE  IInv'
  <1>0. PICK B \in MetFree : Delete({b \in B : data_size[b] <= req[t]})
    BY DEF CollectAll
  <1> DEFINE D == {b \in B : data_size[b] <= req[t]}
  <1>1. pc[t] \in Allocating \ {"alloc3"}
    BY DEF CollectAll, Allocating
  <1>2. PICK w \in {"alloc3"} : Go(t, w)
    BY DEF CollectAll
  <1>3. UNCHANGED <<refcount, vfbRefcount, memory_mutex, closing, held, obj, old,
                    saved, req>>
    BY DEF CollectAll
  <1>4. free_count' \in [Buffers -> Nat]
    BY DEF CollectAll, IInv, TypeOK
  <1>5. D \in SUBSET Buffers /\ \A b \in D : Free(b)
    BY DEF MetFree
  <1>6. Delete(D)
    BY <1>0
  <1> HIDE DEF D
  <1>7. QED
    BY <1>1, <1>2, <1>3, <1>4, <1>5, <1>6, CollectIInv

-----------------------------------------------------------------------------
(* The theorems.                                                           *)

(* The registry starts empty.                                              *)
LEMMA InitIInv == Init => IInv
  <1> SUFFICES ASSUME Init PROVE IInv
    OBVIOUS
  <1> USE DEF Init
  <1>1. TypeOK
    BY DEF TypeOK
  <1>2. CountsExact /\ NothingDangles /\ NoBufferLost
    BY DEF CountsExact, NothingDangles, NoBufferLost, InHand
  <1>3. MutexOwned /\ ClosedToSearch /\ Requested /\ OldHeld
    BY DEF MutexOwned, ClosedToSearch, Requested, OldHeld, Allocating
  <1>4. ListedUnlessSub /\ InHandApart /\ CheckedStays
    BY DEF ListedUnlessSub, InHandApart, CheckedStays, InHand
  <1>5. QED
    BY <1>1, <1>2, <1>3, <1>4 DEF IInv

(* Every step keeps the invariant.                                         *)
LEMMA NextIInv == IInv /\ [Next]_vars => IInv'
  <1> SUFFICES ASSUME IInv, [Next]_vars PROVE IInv'
    OBVIOUS
  <1>1. ASSUME NEW t \in Threads, Step(t) PROVE IInv'
    BY <1>1, SearchIInv, AllocateWithinIInv, AllocateBeyondIInv, CollectAllIInv,
       ShrinkCollectIInv, AdoptIInv, DropOldIInv, ReleaseBufferIInv,
       RegisterSubFrameIInv, CheckBufferIInv, WrittenIInv DEF Step
  <1>2. ASSUME UNCHANGED vars PROVE IInv'
    <2> USE <1>2 DEF vars, frameVars, bufferVars, threadVars
    <2>1. TypeOK' /\ Control'
      BY DEF IInv, TypeOK, Control, MutexOwned, ClosedToSearch, Requested, OldHeld
    <2>2. Counted'
      <3>1. InHand' = InHand /\ \A b : Users(b)' = Users(b)
        BY DEF InHand, Users, Live
      <3>2. CountsExact'
        BY <3>1 DEF IInv, CountsExact, HeldBy
      <3>3. NothingDangles'
        BY <3>1 DEF IInv, NothingDangles
      <3>4. NoBufferLost'
        BY DEF IInv, NoBufferLost, Listed
      <3>5. ListedUnlessSub' /\ InHandApart'
        BY <3>1 DEF IInv, ListedUnlessSub, InHandApart
      <3>6. QED
        BY <3>2, <3>3, <3>4, <3>5 DEF Counted
    <2>3. CheckedStays'
      BY DEF IInv, CheckedStays, Users, Live, InHand
    <2>4. QED
      BY <2>1, <2>2, <2>3, Parts
  <1>3. QED
    BY <1>1, <1>2, GetNewFrameIInv, ShrinkCacheIInv, ShareIInv, ReleaseIInv,
       CheckFrameIInv, SubframeIInv, CloseIInv DEF Next

(* The inductive invariant, whatever the threads, caches, frames, buffers, *)
(* sizes, limit and threshold.                                             *)
THEOREM Invariance == Spec => []IInv
  BY InitIInv, NextIInv, PTL DEF Spec

(* Types: in particular no reference count of a frame or buffer ever goes  *)
(* below zero.                                                             *)
THEOREM TypeCorrect == Spec => []TypeOK
  <1>1. IInv => TypeOK
    BY DEF IInv
  <1>2. QED
    BY <1>1, Invariance, PTL

(* refcount of a frame is the number of its holders, and refcount of a     *)
(* buffer the number of live frames on it, of threads that have one in     *)
(* hand and of threads half way through Release().                         *)
THEOREM CountsAreExact == Spec => []CountsExact
  <1>1. IInv => CountsExact
    BY DEF IInv
  <1>2. QED
    BY <1>1, Invariance, PTL

(* No frame and no buffer is deleted while somebody still needs it.        *)
THEOREM NothingIsDangling == Spec => []NothingDangles
  <1>1. IInv => NothingDangles
    BY DEF IInv
  <1>2. QED
    BY <1>1, Invariance, PTL

(* Every buffer can be found again through a listed frame.                 *)
THEOREM NoBufferIsLost == Spec => []NoBufferLost
  <1>1. IInv => NoBufferLost
    BY DEF IInv
  <1>2. QED
    BY <1>1, Invariance, PTL

(* A filter that IsWritable() told to write is alone on the buffer until   *)
(* it has written.                                                         *)
THEOREM WritersAreAlone == Spec => []WriterIsAlone
  <1>1. IInv => WriterIsAlone
    <2> SUFFICES ASSUME IInv, NEW t \in Threads, pc[t] = "writing", NEW h \in Holders,
                        NEW f \in held[h], vfb[f] = vfb[obj[t]]
                 PROVE  h = t /\ f = obj[t]
      BY DEF WriterIsAlone
    <2>1. f \in Users(vfb[obj[t]])
      BY HeldIsThere
    <2>2. QED
      BY <2>1 DEF IInv, CheckedStays
  <1>2. QED
    BY <1>1, Invariance, PTL

(* Once the environment is closing, a step changes no registered frame and *)
(* takes none out of the registry.                                         *)
LEMMA ClosingStep ==
  ASSUME IInv, Next, closing
  PROVE  registry \subseteq registry' /\ \A f \in registry : vfb'[f] = vfb[f]
  <1>1. \A f \in registry : f \in Frames /\ vfb[f] # NoBuffer
    BY DEF IInv, TypeOK, ListedUnlessSub
  <1>2. \A t \in Threads : pc[t] \notin Allocating \ {"alloc3"}
    BY DEF IInv, ClosedToSearch
  <1>3. ASSUME NEW t \in Threads, NEW b \in Buffers, NEW f \in Frames, Allocate(t, b, f)
        PROVE  registry \subseteq registry' /\ \A e \in registry : vfb'[e] = vfb[e]
    BY <1>1, <1>3 DEF Allocate, IInv, TypeOK
  <1>4. ASSUME NEW t \in Threads, Step(t)
        PROVE  registry \subseteq registry' /\ \A e \in registry : vfb'[e] = vfb[e]
    <2>1. ~Search(t) /\ ~AllocateWithin(t) /\ ~CollectAll(t) /\ ~ShrinkCollect(t)
      BY <1>2 DEF Search, AllocateWithin, CollectAll, ShrinkCollect, Allocating
    <2>2. CASE AllocateBeyond(t)
      BY <2>2, <1>3 DEF AllocateBeyond, frameVars
    <2>3. CASE RegisterSubFrame(t)
      <3>1. Stale(vfb[obj[t]]) = {}
        BY DEF Stale
      <3>2. QED
        BY <2>3, <3>1, <1>1 DEF RegisterSubFrame, VfbWithout
    <2>4. CASE Adopt(t) \/ DropOld(t) \/ ReleaseBuffer(t) \/ CheckBuffer(t) \/ Written(t)
      BY <2>4 DEF Adopt, DropOld, ReleaseBuffer, CheckBuffer, Written, frameVars
    <2>5. QED
      BY <1>4, <2>1, <2>2, <2>3, <2>4 DEF Step
  <1>5. ASSUME NEW t \in Threads, NEW f \in Frames, NEW replace \in BOOLEAN,
               Subframe(t, f, replace)
        PROVE  registry \subseteq registry' /\ \A e \in registry : vfb'[e] = vfb[e]
    BY <1>1, <1>5 DEF Subframe, IInv, TypeOK
  <1>6. ASSUME ~\E t \in Threads : Step(t),
               ~\E t \in Threads, f \in Frames, replace \in BOOLEAN : Subframe(t, f, replace)
        PROVE  UNCHANGED <<registry, vfb>>
    BY <1>6 DEF Next, GetNewFrame, ShrinkCache, Share, Release, CheckFrame, Close, frameVars
  <1>7. QED
    BY <1>4, <1>5, <1>6

(* What DrainFramePropertiesForShutdown relies on: from the moment the     *)
(* environment is closing, the registry only grows.                        *)
THEOREM DrainIsSafe == Spec => ClosingKeepsFrames
  <1>1. IInv /\ [Next]_vars =>
          [closing => registry \subseteq registry' /\ \A f \in registry : vfb'[f] = vfb[f]]_vars
    BY ClosingStep
  <1>2. QED
    BY <1>1, Invariance, PTL DEF Spec, ClosingKeepsFrames
=============================================================================
