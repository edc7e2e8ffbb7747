-------------------------- MODULE GlobalLockProofs --------------------------
(***************************************************************************)
(* Proofs about GlobalLock, for any number of threads, names and nodes.    *)
(***************************************************************************)
EXTENDS GlobalLock, FiniteSetTheorems, TLAPS

USE DEF InUse

(* The set of waiters of a node is finite, and its cardinality a natural.  *)
LEMMA WaitersFinite ==
  ASSUME NEW d
  PROVE  /\ IsFiniteSet(Waiters(d))
         /\ Cardinality(Waiters(d)) \in Nat
  <1>1. Waiters(d) \in SUBSET Threads
    BY DEF Waiters
  <1>2. QED
    BY <1>1, FS_Subset, FS_CardinalityType, GL_Finite

(* A thread that starts to wait on node d adds one to d's waiters.         *)
LEMMA StartWaiting ==
  ASSUME TypeOK, NEW t \in Threads, NEW d \in Nodes, it[t] = NoNode,
         it' = [it EXCEPT ![t] = d]
  PROVE  /\ Cardinality(Waiters(d)') = Cardinality(Waiters(d)) + 1
         /\ \A c \in Nodes : c # d => Waiters(c)' = Waiters(c)
  <1>1. Waiters(d)' = Waiters(d) \cup {t}
    BY DEF Waiters, TypeOK
  <1>2. t \notin Waiters(d)
    BY GL_Null DEF Waiters
  <1>3. \A c \in Nodes : c # d => Waiters(c)' = Waiters(c)
    BY GL_Null DEF Waiters, TypeOK
  <1>4. Cardinality(Waiters(d) \cup {t}) = Cardinality(Waiters(d)) + 1
    BY <1>2, WaitersFinite, FS_AddElement
  <1>5. QED
    BY <1>1, <1>3, <1>4

(* A thread that stops waiting takes one from its node's waiters.          *)
LEMMA StopWaiting ==
  ASSUME TypeOK, NEW t \in Threads, NEW d \in Nodes, it[t] = d,
         it' = [it EXCEPT ![t] = NoNode]
  PROVE  /\ Cardinality(Waiters(d)) > 0
         /\ Cardinality(Waiters(d)') = Cardinality(Waiters(d)) - 1
         /\ \A c \in Nodes : c # d => Waiters(c)' = Waiters(c)
         /\ Cardinality(Waiters(d)) = 1 =>
              \A s \in Threads : it[s] = d => s = t
  <1>1. Waiters(d)' = Waiters(d) \ {t}
    BY GL_Null DEF Waiters, TypeOK
  <1>2. t \in Waiters(d)
    BY DEF Waiters
  <1>3. \A c \in Nodes : c # d => Waiters(c)' = Waiters(c)
    BY GL_Null DEF Waiters, TypeOK
  <1>4. Cardinality(Waiters(d) \ {t}) = Cardinality(Waiters(d)) - 1
    BY <1>2, WaitersFinite, FS_RemoveElement
  <1>5. Cardinality(Waiters(d)) # 0
    BY <1>2, WaitersFinite, FS_EmptySet
  <1>6. Cardinality(Waiters(d)) > 0
    BY <1>5, WaitersFinite
  <1>7. ASSUME Cardinality(Waiters(d)) = 1, NEW s \in Threads, it[s] = d
        PROVE  s = t
    <2>1. PICK x : Waiters(d) = {x}
      BY <1>7, WaitersFinite, FS_Singleton
    <2>2. s \in Waiters(d)
      BY <1>7 DEF Waiters
    <2>3. QED
      BY <2>1, <2>2, <1>2
  <1>8. QED
    BY <1>1, <1>3, <1>4, <1>6, <1>7

-----------------------------------------------------------------------------
(* The inductive invariant, one lemma per action.                          *)

(* An empty registry satisfies it.                                         *)
LEMMA InitIInv == Init => IInv
  BY GL_Null DEF Init, IInv, TypeOK, NoDanglingIterator, UsersCounted, Reclaimed,
     OwnerRegistered, NodesDistinct, NotHeldTwice, WaitsOrIdle

(* acquire() of a registered name.                                         *)
LEMMA ReserveExistingIInv ==
  ASSUME IInv, NEW t \in Threads, NEW n \in Names, ReserveExisting(t, n)
  PROVE  IInv'
  <1> DEFINE d == namedMutexes[n]
  <1> USE DEF IInv, ReserveExisting
  <1>1. d \in Nodes
    BY DEF TypeOK
  <1>2. TypeOK'
    BY <1>1 DEF TypeOK
  <1>3. NoDanglingIterator'
    BY <1>1 DEF NoDanglingIterator, TypeOK
  <1>4. UsersCounted'
    <2> SUFFICES ASSUME NEW m \in Names, NEW c \in Nodes, namedMutexes'[m] = c
                 PROVE  users'[c] = Cardinality(Waiters(c)') + Held(c)'
      BY <1>2 DEF UsersCounted, Waiters, Held, TypeOK
    <2>1. /\ Cardinality(Waiters(d)') = Cardinality(Waiters(d)) + 1
          /\ \A e \in Nodes : e # d => Waiters(e)' = Waiters(e)
      BY <1>1, StartWaiting
    <2>2. users[c] = Cardinality(Waiters(c)) + Held(c) /\ Held(c)' = Held(c)
      BY GL_Null DEF UsersCounted, Held
    <2>3. CASE c = d
      BY <2>1, <2>2, <2>3, WaitersFinite DEF TypeOK, Held
    <2>4. CASE c # d
      BY <2>1, <2>2, <2>4 DEF TypeOK
    <2>5. QED
      BY <2>3, <2>4
  <1>5. Reclaimed'
    BY <1>1 DEF Reclaimed, TypeOK
  <1>6. OwnerRegistered' /\ NodesDistinct'
    BY DEF OwnerRegistered, NodesDistinct
  <1>7. NotHeldTwice'
    BY <1>1 DEF NotHeldTwice, TypeOK
  <1>8. WaitsOrIdle'
    BY <1>1, GL_Null DEF WaitsOrIdle, TypeOK
  <1>9. QED
    BY <1>2, <1>3, <1>4, <1>5, <1>6, <1>7, <1>8

(* acquire() of a name not yet registered.                                 *)
LEMMA ReserveNewIInv ==
  ASSUME IInv, NEW t \in Threads, NEW n \in Names, ReserveNew(t, n)
  PROVE  IInv'
  <1> USE DEF IInv
  <1>1. PICK d \in Nodes \ InUse :
          /\ namedMutexes' = [namedMutexes EXCEPT ![n] = d]
          /\ users' = [users EXCEPT ![d] = 1]
          /\ owner' = [owner EXCEPT ![d] = NoThread]
          /\ it' = [it EXCEPT ![t] = d]
    BY DEF ReserveNew
  <1>2. it[t] = NoNode /\ namedMutexes[n] = NoNode /\ n \notin held[t]
        /\ want' = [want EXCEPT ![t] = n] /\ held' = held
    BY DEF ReserveNew
  <1>3. d \in Nodes /\ \A m \in Names : namedMutexes[m] # d
    BY <1>1
  <1>4. TypeOK'
    BY <1>1, <1>2 DEF TypeOK
  <1>5. NoDanglingIterator'
    BY <1>1, <1>2, <1>3, GL_Null DEF NoDanglingIterator, TypeOK
  <1>6. \A s \in Threads : it[s] # d
    BY <1>3, GL_Null DEF NoDanglingIterator
  <1>7. UsersCounted'
    <2> SUFFICES ASSUME NEW m \in Names, NEW c \in Nodes, namedMutexes'[m] = c
                 PROVE  users'[c] = Cardinality(Waiters(c)') + Held(c)'
      BY <1>4 DEF UsersCounted, Waiters, Held, TypeOK
    <2>1. /\ Cardinality(Waiters(d)') = Cardinality(Waiters(d)) + 1
          /\ \A e \in Nodes : e # d => Waiters(e)' = Waiters(e)
      BY <1>1, <1>2, <1>3, StartWaiting
    <2>2. CASE m = n
      <3>1. Waiters(d) = {}
        BY <1>6 DEF Waiters
      <3>2. Cardinality(Waiters(d)') = 1
        BY <3>1, <2>1, FS_EmptySet
      <3>3. Held(d)' = 0 /\ c = d /\ users'[d] = 1
        BY <2>2, <1>1, <1>3 DEF Held, TypeOK
      <3>4. QED
        BY <3>2, <3>3
    <2>3. CASE m # n
      <3>1. namedMutexes[m] = c /\ c # d /\ c # NoNode
        BY <2>3, <1>1, <1>3, GL_Null DEF TypeOK
      <3>2. users[c] = Cardinality(Waiters(c)) + Held(c)
        BY <3>1 DEF UsersCounted
      <3>3. users'[c] = users[c] /\ Held(c)' = Held(c)
        BY <3>1, <1>1 DEF Held, TypeOK
      <3>4. QED
        BY <3>1, <3>2, <3>3, <2>1
    <2>4. QED
      BY <2>2, <2>3
  <1>8. Reclaimed'
    BY <1>1, <1>3, GL_Null DEF Reclaimed, TypeOK
  <1>9. OwnerRegistered'
    BY <1>1, <1>2, <1>3, GL_Null DEF OwnerRegistered, TypeOK
  <1>10. NodesDistinct'
    BY <1>1, <1>3 DEF NodesDistinct, TypeOK
  <1>11. NotHeldTwice'
    BY <1>1, <1>2, <1>3 DEF NotHeldTwice, TypeOK
  <1>12. WaitsOrIdle'
    BY <1>1, <1>2, GL_Null DEF WaitsOrIdle, TypeOK
  <1>13. QED
    BY <1>4, <1>5, <1>7, <1>8, <1>9, <1>10, <1>11, <1>12

(* The mutex is obtained outside the registry lock.                        *)
LEMMA LockMutexIInv ==
  ASSUME IInv, NEW t \in Threads, LockMutex(t)
  PROVE  IInv'
  <1> DEFINE d == it[t]
             n == want[t]
  <1> USE DEF IInv, LockMutex
  <1>1. d \in Nodes /\ n \in Names /\ namedMutexes[n] = d
    BY DEF TypeOK, NoDanglingIterator
  <1>2. TypeOK'
    BY <1>1 DEF TypeOK
  <1>3. NoDanglingIterator'
    BY <1>1 DEF NoDanglingIterator, TypeOK
  <1>4. UsersCounted'
    <2> SUFFICES ASSUME NEW m \in Names, NEW c \in Nodes, namedMutexes'[m] = c
                 PROVE  users'[c] = Cardinality(Waiters(c)') + Held(c)'
      BY <1>2 DEF UsersCounted, Waiters, Held, TypeOK
    <2>1. PICK e \in Nodes : e = it[t]
      BY <1>1
    <2>2. /\ Cardinality(Waiters(e)') = Cardinality(Waiters(e)) - 1
          /\ \A b \in Nodes : b # e => Waiters(b)' = Waiters(b)
      BY <2>1, StopWaiting
    <2>3. users[c] = Cardinality(Waiters(c)) + Held(c)
      BY GL_Null DEF UsersCounted
    <2>4. CASE c = e
      <3>1. Held(c) = 0 /\ Held(c)' = 1
        BY <2>1, <2>4, GL_Null DEF Held, TypeOK
      <3>2. QED
        BY <3>1, <2>2, <2>3, <2>4, WaitersFinite
    <2>5. CASE c # e
      <3>1. Held(c)' = Held(c)
        BY <2>1, <2>5 DEF Held, TypeOK
      <3>2. QED
        BY <3>1, <2>2, <2>3, <2>5
    <2>6. QED
      BY <2>4, <2>5
  <1>5. Reclaimed' /\ NodesDistinct'
    BY DEF Reclaimed, NodesDistinct
  <1>6. OwnerRegistered'
    <2> SUFFICES ASSUME NEW s \in Threads, NEW m \in held'[s]
                 PROVE  namedMutexes[m] # NoNode /\ owner'[namedMutexes[m]] = s
      BY DEF OwnerRegistered
    <2>1. CASE s = t /\ m = n
      BY <1>1, <2>1, GL_Null DEF TypeOK
    <2>2. CASE ~(s = t /\ m = n)
      <3>1. m \in held[s] /\ m \in Names
        BY <2>2 DEF TypeOK
      <3>2. namedMutexes[m] # NoNode /\ owner[namedMutexes[m]] = s
        BY <3>1 DEF OwnerRegistered
      <3>3. namedMutexes[m] # d
        BY <3>2, GL_Null
      <3>4. QED
        BY <3>1, <3>2, <3>3 DEF TypeOK
    <2>3. QED
      BY <2>1, <2>2
  <1>7. NotHeldTwice'
    <2> SUFFICES ASSUME NEW s \in Threads, it'[s] # NoNode
                 PROVE  want'[s] \notin held'[s]
      BY DEF NotHeldTwice
    <2>1. s # t /\ it[s] # NoNode
      BY DEF TypeOK
    <2>2. want[s] \notin held[s]
      BY <2>1 DEF NotHeldTwice
    <2>3. QED
      BY <2>1, <2>2 DEF TypeOK
  <1>8. WaitsOrIdle'
    BY DEF WaitsOrIdle, TypeOK
  <1>9. QED
    BY <1>2, <1>3, <1>4, <1>5, <1>6, <1>7, <1>8

(* mutex.lock() throws; the reservation is given back.                     *)
LEMMA LockThrowsIInv ==
  ASSUME IInv, NEW t \in Threads, LockThrows(t)
  PROVE  IInv'
  <1> USE DEF IInv, LockThrows, GiveBack
  <1>1. PICK d \in Nodes, n \in Names :
          d = it[t] /\ n = want[t] /\ namedMutexes[n] = d
    BY DEF TypeOK, NoDanglingIterator
  <1>2. /\ Cardinality(Waiters(d)) > 0
        /\ Cardinality(Waiters(d)') = Cardinality(Waiters(d)) - 1
        /\ \A c \in Nodes : c # d => Waiters(c)' = Waiters(c)
        /\ Cardinality(Waiters(d)) = 1 => \A s \in Threads : it[s] = d => s = t
    BY <1>1, StopWaiting
  <1>3. users[d] = Cardinality(Waiters(d)) + Held(d)
    BY <1>1, GL_Null DEF UsersCounted
  <1>4. ASSUME users[d] = 1
        PROVE  /\ owner[d] = NoThread
               /\ \A s \in Threads : it[s] = d => s = t
    <2>1. Held(d) = 0 /\ Cardinality(Waiters(d)) = 1
      BY <1>2, <1>3, <1>4, WaitersFinite DEF Held
    <2>2. QED
      BY <2>1, <1>2 DEF Held
  <1>5. users[d] > 0
    BY <1>1, GL_Null DEF Reclaimed
  <1>6. TypeOK'
    BY <1>1, <1>5 DEF TypeOK
  <1>7. NoDanglingIterator'
    <2> SUFFICES ASSUME NEW s \in Threads, it'[s] # NoNode
                 PROVE  want'[s] \in Names /\ namedMutexes'[want'[s]] = it'[s]
      BY DEF NoDanglingIterator
    <2>1. s # t /\ it'[s] = it[s] /\ want'[s] = want[s]
      BY DEF TypeOK
    <2>2. want[s] \in Names /\ namedMutexes[want[s]] = it[s]
      BY <2>1 DEF NoDanglingIterator
    <2>3. QED
      BY <1>1, <1>4, <2>1, <2>2 DEF TypeOK
  <1>8. UsersCounted'
    <2> SUFFICES ASSUME NEW m \in Names, NEW c \in Nodes, namedMutexes'[m] = c
                 PROVE  users'[c] = Cardinality(Waiters(c)') + Held(c)'
      BY <1>6 DEF UsersCounted, Waiters, Held, TypeOK
    <2>1. namedMutexes[m] = c /\ c # NoNode
      BY <1>1, GL_Null DEF TypeOK
    <2>2. users[c] = Cardinality(Waiters(c)) + Held(c) /\ Held(c)' = Held(c)
      BY <2>1 DEF UsersCounted, Held
    <2>3. CASE c = d
      BY <1>1, <1>2, <2>2, <2>3, WaitersFinite DEF TypeOK, Held
    <2>4. CASE c # d
      BY <1>1, <1>2, <2>2, <2>4 DEF TypeOK
    <2>5. QED
      BY <2>3, <2>4
  <1>9. Reclaimed'
    <2> SUFFICES ASSUME NEW m \in Names, namedMutexes'[m] # NoNode
                 PROVE  users'[namedMutexes'[m]] > 0
      BY DEF Reclaimed
    <2>1. namedMutexes'[m] = namedMutexes[m]
      BY <1>1 DEF TypeOK
    <2>2. users[namedMutexes[m]] > 0
      BY <2>1 DEF Reclaimed
    <2>3. CASE m = n
      <3>1. users[d] # 1
        BY <1>1, <2>3 DEF TypeOK
      <3>2. QED
        BY <1>1, <1>5, <3>1, <2>1, <2>3 DEF TypeOK
    <2>4. CASE m # n
      <3>1. namedMutexes[m] # d
        BY <1>1, <2>4, GL_Null DEF NodesDistinct
      <3>2. QED
        BY <1>1, <3>1, <2>1, <2>2 DEF TypeOK
    <2>5. QED
      BY <2>3, <2>4
  <1>10. OwnerRegistered'
    BY <1>1, <1>4, GL_Null DEF OwnerRegistered, TypeOK
  <1>11. NodesDistinct'
    BY <1>1 DEF NodesDistinct, TypeOK
  <1>12. NotHeldTwice'
    BY <1>1 DEF NotHeldTwice, TypeOK
  <1>13. WaitsOrIdle'
    BY DEF WaitsOrIdle, TypeOK
  <1>14. QED
    BY <1>6, <1>7, <1>8, <1>9, <1>10, <1>11, <1>12, <1>13

(* release() unlocks and gives the node back.                              *)
LEMMA ReleaseIInv ==
  ASSUME IInv, NEW t \in Threads, NEW n \in Names, Release(t, n)
  PROVE  IInv'
  <1> USE DEF IInv, Release, GiveBack
  <1>1. PICK d \in Nodes : namedMutexes[n] = d
    BY DEF TypeOK
  <1>2. owner[d] = t
    BY <1>1 DEF OwnerRegistered
  <1>3. users[d] = Cardinality(Waiters(d)) + 1
    BY <1>1, <1>2, GL_Null DEF UsersCounted, Held
  <1>4. ASSUME users[d] = 1
        PROVE  \A s \in Threads : it[s] # d
    <2>1. Waiters(d) = {}
      BY <1>3, <1>4, WaitersFinite, FS_EmptySet
    <2>2. QED
      BY <2>1 DEF Waiters
  <1>5. users[d] > 0
    BY <1>1, GL_Null DEF Reclaimed
  <1>6. TypeOK'
    BY <1>1, <1>5 DEF TypeOK
  <1>7. NoDanglingIterator'
    BY <1>1, <1>4 DEF NoDanglingIterator, TypeOK
  <1>8. UsersCounted'
    <2> SUFFICES ASSUME NEW m \in Names, NEW c \in Nodes, namedMutexes'[m] = c
                 PROVE  users'[c] = Cardinality(Waiters(c)') + Held(c)'
      BY <1>6 DEF UsersCounted, Waiters, Held, TypeOK
    <2>1. namedMutexes[m] = c /\ c # NoNode
      BY <1>1, GL_Null DEF TypeOK
    <2>2. users[c] = Cardinality(Waiters(c)) + Held(c) /\ Waiters(c)' = Waiters(c)
      BY <2>1 DEF UsersCounted, Waiters
    <2>3. CASE c = d
      <3>1. Held(c)' = 0 /\ users'[c] = users[c] - 1
        BY <1>1, <2>3 DEF Held, TypeOK
      <3>2. QED
        BY <3>1, <2>2, <2>3, <1>3, WaitersFinite
    <2>4. CASE c # d
      <3>1. Held(c)' = Held(c) /\ users'[c] = users[c]
        BY <1>1, <2>4 DEF Held, TypeOK
      <3>2. QED
        BY <3>1, <2>2
    <2>5. QED
      BY <2>3, <2>4
  <1>9. Reclaimed'
    <2> SUFFICES ASSUME NEW m \in Names, namedMutexes'[m] # NoNode
                 PROVE  users'[namedMutexes'[m]] > 0
      BY DEF Reclaimed
    <2>1. namedMutexes'[m] = namedMutexes[m]
      BY <1>1 DEF TypeOK
    <2>2. users[namedMutexes[m]] > 0
      BY <2>1 DEF Reclaimed
    <2>3. CASE m = n
      <3>1. users[d] # 1
        BY <1>1, <2>3 DEF TypeOK
      <3>2. QED
        BY <1>1, <1>5, <3>1, <2>1, <2>3 DEF TypeOK
    <2>4. CASE m # n
      <3>1. namedMutexes[m] # d
        BY <1>1, <2>4, GL_Null DEF NodesDistinct
      <3>2. QED
        BY <1>1, <3>1, <2>1, <2>2 DEF TypeOK
    <2>5. QED
      BY <2>3, <2>4
  <1>10. OwnerRegistered'
    <2> SUFFICES ASSUME NEW s \in Threads, NEW m \in held'[s]
                 PROVE  namedMutexes'[m] # NoNode /\ owner'[namedMutexes'[m]] = s
      BY DEF OwnerRegistered
    <2>1. m \in held[s] /\ m \in Names
      BY DEF TypeOK
    <2>2. namedMutexes[m] # NoNode /\ owner[namedMutexes[m]] = s
      BY <2>1 DEF OwnerRegistered
    <2>3. m # n
      BY <1>1, <1>2, <2>2 DEF TypeOK
    <2>4. namedMutexes[m] # d
      BY <1>1, <2>1, <2>2, <2>3 DEF NodesDistinct
    <2>5. QED
      BY <1>1, <2>1, <2>2, <2>3, <2>4 DEF TypeOK
  <1>11. NodesDistinct'
    BY <1>1 DEF NodesDistinct, TypeOK
  <1>12. NotHeldTwice'
    BY DEF NotHeldTwice, TypeOK
  <1>13. WaitsOrIdle'
    BY DEF WaitsOrIdle, TypeOK
  <1>14. QED
    BY <1>6, <1>7, <1>8, <1>9, <1>10, <1>11, <1>12, <1>13

-----------------------------------------------------------------------------
(* Theorems about every behaviour of the lock manager.                     *)

(* acquire() and release() keep the inductive invariant: reservations are  *)
(* counted, no iterator dangles, no node in use is erased.                 *)
THEOREM Invariance == Spec => []IInv
  <1>1. IInv /\ [Next]_vars => IInv'
    <2> SUFFICES ASSUME IInv, [Next]_vars PROVE IInv'
      OBVIOUS
    <2>1. CASE UNCHANGED vars
      BY <2>1 DEF vars, IInv, TypeOK, NoDanglingIterator, UsersCounted, Reclaimed,
         OwnerRegistered, NodesDistinct, NotHeldTwice, WaitsOrIdle, Waiters, Held
    <2>2. CASE Next
      BY <2>2, ReserveExistingIInv, ReserveNewIInv, LockMutexIInv,
         LockThrowsIInv, ReleaseIInv DEF Next
    <2>3. QED
      BY <2>1, <2>2
  <1>2. QED
    BY <1>1, InitIInv, PTL DEF Spec

(* AcquireGlobalLock gives mutual exclusion per name, although mutexes are *)
(* created and destroyed with their users.                                 *)
THEOREM Exclusion == Spec => []MutualExclusion
  <1>1. IInv => MutualExclusion
    BY DEF IInv, MutualExclusion, OwnerRegistered
  <1>2. QED
    BY <1>1, Invariance, PTL

(* A thread waiting in acquire() never waits on an erased mutex.           *)
THEOREM IteratorsValid == Spec => []NoDanglingIterator
  <1>1. IInv => NoDanglingIterator
    BY DEF IInv
  <1>2. QED
    BY <1>1, Invariance, PTL

(* Names nobody uses any more leave no node behind.                        *)
THEOREM NoLeak == Spec => []Reclaimed
  <1>1. IInv => Reclaimed
    BY DEF IInv
  <1>2. QED
    BY <1>1, Invariance, PTL

(* GlobalLockManager implements the locks its users see (NamedLocks):     *)
(* acquire() returns only when no thread holds the name, on the registered *)
(* node or on any other.                                                   *)
THEOREM Refinement == Spec => LocksSpec
  <1>1. Init => Locks!Init
    BY DEF Init, Locks!Init
  <1>2. IInv /\ [Next]_vars => [Locks!Next]_Locks!lockVars
    <2> SUFFICES ASSUME IInv, [Next]_vars PROVE [Locks!Next]_Locks!lockVars
      OBVIOUS
    <2> USE DEF IInv
    <2>1. CASE UNCHANGED vars
      BY <2>1 DEF vars, Locks!lockVars
    <2>2. ASSUME NEW t \in Threads, NEW n \in Names, ReserveExisting(t, n) \/ ReserveNew(t, n)
          PROVE  Locks!Next
      <3>1. Locks!Ask(t, n)
        BY <2>2 DEF ReserveExisting, ReserveNew, WaitsOrIdle, Locks!Ask
      <3>2. QED
        BY <3>1 DEF Locks!Next
    <2>3. ASSUME NEW t \in Threads, LockMutex(t)
          PROVE  Locks!Next
      <3>1. /\ want[t] \in Names /\ namedMutexes[want[t]] = it[t]
            /\ it[t] # NoNode /\ owner[it[t]] = NoThread
        BY <2>3 DEF LockMutex, NoDanglingIterator
      <3>2. ASSUME NEW s \in Threads, want[t] \in held[s]
            PROVE  FALSE
        <4>1. owner[namedMutexes[want[t]]] = s
          BY <3>2 DEF OwnerRegistered
        <4>2. QED
          BY <4>1, <3>1, GL_Null
      <3>3. Locks!Grant(t, want[t])
        BY <2>3, <3>2 DEF LockMutex, Locks!Grant
      <3>4. QED
        BY <3>1, <3>3 DEF Locks!Next
    <2>4. ASSUME NEW t \in Threads, LockThrows(t)
          PROVE  Locks!Next
      <3>1. want[t] \in Names
        BY <2>4 DEF LockThrows, NoDanglingIterator
      <3>2. Locks!Fail(t, want[t])
        BY <2>4 DEF LockThrows, Locks!Fail
      <3>3. QED
        BY <3>1, <3>2 DEF Locks!Next
    <2>5. ASSUME NEW t \in Threads, NEW n \in Names, Release(t, n)
          PROVE  Locks!Next
      <3>1. Locks!GiveBack(t, n)
        BY <2>5 DEF Release, WaitsOrIdle, Locks!GiveBack
      <3>2. QED
        BY <3>1 DEF Locks!Next
    <2>6. QED
      BY <2>1, <2>2, <2>3, <2>4, <2>5 DEF Next
  <1>3. QED
    BY <1>1, <1>2, Invariance, PTL DEF Spec, LocksSpec, Locks!Spec

(* Every reachable state of the lock manager is well typed.                *)
THEOREM TypeCorrect == Spec => []TypeOK
  <1>1. IInv => TypeOK
    BY DEF IInv
  <1>2. QED
    BY <1>1, Invariance, PTL

(* NamedMutex::users counts a name's waiters and holder exactly.           *)
THEOREM UsersExact == Spec => []UsersCounted
  <1>1. IInv => UsersCounted
    BY DEF IInv
  <1>2. QED
    BY <1>1, Invariance, PTL
=============================================================================
