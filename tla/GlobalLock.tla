----------------------------- MODULE GlobalLock -----------------------------
(***************************************************************************)
(* GlobalLockManager (avisynth.cpp): a map from names to mutexes whose     *)
(* entries exist only while somebody uses them.                            *)
(*                                                                         *)
(* acquire() is two steps: under the registry lock it finds or creates the *)
(* map node of the name and reserves it (users); then, with the registry   *)
(* lock released, it locks the node's mutex through the iterator it kept.  *)
(* release() is one step under the registry lock: find the node by name,   *)
(* unlock its mutex, give the reservation back and erase the node when the *)
(* last one is gone.  The lock of an erased node, or of a new node of the  *)
(* same name, is what could go wrong.                                      *)
(*                                                                         *)
(* Callers release only what they hold (anything else is undefined for a   *)
(* std::mutex) and do not lock a name twice.                               *)
(***************************************************************************)
EXTENDS Naturals, FiniteSets

CONSTANTS
  Threads,   \* threads of the process
  Names,     \* lock names
  Nodes,     \* addresses of map nodes
  NoNode,    \* s_namedMutexes.end()
  NoThread   \* nobody has the mutex

ASSUME GL_Finite == IsFiniteSet(Threads)
ASSUME GL_Null == NoNode \notin Nodes /\ NoThread \notin Threads

VARIABLES
  namedMutexes,  \* s_namedMutexes: the node of each name
  users,         \* node -> LockEntry::users
  owner,         \* node -> the thread that has LockEntry::mutex
  it,            \* thread -> the iterator its acquire() waits with
  want,          \* thread -> the name it is acquiring
  held           \* thread -> the names it holds

vars == <<namedMutexes, users, owner, it, want, held>>

TypeOK ==
  /\ namedMutexes \in [Names -> Nodes \cup {NoNode}]
  /\ users \in [Nodes -> Nat]
  /\ owner \in [Nodes -> Threads \cup {NoThread}]
  /\ it \in [Threads -> Nodes \cup {NoNode}]
  /\ want \in [Threads -> Names \cup {NoNode}]
  /\ held \in [Threads -> SUBSET Names]

Init ==
  /\ namedMutexes = [n \in Names |-> NoNode]
  /\ users = [d \in Nodes |-> 0]
  /\ owner = [d \in Nodes |-> NoThread]
  /\ it = [t \in Threads |-> NoNode]
  /\ want = [t \in Threads |-> NoNode]
  /\ held = [t \in Threads |-> {}]

InUse == {namedMutexes[n] : n \in Names}

\* Faulty: waits without a reservation.
ReserveExistingUnreserved(t, n) ==
  /\ it[t] = NoNode /\ n \notin held[t]
  /\ namedMutexes[n] # NoNode
  /\ it' = [it EXCEPT ![t] = namedMutexes[n]]
  /\ want' = [want EXCEPT ![t] = n]
  /\ UNCHANGED <<namedMutexes, users, owner, held>>

\* acquire(), first half, when the name is registered.
ReserveExisting(t, n) ==
  /\ it[t] = NoNode /\ n \notin held[t]
  /\ namedMutexes[n] # NoNode
  /\ users' = [users EXCEPT ![namedMutexes[n]] = @ + 1]
  /\ it' = [it EXCEPT ![t] = namedMutexes[n]]
  /\ want' = [want EXCEPT ![t] = n]
  /\ UNCHANGED <<namedMutexes, owner, held>>

\* acquire(), first half, when it is not: a node is emplaced, at an address
\* that may have belonged to an erased one.
ReserveNew(t, n) ==
  /\ it[t] = NoNode /\ n \notin held[t]
  /\ namedMutexes[n] = NoNode
  /\ \E d \in Nodes \ InUse :
       /\ namedMutexes' = [namedMutexes EXCEPT ![n] = d]
       /\ users' = [users EXCEPT ![d] = 1]
       /\ owner' = [owner EXCEPT ![d] = NoThread]
       /\ it' = [it EXCEPT ![t] = d]
  /\ want' = [want EXCEPT ![t] = n]
  /\ UNCHANGED held

\* acquire(), second half: mutex.lock() through the iterator.
LockMutex(t) ==
  /\ it[t] # NoNode
  /\ owner[it[t]] = NoThread
  /\ owner' = [owner EXCEPT ![it[t]] = t]
  /\ held' = [held EXCEPT ![t] = @ \cup {want[t]}]
  /\ it' = [it EXCEPT ![t] = NoNode]
  /\ want' = [want EXCEPT ![t] = NoNode]
  /\ UNCHANGED <<namedMutexes, users>>

\* Faulty: erases whoever else is using the node / one user too late.
GiveBackErase(d, n) ==
  /\ users' = [users EXCEPT ![d] = @ - 1]
  /\ namedMutexes' = [namedMutexes EXCEPT ![n] = NoNode]

GiveBackLate(d, n) ==
  /\ users' = [users EXCEPT ![d] = @ - 1]
  /\ namedMutexes' =
       [namedMutexes EXCEPT ![n] = IF users[d] = 0 THEN NoNode ELSE @]

\* --users; erase the node (its name is n) when that was the last.
GiveBack(d, n) ==
  /\ users' = [users EXCEPT ![d] = @ - 1]
  /\ namedMutexes' =
       [namedMutexes EXCEPT ![n] = IF users[d] = 1 THEN NoNode ELSE @]

\* Faulty: the reservation is kept when lock() throws.
LockThrowsKeeps(t) ==
  /\ it[t] # NoNode
  /\ it' = [it EXCEPT ![t] = NoNode]
  /\ want' = [want EXCEPT ![t] = NoNode]
  /\ UNCHANGED <<namedMutexes, users, owner, held>>

\* Faulty: the node is erased when lock() throws, whoever else uses it.
LockThrowsErases(t) ==
  /\ it[t] # NoNode
  /\ users' = [users EXCEPT ![it[t]] = @ - 1]
  /\ namedMutexes' = [namedMutexes EXCEPT ![want[t]] = NoNode]
  /\ it' = [it EXCEPT ![t] = NoNode]
  /\ want' = [want EXCEPT ![t] = NoNode]
  /\ UNCHANGED <<owner, held>>

\* acquire(), second half, when mutex.lock() throws std::system_error.
LockThrows(t) ==
  /\ it[t] # NoNode
  /\ GiveBack(it[t], want[t])
  /\ it' = [it EXCEPT ![t] = NoNode]
  /\ want' = [want EXCEPT ![t] = NoNode]
  /\ UNCHANGED <<owner, held>>

\* release()
Release(t, n) ==
  /\ it[t] = NoNode /\ n \in held[t]
  /\ namedMutexes[n] # NoNode
  /\ owner' = [owner EXCEPT ![namedMutexes[n]] = NoThread]
  /\ GiveBack(namedMutexes[n], n)
  /\ held' = [held EXCEPT ![t] = @ \ {n}]
  /\ UNCHANGED <<it, want>>

Next ==
  \E t \in Threads :
    \/ LockMutex(t) \/ LockThrows(t)
    \/ \E n \in Names : ReserveExisting(t, n) \/ ReserveNew(t, n) \/ Release(t, n)

Spec == Init /\ [][Next]_vars

-----------------------------------------------------------------------------
(* Properties.                                                             *)

Waiters(d) == {t \in Threads : it[t] = d}
Held(d) == IF owner[d] = NoThread THEN 0 ELSE 1

\* AcquireGlobalLock excludes: no name is held by two threads, whatever nodes
\* were erased and created between their calls.
MutualExclusion ==
  \A s, t \in Threads : s # t => held[s] \cap held[t] = {}

\* A reserved node is never erased: the iterator a thread waits with is the
\* node registered under its name ("the current holder must not erase this
\* mutex while another thread is about to lock it").
NoDanglingIterator ==
  \A t \in Threads : it[t] # NoNode =>
    want[t] \in Names /\ namedMutexes[want[t]] = it[t]

\* users counts "holder plus waiters", for every registered node.
UsersCounted ==
  \A n \in Names : namedMutexes[n] # NoNode =>
    users[namedMutexes[n]]
      = Cardinality(Waiters(namedMutexes[n])) + Held(namedMutexes[n])

\* The registry holds nothing but names in use: a node without holder and
\* waiters has been erased, also when mutex.lock() threw.
Reclaimed == \A n \in Names : namedMutexes[n] # NoNode => users[namedMutexes[n]] > 0

\* A thread that holds a name is the owner of the mutex registered under it,
\* so its release() unlocks its own lock.
OwnerRegistered ==
  \A t \in Threads : \A n \in held[t] :
    namedMutexes[n] # NoNode /\ owner[namedMutexes[n]] = t

\* Two names never share a node; a thread never waits for a name it holds,
\* and has no name in mind when it does not wait.
NodesDistinct ==
  \A m, n \in Names : namedMutexes[m] # NoNode /\ namedMutexes[m] = namedMutexes[n]
    => m = n
NotHeldTwice == \A t \in Threads : it[t] # NoNode => want[t] \notin held[t]
WaitsOrIdle == \A t \in Threads : it[t] = NoNode => want[t] = NoNode

\* The inductive invariant behind MutualExclusion.
IInv ==
  /\ TypeOK /\ NoDanglingIterator /\ UsersCounted /\ Reclaimed
  /\ OwnerRegistered /\ NodesDistinct /\ NotHeldTwice /\ WaitsOrIdle

\* The manager, with nodes that are erased, made anew and recycled, implements
\* the named locks its users see: what counts as held is what acquire() has
\* returned and release() not given back, on whatever node that was.
Locks == INSTANCE NamedLocks WITH NoName <- NoNode
LocksSpec == Locks!Spec
=============================================================================
