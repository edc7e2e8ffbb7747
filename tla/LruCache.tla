------------------------------ MODULE LruCache ------------------------------
(***************************************************************************)
(* LruCache<K, V>: the frame cache shared by all threads that read a clip. *)
(*                                                                         *)
(* Every public operation holds the cache's mutex, so it is one action,    *)
(* except where the code gives the mutex up: lookup() waits on an entry's  *)
(* condition variable, and commit_value() and rollback() notify after they *)
(* have unlocked.  The callers (AvsCache::GetFrame, Prefetcher::GetFrame,  *)
(* Prefetcher::SchedulePrefetch with ThreadWorker) all follow one          *)
(* protocol: look up; on NOT_FOUND compute the frame without the mutex,    *)
(* store it through the handle and commit, or roll back if the child       *)
(* throws.                                                                 *)
(*                                                                         *)
(* The content of frame k is represented by k itself, so that a reader     *)
(* that is given another frame can be told apart.                          *)
(***************************************************************************)
EXTENDS SimpleLruCache, FiniteSets

CONSTANTS
  Threads,              \* callers that may hold a handle or wait
  Keys,                 \* frame numbers
  Entries,              \* storage for LruEntry objects (ObjectPool)
  NULL,                 \* the null PVideoFrame
  NoEntry,              \* the null entry pointer
  Mode,                 \* CacheMode of this cache
  InitialCapacity,      \* constructor argument
  GHOSTS_MIN_CAPACITY,  \* 50 in the code
  SizeMax,              \* bound: stands for numeric_limits<size_t>::max()
  LimitChoices,         \* bound: the <<min, max>> pairs set_limits is given
  MaxFailures           \* bound: how often child->GetFrame throws

Modes == {"CACHE_FAST_START", "CACHE_OPTIMAL_SIZE", "CACHE_NO_RESIZE"}

ASSUME ThreadsAssumption == IsFiniteSet(Threads)
ASSUME EntryAssumption == NoEntry \notin Entries
ASSUME NullAssumption == NULL \notin Keys
ASSUME PoolAssumption == IsFiniteSet(Keys) /\ IsFiniteSet(Entries)
                         /\ Cardinality(Entries) >= Cardinality(Keys)
ASSUME ModeAssumption == Mode \in Modes
ASSUME BoundAssumption ==
  /\ {InitialCapacity, GHOSTS_MIN_CAPACITY, SizeMax, MaxFailures} \subseteq Nat
  /\ GHOSTS_MIN_CAPACITY > 0 /\ InitialCapacity <= SizeMax
  /\ LimitChoices \subseteq Nat \X Nat

VARIABLES
  order,      \* MainCache: its keys, most recently used first
  slot,       \* MainCache: the entry stored under each key
  limits,     \* MainCache: Min-, Max-, Requested- and RealCapacity
  ghosts,     \* Ghosts: sequence of [key, ghosted]
  ghostCap,   \* Ghosts: RealCapacity
  heap,       \* the LruEntry objects
  ghosted,    \* their `ghosted' fields
  pc,         \* where each caller is in the protocol
  key,        \* the frame it asked for
  ent,        \* the entry it waits for or owns (the handle's first)
  got,        \* the answer of the last FOUND_AND_READY lookup
  suppressCaching, \* its environment's SupressCaching flag
  failures    \* number of child->GetFrame calls that have thrown

cacheVars  == <<order, slot, limits, ghosts, ghostCap, ghosted>>
callerVars == <<pc, key, ent, got, suppressCaching>>
vars       == <<cacheVars, heap, callerVars, failures>>

None == <<>>  \* no frame: an exception, or the caller asks elsewhere

Waiting   == {"waiting", "woken"}        \* inside ready_cond.wait
Producing == {"producing", "filled"}     \* owns the handle
Locking   == Waiting \cup Producing      \* has a share in entry->locks
Notifying == {"notifyAll", "notifyOne"}  \* unlocked, notify still to come

\* `ghosted' only matters through the test `ghosted > 1': count to 2.
Bump(n) == IF n >= 2 THEN 2 ELSE n + 1

\* The frame a caller asked for and the content lookup() handed it; None once
\* a lookup has ended in any other way.
Answers == {None} \cup (Keys \X (Keys \cup {NULL}))

TypeOK ==
  /\ slot \in [Keys -> Entries \cup {NoEntry}]
  /\ limits \in [min : Nat, max : Nat, requested : Nat, real : Nat]
  /\ heap \in [Entries -> [key : Keys \cup {NULL}, value : Keys \cup {NULL},
                           locks : Nat,
                           state : {"EMPTY", "AVAILABLE", "ROLLED_BACK"}]]
  /\ pc \in [Threads -> {"idle"} \cup Locking \cup Notifying]
  /\ key \in [Threads -> Keys \cup {NULL}]
  /\ ent \in [Threads -> Entries \cup {NoEntry}]
  /\ got \in Answers
  /\ suppressCaching \in [Threads -> BOOLEAN]
  /\ failures \in 0 .. MaxFailures

\* LruEntry::reset, also the state the constructor leaves.
Reset(k) == [key |-> k, value |-> NULL, locks |-> 0, state |-> "EMPTY"]

Init ==
  /\ order = <<>>
  /\ slot = [k \in Keys |-> NoEntry]
  /\ limits = Limits(0, SizeMax, InitialCapacity)
  /\ ghosts = <<>>
  /\ ghostCap = GHOSTS_MIN_CAPACITY
  /\ heap = [e \in Entries |-> Reset(NULL)]
  /\ ghosted = [e \in Entries |-> 0]
  /\ pc = [t \in Threads |-> "idle"]
  /\ key = [t \in Threads |-> NULL]
  /\ ent = [t \in Threads |-> NoEntry]
  /\ got = None
  /\ suppressCaching = [t \in Threads |-> FALSE]
  /\ failures = 0

-----------------------------------------------------------------------------
(* Ghosts, a SimpleLruCache without an evict event.                        *)

IsGhost(gs, k) == \E i \in DOMAIN gs : gs[i].key = k
GhostAt(gs, k) == CHOOSE i \in DOMAIN gs : gs[i].key = k
GhostCount(gs, k) == gs[GhostAt(gs, k)].ghosted

GhostTrim(gs, cap) == SubSeq(gs, 1, IF Len(gs) > cap THEN cap ELSE Len(gs))

\* Ghosts.lookup(k) followed by the store of n, at the front of the list.
GhostPut(gs, cap, k, n) ==
  <<[key |-> k, ghosted |-> n]>> \o
  IF IsGhost(gs, k) THEN RemoveAt(gs, GhostAt(gs, k))
                    ELSE GhostTrim(gs, cap)

\* g->ghosted++ through the pointer of an earlier lookup.
GhostBump(gs, k) ==
  [i \in DOMAIN gs |-> IF gs[i].key = k THEN [gs[i] EXCEPT !.ghosted = Bump(@)]
                                       ELSE gs[i]]

\* MainEvictEvent on key k: its entry leaves a ghost behind.
GhostEvicted(gs, cap, k) ==
  GhostPut(gs, cap, k, IF IsGhost(gs, k) THEN Bump(GhostCount(gs, k))
                                         ELSE Bump(ghosted[slot[k]]))

-----------------------------------------------------------------------------
(* Eviction from MainCache.                                                *)

\* Faulty: the evict event does not look at the locks.
EvictableLocked(k) == slot[k] # NoEntry

\* MainEvictEvent refuses an entry somebody has locked.
Evictable(k) == heap[slot[k]].locks = 0

Victims(ord, cap) == {k \in Keys : k \in Surplus(ord, cap) /\ Evictable(k)}

\* One evict event after the other, from the back of the list.
GhostsAfter(gs, cap, ord, V) ==
  LET after[i \in 0 .. Len(ord)] ==
        IF i = 0 THEN gs
        ELSE LET k == ord[Len(ord) + 1 - i]
             IN IF k \in V THEN GhostEvicted(after[i - 1], cap, k) ELSE after[i - 1]
  IN after[Len(ord)]

SlotsWithout(V) == [k \in Keys |-> IF k \in V THEN NoEntry ELSE slot[k]]

\* The evicted entries are reset and given back to the pool.
HeapWithout(V) ==
  [e \in Entries |-> IF e \in {slot[k] : k \in V} THEN Reset(NULL) ELSE heap[e]]

GhostedWithout(V) ==
  [e \in Entries |-> IF e \in {slot[k] : k \in V} THEN 0 ELSE ghosted[e]]

-----------------------------------------------------------------------------
(* lookup()                                                                *)

\* The caller is done, with this answer.
Return(t, answer) ==
  /\ pc' = [pc EXCEPT ![t] = "idle"]
  /\ key' = [key EXCEPT ![t] = NULL]
  /\ ent' = [ent EXCEPT ![t] = NoEntry]
  /\ got' = answer
  /\ suppressCaching' = [suppressCaching EXCEPT ![t] = FALSE]

\* The caller goes on to `where' with a pointer to entry e for frame k.
Enter(t, where, k, e, suppress) ==
  /\ pc' = [pc EXCEPT ![t] = where]
  /\ key' = [key EXCEPT ![t] = k]
  /\ ent' = [ent EXCEPT ![t] = e]
  /\ got' = None
  /\ suppressCaching' = [suppressCaching EXCEPT ![t] = suppress]

\* Found, and the caller need not wait: the value is copied as it is.  (A
\* blocking caller that meets a rolled back entry comes here too.)
LookupReady(t, k, block) ==
  /\ pc[t] = "idle" /\ slot[k] # NoEntry
  /\ \/ heap[slot[k]].state = "AVAILABLE"
     \/ block /\ heap[slot[k]].state = "ROLLED_BACK"
  /\ order' = Touch(order, k)
  /\ Return(t, <<k, heap[slot[k]].value>>)
  /\ UNCHANGED <<slot, limits, ghosts, ghostCap, ghosted, heap, failures>>

\* Found, but somebody else is still computing it: FOUND_BUT_NOTAVAIL.
LookupNotAvailable(t, k) ==
  /\ pc[t] = "idle" /\ slot[k] # NoEntry
  /\ heap[slot[k]].state # "AVAILABLE"
  /\ order' = Touch(order, k)
  /\ Return(t, None)
  /\ UNCHANGED <<slot, limits, ghosts, ghostCap, ghosted, heap, failures>>

\* Faulty: waits without locking the entry.
LookupWaitUnlocked(t, k, suppress) ==
  /\ pc[t] = "idle" /\ slot[k] # NoEntry
  /\ heap[slot[k]].state = "EMPTY"
  /\ order' = Touch(order, k)
  /\ Enter(t, "waiting", k, slot[k], suppress)
  /\ UNCHANGED <<heap, slot, limits, ghosts, ghostCap, ghosted, failures>>

\* Found empty by a blocking caller: lock the entry and wait.
LookupWait(t, k, suppress) ==
  /\ pc[t] = "idle" /\ slot[k] # NoEntry
  /\ heap[slot[k]].state = "EMPTY"
  /\ order' = Touch(order, k)
  /\ heap' = [heap EXCEPT ![slot[k]].locks = @ + 1]
  /\ Enter(t, "waiting", k, slot[k], suppress)
  /\ UNCHANGED <<slot, limits, ghosts, ghostCap, ghosted, failures>>

\* Not found and the caller's caches are suppressed: NO_CACHE.
LookupSuppressed(t, k) ==
  /\ pc[t] = "idle" /\ slot[k] = NoEntry
  /\ Return(t, None)
  /\ UNCHANGED <<cacheVars, heap, failures>>

\* Not found: trim, insert at the front if there is any capacity, consult the
\* ghosts, and grow the cache if k keeps coming back.
Miss(k) ==
  LET V1     == Victims(order, limits.real)
      stored == limits.real # 0
      ord1   == Without(order, V1)
      ord2   == IF stored THEN <<k>> \o ord1 ELSE ord1
      gs1    == GhostsAfter(ghosts, ghostCap, order, V1)
      count  == IF IsGhost(gs1, k) THEN GhostCount(gs1, k) ELSE 0
      gs2    == GhostPut(gs1, ghostCap, k, count)
      hot    == count > 1
      grow   == hot /\ Mode # "CACHE_NO_RESIZE"
      lim    == IF grow THEN Limits(limits.min, limits.max, limits.real + 1)
                        ELSE limits
      V2     == IF grow THEN Victims(ord2, lim.real) ELSE {}
      gs3    == GhostsAfter(gs2, ghostCap, ord2, V2)
      gcap   == IF grow THEN GHOSTS_MIN_CAPACITY + lim.real * 2 ELSE ghostCap
      gs4    == IF grow THEN GhostTrim(gs3, gcap) ELSE gs3
  IN [stored |-> stored, victims |-> V1 \cup V2, order |-> Without(ord2, V2),
      limits |-> lim, ghostCap |-> gcap, count |-> count,
      ghosts |-> IF stored THEN gs4 ELSE GhostBump(gs4, k),
      suppress |-> hot /\ Mode = "CACHE_OPTIMAL_SIZE"]

\* A new entry goes to the caller: NOT_FOUND.  Without capacity: NO_CACHE.
LookupMiss(t, k) ==
  /\ pc[t] = "idle" /\ slot[k] = NoEntry
  /\ limits' = Miss(k).limits
  /\ order' = Miss(k).order
  /\ ghosts' = Miss(k).ghosts
  /\ ghostCap' = Miss(k).ghostCap
  /\ LET V == Miss(k).victims IN
     \/ /\ Miss(k).stored
        /\ \E e \in Entries \ {SlotsWithout(V)[j] : j \in Keys} :
             /\ slot' = [SlotsWithout(V) EXCEPT ![k] = e]
             /\ heap' = [HeapWithout(V) EXCEPT ![e] = [Reset(k) EXCEPT !.locks = 1]]
             /\ ghosted' = [GhostedWithout(V) EXCEPT ![e] = Miss(k).count]
             /\ Enter(t, "producing", k, e, Miss(k).suppress)
     \/ /\ ~Miss(k).stored
        /\ slot' = SlotsWithout(V)
        /\ heap' = HeapWithout(V)
        /\ ghosted' = GhostedWithout(V)
        /\ Return(t, None)
  /\ UNCHANGED failures

Lookup(t, k, block, suppress) ==
  \/ LookupReady(t, k, block)
  \/ ~block /\ LookupNotAvailable(t, k)
  \/ block /\ LookupWait(t, k, suppress)
  \/ suppress /\ LookupSuppressed(t, k)
  \/ ~suppress /\ LookupMiss(t, k)

-----------------------------------------------------------------------------
(* The rest of lookup() for a caller that waits.                           *)

\* A condition variable may wake up without being notified.
SpuriousWakeup(t) ==
  /\ pc[t] = "waiting"
  /\ pc' = [pc EXCEPT ![t] = "woken"]
  /\ UNCHANGED <<cacheVars, heap, key, ent, got, suppressCaching, failures>>

\* The mutex is held again: look at the entry and decide.
WaitAgain(t) ==
  /\ pc[t] = "woken" /\ heap[ent[t]].state = "EMPTY"
  /\ pc' = [pc EXCEPT ![t] = "waiting"]
  /\ UNCHANGED <<cacheVars, heap, key, ent, got, suppressCaching, failures>>

WaitOver(t) ==
  /\ pc[t] = "woken" /\ heap[ent[t]].state = "AVAILABLE"
  /\ heap' = [heap EXCEPT ![ent[t]].locks = @ - 1]
  /\ Return(t, <<key[t], heap[ent[t]].value>>)
  /\ UNCHANGED <<cacheVars, failures>>

\* Faulty: the heir takes a second lock / leaves the entry rolled back / does
\* not ask whether the entry was rolled back.
TakeOverLocking(t) ==
  /\ pc[t] = "woken" /\ heap[ent[t]].state = "ROLLED_BACK"
  /\ heap' = [heap EXCEPT ![ent[t]].state = "EMPTY", ![ent[t]].locks = @ + 1]
  /\ pc' = [pc EXCEPT ![t] = "producing"]
  /\ UNCHANGED <<cacheVars, key, ent, got, suppressCaching, failures>>

TakeOverUnmarked(t) ==
  /\ pc[t] = "woken" /\ heap[ent[t]].state = "ROLLED_BACK"
  /\ pc' = [pc EXCEPT ![t] = "producing"]
  /\ UNCHANGED <<cacheVars, heap, key, ent, got, suppressCaching, failures>>

TakeOverAny(t) ==
  /\ pc[t] = "woken" /\ heap[ent[t]].state # "EMPTY"
  /\ heap' = [heap EXCEPT ![ent[t]].state = "EMPTY"]
  /\ pc' = [pc EXCEPT ![t] = "producing"]
  /\ UNCHANGED <<cacheVars, key, ent, got, suppressCaching, failures>>

\* The producer stepped back: this waiter takes its place, and its lock.
TakeOver(t) ==
  /\ pc[t] = "woken" /\ heap[ent[t]].state = "ROLLED_BACK"
  /\ heap' = [heap EXCEPT ![ent[t]].state = "EMPTY"]
  /\ pc' = [pc EXCEPT ![t] = "producing"]
  /\ UNCHANGED <<cacheVars, key, ent, got, suppressCaching, failures>>

-----------------------------------------------------------------------------
(* The producer's side.                                                    *)

\* child->GetFrame returned; the value is stored through the handle.
Fill(t) ==
  /\ pc[t] = "producing"
  /\ heap' = [heap EXCEPT ![ent[t]].value = key[t]]
  /\ pc' = [pc EXCEPT ![t] = "filled"]
  /\ UNCHANGED <<cacheVars, key, ent, got, suppressCaching, failures>>

\* Faulty: commits before the value is stored.
CommitValueEarly(t) ==
  /\ pc[t] \in Producing
  /\ heap' = [heap EXCEPT ![ent[t]].state = "AVAILABLE",
                          ![ent[t]].locks = @ - 1]
  /\ pc' = [pc EXCEPT ![t] = "notifyAll"]
  /\ UNCHANGED <<cacheVars, key, ent, got, suppressCaching, failures>>

\* commit_value() up to its unlock.
CommitValue(t) ==
  /\ pc[t] = "filled"
  /\ heap' = [heap EXCEPT ![ent[t]].state = "AVAILABLE",
                          ![ent[t]].locks = @ - 1]
  /\ pc' = [pc EXCEPT ![t] = "notifyAll"]
  /\ UNCHANGED <<cacheVars, key, ent, got, suppressCaching, failures>>

\* Faulty: notify_one where notify_all is needed.
NotifyAllOne(t) ==
  /\ pc[t] = "notifyAll"
  /\ LET Asleep == {s \in Threads : pc[s] = "waiting" /\ ent[s] = ent[t]}
     IN \/ /\ Asleep = {}
           /\ pc' = [pc EXCEPT ![t] = "idle"]
        \/ \E s \in Asleep : pc' = [pc EXCEPT ![t] = "idle", ![s] = "woken"]
  /\ key' = [key EXCEPT ![t] = NULL]
  /\ ent' = [ent EXCEPT ![t] = NoEntry]
  /\ suppressCaching' = [suppressCaching EXCEPT ![t] = FALSE]
  /\ UNCHANGED <<cacheVars, heap, got, failures>>

\* Its notify_all: whoever waits on that storage now is woken.
NotifyAll(t) ==
  /\ pc[t] = "notifyAll"
  /\ pc' = [s \in Threads |->
              IF s = t THEN "idle"
              ELSE IF pc[s] = "waiting" /\ ent[s] = ent[t] THEN "woken"
              ELSE pc[s]]
  /\ key' = [key EXCEPT ![t] = NULL]
  /\ ent' = [ent EXCEPT ![t] = NoEntry]
  /\ suppressCaching' = [suppressCaching EXCEPT ![t] = FALSE]
  /\ UNCHANGED <<cacheVars, heap, got, failures>>

\* Faulty: the key is removed although others wait.
RollbackRemoveAlways(t) ==
  /\ pc[t] = "producing" /\ failures < MaxFailures
  /\ order' = Without(order, {heap[ent[t]].key})
  /\ slot' = [slot EXCEPT ![heap[ent[t]].key] = NoEntry]
  /\ heap' = [heap EXCEPT ![ent[t]] = Reset(NULL)]
  /\ ghosted' = [ghosted EXCEPT ![ent[t]] = 0]
  /\ Return(t, None)
  /\ failures' = failures + 1
  /\ UNCHANGED <<limits, ghosts, ghostCap>>

\* rollback() when nobody waits: the key is removed.  The entry is not given
\* back to the pool; as nothing refers to it any more, the model lets a later
\* allocation have its identity.
RollbackRemove(t) ==
  /\ pc[t] = "producing" /\ failures < MaxFailures
  /\ heap[ent[t]].locks = 1
  /\ order' = Without(order, {heap[ent[t]].key})
  /\ slot' = [slot EXCEPT ![heap[ent[t]].key] = NoEntry]
  /\ heap' = [heap EXCEPT ![ent[t]] = Reset(NULL)]
  /\ ghosted' = [ghosted EXCEPT ![ent[t]] = 0]
  /\ Return(t, None)
  /\ failures' = failures + 1
  /\ UNCHANGED <<limits, ghosts, ghostCap>>

\* Faulty: hands over although nobody waits.
RollbackHandOverAlways(t) ==
  /\ pc[t] = "producing" /\ failures < MaxFailures
  /\ heap' = [heap EXCEPT ![ent[t]].state = "ROLLED_BACK",
                          ![ent[t]].locks = @ - 1]
  /\ pc' = [pc EXCEPT ![t] = "notifyOne"]
  /\ failures' = failures + 1
  /\ UNCHANGED <<cacheVars, key, ent, got, suppressCaching>>

\* rollback() when others wait, up to its unlock.
RollbackHandOver(t) ==
  /\ pc[t] = "producing" /\ failures < MaxFailures
  /\ heap[ent[t]].locks > 1
  /\ heap' = [heap EXCEPT ![ent[t]].state = "ROLLED_BACK",
                          ![ent[t]].locks = @ - 1]
  /\ pc' = [pc EXCEPT ![t] = "notifyOne"]
  /\ failures' = failures + 1
  /\ UNCHANGED <<cacheVars, key, ent, got, suppressCaching>>

Rollback(t) == RollbackRemove(t) \/ RollbackHandOver(t)

\* Its notify_one: one of those that wait on the storage, if there is any.
NotifyOne(t) ==
  /\ pc[t] = "notifyOne"
  /\ LET Asleep == {s \in Threads : pc[s] = "waiting" /\ ent[s] = ent[t]}
     IN \/ /\ Asleep = {}
           /\ pc' = [pc EXCEPT ![t] = "idle"]
        \/ \E s \in Asleep : pc' = [pc EXCEPT ![t] = "idle", ![s] = "woken"]
  /\ key' = [key EXCEPT ![t] = NULL]
  /\ ent' = [ent EXCEPT ![t] = NoEntry]
  /\ suppressCaching' = [suppressCaching EXCEPT ![t] = FALSE]
  /\ UNCHANGED <<cacheVars, heap, got, failures>>

-----------------------------------------------------------------------------
\* Faulty: the new limits are stored, the list is not trimmed.
SetLimitsUntrimmed(min, max) ==
  /\ limits' = Limits(min, max, limits.requested)
  /\ UNCHANGED <<order, slot, heap, ghosted, ghosts, ghostCap, callerVars, failures>>

\* set_limits(), called for cache hints and by the memory manager.
SetLimits(min, max) ==
  LET lim == Limits(min, max, limits.requested)
      V   == Victims(order, lim.real)
  IN /\ limits' = lim
     /\ order' = Without(order, V)
     /\ slot' = SlotsWithout(V)
     /\ heap' = HeapWithout(V)
     /\ ghosted' = GhostedWithout(V)
     /\ ghosts' = GhostsAfter(ghosts, ghostCap, order, V)
     /\ UNCHANGED <<ghostCap, callerVars, failures>>

Step(t) ==
  \/ WaitAgain(t) \/ WaitOver(t) \/ TakeOver(t)
  \/ Fill(t) \/ CommitValue(t) \/ NotifyAll(t)
  \/ Rollback(t) \/ NotifyOne(t)

Next ==
  \/ \E t \in Threads, k \in Keys, block, suppress \in BOOLEAN :
       Lookup(t, k, block, suppress)
  \/ \E t \in Threads : Step(t) \/ SpuriousWakeup(t)
  \/ \E l \in LimitChoices : SetLimits(l[1], l[2])

Spec == Init /\ [][Next]_vars

\* A thread that is running goes on running, and gets the mutex when it wants
\* it.  No thread has to look anything up, nor to wake up by itself.
Fairness == \A t \in Threads : WF_vars(Step(t))

FairSpec == Spec /\ Fairness

-----------------------------------------------------------------------------
(* Properties.                                                             *)

\* The two lists are what SimpleLruCache says they are: every key once, the
\* keys of MainCache exactly those that have an entry, the ghosts bounded.
ListsOK ==
  /\ order \in Seq(Keys) /\ IsInjective(order)
  /\ ToSet(order) = {k \in Keys : slot[k] # NoEntry}
  /\ ghosts \in Seq([key : Keys, ghosted : 0 .. 2])
  /\ \A i, j \in DOMAIN ghosts : ghosts[i].key = ghosts[j].key => i = j
  /\ ghostCap \in Nat /\ Len(ghosts) <= ghostCap + 1
  /\ ghosted \in [Entries -> 0 .. 2]

\* lookup() hands out and waits on raw entry pointers.  As long as a caller
\* owns one or waits on one, the entry is still the one stored in MainCache
\* under the frame it asked for: no eviction, rollback or set_limits of
\* another thread has recycled it.
HandlesAreLive ==
  \A t \in Threads : pc[t] \in Locking =>
    /\ key[t] \in Keys
    /\ slot[key[t]] = ent[t]
    /\ ent[t] \in Entries
    /\ heap[ent[t]].key = key[t]

Lockers(e) == {t \in Threads : pc[t] \in Locking /\ ent[t] = e}

\* entry->locks is the number of callers that wait on the entry or own it:
\* no path through lookup, commit_value and rollback counts twice or forgets.
LockAccounting ==
  \A k \in Keys : slot[k] # NoEntry =>
    heap[slot[k]].locks = Cardinality(Lockers(slot[k]))

\* Single flight: an entry that is EMPTY has exactly one producer, any other
\* has none; so no frame is computed twice into one entry, and a reader never
\* shares an entry with a thread that is writing its value.
SingleProducer ==
  /\ \A s, t \in Threads :
       pc[s] \in Producing /\ pc[t] \in Producing /\ ent[s] = ent[t] => s = t
  /\ \A k \in Keys : slot[k] # NoEntry =>
       (heap[slot[k]].state = "EMPTY"
          <=> \E t \in Threads : pc[t] \in Producing /\ ent[t] = slot[k])

\* A rolled back entry always has a waiter left to take it over.
HeirExists ==
  \A k \in Keys :
    slot[k] # NoEntry /\ heap[slot[k]].state = "ROLLED_BACK" =>
      \E t \in Threads : pc[t] \in Waiting /\ ent[t] = slot[k]

\* No lookup is ever answered with the content of another frame, however the
\* entry storage is recycled.
RightFrame == got # None => got[2] \in {got[1], NULL}

\* An entry in MainCache is no other key's, carries its own key, and holds
\* nothing but that key's frame, or none yet; once committed it holds it.
EntriesOK ==
  /\ \A j, k \in Keys : slot[j] # NoEntry /\ slot[j] = slot[k] => j = k
  /\ \A k \in Keys : slot[k] # NoEntry =>
       /\ heap[slot[k]].key = k
       /\ heap[slot[k]].value \in {k, NULL}
       /\ heap[slot[k]].state = "AVAILABLE" => heap[slot[k]].value = k
  /\ \A t \in Threads : pc[t] = "filled" => heap[ent[t]].value = key[t]

\* The inductive invariant behind HandlesAreLive, SingleProducer, RightFrame.
IInv ==
  /\ TypeOK /\ EntriesOK /\ HandlesAreLive /\ LockAccounting
  /\ SingleProducer /\ HeirExists /\ RightFrame

\* A committed frame is final: while its entry stays in MainCache no thread
\* reopens it or changes what readers are given.
CommittedIsFinal ==
  [][\A k \in Keys :
       /\ slot[k] # NoEntry /\ slot'[k] # NoEntry
       /\ heap[slot[k]].state = "AVAILABLE"
       => /\ slot'[k] = slot[k]
          /\ heap'[slot[k]].state = "AVAILABLE"
          /\ heap'[slot[k]].value = heap[slot[k]].value]_vars

\* What callers can tell about the entry of frame k, and who waits for it.
EntryState(k) == IF slot[k] = NoEntry THEN "ABSENT" ELSE heap[slot[k]].state

WaitersFor(k) == {t \in Threads : pc[t] \in Waiting /\ key[t] = k}

Contract == INSTANCE FrameEntries WITH
  state <- [k \in Keys |-> EntryState(k)],
  waiting <- [k \in Keys |-> WaitersFor(k)]

\* lookup, commit_value, rollback, set_limits and the evictions they cause
\* implement the contract of FrameEntries: however lists are trimmed and
\* storage is recycled, a frame is computed once at a time, its entry never
\* goes while somebody waits for it, and a waiter leaves with a committed
\* frame or as the next producer.
KeepsContract == Contract!Spec

\* The enum comment on LRU_LOOKUP_FOUND_AND_READY ("Item has been found and
\* returned") and AvsCache::GetFrame's assert(result != NULL): a lookup that
\* reports success has a frame.
ReadyIsNotNull == got # None => got[2] # NULL

\* MainCache may exceed its capacity, but by no more than one entry per
\* thread: the trim of every insertion takes what is neither locked nor new.
SizeBound == Len(order) <= limits.real + Cardinality(Threads)

\* RealCapacity is what resize() makes of the other three fields.
LimitsOK == limits = Limits(limits.min, limits.max, limits.requested)

\* What keeps the lists in order on top of IInv: an evicted key has an entry
\* and none of its locks, and a key that has just come in is not evicted by the
\* second trim, since growing never takes the capacity to zero.
LInv == IInv /\ ListsOK /\ LimitsOK /\ SizeBound

\* A caller blocked in lookup() is always resolved: no notification is lost,
\* whichever way producers commit, roll back and hand over.
WaitersResolved ==
  \A t \in Threads : pc[t] \in Waiting ~> pc[t] \notin Waiting
=============================================================================
