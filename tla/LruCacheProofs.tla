--------------------------- MODULE LruCacheProofs ---------------------------
(***************************************************************************)
(* Proofs about LruCache, for any number of threads, frames and capacity.  *)
(***************************************************************************)
EXTENDS LruCache, ListLemmas, FiniteSetTheorems, SequenceTheorems, TLAPS

(* The callers that lock an entry are finitely many.                       *)
LEMMA LockersFinite ==
  ASSUME NEW e
  PROVE  /\ IsFiniteSet(Lockers(e))
         /\ Cardinality(Lockers(e)) \in Nat
  <1>1. Lockers(e) \in SUBSET Threads
    BY DEF Lockers
  <1>2. QED
    BY <1>1, FS_Subset, FS_CardinalityType, ThreadsAssumption

(* A caller that comes to lock entry e adds one to e's lockers.            *)
LEMMA Join ==
  ASSUME TypeOK, NEW t \in Threads, NEW e \in Entries, NEW w \in Locking,
         pc[t] \notin Locking,
         pc' = [pc EXCEPT ![t] = w], ent' = [ent EXCEPT ![t] = e]
  PROVE  /\ Cardinality(Lockers(e)') = Cardinality(Lockers(e)) + 1
         /\ \A d \in Entries : d # e => Lockers(d)' = Lockers(d)
  <1>1. Lockers(e)' = Lockers(e) \cup {t}
    BY DEF Lockers, TypeOK
  <1>2. t \notin Lockers(e)
    BY DEF Lockers
  <1>3. \A d \in Entries : d # e => Lockers(d)' = Lockers(d)
    BY DEF Lockers, TypeOK
  <1>4. Cardinality(Lockers(e) \cup {t}) = Cardinality(Lockers(e)) + 1
    BY <1>2, LockersFinite, FS_AddElement
  <1>5. QED
    BY <1>1, <1>3, <1>4

(* A caller that lets go of entry e takes one from e's lockers.            *)
LEMMA Leave ==
  ASSUME TypeOK, NEW t \in Threads, NEW e \in Entries,
         pc[t] \in Locking, ent[t] = e,
         \A s \in Threads \ {t} : pc'[s] = pc[s] /\ ent'[s] = ent[s],
         pc'[t] \notin Locking
  PROVE  /\ Cardinality(Lockers(e)) > 0
         /\ Cardinality(Lockers(e)') = Cardinality(Lockers(e)) - 1
         /\ \A d \in Entries : d # e => Lockers(d)' = Lockers(d)
  <1>1. Lockers(e)' = Lockers(e) \ {t}
    BY DEF Lockers
  <1>2. t \in Lockers(e)
    BY DEF Lockers
  <1>3. \A d \in Entries : d # e => Lockers(d)' = Lockers(d)
    BY DEF Lockers
  <1>4. Cardinality(Lockers(e) \ {t}) = Cardinality(Lockers(e)) - 1
    BY <1>2, LockersFinite, FS_RemoveElement
  <1>5. Cardinality(Lockers(e)) # 0
    BY <1>2, LockersFinite, FS_EmptySet
  <1>6. Cardinality(Lockers(e)) > 0
    BY <1>5, LockersFinite
  <1>7. QED
    BY <1>1, <1>3, <1>4, <1>6

(* Whoever locks an entry keeps its lock count above zero.                 *)
LEMMA LockedPositive ==
  ASSUME IInv, NEW t \in Threads, pc[t] \in Locking
  PROVE  heap[ent[t]].locks # 0
  <1>1. t \in Lockers(ent[t])
    BY DEF Lockers
  <1>2. Cardinality(Lockers(ent[t])) # 0
    BY <1>1, LockersFinite, FS_EmptySet
  <1>3. slot[key[t]] = ent[t] /\ key[t] \in Keys /\ ent[t] # NoEntry
    BY EntryAssumption DEF IInv, HandlesAreLive
  <1>4. QED
    BY <1>2, <1>3 DEF IInv, LockAccounting

(* Evicting unlocked entries leaves every locked entry, and every entry    *)
(* that stays, as it was.                                                  *)
LEMMA EvictionSpares ==
  ASSUME IInv, NEW V \in SUBSET Keys, \A v \in V : heap[slot[v]].locks = 0
  PROVE  /\ SlotsWithout(V) \in [Keys -> Entries \cup {NoEntry}]
         /\ HeapWithout(V) \in [Entries -> [key : Keys \cup {NULL},
                value : Keys \cup {NULL}, locks : Nat,
                state : {"EMPTY", "AVAILABLE", "ROLLED_BACK"}]]
         /\ \A k \in Keys : SlotsWithout(V)[k] # NoEntry =>
              /\ SlotsWithout(V)[k] = slot[k]
              /\ HeapWithout(V)[slot[k]] = heap[slot[k]]
         /\ \A t \in Threads : pc[t] \in Locking =>
              /\ SlotsWithout(V)[key[t]] = ent[t]
              /\ HeapWithout(V)[ent[t]] = heap[ent[t]]
  <1>1. SlotsWithout(V) \in [Keys -> Entries \cup {NoEntry}]
    BY DEF SlotsWithout, IInv, TypeOK
  <1>2. HeapWithout(V) \in [Entries -> [key : Keys \cup {NULL},
                value : Keys \cup {NULL}, locks : Nat,
                state : {"EMPTY", "AVAILABLE", "ROLLED_BACK"}]]
    BY DEF HeapWithout, Reset, IInv, TypeOK
  <1>3. ASSUME NEW k \in Keys, SlotsWithout(V)[k] # NoEntry
        PROVE  /\ SlotsWithout(V)[k] = slot[k]
               /\ HeapWithout(V)[slot[k]] = heap[slot[k]]
    <2>1. k \notin V /\ SlotsWithout(V)[k] = slot[k]
      BY <1>3 DEF SlotsWithout
    <2>2. slot[k] \in Entries
      BY <1>3, <2>1 DEF IInv, TypeOK
    <2>3. slot[k] \notin {slot[v] : v \in V}
      BY <2>1, <2>2, EntryAssumption DEF IInv, EntriesOK
    <2>4. QED
      BY <2>1, <2>2, <2>3 DEF HeapWithout
  <1>4. ASSUME NEW t \in Threads, pc[t] \in Locking
        PROVE  /\ SlotsWithout(V)[key[t]] = ent[t]
               /\ HeapWithout(V)[ent[t]] = heap[ent[t]]
    <2>1. key[t] \in Keys /\ slot[key[t]] = ent[t] /\ ent[t] \in Entries
      BY <1>4 DEF IInv, HandlesAreLive
    <2>2. \A v \in V : slot[v] # ent[t]
      BY <1>4, LockedPositive
    <2>3. SlotsWithout(V)[key[t]] = ent[t]
      BY <2>1, <2>2 DEF SlotsWithout
    <2>4. QED
      BY <2>1, <2>2, <2>3 DEF HeapWithout
  <1>5. QED
    BY <1>1, <1>2, <1>3, <1>4

(* What trim() may take is unlocked.                                       *)
LEMMA VictimsUnlocked ==
  ASSUME NEW ord, NEW cap
  PROVE  /\ Victims(ord, cap) \in SUBSET Keys
         /\ \A v \in Victims(ord, cap) : heap[slot[v]].locks = 0
  BY DEF Victims, Evictable

(* The capacity fields are natural numbers.                                *)
LEMMA LimitsType ==
  ASSUME NEW lo \in Nat, NEW hi \in Nat, NEW n \in Nat
  PROVE  Limits(lo, hi, n) \in [min : Nat, max : Nat, requested : Nat, real : Nat]
  BY DEF Limits, Clamp

(* A miss evicts only unlocked entries and leaves sane capacities.         *)
LEMMA MissFacts ==
  ASSUME TypeOK, NEW k \in Keys
  PROVE  /\ Miss(k).victims \in SUBSET Keys
         /\ \A v \in Miss(k).victims : heap[slot[v]].locks = 0
         /\ Miss(k).limits \in [min : Nat, max : Nat, requested : Nat, real : Nat]
         /\ Miss(k).suppress \in BOOLEAN
  <1>1. limits.min \in Nat /\ limits.max \in Nat /\ limits.real + 1 \in Nat
    BY DEF TypeOK
  <1>2. Limits(limits.min, limits.max, limits.real + 1)
          \in [min : Nat, max : Nat, requested : Nat, real : Nat]
    BY <1>1, LimitsType
  <1>3. Miss(k).limits \in {limits, Limits(limits.min, limits.max, limits.real + 1)}
    BY DEF Miss
  <1>4. \A v \in Miss(k).victims :
          \E ord, cap : v \in Victims(ord, cap)
    BY DEF Miss
  <1>5. Miss(k).suppress \in BOOLEAN
    BY DEF Miss
  <1>6. QED
    BY <1>2, <1>3, <1>4, <1>5, VictimsUnlocked DEF TypeOK

-----------------------------------------------------------------------------
(* The inductive invariant.                                                *)

(* A new cache satisfies the invariant.                                    *)
LEMMA InitIInv == Init => IInv
  <1> SUFFICES ASSUME Init PROVE IInv
    OBVIOUS
  <1> USE DEF Init
  <1>1. limits \in [min : Nat, max : Nat, requested : Nat, real : Nat]
    BY LimitsType, BoundAssumption
  <1>2. TypeOK
    BY <1>1, BoundAssumption DEF TypeOK, Reset, Answers, None
  <1>3. EntriesOK /\ HandlesAreLive /\ LockAccounting /\ SingleProducer /\ HeirExists
        /\ RightFrame
    BY DEF EntriesOK, HandlesAreLive, LockAccounting, SingleProducer, HeirExists,
       RightFrame, Locking, Producing, Waiting
  <1>4. QED
    BY <1>2, <1>3 DEF IInv

(* The part of a state the invariant depends on survives a step that       *)
(* evicts unlocked entries and moves no caller in or out of its role.      *)
LEMMA CallersAside ==
  ASSUME IInv, NEW V \in SUBSET Keys, \A v \in V : heap[slot[v]].locks = 0,
         slot' = SlotsWithout(V), heap' = HeapWithout(V), TypeOK', RightFrame',
         \A s \in Threads :
           \/ pc'[s] = pc[s]
           \/ pc'[s] \in Waiting /\ pc[s] \in Waiting
           \/ pc'[s] \notin Locking /\ pc[s] \notin Locking,
         \A s \in Threads : pc[s] \in Locking => key'[s] = key[s] /\ ent'[s] = ent[s]
  PROVE  IInv'
  <1>1. \A k \in Keys : slot'[k] # NoEntry =>
          slot'[k] = slot[k] /\ slot[k] \in Entries /\ heap'[slot[k]] = heap[slot[k]]
    BY EvictionSpares DEF IInv, TypeOK
  <1>2. \A t \in Threads : pc[t] \in Locking =>
          slot'[key[t]] = ent[t] /\ heap'[ent[t]] = heap[ent[t]]
    BY EvictionSpares
  <1>3. \A t \in Threads :
          /\ pc'[t] \in Locking <=> pc[t] \in Locking
          /\ pc'[t] \in Producing <=> pc[t] \in Producing
          /\ pc'[t] \in Waiting <=> pc[t] \in Waiting
          /\ pc'[t] = "filled" <=> pc[t] = "filled"
    BY DEF Locking, Producing, Waiting
  <1>4. \A t \in Threads : pc[t] \in Producing \/ pc[t] \in Waiting \/ pc[t] = "filled"
          => pc[t] \in Locking
    BY DEF Locking, Producing
  <1>5. EntriesOK'
    BY <1>1, <1>2, <1>3, <1>4 DEF IInv, EntriesOK
  <1>6. HandlesAreLive'
    BY <1>2, <1>3 DEF IInv, HandlesAreLive
  <1>7. LockAccounting'
    <2> SUFFICES ASSUME NEW k \in Keys, NEW e \in Entries, slot'[k] = e
                 PROVE  heap'[e].locks = Cardinality(Lockers(e)')
      BY EvictionSpares, <1>1 DEF LockAccounting, Lockers
    <2>1. Lockers(e)' = Lockers(e)
      BY <1>3 DEF Lockers
    <2>2. slot[k] = e /\ heap'[e] = heap[e] /\ e # NoEntry
      BY <1>1, EntryAssumption
    <2>3. QED
      BY <2>1, <2>2 DEF IInv, LockAccounting
  <1>8. SingleProducer'
    BY <1>1, <1>3, <1>4 DEF IInv, SingleProducer
  <1>9. HeirExists'
    BY <1>1, <1>3, <1>4 DEF IInv, HeirExists
  <1>10. QED
    BY <1>5, <1>6, <1>7, <1>8, <1>9 DEF IInv

(* The same for a step that leaves the cache itself alone.                 *)
LEMMA CacheAside ==
  ASSUME IInv, slot' = slot, heap' = heap, TypeOK', RightFrame',
         \A s \in Threads :
           \/ pc'[s] = pc[s]
           \/ pc'[s] \in Waiting /\ pc[s] \in Waiting
           \/ pc'[s] \notin Locking /\ pc[s] \notin Locking,
         \A s \in Threads : pc[s] \in Locking => key'[s] = key[s] /\ ent'[s] = ent[s]
  PROVE  IInv'
  <1>1. slot = SlotsWithout({}) /\ heap = HeapWithout({})
    BY DEF SlotsWithout, HeapWithout, IInv, TypeOK
  <1>2. QED
    BY <1>1, CallersAside

(* A committed or rolled back entry hands out its key's frame, or none.    *)
LEMMA ValueType ==
  ASSUME IInv, NEW k \in Keys, slot[k] # NoEntry
  PROVE  /\ slot[k] \in Entries
         /\ heap[slot[k]].value \in {k, NULL}
         /\ <<k, heap[slot[k]].value>> \in Answers
  BY DEF IInv, TypeOK, EntriesOK, Answers

(* lookup() outcomes that lock nothing: ready, not available, suppressed.  *)
LEMMA LookupAsideIInv ==
  ASSUME IInv, NEW t \in Threads, NEW k \in Keys, NEW block \in BOOLEAN,
         \/ LookupReady(t, k, block) \/ LookupNotAvailable(t, k)
         \/ LookupSuppressed(t, k)
  PROVE  IInv'
  <1> USE DEF LookupReady, LookupNotAvailable, LookupSuppressed, Return, cacheVars
  <1>1. slot' = slot /\ heap' = heap /\ limits' = limits /\ failures' = failures
    OBVIOUS
  <1>2. pc[t] = "idle" /\ pc' = [pc EXCEPT ![t] = "idle"]
        /\ key' = [key EXCEPT ![t] = NULL] /\ ent' = [ent EXCEPT ![t] = NoEntry]
        /\ suppressCaching' = [suppressCaching EXCEPT ![t] = FALSE]
    OBVIOUS
  <1>3. \/ got' = None
        \/ slot[k] # NoEntry /\ got' = <<k, heap[slot[k]].value>>
    OBVIOUS
  <1>4. got' \in Answers /\ RightFrame'
    BY <1>3, ValueType DEF RightFrame, Answers, None
  <1>5. TypeOK'
    BY <1>1, <1>2, <1>4 DEF IInv, TypeOK
  <1>6. "idle" \notin Locking
    BY DEF Locking, Waiting, Producing
  <1>7. \A s \in Threads : pc'[s] = pc[s]
    BY <1>2 DEF IInv, TypeOK
  <1>8. \A s \in Threads : pc[s] \in Locking => key'[s] = key[s] /\ ent'[s] = ent[s]
    BY <1>2, <1>6 DEF IInv, TypeOK
  <1>9. QED
    BY <1>1, <1>4, <1>5, <1>7, <1>8, CacheAside

(* lookup() that starts to wait: one more locker, one more lock.           *)
LEMMA LookupWaitIInv ==
  ASSUME IInv, NEW t \in Threads, NEW k \in Keys, NEW b \in BOOLEAN,
         LookupWait(t, k, b)
  PROVE  IInv'
  <1> USE DEF LookupWait, Enter
  <1>1. PICK e \in Entries : slot[k] = e /\ e # NoEntry
    BY EntryAssumption DEF IInv, TypeOK
  <1>2. heap' = [heap EXCEPT ![e].locks = @ + 1] /\ slot' = slot
        /\ heap[e].state = "EMPTY" /\ pc[t] = "idle"
        /\ pc' = [pc EXCEPT ![t] = "waiting"] /\ ent' = [ent EXCEPT ![t] = e]
    BY <1>1
  <1>3. "idle" \notin Locking /\ "waiting" \in Locking /\ "waiting" \in Waiting
        /\ "waiting" \notin Producing /\ "idle" \notin Producing
        /\ "idle" \notin Waiting
    BY DEF Locking, Waiting, Producing
  <1>4. /\ Cardinality(Lockers(e)') = Cardinality(Lockers(e)) + 1
        /\ \A d \in Entries : d # e => Lockers(d)' = Lockers(d)
    <2> HIDE DEF LookupWait, Enter
    <2> QED
      BY <1>2, <1>3, Join DEF IInv
  <1>5. TypeOK'
    BY <1>1, <1>2, <1>3 DEF IInv, TypeOK, Answers
  <1>6. RightFrame'
    BY DEF RightFrame
  <1>7. \A d \in Entries : /\ heap'[d].key = heap[d].key
                           /\ heap'[d].value = heap[d].value
                           /\ heap'[d].state = heap[d].state
                           /\ d # e => heap'[d] = heap[d]
    BY <1>2 DEF IInv, TypeOK
  <1>8. heap'[e].locks = heap[e].locks + 1
    BY <1>2 DEF IInv, TypeOK
  <1>9. \A s \in Threads : s # t => pc'[s] = pc[s] /\ key'[s] = key[s] /\ ent'[s] = ent[s]
    BY DEF IInv, TypeOK
  <1>10. pc'[t] = "waiting" /\ key'[t] = k /\ ent'[t] = e
    BY <1>1 DEF IInv, TypeOK
  <1>11. \A s \in Threads : pc[s] \in Locking => ent[s] \in Entries
    BY DEF IInv, HandlesAreLive
  <1>12. \A j \in Keys : slot[j] # NoEntry => slot[j] \in Entries
    BY DEF IInv, TypeOK
  <1>13. EntriesOK'
    BY <1>2, <1>7, <1>9, <1>10, <1>11, <1>12 DEF IInv, EntriesOK, Locking, Producing
  <1>14. HandlesAreLive'
    BY <1>1, <1>2, <1>7, <1>9, <1>10 DEF IInv, HandlesAreLive, EntriesOK
  <1>15. LockAccounting'
    <2> SUFFICES ASSUME NEW j \in Keys, NEW d \in Entries, slot'[j] = d
                 PROVE  heap'[d].locks = Cardinality(Lockers(d)')
      BY <1>2, <1>12 DEF LockAccounting, Lockers
    <2>1. heap[d].locks = Cardinality(Lockers(d))
      BY <1>2, EntryAssumption DEF IInv, LockAccounting
    <2> HIDE DEF LookupWait, Enter
    <2>2. CASE d = e
      BY <2>1, <2>2, <1>4, <1>8
    <2>3. CASE d # e
      <3>1. heap'[d] = heap[d] /\ Lockers(d)' = Lockers(d)
        BY <2>3, <1>4, <1>7
      <3>2. QED
        BY <2>1, <3>1
    <2>4. QED
      BY <2>2, <2>3
  <1>16. SingleProducer'
    BY <1>2, <1>3, <1>7, <1>9, <1>10, <1>12 DEF IInv, SingleProducer
  <1>17. HeirExists'
    BY <1>2, <1>3, <1>7, <1>9, <1>12 DEF IInv, HeirExists
  <1>18. QED
    BY <1>5, <1>6, <1>13, <1>14, <1>15, <1>16, <1>17 DEF IInv

(* lookup() that misses: evictions, then a fresh entry with one producer.  *)
LEMMA LookupMissIInv ==
  ASSUME IInv, NEW t \in Threads, NEW k \in Keys, LookupMiss(t, k)
  PROVE  IInv'
  <1>1. PICK V \in SUBSET Keys : V = Miss(k).victims
                               /\ \A v \in V : heap[slot[v]].locks = 0
    BY MissFacts DEF IInv
  <1>2. Miss(k).suppress \in BOOLEAN
        /\ limits' \in [min : Nat, max : Nat, requested : Nat, real : Nat]
        /\ failures' = failures /\ pc[t] = "idle" /\ slot[k] = NoEntry
    BY MissFacts DEF IInv, LookupMiss
  <1>3. "idle" \notin Locking /\ "producing" \in Locking /\ "producing" \in Producing
        /\ "producing" \notin Waiting /\ "idle" \notin Producing
        /\ "idle" \notin Waiting
    BY DEF Locking, Waiting, Producing
  <1>4. CASE ~Miss(k).stored
    <2>1. slot' = SlotsWithout(V) /\ heap' = HeapWithout(V) /\ Return(t, None)
      BY <1>1, <1>4 DEF LookupMiss
    <2> USE DEF Return
    <2>2. RightFrame'
      BY <2>1 DEF RightFrame
    <2>3. TypeOK'
      BY <1>1, <1>2, <2>1, EvictionSpares DEF IInv, TypeOK, Answers
    <2>4. \A s \in Threads : pc'[s] = pc[s]
      BY <1>2, <2>1 DEF IInv, TypeOK
    <2>5. \A s \in Threads : pc[s] \in Locking => key'[s] = key[s] /\ ent'[s] = ent[s]
      BY <1>2, <1>3, <2>1 DEF IInv, TypeOK
    <2>6. QED
      BY <1>1, <2>1, <2>2, <2>3, <2>4, <2>5, CallersAside
  <1>5. CASE Miss(k).stored
    <2>1. PICK e \in Entries \ {SlotsWithout(V)[j] : j \in Keys} :
             /\ slot' = [SlotsWithout(V) EXCEPT ![k] = e]
             /\ heap' = [HeapWithout(V) EXCEPT ![e] = [Reset(k) EXCEPT !.locks = 1]]
             /\ Enter(t, "producing", k, e, Miss(k).suppress)
      BY <1>1, <1>5 DEF LookupMiss
    <2>2. /\ pc' = [pc EXCEPT ![t] = "producing"]
          /\ key' = [key EXCEPT ![t] = k]
          /\ ent' = [ent EXCEPT ![t] = e]
          /\ got' = None
          /\ suppressCaching' = [suppressCaching EXCEPT ![t] = Miss(k).suppress]
      BY <2>1 DEF Enter
    <2>3. /\ SlotsWithout(V) \in [Keys -> Entries \cup {NoEntry}]
          /\ HeapWithout(V) \in [Entries -> [key : Keys \cup {NULL},
                value : Keys \cup {NULL}, locks : Nat,
                state : {"EMPTY", "AVAILABLE", "ROLLED_BACK"}]]
          /\ \A j \in Keys : SlotsWithout(V)[j] # NoEntry =>
              /\ SlotsWithout(V)[j] = slot[j]
              /\ HeapWithout(V)[slot[j]] = heap[slot[j]]
          /\ \A s \in Threads : pc[s] \in Locking =>
              /\ SlotsWithout(V)[key[s]] = ent[s]
              /\ HeapWithout(V)[ent[s]] = heap[ent[s]]
      BY <1>1, EvictionSpares
    <2>4. e \in Entries /\ e # NoEntry /\ \A j \in Keys : SlotsWithout(V)[j] # e
      BY <2>1, EntryAssumption
    <2>5. slot'[k] = e /\ \A j \in Keys : j # k => slot'[j] = SlotsWithout(V)[j]
      BY <2>1, <2>3
    <2>6. /\ heap'[e] = [Reset(k) EXCEPT !.locks = 1]
          /\ \A d \in Entries : d # e => heap'[d] = HeapWithout(V)[d]
      BY <2>1, <2>3, <2>4
    <2>7. heap'[e].key = k /\ heap'[e].value = NULL /\ heap'[e].locks = 1
          /\ heap'[e].state = "EMPTY"
          /\ heap'[e] \in [key : Keys \cup {NULL}, value : Keys \cup {NULL},
                locks : Nat, state : {"EMPTY", "AVAILABLE", "ROLLED_BACK"}]
      BY <2>6 DEF Reset
    <2>8. TypeOK'
      <3>1. heap' \in [Entries -> [key : Keys \cup {NULL}, value : Keys \cup {NULL},
                locks : Nat, state : {"EMPTY", "AVAILABLE", "ROLLED_BACK"}]]
        BY <2>1, <2>3, <2>6, <2>7
      <3>2. slot' \in [Keys -> Entries \cup {NoEntry}]
        BY <2>1, <2>3
      <3>3. QED
        BY <1>2, <1>3, <2>2, <2>4, <3>1, <3>2 DEF IInv, TypeOK, Answers
    <2>9. \A s \in Threads : s # t =>
            pc'[s] = pc[s] /\ key'[s] = key[s] /\ ent'[s] = ent[s]
      BY <2>2 DEF IInv, TypeOK
    <2>10. pc'[t] = "producing" /\ key'[t] = k /\ ent'[t] = e
      BY <2>2 DEF IInv, TypeOK
    <2>11. \A s \in Threads : pc[s] \in Locking =>
             /\ key[s] \in Keys /\ key[s] # k /\ ent[s] \in Entries /\ ent[s] # e
             /\ slot'[key[s]] = ent[s] /\ heap'[ent[s]] = heap[ent[s]]
      BY <1>2, <2>3, <2>4, <2>5, <2>6, EntryAssumption DEF IInv, HandlesAreLive
    <2>12. \A j \in Keys : j # k /\ slot'[j] # NoEntry =>
             /\ slot'[j] = slot[j] /\ slot[j] \in Entries /\ slot[j] # e
             /\ heap'[slot[j]] = heap[slot[j]]
      BY <2>3, <2>4, <2>5, <2>6 DEF IInv, TypeOK
    <2>13. EntriesOK'
      BY <2>5, <2>7, <2>9, <2>10, <2>11, <2>12 DEF IInv, EntriesOK, Locking, Producing
    <2>14. HandlesAreLive'
      BY <2>4, <2>5, <2>7, <2>9, <2>10, <2>11 DEF IInv, HandlesAreLive
    <2>15. LockAccounting'
      <3> SUFFICES ASSUME NEW j \in Keys, NEW d \in Entries, slot'[j] = d
                   PROVE  heap'[d].locks = Cardinality(Lockers(d)')
        BY <2>8 DEF LockAccounting, Lockers, TypeOK
      <3>1. /\ Cardinality(Lockers(e)') = Cardinality(Lockers(e)) + 1
            /\ \A c \in Entries : c # e => Lockers(c)' = Lockers(c)
        BY <1>2, <1>3, <2>2, <2>4, Join DEF IInv
      <3>2. CASE j = k
        <4>1. Lockers(e) = {}
          BY <2>11 DEF Lockers
        <4>2. QED
          BY <3>1, <3>2, <4>1, <2>5, <2>7, FS_EmptySet
      <3>3. CASE j # k
        <4>1. slot[j] = d /\ d # e /\ d # NoEntry /\ heap'[d] = heap[d]
          BY <3>3, <2>12, EntryAssumption
        <4>2. QED
          BY <3>1, <4>1 DEF IInv, LockAccounting
      <3>4. QED
        BY <3>2, <3>3
    <2>16. SingleProducer'
      <3>1. \A s \in Threads : pc[s] \in Producing => pc[s] \in Locking
        BY DEF Locking
      <3>2. QED
        BY <1>2, <1>3, <2>5, <2>7, <2>9, <2>10, <2>11, <2>12, <3>1
           DEF IInv, SingleProducer
    <2>17. HeirExists'
      <3>1. \A s \in Threads : pc[s] \in Waiting => pc[s] \in Locking
        BY DEF Locking
      <3>2. QED
        BY <1>2, <1>3, <2>5, <2>7, <2>9, <2>12, <3>1 DEF IInv, HeirExists
    <2>18. RightFrame'
      BY <2>2 DEF RightFrame
    <2>19. QED
      BY <2>8, <2>13, <2>14, <2>15, <2>16, <2>17, <2>18 DEF IInv
  <1>6. QED
    BY <1>4, <1>5

(* Steps in which a caller only wakes up, goes back to sleep or notifies.  *)
LEMMA WakeupIInv ==
  ASSUME IInv, NEW t \in Threads,
         SpuriousWakeup(t) \/ WaitAgain(t) \/ NotifyAll(t) \/ NotifyOne(t)
  PROVE  IInv'
  <1> USE DEF SpuriousWakeup, WaitAgain, NotifyAll, NotifyOne, cacheVars
  <1>1. slot' = slot /\ heap' = heap /\ limits' = limits /\ failures' = failures
        /\ got' = got
    OBVIOUS
  <1>2. {"waiting", "woken"} \subseteq Waiting /\ Waiting \subseteq Locking
        /\ {"idle", "notifyAll", "notifyOne"} \cap Locking = {}
    BY DEF Locking, Waiting, Producing
  <1>3. /\ pc' \in [Threads -> {"idle"} \cup Locking \cup Notifying]
        /\ \A s \in Threads :
             \/ pc'[s] = pc[s]
             \/ pc'[s] \in Waiting /\ pc[s] \in Waiting
             \/ pc'[s] \notin Locking /\ pc[s] \notin Locking
    <2>1. CASE SpuriousWakeup(t) \/ WaitAgain(t)
      BY <2>1, <1>2 DEF IInv, TypeOK
    <2>2. CASE NotifyAll(t)
      BY <2>2, <1>2 DEF IInv, TypeOK
    <2>3. CASE NotifyOne(t)
      BY <2>3, <1>2 DEF IInv, TypeOK
    <2>4. QED
      BY <2>1, <2>2, <2>3
  <1>4. \/ UNCHANGED <<key, ent, suppressCaching>>
        \/ /\ pc[t] \in {"notifyAll", "notifyOne"}
           /\ key' = [key EXCEPT ![t] = NULL] /\ ent' = [ent EXCEPT ![t] = NoEntry]
           /\ suppressCaching' = [suppressCaching EXCEPT ![t] = FALSE]
    OBVIOUS
  <1>5. TypeOK' /\ RightFrame'
    BY <1>1, <1>3, <1>4 DEF IInv, TypeOK, RightFrame
  <1>6. \A s \in Threads : pc[s] \in Locking => key'[s] = key[s] /\ ent'[s] = ent[s]
    BY <1>2, <1>4 DEF IInv, TypeOK
  <1>7. QED
    BY <1>1, <1>3, <1>5, <1>6, CacheAside

(* set_limits() only evicts.                                               *)
LEMMA SetLimitsIInv ==
  ASSUME IInv, NEW lo \in Nat, NEW hi \in Nat, SetLimits(lo, hi)
  PROVE  IInv'
  <1>1. PICK V \in SUBSET Keys : /\ \A v \in V : heap[slot[v]].locks = 0
                               /\ slot' = SlotsWithout(V)
                               /\ heap' = HeapWithout(V)
    BY VictimsUnlocked DEF SetLimits
  <1>2. limits' = Limits(lo, hi, limits.requested)
        /\ UNCHANGED <<pc, key, ent, got, suppressCaching, failures>>
    BY DEF SetLimits, callerVars
  <1>3. limits.requested \in Nat
    BY DEF IInv, TypeOK
  <1>4. limits' \in [min : Nat, max : Nat, requested : Nat, real : Nat]
    BY <1>2, <1>3, LimitsType
  <1>5. TypeOK' /\ RightFrame'
    BY <1>1, <1>2, <1>4, EvictionSpares DEF IInv, TypeOK, RightFrame
  <1>6. QED
    BY <1>1, <1>2, <1>5, CallersAside

(* What a caller that locks an entry may rely on.                          *)
LEMMA HandleFacts ==
  ASSUME IInv, NEW t \in Threads, pc[t] \in Locking
  PROVE  \E e \in Entries, k \in Keys :
           /\ ent[t] = e /\ key[t] = k /\ slot[k] = e /\ e # NoEntry
           /\ heap[e].key = k /\ heap[e].value \in {k, NULL}
           /\ heap[e].locks = Cardinality(Lockers(e)) /\ heap[e].locks \in Nat
           /\ \A j \in Keys : slot[j] = e => j = k
           /\ \A s \in Threads : pc[s] \in Locking /\ ent[s] = e => key[s] = k
  BY EntryAssumption DEF IInv, TypeOK, EntriesOK, HandlesAreLive, LockAccounting

(* A waiter takes a rolled back entry over, with the lock it already has.  *)
LEMMA TakeOverIInv ==
  ASSUME IInv, NEW t \in Threads, TakeOver(t)
  PROVE  IInv'
  <1>1. pc[t] = "woken" /\ heap[ent[t]].state = "ROLLED_BACK"
        /\ UNCHANGED <<slot, limits, key, ent, got, suppressCaching, failures>>
        /\ pc' = [pc EXCEPT ![t] = "producing"]
        /\ heap' = [heap EXCEPT ![ent[t]].state = "EMPTY"]
    BY DEF TakeOver, cacheVars
  <1>2. "woken" \in Locking /\ "producing" \in Locking /\ "producing" \in Producing
        /\ "producing" \notin Waiting /\ "woken" \in Waiting
        /\ "woken" \notin Producing /\ Producing \subseteq Locking
        /\ Waiting \subseteq Locking
    BY DEF Locking, Waiting, Producing
  <1>3. PICK e \in Entries, k \in Keys :
          /\ ent[t] = e /\ key[t] = k /\ slot[k] = e /\ e # NoEntry
          /\ heap[e].key = k /\ heap[e].value \in {k, NULL}
          /\ \A j \in Keys : slot[j] = e => j = k
    BY <1>1, <1>2, HandleFacts
  <1>4. /\ heap'[e].state = "EMPTY" /\ heap'[e].key = heap[e].key
        /\ heap'[e].value = heap[e].value /\ heap'[e].locks = heap[e].locks
        /\ \A d \in Entries : d # e => heap'[d] = heap[d]
    BY <1>1, <1>3 DEF IInv, TypeOK
  <1>5. pc'[t] = "producing" /\ \A s \in Threads : s # t => pc'[s] = pc[s]
    BY <1>1 DEF IInv, TypeOK
  <1>6. \A s \in Threads : pc[s] \in Producing => ent[s] # e
    BY <1>1, <1>3 DEF IInv, SingleProducer
  <1>7. \A j \in Keys : slot[j] # NoEntry => slot[j] \in Entries
    BY DEF IInv, TypeOK
  <1>8. \A s \in Threads : pc[s] \in Locking => ent[s] \in Entries
    BY DEF IInv, HandlesAreLive
  <1>9. TypeOK' /\ RightFrame'
    BY <1>1, <1>2, <1>3 DEF IInv, TypeOK, RightFrame
  <1>10. EntriesOK'
    BY <1>1, <1>3, <1>4, <1>5, <1>7, <1>8 DEF IInv, EntriesOK, Locking, Producing
  <1>11. HandlesAreLive'
    BY <1>1, <1>2, <1>3, <1>4, <1>5 DEF IInv, HandlesAreLive
  <1>12. LockAccounting'
    <2> SUFFICES ASSUME NEW j \in Keys, NEW d \in Entries, slot'[j] = d
                 PROVE  heap'[d].locks = Cardinality(Lockers(d)')
      BY <1>1, <1>7 DEF LockAccounting, Lockers
    <2>1. Lockers(d)' = Lockers(d)
      BY <1>1, <1>2, <1>5 DEF Lockers
    <2>2. heap'[d].locks = heap[d].locks
      BY <1>4
    <2>3. QED
      BY <1>1, <2>1, <2>2, EntryAssumption DEF IInv, LockAccounting
  <1>13. SingleProducer'
    BY <1>1, <1>2, <1>3, <1>4, <1>5, <1>6, <1>7 DEF IInv, SingleProducer
  <1>14. HeirExists'
    BY <1>1, <1>2, <1>3, <1>4, <1>5, <1>7 DEF IInv, HeirExists
  <1>15. QED
    BY <1>9, <1>10, <1>11, <1>12, <1>13, <1>14 DEF IInv

(* A waiter finds the value and gives its lock up.                         *)
LEMMA WaitOverIInv ==
  ASSUME IInv, NEW t \in Threads, WaitOver(t)
  PROVE  IInv'
  <1>1. /\ pc[t] = "woken" /\ heap[ent[t]].state = "AVAILABLE"
        /\ UNCHANGED <<slot, limits, failures>>
        /\ heap' = [heap EXCEPT ![ent[t]].locks = @ - 1]
        /\ pc' = [pc EXCEPT ![t] = "idle"] /\ key' = [key EXCEPT ![t] = NULL]
        /\ ent' = [ent EXCEPT ![t] = NoEntry]
        /\ suppressCaching' = [suppressCaching EXCEPT ![t] = FALSE]
        /\ got' = <<key[t], heap[ent[t]].value>>
    BY DEF WaitOver, Return, cacheVars
  <1>2. "woken" \in Locking /\ "woken" \in Waiting /\ "woken" \notin Producing
        /\ "idle" \notin Locking /\ "idle" \notin Producing /\ "idle" \notin Waiting
        /\ "filled" \in Locking
    BY DEF Locking, Waiting, Producing
  <1>3. PICK e \in Entries, k \in Keys :
          /\ ent[t] = e /\ key[t] = k /\ slot[k] = e /\ e # NoEntry
          /\ heap[e].key = k /\ heap[e].value \in {k, NULL}
          /\ heap[e].locks = Cardinality(Lockers(e)) /\ heap[e].locks \in Nat
    BY <1>1, <1>2, HandleFacts
  <1>4. pc'[t] = "idle" /\ \A s \in Threads : s # t =>
          pc'[s] = pc[s] /\ key'[s] = key[s] /\ ent'[s] = ent[s]
    BY <1>1 DEF IInv, TypeOK
  <1>5. /\ Cardinality(Lockers(e)) > 0
        /\ Cardinality(Lockers(e)') = Cardinality(Lockers(e)) - 1
        /\ \A d \in Entries : d # e => Lockers(d)' = Lockers(d)
    BY <1>1, <1>2, <1>3, <1>4, Leave DEF IInv
  <1>6. heap[e].locks - 1 \in Nat
    BY <1>3, <1>5
  <1>7. /\ heap'[e].locks = heap[e].locks - 1
        /\ \A d \in Entries : /\ heap'[d].key = heap[d].key
                              /\ heap'[d].value = heap[d].value
                              /\ heap'[d].state = heap[d].state
                              /\ d # e => heap'[d] = heap[d]
    BY <1>1, <1>3 DEF IInv, TypeOK
  <1>8. heap' \in [Entries -> [key : Keys \cup {NULL}, value : Keys \cup {NULL},
              locks : Nat, state : {"EMPTY", "AVAILABLE", "ROLLED_BACK"}]]
    BY <1>1, <1>3, <1>6 DEF IInv, TypeOK
  <1>9. got' \in Answers /\ RightFrame'
    BY <1>1, <1>3 DEF RightFrame, Answers
  <1>10. TypeOK'
    BY <1>1, <1>8, <1>9 DEF IInv, TypeOK
  <1>11. \A j \in Keys : slot[j] # NoEntry => slot[j] \in Entries
    BY DEF IInv, TypeOK
  <1>12. \A s \in Threads : pc[s] \in Locking => ent[s] \in Entries
    BY DEF IInv, HandlesAreLive
  <1>13. EntriesOK'
    BY <1>1, <1>2, <1>4, <1>7, <1>11, <1>12 DEF IInv, EntriesOK
  <1>14. HandlesAreLive'
    BY <1>1, <1>2, <1>4, <1>7, <1>12 DEF IInv, HandlesAreLive
  <1>15. LockAccounting'
    <2> SUFFICES ASSUME NEW j \in Keys, NEW d \in Entries, slot'[j] = d
                 PROVE  heap'[d].locks = Cardinality(Lockers(d)')
      BY <1>1, <1>11 DEF LockAccounting, Lockers
    <2>1. heap[d].locks = Cardinality(Lockers(d))
      BY <1>1, EntryAssumption DEF IInv, LockAccounting
    <2>2. QED
      BY <2>1, <1>5, <1>7
  <1>16. SingleProducer'
    BY <1>1, <1>2, <1>4, <1>7, <1>11 DEF IInv, SingleProducer
  <1>17. HeirExists'
    BY <1>1, <1>2, <1>3, <1>4, <1>7, <1>11 DEF IInv, HeirExists
  <1>18. QED
    BY <1>9, <1>10, <1>13, <1>14, <1>15, <1>16, <1>17 DEF IInv

(* The producer writes the value; nobody else reads or writes it.          *)
LEMMA FillIInv ==
  ASSUME IInv, NEW t \in Threads, Fill(t)
  PROVE  IInv'
  <1>1. /\ pc[t] = "producing"
        /\ UNCHANGED <<slot, limits, key, ent, got, suppressCaching, failures>>
        /\ heap' = [heap EXCEPT ![ent[t]].value = key[t]]
        /\ pc' = [pc EXCEPT ![t] = "filled"]
    BY DEF Fill, cacheVars
  <1>2. {"producing", "filled"} \subseteq Producing /\ Producing \subseteq Locking
        /\ Waiting \cap Producing = {}
    BY DEF Locking, Waiting, Producing
  <1>3. PICK e \in Entries, k \in Keys :
          /\ ent[t] = e /\ key[t] = k /\ slot[k] = e /\ e # NoEntry
          /\ heap[e].key = k /\ \A j \in Keys : slot[j] = e => j = k
          /\ \A s \in Threads : pc[s] \in Locking /\ ent[s] = e => key[s] = k
    BY <1>1, <1>2, HandleFacts
  <1>4. /\ heap'[e].value = k /\ heap'[e].key = heap[e].key
        /\ heap'[e].state = heap[e].state /\ heap'[e].locks = heap[e].locks
        /\ \A d \in Entries : d # e => heap'[d] = heap[d]
    BY <1>1, <1>3 DEF IInv, TypeOK
  <1>5. pc'[t] = "filled" /\ \A s \in Threads : s # t => pc'[s] = pc[s]
    BY <1>1 DEF IInv, TypeOK
  <1>6. \A s \in Threads : /\ pc'[s] \in Producing <=> pc[s] \in Producing
                           /\ pc'[s] \in Waiting <=> pc[s] \in Waiting
                           /\ pc'[s] \in Locking <=> pc[s] \in Locking
    BY <1>1, <1>2, <1>5
  <1>7. \A j \in Keys : slot[j] # NoEntry => slot[j] \in Entries
    BY DEF IInv, TypeOK
  <1>8. \A s \in Threads : pc[s] \in Locking => ent[s] \in Entries
    BY DEF IInv, HandlesAreLive
  <1>9. TypeOK' /\ RightFrame'
    BY <1>1, <1>2, <1>3 DEF IInv, TypeOK, RightFrame
  <1>10. EntriesOK'
    BY <1>1, <1>2, <1>3, <1>4, <1>5, <1>7, <1>8 DEF IInv, EntriesOK
  <1>11. HandlesAreLive'
    BY <1>1, <1>3, <1>4, <1>6 DEF IInv, HandlesAreLive
  <1>12. LockAccounting'
    <2> SUFFICES ASSUME NEW j \in Keys, NEW d \in Entries, slot'[j] = d
                 PROVE  heap'[d].locks = Cardinality(Lockers(d)')
      BY <1>1, <1>7 DEF LockAccounting, Lockers
    <2>1. Lockers(d)' = Lockers(d)
      BY <1>1, <1>6 DEF Lockers
    <2>2. QED
      BY <1>1, <1>4, <2>1, EntryAssumption DEF IInv, LockAccounting
  <1>13. SingleProducer'
    BY <1>1, <1>4, <1>6, <1>7 DEF IInv, SingleProducer
  <1>14. HeirExists'
    BY <1>1, <1>4, <1>6, <1>7 DEF IInv, HeirExists
  <1>15. QED
    BY <1>9, <1>10, <1>11, <1>12, <1>13, <1>14 DEF IInv

(* Only its producer locks an entry whose lock count is one; if the count  *)
(* is higher, some other caller waits on it.                               *)
LEMMA OtherLockers ==
  ASSUME IInv, NEW t \in Threads, NEW e \in Entries, NEW k \in Keys,
         pc[t] \in Producing, ent[t] = e, slot[k] = e
  PROVE  /\ heap[e].locks = 1 =>
              \A s \in Threads : pc[s] \in Locking /\ ent[s] = e => s = t
         /\ heap[e].locks > 1 =>
              \E s \in Threads : s # t /\ pc[s] \in Waiting /\ ent[s] = e
  <1>1. t \in Lockers(e) /\ heap[e].locks = Cardinality(Lockers(e))
    BY EntryAssumption DEF IInv, LockAccounting, Lockers, Locking
  <1>2. /\ IsFiniteSet(Lockers(e)) /\ IsFiniteSet(Lockers(e) \ {t})
        /\ Cardinality(Lockers(e) \ {t}) = Cardinality(Lockers(e)) - 1
    BY <1>1, LockersFinite, FS_RemoveElement
  <1>3. ASSUME heap[e].locks = 1, NEW s \in Threads, pc[s] \in Locking, ent[s] = e
        PROVE  s = t
    <2>1. Lockers(e) \ {t} = {}
      BY <1>1, <1>2, <1>3, FS_EmptySet
    <2>2. s \in Lockers(e)
      BY <1>3 DEF Lockers
    <2>3. QED
      BY <2>1, <2>2
  <1>4. ASSUME heap[e].locks > 1
        PROVE  \E s \in Threads : s # t /\ pc[s] \in Waiting /\ ent[s] = e
    <2>1. Cardinality(Lockers(e) \ {t}) # 0
      BY <1>1, <1>2, <1>4, LockersFinite
    <2>2. Lockers(e) \ {t} # {}
      BY <2>1, FS_EmptySet
    <2>3. PICK s \in Threads : s # t /\ pc[s] \in Locking /\ ent[s] = e
      BY <2>2 DEF Lockers
    <2>4. pc[s] \notin Producing
      BY <2>3 DEF IInv, SingleProducer
    <2>5. QED
      BY <2>3, <2>4 DEF Locking
  <1>5. QED
    BY <1>3, <1>4

(* The producer gives its lock up, committing or handing over.             *)
LEMMA ProducerLeaves ==
  ASSUME IInv, NEW t \in Threads, NEW e \in Entries, NEW k \in Keys,
         NEW w \in Notifying, NEW st \in {"AVAILABLE", "ROLLED_BACK"},
         pc[t] \in Producing, ent[t] = e, key[t] = k,
         st = "AVAILABLE" => heap[e].value = k,
         st = "ROLLED_BACK" => heap[e].locks > 1,
         heap'[e].state = st, heap'[e].locks = heap[e].locks - 1,
         heap'[e].key = heap[e].key, heap'[e].value = heap[e].value,
         \A d \in Entries : d # e => heap'[d] = heap[d],
         pc'[t] = w, \A s \in Threads : s # t => pc'[s] = pc[s],
         slot' = slot, key' = key, ent' = ent, TypeOK', RightFrame'
  PROVE  IInv'
  <1>1. pc[t] \in Locking /\ w \notin Locking /\ w \notin Producing
        /\ w \notin Waiting /\ "filled" \in Producing /\ Producing \subseteq Locking
        /\ Waiting \subseteq Locking /\ w # "filled"
        /\ \A x \in Waiting : x \notin Producing
    BY DEF Locking, Waiting, Producing, Notifying
  <1>2. slot[k] = e /\ e # NoEntry /\ heap[e].key = k
        /\ \A j \in Keys : slot[j] = e => j = k
    BY <1>1, EntryAssumption DEF IInv, HandlesAreLive, EntriesOK
  <1>3. \A j \in Keys : slot[j] # NoEntry => slot[j] \in Entries
    BY DEF IInv, TypeOK
  <1>4. \A s \in Threads : pc[s] \in Locking => ent[s] \in Entries
    BY DEF IInv, HandlesAreLive
  <1>5. \A d \in Entries : heap'[d].key = heap[d].key /\ heap'[d].value = heap[d].value
    OBVIOUS
  <1>6. \A s \in Threads : s # t /\ pc[s] \in Producing => ent[s] # e
    BY DEF IInv, SingleProducer
  <1>7. EntriesOK'
    BY <1>1, <1>2, <1>3, <1>4, <1>5 DEF IInv, EntriesOK
  <1>8. HandlesAreLive'
    BY <1>1, <1>5 DEF IInv, HandlesAreLive
  <1>9. LockAccounting'
    <2> SUFFICES ASSUME NEW j \in Keys, NEW d \in Entries, slot'[j] = d
                 PROVE  heap'[d].locks = Cardinality(Lockers(d)')
      BY <1>3 DEF LockAccounting, Lockers
    <2>1. heap[d].locks = Cardinality(Lockers(d))
      BY EntryAssumption DEF IInv, LockAccounting
    <2>2. \A s \in Threads \ {t} : pc'[s] = pc[s] /\ ent'[s] = ent[s]
      OBVIOUS
    <2>3. /\ Cardinality(Lockers(e)') = Cardinality(Lockers(e)) - 1
          /\ \A c \in Entries : c # e => Lockers(c)' = Lockers(c)
      BY <1>1, <2>2, Leave DEF IInv
    <2>4. QED
      BY <2>1, <2>3
  <1>10. SingleProducer'
    BY <1>1, <1>3, <1>6 DEF IInv, SingleProducer
  <1>11. HeirExists'
    <2>1. st = "ROLLED_BACK" =>
            \E s \in Threads : s # t /\ pc[s] \in Waiting /\ ent[s] = e
      BY <1>2, OtherLockers
    <2>2. QED
      BY <1>1, <1>3, <2>1 DEF IInv, HeirExists
  <1>12. QED
    BY <1>7, <1>8, <1>9, <1>10, <1>11 DEF IInv

(* commit_value() and the hand-over branch of rollback().                  *)
LEMMA CommitIInv ==
  ASSUME IInv, NEW t \in Threads, CommitValue(t) \/ RollbackHandOver(t)
  PROVE  IInv'
  <1>1. /\ "notifyAll" \in Notifying /\ "notifyOne" \in Notifying
        /\ "filled" \in Producing /\ "producing" \in Producing
        /\ Producing \subseteq Locking
    BY DEF Notifying, Producing, Locking
  <1>2. PICK st \in {"AVAILABLE", "ROLLED_BACK"}, w \in Notifying :
          /\ heap' = [heap EXCEPT ![ent[t]].state = st, ![ent[t]].locks = @ - 1]
          /\ pc[t] \in Producing /\ pc' = [pc EXCEPT ![t] = w]
          /\ st = "AVAILABLE" => pc[t] = "filled"
          /\ st = "ROLLED_BACK" => heap[ent[t]].locks > 1
          /\ UNCHANGED <<slot, limits, key, ent, got, suppressCaching>>
    BY <1>1 DEF CommitValue, RollbackHandOver, cacheVars
  <1>3. failures' \in 0 .. MaxFailures
    BY BoundAssumption DEF CommitValue, RollbackHandOver, IInv, TypeOK
  <1>4. PICK e \in Entries, k \in Keys :
          /\ ent[t] = e /\ key[t] = k /\ slot[k] = e
          /\ heap[e].locks = Cardinality(Lockers(e)) /\ heap[e].locks \in Nat
    BY <1>1, <1>2, HandleFacts
  <1>5. heap[e].locks # 0
    BY <1>1, <1>2, <1>4, LockedPositive
  <1>6. TypeOK' /\ RightFrame'
    BY <1>2, <1>3, <1>4, <1>5 DEF IInv, TypeOK, RightFrame
  <1>7. /\ heap'[e].state = st /\ heap'[e].locks = heap[e].locks - 1
        /\ heap'[e].key = heap[e].key /\ heap'[e].value = heap[e].value
        /\ \A d \in Entries : d # e => heap'[d] = heap[d]
    BY <1>2, <1>4 DEF IInv, TypeOK
  <1>8. pc'[t] = w /\ \A s \in Threads : s # t => pc'[s] = pc[s]
    BY <1>2 DEF IInv, TypeOK
  <1>9. st = "AVAILABLE" => heap[e].value = k
    BY <1>2, <1>4 DEF IInv, EntriesOK
  <1>10. slot' = slot /\ key' = key /\ ent' = ent /\ pc[t] \in Producing
         /\ (st = "ROLLED_BACK" => heap[e].locks > 1)
    BY <1>2, <1>4
  <1>11. QED
    BY <1>4, <1>6, <1>7, <1>8, <1>9, <1>10, ProducerLeaves

(* The branch of rollback() that removes the key.                          *)
LEMMA RollbackRemoveIInv ==
  ASSUME IInv, NEW t \in Threads, RollbackRemove(t)
  PROVE  IInv'
  <1>1. /\ pc[t] = "producing" /\ heap[ent[t]].locks = 1
        /\ slot' = [slot EXCEPT ![heap[ent[t]].key] = NoEntry]
        /\ heap' = [heap EXCEPT ![ent[t]] = Reset(NULL)]
        /\ limits' = limits
        /\ pc' = [pc EXCEPT ![t] = "idle"] /\ key' = [key EXCEPT ![t] = NULL]
        /\ ent' = [ent EXCEPT ![t] = NoEntry] /\ got' = None
        /\ suppressCaching' = [suppressCaching EXCEPT ![t] = FALSE]
    BY DEF RollbackRemove, Return
  <1>2. failures' \in 0 .. MaxFailures
    BY BoundAssumption DEF RollbackRemove, IInv, TypeOK
  <1>3. "producing" \in Locking /\ "producing" \in Producing /\ "idle" \notin Locking
        /\ "idle" \notin Waiting /\ "idle" \notin Producing /\ "filled" \in Producing
        /\ Producing \subseteq Locking /\ Waiting \subseteq Locking
    BY DEF Locking, Waiting, Producing
  <1>4. PICK e \in Entries, k \in Keys :
          /\ ent[t] = e /\ key[t] = k /\ slot[k] = e /\ e # NoEntry
          /\ heap[e].key = k /\ \A j \in Keys : slot[j] = e => j = k
    BY <1>1, <1>3, HandleFacts
  <1>5. slot'[k] = NoEntry /\ \A j \in Keys : j # k => slot'[j] = slot[j]
    BY <1>1, <1>4 DEF IInv, TypeOK
  <1>6. \A d \in Entries : d # e => heap'[d] = heap[d]
    BY <1>1, <1>4 DEF IInv, TypeOK
  <1>7. pc'[t] = "idle" /\ \A s \in Threads : s # t =>
          pc'[s] = pc[s] /\ key'[s] = key[s] /\ ent'[s] = ent[s]
    BY <1>1 DEF IInv, TypeOK
  <1>8. \A s \in Threads : pc[s] \in Locking /\ ent[s] = e => s = t
    BY <1>1, <1>3, <1>4, OtherLockers
  <1>9. \A s \in Threads : s # t /\ pc[s] \in Locking =>
          /\ ent[s] \in Entries /\ ent[s] # e /\ key[s] # k
          /\ heap'[ent[s]] = heap[ent[s]]
    BY <1>4, <1>6, <1>8 DEF IInv, HandlesAreLive
  <1>10. \A j \in Keys : slot'[j] # NoEntry =>
          /\ j # k /\ slot'[j] = slot[j] /\ slot[j] \in Entries /\ slot[j] # e
          /\ heap'[slot[j]] = heap[slot[j]]
    BY <1>4, <1>5, <1>6 DEF IInv, TypeOK
  <1>11. RightFrame'
    BY <1>1 DEF RightFrame
  <1>12. TypeOK'
    BY <1>1, <1>2, <1>4 DEF IInv, TypeOK, Reset, Answers
  <1>13. EntriesOK'
    BY <1>3, <1>7, <1>9, <1>10 DEF IInv, EntriesOK
  <1>14. HandlesAreLive'
    BY <1>3, <1>5, <1>7, <1>9 DEF IInv, HandlesAreLive
  <1>15. LockAccounting'
    <2> SUFFICES ASSUME NEW j \in Keys, NEW d \in Entries, slot'[j] = d
                 PROVE  heap'[d].locks = Cardinality(Lockers(d)')
      BY <1>12 DEF LockAccounting, Lockers, TypeOK
    <2>1. slot[j] = d /\ d # e /\ d # NoEntry /\ heap'[d] = heap[d]
      BY <1>10, EntryAssumption
    <2>2. Lockers(d)' = Lockers(d)
      BY <1>1, <1>3, <1>4, <1>7, <2>1 DEF Lockers
    <2>3. QED
      BY <2>1, <2>2 DEF IInv, LockAccounting
  <1>16. SingleProducer'
    BY <1>3, <1>4, <1>7, <1>10 DEF IInv, SingleProducer
  <1>17. HeirExists'
    BY <1>1, <1>3, <1>4, <1>7, <1>10 DEF IInv, HeirExists
  <1>18. QED
    BY <1>11, <1>12, <1>13, <1>14, <1>15, <1>16, <1>17 DEF IInv

(* Every step of the specification preserves the invariant.                *)
LEMMA NextIInv ==
  ASSUME IInv, [Next]_vars
  PROVE  IInv'
  <1>1. ASSUME NEW t \in Threads, NEW k \in Keys, NEW block \in BOOLEAN,
               NEW suppress \in BOOLEAN, Lookup(t, k, block, suppress)
        PROVE  IInv'
    BY <1>1, LookupAsideIInv, LookupWaitIInv, LookupMissIInv DEF Lookup
  <1>2. ASSUME NEW t \in Threads, Step(t) \/ SpuriousWakeup(t)
        PROVE  IInv'
    BY <1>2, WakeupIInv, WaitOverIInv, TakeOverIInv, FillIInv, CommitIInv,
       RollbackRemoveIInv DEF Step, Rollback
  <1>3. ASSUME NEW l \in LimitChoices, SetLimits(l[1], l[2])
        PROVE  IInv'
    <2>1. l[1] \in Nat /\ l[2] \in Nat
      BY BoundAssumption
    <2>2. QED
      BY <1>3, <2>1, SetLimitsIInv
  <1>4. CASE UNCHANGED vars
    <2>1. /\ slot' = slot /\ heap' = heap /\ limits' = limits /\ pc' = pc
          /\ key' = key /\ ent' = ent /\ got' = got /\ failures' = failures
          /\ suppressCaching' = suppressCaching
      BY <1>4 DEF vars, cacheVars, callerVars
    <2>2. TypeOK' /\ RightFrame'
      BY <2>1 DEF IInv, TypeOK, RightFrame
    <2>3. QED
      BY <2>1, <2>2, CacheAside
  <1>5. QED
    BY <1>1, <1>2, <1>3, <1>4 DEF Next

(* IInv holds in every reachable state of the cache, for every set of      *)
(* threads, frames and entries, every mode and every capacity.             *)
THEOREM Invariance == Spec => []IInv
  <1>1. Init => IInv
    BY InitIInv
  <1>2. IInv /\ [Next]_vars => IInv'
    BY NextIInv
  <1>3. QED
    BY <1>1, <1>2, PTL DEF Spec

(* A caller's entry pointer stays valid: eviction, rollback and set_limits *)
(* by other threads never recycle an entry somebody waits on or owns.      *)
THEOREM PointersStayLive == Spec => []HandlesAreLive
  <1>1. IInv => HandlesAreLive
    BY DEF IInv
  <1>2. QED
    BY <1>1, Invariance, PTL

(* lookup() never lets two threads compute into one entry, and an entry    *)
(* that can be read has no producer.                                       *)
THEOREM SingleFlight == Spec => []SingleProducer
  <1>1. IInv => SingleProducer
    BY DEF IInv
  <1>2. QED
    BY <1>1, Invariance, PTL

(* entry->locks counts exactly the callers that wait on or own the entry.  *)
THEOREM LocksCounted == Spec => []LockAccounting
  <1>1. IInv => LockAccounting
    BY DEF IInv
  <1>2. QED
    BY <1>1, Invariance, PTL

(* rollback() never abandons an entry: a ROLLED_BACK one has a waiter.     *)
THEOREM NeverAbandoned == Spec => []HeirExists
  <1>1. IInv => HeirExists
    BY DEF IInv
  <1>2. QED
    BY <1>1, Invariance, PTL

(* What CommittedIsFinal says of one step and one frame.                   *)
LEMMA CommittedStep ==
  ASSUME IInv, [Next]_vars, NEW k \in Keys, slot[k] # NoEntry, slot'[k] # NoEntry,
         heap[slot[k]].state = "AVAILABLE"
  PROVE  /\ slot'[k] = slot[k]
         /\ heap'[slot[k]].state = "AVAILABLE"
         /\ heap'[slot[k]].value = heap[slot[k]].value
  <1>1. PICK e \in Entries : slot[k] = e /\ heap[e].state = "AVAILABLE"
    BY DEF IInv, TypeOK
  <1> SUFFICES /\ slot'[k] = e
               /\ heap'[e].state = "AVAILABLE"
               /\ heap'[e].value = heap[e].value
    BY <1>1
  <1>2. heap \in [Entries -> [key : Keys \cup {NULL}, value : Keys \cup {NULL},
              locks : Nat, state : {"EMPTY", "AVAILABLE", "ROLLED_BACK"}]]
        /\ slot \in [Keys -> Entries \cup {NoEntry}]
    BY DEF IInv, TypeOK
  <1>3. \A t \in Threads : pc[t] \in Producing => ent[t] # e
    BY <1>1, EntryAssumption DEF IInv, SingleProducer
  <1>4. \A t \in Threads : pc[t] \in {"producing", "filled"} => pc[t] \in Producing
    BY DEF Producing
  <1>5. ASSUME NEW V \in SUBSET Keys, \A v \in V : heap[slot[v]].locks = 0,
               SlotsWithout(V)[k] # NoEntry
        PROVE  SlotsWithout(V)[k] = e /\ HeapWithout(V)[e] = heap[e]
    BY <1>1, <1>5, EvictionSpares
  <1>6. ASSUME NEW t \in Threads, NEW j \in Keys, NEW block \in BOOLEAN,
               NEW suppress \in BOOLEAN, Lookup(t, j, block, suppress)
        PROVE  /\ slot'[k] = e
               /\ heap'[e].state = "AVAILABLE"
               /\ heap'[e].value = heap[e].value
    <2>1. CASE LookupReady(t, j, block) \/ LookupNotAvailable(t, j)
               \/ LookupSuppressed(t, j)
      BY <2>1, <1>1 DEF LookupReady, LookupNotAvailable, LookupSuppressed, cacheVars
    <2>2. CASE LookupWait(t, j, suppress)
      BY <2>2, <1>1, <1>2 DEF LookupWait
    <2>3. CASE LookupMiss(t, j)
      <3>1. PICK V \in SUBSET Keys : V = Miss(j).victims
                                   /\ \A v \in V : heap[slot[v]].locks = 0
        BY MissFacts DEF IInv
      <3>2. SlotsWithout(V) \in [Keys -> Entries \cup {NoEntry}]
            /\ HeapWithout(V) \in [Entries -> [key : Keys \cup {NULL},
                value : Keys \cup {NULL}, locks : Nat,
                state : {"EMPTY", "AVAILABLE", "ROLLED_BACK"}]]
        BY <3>1, EvictionSpares
      <3>3. j # k
        BY <2>3 DEF LookupMiss
      <3>4. CASE ~Miss(j).stored
        <4>1. slot' = SlotsWithout(V) /\ heap' = HeapWithout(V)
          BY <2>3, <3>1, <3>4 DEF LookupMiss
        <4>2. QED
          BY <4>1, <3>1, <1>1, <1>5
      <3>5. CASE Miss(j).stored
        <4>1. PICK d \in Entries \ {SlotsWithout(V)[i] : i \in Keys} :
                /\ slot' = [SlotsWithout(V) EXCEPT ![j] = d]
                /\ heap' = [HeapWithout(V) EXCEPT ![d] = [Reset(j) EXCEPT !.locks = 1]]
          BY <2>3, <3>1, <3>5 DEF LookupMiss
        <4>2. slot'[k] = SlotsWithout(V)[k]
          BY <4>1, <3>2, <3>3
        <4>3. SlotsWithout(V)[k] = e /\ HeapWithout(V)[e] = heap[e]
          BY <4>2, <3>1, <1>5
        <4>4. heap'[e] = HeapWithout(V)[e]
          BY <4>1, <4>3, <3>2
        <4>5. QED
          BY <4>2, <4>3, <4>4, <1>1
      <3>6. QED
        BY <3>4, <3>5
    <2>4. QED
      BY <1>6, <2>1, <2>2, <2>3 DEF Lookup
  <1>7. ASSUME NEW t \in Threads, Step(t) \/ SpuriousWakeup(t)
        PROVE  /\ slot'[k] = e
               /\ heap'[e].state = "AVAILABLE"
               /\ heap'[e].value = heap[e].value
    <2>1. CASE SpuriousWakeup(t) \/ WaitAgain(t) \/ NotifyAll(t) \/ NotifyOne(t)
      BY <2>1, <1>1 DEF SpuriousWakeup, WaitAgain, NotifyAll, NotifyOne, cacheVars
    <2>2. CASE WaitOver(t)
      BY <2>2, <1>1, <1>2 DEF WaitOver, cacheVars
    <2>3. CASE TakeOver(t)
      <3>1. ent[t] # e
        BY <2>3, <1>1 DEF TakeOver
      <3>2. QED
        BY <2>3, <3>1, <1>1, <1>2 DEF TakeOver, cacheVars
    <2>4. CASE Fill(t)
      <3>1. ent[t] # e
        BY <2>4, <1>3, <1>4 DEF Fill
      <3>2. QED
        BY <2>4, <3>1, <1>1, <1>2 DEF Fill, cacheVars
    <2>5. CASE CommitValue(t)
      <3>1. ent[t] # e
        BY <2>5, <1>3, <1>4 DEF CommitValue
      <3>2. QED
        BY <2>5, <3>1, <1>1, <1>2 DEF CommitValue, cacheVars
    <2>6. CASE RollbackRemove(t)
      <3>1. ent[t] # e
        BY <2>6, <1>3, <1>4 DEF RollbackRemove
      <3>2. slot' = [slot EXCEPT ![heap[ent[t]].key] = NoEntry]
            /\ heap' = [heap EXCEPT ![ent[t]] = Reset(NULL)]
        BY <2>6 DEF RollbackRemove
      <3>3. QED
        BY <3>1, <3>2, <1>1, <1>2
    <2>7. CASE RollbackHandOver(t)
      <3>1. ent[t] # e
        BY <2>7, <1>3, <1>4 DEF RollbackHandOver
      <3>2. QED
        BY <2>7, <3>1, <1>1, <1>2 DEF RollbackHandOver, cacheVars
    <2>8. QED
      BY <1>7, <2>1, <2>2, <2>3, <2>4, <2>5, <2>6, <2>7 DEF Step, Rollback
  <1>8. ASSUME NEW l \in LimitChoices, SetLimits(l[1], l[2])
        PROVE  /\ slot'[k] = e
               /\ heap'[e].state = "AVAILABLE"
               /\ heap'[e].value = heap[e].value
    <2>1. PICK V \in SUBSET Keys : /\ \A v \in V : heap[slot[v]].locks = 0
                                 /\ slot' = SlotsWithout(V)
                                 /\ heap' = HeapWithout(V)
      BY <1>8, VictimsUnlocked DEF SetLimits
    <2>2. QED
      BY <2>1, <1>1, <1>5
  <1>9. CASE UNCHANGED vars
    BY <1>9, <1>1 DEF vars, cacheVars
  <1>10. QED
    BY <1>6, <1>7, <1>8, <1>9 DEF Next

(* A frame that commit_value() has published is neither reopened nor       *)
(* changed by any step while its entry is cached.                          *)
THEOREM PublishedFrameIsFinal == Spec => CommittedIsFinal
  <1>1. IInv /\ [Next]_vars =>
          [\A k \in Keys :
             /\ slot[k] # NoEntry /\ slot'[k] # NoEntry
             /\ heap[slot[k]].state = "AVAILABLE"
             => /\ slot'[k] = slot[k]
                /\ heap'[slot[k]].state = "AVAILABLE"
                /\ heap'[slot[k]].value = heap[slot[k]].value]_vars
    BY CommittedStep
  <1>2. QED
    BY <1>1, Invariance, PTL DEF Spec, CommittedIsFinal

(* No FOUND_AND_READY answer carries the content of another frame.         *)
THEOREM CorrectFrame == Spec => []RightFrame
  <1>1. IInv => RightFrame
    BY DEF IInv
  <1>2. QED
    BY <1>1, Invariance, PTL

(* Every reachable state of the cache is well typed.                       *)
THEOREM TypeCorrect == Spec => []TypeOK
  <1>1. IInv => TypeOK
    BY DEF IInv
  <1>2. QED
    BY <1>1, Invariance, PTL

(* A cached entry carries its key and no content but that key's frame.     *)
THEOREM EntriesConsistent == Spec => []EntriesOK
  <1>1. IInv => EntriesOK
    BY DEF IInv
  <1>2. QED
    BY <1>1, Invariance, PTL

-----------------------------------------------------------------------------
(* The lists.                                                              *)

(* What is left of a list without repetitions when the keys of V go.       *)
LEMMA WithoutFacts ==
  ASSUME NEW T, NEW s \in Seq(T), IsInjective(s), NEW V
  PROVE  /\ Without(s, V) \in Seq(T) /\ IsInjective(Without(s, V))
         /\ ToSet(Without(s, V)) = ToSet(s) \ V
  <1> DEFINE n == Len(s)
             keep(i, r) == IF s[i] \in V THEN r ELSE Append(r, s[i])
             kept == CHOOSE f : f = [i \in 0 .. n |->
                       IF i = 0 THEN <<>>
                       ELSE IF s[i] \in V THEN f[i - 1] ELSE Append(f[i - 1], s[i])]
             step == [i \in Nat |-> [r \in Seq(T) |->
                       IF i \in 1 .. n THEN keep(i, r) ELSE r]]
  <1>0. n \in Nat /\ DOMAIN s = 1 .. n /\ \A i \in 1 .. n : s[i] \in T
    BY LenProperties, ElementOfSeq
  <1>1. Without(s, V) = kept[n]
    BY DEF Without
  <1> HIDE DEF n
  <1>2. \A i \in 1 .. n, r \in Seq(T) : keep(i, r) \in Seq(T)
    BY <1>0
  <1>3. <<>> \in Seq(T)
    OBVIOUS
  <1>4. step \in [Nat -> [Seq(T) -> Seq(T)]]
    <2> HIDE DEF keep
    <2>1. QED
      BY <1>2
  <1>5. \A i \in 1 .. n, r \in Seq(T) : step[i][r] = keep(i, r)
    <2> HIDE DEF keep
    <2>1. QED
      BY <1>0
  <1> HIDE DEF step
  <1>6. PICK f : Recursion(f, n, Seq(T), <<>>, step)
    BY <1>0, <1>3, <1>4, RecursionExists, Zenon
  <1>7. \A i \in 1 .. n : f[i] = keep(i, f[i - 1]) /\ f[i - 1] \in Seq(T)
    <2> HIDE DEF keep
    <2>1. \A i \in 1 .. n : i - 1 \in 0 .. n
      BY <1>0
    <2>2. QED
      BY <2>1, <1>5, <1>6 DEF Recursion
  <1>8. f = [i \in 0 .. n |->
               IF i = 0 THEN <<>>
               ELSE IF s[i] \in V THEN f[i - 1] ELSE Append(f[i - 1], s[i])]
    <2>1. \A i \in 0 .. n : i = 0 \/ i \in 1 .. n
      BY <1>0
    <2>2. QED
      BY <2>1, <1>6, <1>7 DEF Recursion
  <1>9. kept = [i \in 0 .. n |->
               IF i = 0 THEN <<>>
               ELSE IF s[i] \in V THEN kept[i - 1] ELSE Append(kept[i - 1], s[i])]
    BY <1>8
  <1> HIDE DEF kept
  <1>16. \A i \in 0 .. n : kept[i] =
               IF i = 0 THEN <<>>
               ELSE IF s[i] \in V THEN kept[i - 1] ELSE Append(kept[i - 1], s[i])
    BY <1>9, Zenon
  <1> DEFINE Good(i) == /\ kept[i] \in Seq(T) /\ IsInjective(kept[i])
                        /\ ToSet(kept[i]) = {s[j] : j \in 1 .. i} \ V
             I == {i \in Nat : i <= n => Good(i)}
  <1>10. 0 \in I
    <2>1. kept[0] = <<>>
      BY <1>0, <1>16
    <2>2. QED
      <3>1. {s[j] : j \in 1 .. 0} = {} /\ <<>> \in Seq(T)
        OBVIOUS
      <3>2. ToSet(<<>>) = {} /\ IsInjective(<<>>)
        BY DEF IsInjective, ToSet
      <3>3. Good(0)
        BY <2>1, <3>1, <3>2
      <3> HIDE DEF Good
      <3>4. QED
        BY <3>3
  <1>11. ASSUME NEW i \in Nat, i \in I PROVE i + 1 \in I
    <2>1. SUFFICES ASSUME i + 1 <= n PROVE Good(i + 1)
      OBVIOUS
    <2>2. Good(i) /\ i + 1 \in 1 .. n /\ i + 1 \in 0 .. n /\ (i + 1) - 1 = i
      BY <1>0, <1>11, <2>1
    <2>3. kept[i + 1] = IF s[i + 1] \in V THEN kept[i] ELSE Append(kept[i], s[i + 1])
      BY <1>16, <2>2
    <2>4. {s[j] : j \in 1 .. i + 1} = {s[j] : j \in 1 .. i} \cup {s[i + 1]}
      <3>1. 1 .. i + 1 = (1 .. i) \cup {i + 1}
        OBVIOUS
      <3>2. QED
        BY <3>1
    <2>5. s[i + 1] \notin {s[j] : j \in 1 .. i}
      <3>1. \A j \in 1 .. i : j \in 1 .. n /\ j # i + 1
        BY <1>0, <2>1
      <3>2. QED
        BY <3>1, <2>2, <1>0 DEF IsInjective
    <2>6. CASE s[i + 1] \in V
      BY <2>2, <2>3, <2>4, <2>6
    <2>7. CASE s[i + 1] \notin V
      <3>1. s[i + 1] \in T /\ s[i + 1] \notin ToSet(kept[i])
        BY <1>0, <2>2, <2>5
      <3>2. /\ ToSet(Append(kept[i], s[i + 1])) = ToSet(kept[i]) \cup {s[i + 1]}
            /\ IsInjective(Append(kept[i], s[i + 1]))
        BY <3>1, <2>2, AppendedOnce
      <3>3. Append(kept[i], s[i + 1]) \in Seq(T)
        BY <3>1, <2>2
      <3>4. QED
        BY <2>2, <2>3, <2>4, <2>7, <3>2, <3>3
    <2>8. QED
      BY <2>6, <2>7
  <1>12. n \in I
    <2> HIDE DEF I
    <2>1. QED
      BY <1>0, <1>10, <1>11, NatIsInductive
  <1>13. Good(n)
    BY <1>0, <1>12
  <1>14. {s[j] : j \in 1 .. n} = ToSet(s)
    BY <1>0 DEF ToSet
  <1>15. QED
    BY <1>1, <1>13, <1>14

\* What ListsOK says of the ghosts, of any list and capacity.
Ghost == [key : Keys, ghosted : 0 .. 2]
GhostsOK(gs, cap) ==
  /\ gs \in Seq(Ghost)
  /\ \A i, j \in DOMAIN gs : gs[i].key = gs[j].key => i = j
  /\ Len(gs) <= cap + 1

(* The ghost of a key is where GhostAt says.                               *)
LEMMA GhostFound ==
  ASSUME NEW gs \in Seq(Ghost), NEW k, IsGhost(gs, k)
  PROVE  /\ GhostAt(gs, k) \in 1 .. Len(gs) /\ gs[GhostAt(gs, k)].key = k
         /\ GhostCount(gs, k) \in 0 .. 2
  <1>1. DOMAIN gs = 1 .. Len(gs) /\ \A i \in 1 .. Len(gs) : gs[i] \in Ghost
    BY LenProperties, ElementOfSeq
  <1>2. GhostAt(gs, k) \in DOMAIN gs /\ gs[GhostAt(gs, k)].key = k
    BY DEF IsGhost, GhostAt
  <1>3. QED
    BY <1>1, <1>2 DEF GhostCount, Ghost

(* Cutting the list of ghosts to a capacity.                               *)
LEMMA GhostTrimOK ==
  ASSUME NEW gs, NEW cap \in Nat, GhostsOK(gs, cap), NEW c \in Nat
  PROVE  GhostsOK(GhostTrim(gs, c), c) /\ Len(GhostTrim(gs, c)) <= c
         /\ \A i \in DOMAIN GhostTrim(gs, c) :
              i \in DOMAIN gs /\ GhostTrim(gs, c)[i] = gs[i]
  <1> DEFINE m == IF Len(gs) > c THEN c ELSE Len(gs)
             r == GhostTrim(gs, c)
  <1>1. gs \in Seq(Ghost) /\ Len(gs) \in Nat /\ DOMAIN gs = 1 .. Len(gs)
    BY LenProperties DEF GhostsOK
  <1>2. m \in Nat /\ m <= Len(gs) /\ m <= c
    BY <1>1
  <1>3. r = SubSeq(gs, 1, m)
    BY DEF GhostTrim
  <1> HIDE DEF m, r
  <1>4. r \in Seq(Ghost) /\ Len(r) = m /\ \A i \in 1 .. m : r[i] = gs[i]
    BY <1>1, <1>2, <1>3, CutOff
  <1>5. DOMAIN r = 1 .. m /\ \A i \in 1 .. m : i \in DOMAIN gs
    <2>1. DOMAIN r = 1 .. Len(r)
      BY <1>4, LenProperties
    <2>2. QED
      BY <2>1, <1>1, <1>2, <1>4
  <1>6. \A i, j \in DOMAIN r : r[i].key = r[j].key => i = j
    BY <1>4, <1>5 DEF GhostsOK
  <1>7. Len(r) <= c /\ Len(r) <= c + 1
    BY <1>2, <1>4
  <1>8. QED
    BY <1>4, <1>5, <1>6, <1>7 DEF GhostsOK, r

(* A ghost that is looked up moves to the front, a new one enters there.   *)
LEMMA GhostPutOK ==
  ASSUME NEW gs, NEW cap \in Nat, GhostsOK(gs, cap), NEW k \in Keys, NEW n \in 0 .. 2
  PROVE  GhostsOK(GhostPut(gs, cap, k, n), cap)
  <1> DEFINE x == [key |-> k, ghosted |-> n]
             rest == IF IsGhost(gs, k) THEN RemoveAt(gs, GhostAt(gs, k))
                                       ELSE GhostTrim(gs, cap)
             r == <<x>> \o rest
  <1>0. gs \in Seq(Ghost) /\ Len(gs) \in Nat /\ DOMAIN gs = 1 .. Len(gs)
        /\ Len(gs) <= cap + 1 /\ \A i, j \in DOMAIN gs : gs[i].key = gs[j].key => i = j
    BY LenProperties DEF GhostsOK
  <1>1. x \in Ghost /\ x.key = k
    BY DEF Ghost
  <1>2. GhostPut(gs, cap, k, n) = r
    BY DEF GhostPut
  <1> HIDE DEF x
  <1>3. /\ rest \in Seq(Ghost) /\ Len(rest) <= cap
        /\ \A i \in DOMAIN rest : rest[i].key # k
        /\ \A i, j \in DOMAIN rest : rest[i].key = rest[j].key => i = j
    <2>1. CASE IsGhost(gs, k)
      <3> DEFINE p == GhostAt(gs, k)
      <3>1. p \in 1 .. Len(gs) /\ gs[p].key = k /\ rest = RemoveAt(gs, p)
        BY <1>0, <2>1, GhostFound
      <3> HIDE DEF p, rest
      <3>2. /\ rest \in Seq(Ghost) /\ Len(rest) = Len(gs) - 1
            /\ \A i \in 1 .. Len(gs) - 1 : rest[i] = IF i < p THEN gs[i] ELSE gs[i + 1]
        BY <1>0, <3>1, TakenOut, ZenonT(60)
      <3>3. DOMAIN rest = 1 .. Len(gs) - 1
        BY <3>2, LenProperties
      <3>4. ASSUME NEW i \in 1 .. Len(gs) - 1
            PROVE  \E a \in 1 .. Len(gs) : /\ rest[i] = gs[a] /\ a # p
                                           /\ a = IF i < p THEN i ELSE i + 1
        <4>1. CASE i < p
          <5>1. i \in 1 .. Len(gs) /\ i # p
            BY <4>1, <1>0, <3>1
          <5>2. QED
            BY <5>1, <4>1, <3>2
        <4>2. CASE ~(i < p)
          <5>1. i + 1 \in 1 .. Len(gs) /\ i + 1 # p
            BY <4>2, <1>0, <3>1
          <5>2. QED
            BY <5>1, <4>2, <3>2
        <4>3. QED
          BY <4>1, <4>2
      <3>5. \A i \in DOMAIN rest : rest[i].key # k
        BY <3>1, <3>3, <3>4, <1>0, SMTT(30)
      <3>6. ASSUME NEW i \in DOMAIN rest, NEW j \in DOMAIN rest, rest[i].key = rest[j].key
            PROVE  i = j
        <4>1. PICK a \in 1 .. Len(gs) : rest[i] = gs[a] /\ a = IF i < p THEN i ELSE i + 1
          BY <3>3, <3>4
        <4>2. PICK b \in 1 .. Len(gs) : rest[j] = gs[b] /\ b = IF j < p THEN j ELSE j + 1
          BY <3>3, <3>4
        <4>3. a = b
          BY <4>1, <4>2, <3>6, <1>0
        <4>4. i \in Int /\ j \in Int /\ p \in Int
          BY <3>1, <3>3, <1>0
        <4>5. QED
          BY <4>1, <4>2, <4>3, <4>4
      <3>7. Len(rest) <= cap
        BY <3>2, <1>0
      <3>8. QED
        BY <3>2, <3>5, <3>6, <3>7
    <2>2. CASE ~IsGhost(gs, k)
      <3>1. rest = GhostTrim(gs, cap)
        BY <2>2
      <3>2. /\ GhostsOK(rest, cap) /\ Len(rest) <= cap
            /\ \A i \in DOMAIN rest : i \in DOMAIN gs /\ rest[i] = gs[i]
        BY <3>1, GhostTrimOK
      <3> HIDE DEF rest
      <3>3. \A i \in DOMAIN rest : rest[i].key # k
        BY <3>2, <2>2 DEF IsGhost
      <3>4. QED
        BY <3>2, <3>3 DEF GhostsOK
    <2>3. QED
      BY <2>1, <2>2
  <1> HIDE DEF rest
  <1>4. /\ r \in Seq(Ghost) /\ Len(r) = Len(rest) + 1 /\ r[1] = x
        /\ \A i \in 1 .. Len(rest) : r[i + 1] = rest[i]
    BY <1>1, <1>3, PutInFront
  <1>5. Len(rest) \in Nat /\ DOMAIN rest = 1 .. Len(rest) /\ DOMAIN r = 1 .. Len(rest) + 1
    <2>1. DOMAIN r = 1 .. Len(r)
      BY <1>4, LenProperties
    <2>2. QED
      BY <2>1, <1>3, <1>4, LenProperties
  <1> HIDE DEF r
  <1>6. \A i \in DOMAIN r : i = 1 \/ \E a \in DOMAIN rest : i = a + 1 /\ r[i] = rest[a]
    <2>1. ASSUME NEW i \in DOMAIN r, i # 1
          PROVE  i - 1 \in DOMAIN rest /\ i = (i - 1) + 1 /\ r[i] = rest[i - 1]
      <3>1. i - 1 \in 1 .. Len(rest) /\ i = (i - 1) + 1
        BY <2>1, <1>5
      <3>2. QED
        BY <3>1, <1>4, <1>5
    <2>2. QED
      BY <2>1
  <1>7. ASSUME NEW i \in DOMAIN r, NEW j \in DOMAIN r, r[i].key = r[j].key PROVE i = j
    <2>1. CASE i = 1 /\ j = 1
      BY <2>1
    <2>2. CASE i # 1 /\ j # 1
      <3>1. PICK a \in DOMAIN rest : i = a + 1 /\ r[i] = rest[a]
        BY <2>2, <1>6
      <3>2. PICK b \in DOMAIN rest : j = b + 1 /\ r[j] = rest[b]
        BY <2>2, <1>6
      <3>3. a = b
        BY <3>1, <3>2, <1>3, <1>7
      <3>4. QED
        BY <3>1, <3>2, <3>3
    <2>3. CASE (i = 1) # (j = 1)
      BY <2>3, <1>1, <1>3, <1>4, <1>6, <1>7
    <2>4. QED
      BY <2>1, <2>2, <2>3
  <1>8. Len(r) <= cap + 1
    BY <1>3, <1>4, <1>5
  <1>9. QED
    BY <1>2, <1>4, <1>7, <1>8 DEF GhostsOK

(* Counting a ghost up leaves the list as it is.                           *)
LEMMA GhostBumpOK ==
  ASSUME NEW gs, NEW cap \in Nat, GhostsOK(gs, cap), NEW k
  PROVE  GhostsOK(GhostBump(gs, k), cap)
  <1> DEFINE n == Len(gs)
             r == GhostBump(gs, k)
  <1>1. gs \in Seq(Ghost) /\ n \in Nat /\ DOMAIN gs = 1 .. n /\ n <= cap + 1
        /\ \A i \in 1 .. n : gs[i] \in Ghost
    BY LenProperties, ElementOfSeq DEF GhostsOK
  <1> HIDE DEF n
  <1>2. \A g \in Ghost : [g EXCEPT !.ghosted = Bump(@)] \in Ghost
                         /\ [g EXCEPT !.ghosted = Bump(@)].key = g.key
    BY DEF Ghost, Bump
  <1>3. DOMAIN r = 1 .. n /\ \A i \in 1 .. n : r[i] \in Ghost /\ r[i].key = gs[i].key
    BY <1>1, <1>2 DEF GhostBump
  <1>4. r \in [1 .. n -> Ghost]
    BY <1>1, <1>2 DEF GhostBump
  <1> HIDE DEF r
  <1>5. r \in Seq(Ghost) /\ Len(r) = n
    BY <1>1, <1>3, <1>4, SeqDef, LenProperties
  <1>6. \A i, j \in DOMAIN r : r[i].key = r[j].key => i = j
    BY <1>1, <1>3 DEF GhostsOK
  <1>7. QED
    BY <1>1, <1>5, <1>6 DEF GhostsOK, r

(* An entry that is evicted leaves one ghost, wherever the list stands.    *)
LEMMA GhostEvictedOK ==
  ASSUME NEW gs, NEW cap \in Nat, GhostsOK(gs, cap), NEW k \in Keys,
         ghosted[slot[k]] \in 0 .. 2
  PROVE  GhostsOK(GhostEvicted(gs, cap, k), cap)
  <1> DEFINE n == IF IsGhost(gs, k) THEN Bump(GhostCount(gs, k)) ELSE Bump(ghosted[slot[k]])
  <1>1. IsGhost(gs, k) => GhostCount(gs, k) \in 0 .. 2
    BY GhostFound DEF GhostsOK
  <1>2. n \in 0 .. 2
    BY <1>1 DEF Bump
  <1>3. GhostEvicted(gs, cap, k) = GhostPut(gs, cap, k, n)
    BY DEF GhostEvicted
  <1> HIDE DEF n
  <1>4. QED
    BY <1>2, <1>3, GhostPutOK

(* ... and so do many, one after the other.                                *)
LEMMA GhostsAfterOK ==
  ASSUME NEW gs, NEW cap \in Nat, GhostsOK(gs, cap), NEW ord, Len(ord) \in Nat,
         NEW V, \A k \in V : k \in Keys /\ ghosted[slot[k]] \in 0 .. 2
  PROVE  GhostsOK(GhostsAfter(gs, cap, ord, V), cap)
  <1> DEFINE n == Len(ord)
             T == {g \in Seq(Ghost) : GhostsOK(g, cap)}
             after == CHOOSE f : f = [i \in 0 .. n |->
                        IF i = 0 THEN gs
                        ELSE IF ord[n + 1 - i] \in V
                             THEN GhostEvicted(f[i - 1], cap, ord[n + 1 - i])
                             ELSE f[i - 1]]
             step == [i \in Nat |-> [g \in T |->
                        IF ord[n + 1 - i] \in V THEN GhostEvicted(g, cap, ord[n + 1 - i])
                                                ELSE g]]
  <1>1. GhostsAfter(gs, cap, ord, V) = after[n]
    BY DEF GhostsAfter
  <1> HIDE DEF n
  <1>2. n \in Nat
    BY DEF n
  <1>3. gs \in T
    BY DEF GhostsOK
  <1>4. \A g \in T, k \in V : GhostEvicted(g, cap, k) \in T
    <2>1. ASSUME NEW g \in T, NEW k \in V PROVE GhostsOK(GhostEvicted(g, cap, k), cap)
      BY GhostEvictedOK
    <2>2. QED
      BY <2>1 DEF GhostsOK
  <1> HIDE DEF T
  <1>5. step \in [Nat -> [T -> T]]
    BY <1>4
  <1>6. \A i \in Nat, g \in T : step[i][g] =
          IF ord[n + 1 - i] \in V THEN GhostEvicted(g, cap, ord[n + 1 - i]) ELSE g
    OBVIOUS
  <1> HIDE DEF step
  <1>7. PICK f : Recursion(f, n, T, gs, step)
    BY <1>2, <1>3, <1>5, RecursionExists, Zenon
  <1>8. /\ f \in [0 .. n -> T] /\ f[0] = gs
        /\ \A i \in 1 .. n : f[i] =
             IF ord[n + 1 - i] \in V THEN GhostEvicted(f[i - 1], cap, ord[n + 1 - i])
                                     ELSE f[i - 1]
    <2>1. \A i \in 1 .. n : i - 1 \in 0 .. n /\ i \in Nat
      BY <1>2
    <2>2. f \in [0 .. n -> T] /\ f[0] = gs /\ \A i \in 1 .. n : f[i] = step[i][f[i - 1]]
      BY <1>7 DEF Recursion
    <2>3. ASSUME NEW i \in 1 .. n
          PROVE  f[i] = IF ord[n + 1 - i] \in V THEN GhostEvicted(f[i - 1], cap, ord[n + 1 - i])
                                                ELSE f[i - 1]
      <3>1. i \in Nat /\ f[i - 1] \in T /\ f[i] = step[i][f[i - 1]]
        BY <2>1, <2>2
      <3>2. QED
        BY <3>1, <1>6, Zenon
    <2>4. QED
      BY <2>2, <2>3, Zenon
  <1> DEFINE h == [i \in 0 .. n |->
                     IF i = 0 THEN gs
                     ELSE IF ord[n + 1 - i] \in V
                          THEN GhostEvicted(f[i - 1], cap, ord[n + 1 - i])
                          ELSE f[i - 1]]
  <1>9. f = h
    <2>1. \A i \in 0 .. n : i = 0 \/ i \in 1 .. n
      BY <1>2
    <2>2. \A i \in 0 .. n : f[i] = h[i]
      BY <2>1, <1>8
    <2>3. QED
      BY <2>2, <1>8
  <1>10. after = [i \in 0 .. n |->
                     IF i = 0 THEN gs
                     ELSE IF ord[n + 1 - i] \in V
                          THEN GhostEvicted(after[i - 1], cap, ord[n + 1 - i])
                          ELSE after[i - 1]]
    BY <1>9
  <1> HIDE DEF after
  <1>11. \A i \in 0 .. n : after[i] =
                     IF i = 0 THEN gs
                     ELSE IF ord[n + 1 - i] \in V
                          THEN GhostEvicted(after[i - 1], cap, ord[n + 1 - i])
                          ELSE after[i - 1]
    BY <1>10, Zenon
  <1> DEFINE I == {i \in Nat : i <= n => after[i] \in T}
  <1>12. 0 \in I
    <2>1. after[0] = gs
      BY <1>2, <1>11
    <2>2. QED
      BY <2>1, <1>3
  <1>13. ASSUME NEW i \in Nat, i \in I PROVE i + 1 \in I
    <2>1. SUFFICES ASSUME i + 1 <= n PROVE after[i + 1] \in T
      OBVIOUS
    <2>2. after[i] \in T /\ i + 1 \in 0 .. n /\ i + 1 # 0 /\ (i + 1) - 1 = i
      BY <1>2, <1>13, <2>1
    <2>3. QED
      BY <2>2, <1>4, <1>11
  <1>14. n \in I
    <2> HIDE DEF I
    <2>1. QED
      BY <1>2, <1>12, <1>13, NatIsInductive
  <1>15. after[n] \in T
    BY <1>2, <1>14
  <1>16. QED
    BY <1>1, <1>15 DEF T

(* A key that is found moves to the front and the list keeps its length.   *)
LEMMA TouchFacts ==
  ASSUME NEW s \in Seq(Keys), IsInjective(s), NEW k \in Keys
  PROVE  /\ Touch(s, k) \in Seq(Keys) /\ IsInjective(Touch(s, k))
         /\ ToSet(Touch(s, k)) = ToSet(s) \cup {k}
         /\ k \in ToSet(s) => Len(Touch(s, k)) = Len(s)
  <1> DEFINE r == Without(s, {k})
  <1>1. r \in Seq(Keys) /\ IsInjective(r) /\ ToSet(r) = ToSet(s) \ {k}
    BY WithoutFacts
  <1>2. Touch(s, k) = <<k>> \o r
    BY DEF Touch
  <1> HIDE DEF r
  <1>3. k \notin ToSet(r)
    BY <1>1
  <1>4. /\ <<k>> \o r \in Seq(Keys) /\ Len(<<k>> \o r) = Len(r) + 1
        /\ ToSet(<<k>> \o r) = ToSet(r) \cup {k} /\ IsInjective(<<k>> \o r)
    BY <1>1, <1>3, PutInFront
  <1>5. ToSet(<<k>> \o r) = ToSet(s) \cup {k}
    BY <1>1, <1>4
  <1>6. ASSUME k \in ToSet(s) PROVE Len(<<k>> \o r) = Len(s)
    <2>1. ToSet(<<k>> \o r) = ToSet(s)
      BY <1>5, <1>6
    <2>2. /\ Cardinality(ToSet(<<k>> \o r)) = Len(<<k>> \o r)
          /\ Cardinality(ToSet(s)) = Len(s)
      BY <1>4, LengthCounts
    <2>3. QED
      BY <2>1, <2>2
  <1>7. QED
    BY <1>2, <1>4, <1>5, <1>6

\* The keys of MainCache, and those whose entry somebody has locked.
Cached == {k \in Keys : slot[k] # NoEntry}
Locked == {k \in Cached : heap[slot[k]].locks # 0}

(* No more keys are locked than there are callers that lock.               *)
LEMMA LockedFew ==
  ASSUME IInv, NEW A \in SUBSET Threads, \A t \in Threads : pc[t] \in Locking => t \in A
  PROVE  /\ IsFiniteSet(Locked) /\ IsFiniteSet(A)
         /\ Cardinality(Locked) <= Cardinality(A)
  <1>1. ASSUME NEW k \in Locked PROVE \E t \in A : key[t] = k
    <2>1. k \in Keys /\ slot[k] # NoEntry /\ heap[slot[k]].locks # 0
      BY DEF Locked, Cached
    <2>2. Cardinality(Lockers(slot[k])) # 0
      BY <2>1 DEF IInv, LockAccounting
    <2>3. Lockers(slot[k]) # {}
      BY <2>2, FS_EmptySet
    <2>4. PICK t \in Threads : pc[t] \in Locking /\ ent[t] = slot[k]
      BY <2>3 DEF Lockers
    <2>5. heap[ent[t]].key = key[t] /\ heap[slot[k]].key = k
      BY <2>1, <2>4 DEF IInv, HandlesAreLive, EntriesOK
    <2>6. QED
      BY <2>4, <2>5
  <1> DEFINE f == [k \in Locked |-> CHOOSE t \in A : key[t] = k]
  <1>2. ASSUME NEW k \in Locked PROVE f[k] \in A /\ key[f[k]] = k
    BY <1>1
  <1>3. f \in [Locked -> A]
    BY <1>1
  <1> HIDE DEF f
  <1>4. f \in Injection(Locked, A)
    BY <1>2, <1>3 DEF Injection, IsInjective
  <1>5. IsFiniteSet(A)
    BY ThreadsAssumption, FS_Subset
  <1>6. QED
    BY <1>4, <1>5, FS_Injection

(* The first cap keys of a list are no more than cap.                      *)
LEMMA FirstFew ==
  ASSUME NEW ord \in Seq(Keys), IsInjective(ord), NEW cap \in Nat
  PROVE  \E F : /\ IsFiniteSet(F) /\ Cardinality(F) <= cap
                /\ ToSet(ord) \subseteq F \cup Surplus(ord, cap)
  <1> DEFINE n == Len(ord)
             m == IF n > cap THEN cap ELSE n
             r == SubSeq(ord, 1, m)
  <1>1. n \in Nat /\ DOMAIN ord = 1 .. n
    BY LenProperties
  <1>2. m \in Nat /\ m <= n /\ m <= cap /\ \A i \in 1 .. n : i \in 1 .. m \/ i \in cap + 1 .. n
    BY <1>1
  <1> HIDE DEF m
  <1>3. r \in Seq(Keys) /\ Len(r) = m /\ \A i \in 1 .. m : r[i] = ord[i]
    BY <1>2, CutOff
  <1>4. DOMAIN r = 1 .. m
    BY <1>3, LenProperties
  <1> HIDE DEF r
  <1>5. IsInjective(r)
    BY <1>1, <1>2, <1>3, <1>4 DEF IsInjective
  <1>6. IsFiniteSet(ToSet(r)) /\ Cardinality(ToSet(r)) <= cap
    BY <1>2, <1>3, <1>5, LengthCounts
  <1>7. ASSUME NEW x \in ToSet(ord) PROVE x \in ToSet(r) \cup Surplus(ord, cap)
    <2>1. PICK i \in 1 .. n : x = ord[i]
      BY <1>1 DEF ToSet
    <2>2. CASE i \in 1 .. m
      BY <2>1, <2>2, <1>3, <1>4 DEF ToSet
    <2>3. CASE i \in cap + 1 .. n
      BY <2>1, <2>3 DEF Surplus, n
    <2>4. QED
      BY <2>2, <2>3, <1>2
  <1>8. QED
    BY <1>6, <1>7

(* trim() leaves no more than the capacity and what is locked.             *)
LEMMA TrimBound ==
  ASSUME IInv, NEW A \in SUBSET Threads, \A t \in Threads : pc[t] \in Locking => t \in A,
         NEW ord \in Seq(Keys), IsInjective(ord), NEW cap \in Nat,
         Surplus(ord, cap) \subseteq Cached
  PROVE  /\ Len(Without(ord, Victims(ord, cap))) <= cap + Cardinality(A)
         /\ Cardinality(A) \in Nat
  <1> DEFINE r == Without(ord, Victims(ord, cap))
  <1>1. r \in Seq(Keys) /\ IsInjective(r) /\ ToSet(r) = ToSet(ord) \ Victims(ord, cap)
    BY WithoutFacts
  <1> HIDE DEF r
  <1>2. Surplus(ord, cap) \subseteq Victims(ord, cap) \cup Locked
    BY DEF Victims, Evictable, Locked, Cached
  <1>3. PICK F : /\ IsFiniteSet(F) /\ Cardinality(F) <= cap
                 /\ ToSet(ord) \subseteq F \cup Surplus(ord, cap)
    BY FirstFew
  <1>4. ToSet(r) \subseteq F \cup Locked
    BY <1>1, <1>2, <1>3
  <1>5. IsFiniteSet(Locked) /\ IsFiniteSet(A) /\ Cardinality(Locked) <= Cardinality(A)
    BY LockedFew
  <1>6. /\ IsFiniteSet(F \cup Locked)
        /\ Cardinality(F \cup Locked)
             = Cardinality(F) + Cardinality(Locked) - Cardinality(F \cap Locked)
    BY <1>3, <1>5, FS_Union
  <1>7. Cardinality(ToSet(r)) <= Cardinality(F \cup Locked)
    BY <1>4, <1>6, FS_Subset
  <1>8. Cardinality(ToSet(r)) = Len(r) /\ Len(r) \in Nat
    BY <1>1, LengthCounts, LenProperties
  <1>9. IsFiniteSet(F \cap Locked)
    BY <1>3, FS_Intersection
  <1>10. /\ Cardinality(F) \in Nat /\ Cardinality(Locked) \in Nat /\ Cardinality(A) \in Nat
         /\ Cardinality(F \cap Locked) \in Nat
    BY <1>3, <1>5, <1>9, FS_CardinalityType
  <1>11. Len(r) <= cap + Cardinality(A)
    BY <1>3, <1>5, <1>6, <1>7, <1>8, <1>10
  <1>12. QED
    BY <1>10, <1>11 DEF r

(* Limits() fills in RealCapacity from the fields it is given.             *)
LEMMA LimitsMade ==
  ASSUME NEW lo \in Nat, NEW hi \in Nat, NEW n \in Nat, NEW l, l = Limits(lo, hi, n)
  PROVE  /\ l \in [min : Nat, max : Nat, requested : Nat, real : Nat]
         /\ l = Limits(l.min, l.max, l.requested)
  <1>1. l.min = lo /\ l.max = hi /\ l.requested = n
    BY DEF Limits
  <1>2. l = Limits(l.min, l.max, l.requested)
    BY <1>1
  <1>3. QED
    BY <1>2, LimitsType

(* The capacity a cache grows to is not zero if it was not before.         *)
LEMMA GrownCapacity ==
  ASSUME NEW l \in [min : Nat, max : Nat, requested : Nat, real : Nat],
         l = Limits(l.min, l.max, l.requested)
  PROVE  /\ l.real # 0 => Limits(l.min, l.max, l.real + 1).real # 0
         /\ \A lo, hi, n \in Nat : Limits(lo, hi, n) =
              Limits(Limits(lo, hi, n).min, Limits(lo, hi, n).max, Limits(lo, hi, n).requested)
  <1>1. l.real = Clamp(l.requested, l.min, l.max)
    BY DEF Limits
  <1>2. \A lo, hi, n \in Nat : Limits(lo, hi, n).real = Clamp(n, lo, hi)
                               /\ Limits(lo, hi, n).min = lo /\ Limits(lo, hi, n).max = hi
                               /\ Limits(lo, hi, n).requested = n
    BY DEF Limits
  <1>3. /\ l.min \in Nat /\ l.max \in Nat /\ l.requested \in Nat /\ l.real \in Nat
        /\ l.real + 1 \in Nat
    OBVIOUS
  <1>4. Limits(l.min, l.max, l.real + 1).real = Clamp(l.real + 1, l.min, l.max)
    BY <1>2, <1>3, SMTT(30)
  <1>5. ASSUME NEW a \in Nat, NEW lo \in Nat, NEW hi \in Nat, NEW r \in Nat,
               r = Clamp(a, lo, hi), r # 0
        PROVE  Clamp(r + 1, lo, hi) # 0
    BY <1>5 DEF Clamp
  <1>6. l.real # 0 => Clamp(l.real + 1, l.min, l.max) # 0
    BY <1>1, <1>3, <1>5
  <1>7. \A lo, hi, n \in Nat : Limits(lo, hi, n) =
          Limits(Limits(lo, hi, n).min, Limits(lo, hi, n).max, Limits(lo, hi, n).requested)
    BY DEF Limits
  <1>8. l.real # 0 => Limits(l.min, l.max, l.real + 1).real # 0
    BY <1>4, <1>6
  <1>9. QED
    BY <1>7, <1>8, Zenon

(* What a miss makes of the two lists and the capacities.                  *)
LEMMA MissLists ==
  ASSUME LInv, NEW t \in Threads, NEW k \in Keys, pc[t] \notin Locking, slot[k] = NoEntry
  PROVE  /\ Miss(k).order \in Seq(Keys) /\ IsInjective(Miss(k).order)
         /\ Miss(k).victims \subseteq Cached
         /\ ToSet(Miss(k).order)
              = (Cached \ Miss(k).victims) \cup (IF Miss(k).stored THEN {k} ELSE {})
         /\ Len(Miss(k).order) <= Miss(k).limits.real + Cardinality(Threads)
         /\ Miss(k).limits = Limits(Miss(k).limits.min, Miss(k).limits.max,
                                    Miss(k).limits.requested)
         /\ GhostsOK(Miss(k).ghosts, Miss(k).ghostCap) /\ Miss(k).ghostCap \in Nat
         /\ Miss(k).count \in 0 .. 2
  <1> DEFINE V1     == Victims(order, limits.real)
             stored == limits.real # 0
             ord1   == Without(order, V1)
             ord2   == IF stored THEN <<k>> \o ord1 ELSE ord1
             gs1    == GhostsAfter(ghosts, ghostCap, order, V1)
             count  == IF IsGhost(gs1, k) THEN GhostCount(gs1, k) ELSE 0
             gs2    == GhostPut(gs1, ghostCap, k, count)
             grow   == count > 1 /\ Mode # "CACHE_NO_RESIZE"
             lim    == IF grow THEN Limits(limits.min, limits.max, limits.real + 1)
                               ELSE limits
             V2     == IF grow THEN Victims(ord2, lim.real) ELSE {}
             gs3    == GhostsAfter(gs2, ghostCap, ord2, V2)
             gcap   == IF grow THEN GHOSTS_MIN_CAPACITY + lim.real * 2 ELSE ghostCap
             gs4    == IF grow THEN GhostTrim(gs3, gcap) ELSE gs3
             ord3   == Without(ord2, V2)
  <1>1. /\ Miss(k).order = ord3 /\ Miss(k).victims = V1 \cup V2
        /\ Miss(k).stored = stored /\ Miss(k).limits = lim
        /\ Miss(k).ghostCap = gcap /\ Miss(k).count = count
        /\ Miss(k).ghosts = IF stored THEN gs4 ELSE GhostBump(gs4, k)
    BY DEF Miss
  <1>2. /\ IInv /\ order \in Seq(Keys) /\ IsInjective(order) /\ ToSet(order) = Cached
        /\ Len(order) \in Nat
    BY LenProperties DEF LInv, ListsOK, Cached
  <1>3. /\ GhostsOK(ghosts, ghostCap) /\ ghostCap \in Nat
        /\ \A j \in Cached : ghosted[slot[j]] \in 0 .. 2
    BY DEF LInv, ListsOK, GhostsOK, Ghost, IInv, TypeOK, Cached
  <1>4. /\ limits \in [min : Nat, max : Nat, requested : Nat, real : Nat]
        /\ limits = Limits(limits.min, limits.max, limits.requested)
    BY DEF LInv, LimitsOK, IInv, TypeOK
  <1>5. \A ord \in Seq(Keys), cap \in Nat : Surplus(ord, cap) \subseteq ToSet(ord)
    <2>1. ASSUME NEW ord \in Seq(Keys), NEW cap \in Nat, NEW x \in Surplus(ord, cap)
          PROVE  x \in ToSet(ord)
      <3>1. PICK i \in (cap + 1) .. Len(ord) : x = ord[i]
        BY DEF Surplus
      <3>2. Len(ord) \in Nat /\ DOMAIN ord = 1 .. Len(ord)
        BY LenProperties
      <3>3. i \in DOMAIN ord
        BY <3>2
      <3>4. QED
        BY <3>1, <3>3 DEF ToSet
    <2>2. QED
      BY <2>1
  <1>6. V1 \subseteq Cached /\ V1 \subseteq Keys /\ k \notin Cached
    BY <1>2, <1>4, <1>5 DEF Victims, Cached
  <1>7. ord1 \in Seq(Keys) /\ IsInjective(ord1) /\ ToSet(ord1) = Cached \ V1
    BY <1>2, WithoutFacts
  <1>8. Len(ord1) <= limits.real + (Cardinality(Threads) - 1)
        /\ Cardinality(Threads) \in Nat
    <2>1. Threads \ {t} \in SUBSET Threads
          /\ \A s \in Threads : pc[s] \in Locking => s \in Threads \ {t}
      OBVIOUS
    <2>2. Surplus(order, limits.real) \subseteq Cached
      BY <1>2, <1>4, <1>5
    <2>3. Len(ord1) <= limits.real + Cardinality(Threads \ {t})
      BY <1>2, <1>4, <2>1, <2>2, TrimBound
    <2>4. Cardinality(Threads \ {t}) = Cardinality(Threads) - 1
      BY ThreadsAssumption, FS_RemoveElement
    <2>5. QED
      BY <2>3, <2>4, ThreadsAssumption, FS_CardinalityType
  <1> HIDE DEF V1, ord1
  <1>9. /\ ord2 \in Seq(Keys) /\ IsInjective(ord2)
        /\ ToSet(ord2) = (Cached \ V1) \cup (IF stored THEN {k} ELSE {})
        /\ Len(ord2) <= limits.real + Cardinality(Threads)
        /\ stored => ord2[1] = k
    <2>1. Len(ord1) \in Nat /\ limits.real \in Nat
      BY <1>4, <1>7, LenProperties
    <2>2. k \notin ToSet(ord1)
      BY <1>6, <1>7
    <2>3. /\ <<k>> \o ord1 \in Seq(Keys) /\ Len(<<k>> \o ord1) = Len(ord1) + 1
          /\ (<<k>> \o ord1)[1] = k
          /\ ToSet(<<k>> \o ord1) = ToSet(ord1) \cup {k} /\ IsInjective(<<k>> \o ord1)
      BY <1>7, <2>2, PutInFront
    <2>4. CASE stored
      <3>1. ord2 = <<k>> \o ord1
        BY <2>4
      <3> HIDE DEF ord2
      <3>2. QED
        BY <3>1, <2>1, <2>3, <2>4, <1>7, <1>8
    <2>5. CASE ~stored
      <3>1. ord2 = ord1
        BY <2>5
      <3> HIDE DEF ord2
      <3>2. QED
        BY <3>1, <2>1, <2>5, <1>7, <1>8
    <2>6. QED
      BY <2>4, <2>5
  <1> HIDE DEF ord2
  <1>10. GhostsOK(gs1, ghostCap)
    BY <1>2, <1>3, <1>6, GhostsAfterOK
  <1> HIDE DEF gs1
  <1>11. count \in 0 .. 2
    BY <1>10, GhostFound DEF GhostsOK
  <1>12. GhostsOK(gs2, ghostCap)
    <2> HIDE DEF count
    <2>1. QED
      BY <1>3, <1>10, <1>11, GhostPutOK
  <1> HIDE DEF count, gs2, grow
  <1>13. /\ lim \in [min : Nat, max : Nat, requested : Nat, real : Nat]
         /\ lim = Limits(lim.min, lim.max, lim.requested)
         /\ stored => lim.real # 0
    <2>1. /\ limits.min \in Nat /\ limits.max \in Nat /\ limits.real + 1 \in Nat
      BY <1>4
    <2> DEFINE l == Limits(limits.min, limits.max, limits.real + 1)
    <2>2. /\ l \in [min : Nat, max : Nat, requested : Nat, real : Nat]
          /\ l = Limits(l.min, l.max, l.requested)
          /\ limits.real # 0 => l.real # 0
      <3>1. PICK m : m = l
        OBVIOUS
      <3>2. /\ m \in [min : Nat, max : Nat, requested : Nat, real : Nat]
            /\ m = Limits(m.min, m.max, m.requested)
        BY <2>1, <3>1, LimitsMade, Zenon
      <3>3. limits.real # 0 => l.real # 0
        BY <1>4, GrownCapacity, Zenon
      <3>4. QED
        BY <3>1, <3>2, <3>3, Zenon
    <2>3. lim \in {l, limits}
      OBVIOUS
    <2> HIDE DEF l, lim
    <2>4. QED
      BY <2>2, <2>3, <1>4
  <1>14. lim.real \in Nat
    BY <1>13
  <1>15. Surplus(ord2, lim.real) \subseteq Cached
    <2>1. ASSUME NEW x \in Surplus(ord2, lim.real), stored PROVE x # k
      <3>1. PICK i \in (lim.real + 1) .. Len(ord2) : x = ord2[i]
        BY DEF Surplus
      <3>2. Len(ord2) \in Nat /\ DOMAIN ord2 = 1 .. Len(ord2)
        BY <1>9, LenProperties
      <3>3. i # 1 /\ i \in DOMAIN ord2 /\ 1 \in DOMAIN ord2
        BY <1>13, <1>14, <2>1, <3>2
      <3>4. QED
        BY <3>1, <3>3, <1>9, <2>1 DEF IsInjective
    <2>2. Surplus(ord2, lim.real) \subseteq ToSet(ord2)
      BY <1>5, <1>9, <1>14
    <2>3. QED
      BY <2>1, <2>2, <1>9
  <1>16. V2 \subseteq Cached
    BY <1>15 DEF Victims
  <1>17. ord3 \in Seq(Keys) /\ IsInjective(ord3) /\ ToSet(ord3) = ToSet(ord2) \ V2
    BY <1>9, WithoutFacts
  <1>18. ToSet(ord3) = (Cached \ (V1 \cup V2)) \cup (IF stored THEN {k} ELSE {})
    <2> HIDE DEF ord3, V2, stored
    <2>1. QED
      BY <1>6, <1>9, <1>16, <1>17
  <1>19. Len(ord3) <= lim.real + Cardinality(Threads)
    <2>1. CASE grow
      <3>1. V2 = Victims(ord2, lim.real)
        BY <2>1
      <3>2. Threads \in SUBSET Threads /\ \A s \in Threads : pc[s] \in Locking => s \in Threads
        OBVIOUS
      <3> HIDE DEF V2, lim
      <3>3. Len(Without(ord2, Victims(ord2, lim.real))) <= lim.real + Cardinality(Threads)
        BY <1>2, <1>9, <1>14, <1>15, <3>2, TrimBound
      <3>4. QED
        BY <3>1, <3>3
    <2>2. CASE ~grow
      <3>1. V2 = {} /\ lim = limits
        BY <2>2
      <3> HIDE DEF ord3, V2, lim
      <3>2. ToSet(ord3) = ToSet(ord2)
        BY <1>17, <3>1
      <3>3. Cardinality(ToSet(ord3)) = Len(ord3) /\ Cardinality(ToSet(ord2)) = Len(ord2)
        BY <1>9, <1>17, LengthCounts
      <3>4. QED
        BY <3>1, <3>2, <3>3, <1>9
    <2>3. QED
      BY <2>1, <2>2
  <1>20. GhostsOK(gs3, ghostCap)
    <2>1. Len(ord2) \in Nat /\ \A j \in V2 : j \in Keys /\ ghosted[slot[j]] \in 0 .. 2
      <3> HIDE DEF V2
      <3>1. QED
        BY <1>3, <1>9, <1>16, LenProperties DEF Cached
    <2> HIDE DEF V2
    <2>2. QED
      BY <1>3, <1>12, <2>1, GhostsAfterOK
  <1> HIDE DEF gs3
  <1>21. gcap \in Nat
    <2> HIDE DEF lim
    <2>1. GHOSTS_MIN_CAPACITY \in Nat
      BY BoundAssumption
    <2>2. QED
      BY <1>3, <1>14, <2>1
  <1>22. GhostsOK(gs4, gcap)
    <2>1. CASE grow
      <3>1. gs4 = GhostTrim(gs3, gcap)
        BY <2>1
      <3> HIDE DEF gs4, gcap
      <3>2. QED
        BY <3>1, <1>3, <1>20, <1>21, GhostTrimOK
    <2>2. CASE ~grow
      BY <2>2, <1>20
    <2>3. QED
      BY <2>1, <2>2
  <1> HIDE DEF gs4, gcap
  <1>23. GhostsOK(IF stored THEN gs4 ELSE GhostBump(gs4, k), gcap)
    <2>1. GhostsOK(GhostBump(gs4, k), gcap)
      BY <1>21, <1>22, GhostBumpOK
    <2>2. QED
      BY <1>22, <2>1
  <1> HIDE DEF ord3, V2, lim, stored
  <1>24. /\ Miss(k).order \in Seq(Keys) /\ IsInjective(Miss(k).order)
         /\ Miss(k).victims \subseteq Cached
         /\ ToSet(Miss(k).order)
              = (Cached \ Miss(k).victims) \cup (IF Miss(k).stored THEN {k} ELSE {})
    BY <1>1, <1>6, <1>16, <1>17, <1>18
  <1>25. /\ Len(Miss(k).order) <= Miss(k).limits.real + Cardinality(Threads)
         /\ Miss(k).limits = Limits(Miss(k).limits.min, Miss(k).limits.max,
                                    Miss(k).limits.requested)
    BY <1>1, <1>13, <1>19
  <1>26. /\ GhostsOK(Miss(k).ghosts, Miss(k).ghostCap) /\ Miss(k).ghostCap \in Nat
         /\ Miss(k).count \in 0 .. 2
    BY <1>1, <1>11, <1>21, <1>23
  <1>27. QED
    BY <1>24, <1>25, <1>26

\* The lists and the capacities are in order.
TidyLists == ListsOK /\ LimitsOK /\ SizeBound

(* A step that touches neither lists nor capacities.                       *)
LEMMA ListsAside ==
  ASSUME LInv, UNCHANGED cacheVars
  PROVE  TidyLists'
  BY DEF LInv, TidyLists, ListsOK, LimitsOK, SizeBound, cacheVars

(* A lookup that finds its key.                                            *)
LEMMA FoundLists ==
  ASSUME LInv, NEW k \in Keys, slot[k] # NoEntry, order' = Touch(order, k),
         UNCHANGED <<slot, limits, ghosts, ghostCap, ghosted>>
  PROVE  TidyLists'
  <1>1. order \in Seq(Keys) /\ IsInjective(order) /\ k \in ToSet(order)
        /\ ToSet(order) = {j \in Keys : slot[j] # NoEntry}
    BY DEF LInv, ListsOK
  <1>2. /\ order' \in Seq(Keys) /\ IsInjective(order')
        /\ ToSet(order') = ToSet(order) /\ Len(order') = Len(order)
    BY <1>1, TouchFacts
  <1>3. ListsOK'
    BY <1>1, <1>2 DEF LInv, ListsOK
  <1>4. LimitsOK' /\ SizeBound'
    BY <1>2 DEF LInv, LimitsOK, SizeBound
  <1>5. QED
    BY <1>3, <1>4 DEF TidyLists

(* A lookup that does not.                                                 *)
LEMMA MissedLists ==
  ASSUME LInv, NEW t \in Threads, NEW k \in Keys, LookupMiss(t, k)
  PROVE  TidyLists'
  <1> DEFINE V == Miss(k).victims
  <1>1. pc[t] \notin Locking /\ slot[k] = NoEntry
    BY DEF LookupMiss, Locking, Waiting, Producing
  <1>2. /\ order' = Miss(k).order /\ limits' = Miss(k).limits
        /\ ghosts' = Miss(k).ghosts /\ ghostCap' = Miss(k).ghostCap
    BY DEF LookupMiss
  <1>3. /\ order' \in Seq(Keys) /\ IsInjective(order') /\ V \subseteq Cached
        /\ ToSet(order') = (Cached \ V) \cup (IF Miss(k).stored THEN {k} ELSE {})
        /\ Len(order') <= limits'.real + Cardinality(Threads)
        /\ limits' = Limits(limits'.min, limits'.max, limits'.requested)
        /\ GhostsOK(ghosts', ghostCap') /\ ghostCap' \in Nat
        /\ Miss(k).count \in 0 .. 2
    BY <1>1, <1>2, MissLists
  <1> HIDE DEF V
  <1>4. GhostedWithout(V) \in [Entries -> 0 .. 2]
    BY DEF LInv, ListsOK, GhostedWithout
  <1>5. /\ SlotsWithout(V) \in [Keys -> Entries \cup {NoEntry}]
        /\ \A j \in Keys : SlotsWithout(V)[j] # NoEntry <=> j \in Cached \ V
    BY DEF LInv, IInv, TypeOK, SlotsWithout, Cached
  <1>6. ghosted' \in [Entries -> 0 .. 2] /\ {j \in Keys : slot'[j] # NoEntry} = ToSet(order')
    <2>1. CASE Miss(k).stored
      <3>1. PICK e \in Entries : /\ slot' = [SlotsWithout(V) EXCEPT ![k] = e]
                                 /\ ghosted' = [GhostedWithout(V) EXCEPT ![e] = Miss(k).count]
        BY <2>1 DEF LookupMiss, V
      <3>2. ghosted' \in [Entries -> 0 .. 2]
        BY <3>1, <1>3, <1>4
      <3>3. slot'[k] # NoEntry /\ \A j \in Keys : j # k => slot'[j] = SlotsWithout(V)[j]
        BY <3>1, <1>5, EntryAssumption
      <3>4. ToSet(order') = (Cached \ V) \cup {k}
        BY <1>3, <2>1
      <3>5. \A j \in Keys : slot'[j] # NoEntry <=> j \in (Cached \ V) \cup {k}
        BY <3>3, <1>5
      <3>6. QED
        BY <3>2, <3>4, <3>5 DEF Cached
    <2>2. CASE ~Miss(k).stored
      <3>1. slot' = SlotsWithout(V) /\ ghosted' = GhostedWithout(V)
        BY <2>2 DEF LookupMiss, V
      <3>2. ToSet(order') = Cached \ V
        BY <1>3, <2>2
      <3>3. QED
        BY <3>1, <3>2, <1>4, <1>5 DEF Cached
    <2>3. QED
      BY <2>1, <2>2
  <1>7. ListsOK'
    BY <1>3, <1>6 DEF ListsOK, GhostsOK, Ghost
  <1>8. LimitsOK' /\ SizeBound'
    BY <1>3 DEF LimitsOK, SizeBound
  <1>9. QED
    BY <1>7, <1>8 DEF TidyLists

(* rollback() of an entry nobody waits for takes its key off the list.     *)
LEMMA RemovedLists ==
  ASSUME LInv, NEW t \in Threads, RollbackRemove(t)
  PROVE  TidyLists'
  <1> DEFINE k == heap[ent[t]].key
  <1>1. k \in Keys /\ ent[t] \in Entries
    <2>1. pc[t] \in Locking
      BY DEF RollbackRemove, Locking, Producing
    <2>2. QED
      BY <2>1 DEF LInv, IInv, HandlesAreLive
  <1>2. /\ order' = Without(order, {k}) /\ slot' = [slot EXCEPT ![k] = NoEntry]
        /\ ghosted' = [ghosted EXCEPT ![ent[t]] = 0]
        /\ UNCHANGED <<limits, ghosts, ghostCap>>
    BY DEF RollbackRemove
  <1> HIDE DEF k
  <1>3. order \in Seq(Keys) /\ IsInjective(order)
        /\ ToSet(order) = {j \in Keys : slot[j] # NoEntry}
    BY DEF LInv, ListsOK
  <1>4. order' \in Seq(Keys) /\ IsInjective(order') /\ ToSet(order') = ToSet(order) \ {k}
    BY <1>2, <1>3, WithoutFacts
  <1>5. Len(order') <= Len(order)
    <2>1. IsFiniteSet(ToSet(order)) /\ Cardinality(ToSet(order)) = Len(order)
      BY <1>3, LengthCounts
    <2>2. Cardinality(ToSet(order')) = Len(order')
      BY <1>4, LengthCounts
    <2>3. Cardinality(ToSet(order')) <= Cardinality(ToSet(order))
      BY <1>4, <2>1, FS_Subset
    <2>4. QED
      BY <2>1, <2>2, <2>3
  <1>6. slot \in [Keys -> Entries \cup {NoEntry}]
    BY DEF LInv, IInv, TypeOK
  <1>7. {j \in Keys : slot'[j] # NoEntry} = {j \in Keys : slot[j] # NoEntry} \ {k}
    BY <1>1, <1>2, <1>6
  <1>8. ghosted' \in [Entries -> 0 .. 2]
    <2>1. ghosted \in [Entries -> 0 .. 2] /\ 0 \in 0 .. 2
      BY DEF LInv, ListsOK
    <2>2. QED
      BY <2>1, <1>1, <1>2
  <1>9. ListsOK'
    BY <1>2, <1>3, <1>4, <1>7, <1>8 DEF LInv, ListsOK
  <1>10. LimitsOK' /\ SizeBound'
    <2>1. Len(order) \in Nat /\ Len(order') \in Nat /\ limits.real \in Nat
      BY <1>3, <1>4, LenProperties DEF LInv, IInv, TypeOK
    <2>2. Cardinality(Threads) \in Nat
      BY ThreadsAssumption, FS_CardinalityType
    <2>3. Len(order) <= limits.real + Cardinality(Threads)
      BY DEF LInv, SizeBound
    <2>4. SizeBound'
      BY <1>2, <1>5, <2>1, <2>2, <2>3 DEF SizeBound
    <2>5. LimitsOK'
      BY <1>2 DEF LInv, LimitsOK
    <2>6. QED
      BY <2>4, <2>5
  <1>11. QED
    BY <1>9, <1>10 DEF TidyLists

(* set_limits() trims to the new capacity.                                 *)
LEMMA LimitedLists ==
  ASSUME LInv, NEW lo \in Nat, NEW hi \in Nat, SetLimits(lo, hi)
  PROVE  TidyLists'
  <1> DEFINE lim == Limits(lo, hi, limits.requested)
             V == Victims(order, lim.real)
  <1>1. /\ limits' = lim /\ order' = Without(order, V) /\ slot' = SlotsWithout(V)
        /\ ghosted' = GhostedWithout(V) /\ ghostCap' = ghostCap
        /\ ghosts' = GhostsAfter(ghosts, ghostCap, order, V)
    BY DEF SetLimits
  <1>2. /\ limits \in [min : Nat, max : Nat, requested : Nat, real : Nat]
        /\ limits = Limits(limits.min, limits.max, limits.requested)
    BY DEF LInv, LimitsOK, IInv, TypeOK
  <1>3. lim \in [min : Nat, max : Nat, requested : Nat, real : Nat]
        /\ lim = Limits(lim.min, lim.max, lim.requested)
    <2>1. limits.requested \in Nat
      BY <1>2
    <2>2. lim = Limits(lo, hi, limits.requested) /\ lo \in Nat /\ hi \in Nat
      OBVIOUS
    <2> HIDE DEF lim
    <2>3. ASSUME NEW n \in Nat, NEW m, m = Limits(lo, hi, n)
          PROVE  /\ m \in [min : Nat, max : Nat, requested : Nat, real : Nat]
                 /\ m = Limits(m.min, m.max, m.requested)
      BY <2>3, LimitsMade, Zenon
    <2>4. QED
      BY <2>1, <2>2, <2>3, Zenon
  <1> HIDE DEF lim
  <1>4. /\ IInv /\ order \in Seq(Keys) /\ IsInjective(order) /\ ToSet(order) = Cached
        /\ Len(order) \in Nat /\ DOMAIN order = 1 .. Len(order)
    BY LenProperties DEF LInv, ListsOK, Cached
  <1>5. lim.real \in Nat
    BY <1>3
  <1>6. Surplus(order, lim.real) \subseteq Cached
    <2>1. \A i \in lim.real + 1 .. Len(order) : i \in DOMAIN order
      BY <1>4, <1>5
    <2>2. Surplus(order, lim.real) \subseteq ToSet(order)
      BY <2>1 DEF Surplus, ToSet
    <2>3. QED
      BY <2>2, <1>4
  <1>7. V \subseteq Cached
    BY <1>6 DEF Victims
  <1>8. Len(Without(order, V)) <= lim.real + Cardinality(Threads)
    <2>1. Threads \in SUBSET Threads /\ \A s \in Threads : pc[s] \in Locking => s \in Threads
      OBVIOUS
    <2>2. QED
      BY <1>4, <1>5, <1>6, <2>1, TrimBound
  <1> HIDE DEF V
  <1>9. order' \in Seq(Keys) /\ IsInjective(order') /\ ToSet(order') = Cached \ V
    BY <1>1, <1>4, WithoutFacts
  <1>10. {j \in Keys : slot'[j] # NoEntry} = Cached \ V
    BY <1>1, <1>4 DEF IInv, TypeOK, SlotsWithout, Cached
  <1>11. ghosted' \in [Entries -> 0 .. 2]
    BY <1>1 DEF LInv, ListsOK, GhostedWithout
  <1>12. GhostsOK(ghosts', ghostCap') /\ ghostCap' \in Nat
    <2>1. /\ GhostsOK(ghosts, ghostCap) /\ ghostCap \in Nat
          /\ \A j \in V : j \in Keys /\ ghosted[slot[j]] \in 0 .. 2
      BY <1>7 DEF LInv, ListsOK, GhostsOK, Ghost, IInv, TypeOK, Cached
    <2>2. QED
      BY <1>1, <1>4, <2>1, GhostsAfterOK
  <1>13. ListsOK'
    BY <1>9, <1>10, <1>11, <1>12 DEF ListsOK, GhostsOK, Ghost
  <1>14. LimitsOK' /\ SizeBound'
    BY <1>1, <1>3, <1>8 DEF LimitsOK, SizeBound
  <1>15. QED
    BY <1>13, <1>14 DEF TidyLists

(* Every step keeps the lists in order.                                    *)
LEMMA NextLists ==
  ASSUME LInv, [Next]_vars
  PROVE  TidyLists'
  <1>1. ASSUME NEW t \in Threads, NEW k \in Keys, NEW block \in BOOLEAN,
               NEW suppress \in BOOLEAN, Lookup(t, k, block, suppress)
        PROVE  TidyLists'
    <2>1. CASE LookupReady(t, k, block)
      BY <2>1, FoundLists DEF LookupReady
    <2>2. CASE LookupNotAvailable(t, k)
      BY <2>2, FoundLists DEF LookupNotAvailable
    <2>3. CASE LookupWait(t, k, suppress)
      BY <2>3, FoundLists DEF LookupWait
    <2>4. CASE LookupSuppressed(t, k)
      BY <2>4, ListsAside DEF LookupSuppressed
    <2>5. CASE LookupMiss(t, k)
      BY <2>5, MissedLists
    <2>6. QED
      BY <1>1, <2>1, <2>2, <2>3, <2>4, <2>5 DEF Lookup
  <1>2. ASSUME NEW t \in Threads, Step(t) \/ SpuriousWakeup(t)
        PROVE  TidyLists'
    <2>1. CASE RollbackRemove(t)
      BY <2>1, RemovedLists
    <2>2. CASE ~RollbackRemove(t)
      <3>1. UNCHANGED cacheVars
        BY <1>2, <2>2 DEF Step, SpuriousWakeup, WaitAgain, WaitOver, TakeOver, Fill,
           CommitValue, NotifyAll, Rollback, RollbackHandOver, NotifyOne
      <3>2. QED
        BY <3>1, ListsAside
    <2>3. QED
      BY <2>1, <2>2
  <1>3. ASSUME NEW l \in LimitChoices, SetLimits(l[1], l[2])
        PROVE  TidyLists'
    <2>1. l[1] \in Nat /\ l[2] \in Nat
      BY BoundAssumption
    <2>2. QED
      BY <1>3, <2>1, LimitedLists
  <1>4. CASE UNCHANGED vars
    BY <1>4, ListsAside DEF vars
  <1>5. QED
    BY <1>1, <1>2, <1>3, <1>4 DEF Next

(* A new cache has empty lists.                                            *)
LEMMA InitLists == Init => TidyLists
  <1> SUFFICES ASSUME Init PROVE TidyLists
    OBVIOUS
  <1>1. limits = Limits(0, SizeMax, InitialCapacity) /\ 0 \in Nat /\ SizeMax \in Nat
        /\ InitialCapacity \in Nat /\ GHOSTS_MIN_CAPACITY \in Nat
    BY BoundAssumption DEF Init
  <1>2. LimitsOK
    BY <1>1 DEF LimitsOK, Limits
  <1>3. limits.real \in Nat /\ Cardinality(Threads) \in Nat
    BY <1>1, LimitsType, ThreadsAssumption, FS_CardinalityType
  <1>4. order = <<>> /\ ghosts = <<>> /\ Len(<<>>) = 0 /\ DOMAIN <<>> = {}
    BY DEF Init
  <1>5. SizeBound
    BY <1>3, <1>4 DEF SizeBound
  <1>6. <<>> \in Seq(Keys) /\ IsInjective(<<>>) /\ ToSet(<<>>) = {}
        /\ <<>> \in Seq([key : Keys, ghosted : 0 .. 2])
    BY DEF IsInjective, ToSet
  <1>7. ListsOK
    BY <1>1, <1>4, <1>6 DEF Init, ListsOK
  <1>8. QED
    BY <1>2, <1>5, <1>7 DEF TidyLists

(* LInv holds in every reachable state: on top of IInv, both lists are in  *)
(* order after every lookup, eviction, rollback and change of limits.      *)
THEOREM ListsInvariance == Spec => []LInv
  <1>1. Init => LInv
    BY InitIInv, InitLists DEF LInv, TidyLists
  <1>2. ASSUME LInv, [Next]_vars PROVE LInv'
    <2>1. IInv'
      BY <1>2, NextIInv DEF LInv
    <2>2. TidyLists'
      BY <1>2, NextLists
    <2>3. QED
      BY <2>1, <2>2 DEF LInv, TidyLists
  <1>3. QED
    BY <1>1, <1>2, PTL DEF Spec

(* MainCache lists every cached key once and no other, the ghosts are      *)
(* distinct and no more than their capacity and one.                       *)
THEOREM ListsConsistent == Spec => []ListsOK
  <1>1. LInv => ListsOK
    BY DEF LInv
  <1>2. QED
    BY <1>1, ListsInvariance, PTL

(* The cache exceeds its capacity by at most one entry per thread.         *)
THEOREM SizeIsBounded == Spec => []SizeBound
  <1>1. LInv => SizeBound
    BY DEF LInv
  <1>2. QED
    BY <1>1, ListsInvariance, PTL

-----------------------------------------------------------------------------
(* The contract of FrameEntries.                                           *)

WaitersStay == \A k \in Keys : WaitersFor(k)' = WaitersFor(k)
StatesStay == \A k \in Keys : EntryState(k)' = EntryState(k)

(* A caller that neither waited nor waits leaves those who do alone.       *)
LEMMA CallerAside ==
  ASSUME IInv, NEW t \in Threads, pc[t] \notin Waiting, pc'[t] \notin Waiting,
         \A s \in Threads : s # t => pc'[s] = pc[s] /\ key'[s] = key[s]
  PROVE  WaitersStay
  BY DEF WaitersStay, WaitersFor

(* An entry that nobody has locked is committed and nobody waits for it:   *)
(* if it were empty its producer had a lock, if rolled back its heir.      *)
LEMMA UnlockedIsIdle ==
  ASSUME IInv, NEW k \in Keys, slot[k] # NoEntry, heap[slot[k]].locks = 0
  PROVE  EntryState(k) = "AVAILABLE" /\ WaitersFor(k) = {}
  <1>1. slot[k] \in Entries
    BY DEF IInv, TypeOK
  <1>2. Cardinality(Lockers(slot[k])) = 0
    BY DEF IInv, LockAccounting
  <1>3. Lockers(slot[k]) = {}
    BY <1>2, LockersFinite, FS_EmptySet
  <1>4. \A t \in Threads : pc[t] \in Waiting \/ pc[t] \in Producing => ent[t] # slot[k]
    BY <1>3 DEF Lockers, Locking
  <1>5. heap[slot[k]].state # "EMPTY" /\ heap[slot[k]].state # "ROLLED_BACK"
    BY <1>4 DEF IInv, SingleProducer, HeirExists
  <1>6. heap[slot[k]].state \in {"EMPTY", "AVAILABLE", "ROLLED_BACK"}
    BY <1>1 DEF IInv, TypeOK
  <1>7. \A t \in Threads : pc[t] \in Waiting /\ key[t] = k => ent[t] = slot[k]
    BY DEF IInv, HandlesAreLive, Locking
  <1>8. QED
    BY <1>4, <1>5, <1>6, <1>7 DEF EntryState, WaitersFor

\* Evicting the keys V looks like evicting the entries of W.
SeenAs(V, W) ==
  /\ W \in SUBSET Keys /\ Contract!Idle(W)
  /\ \A k \in Keys :
       IF SlotsWithout(V)[k] = NoEntry
       THEN Contract!Gone(W)[k] = "ABSENT"
       ELSE /\ Contract!Gone(W)[k] = heap[slot[k]].state
            /\ SlotsWithout(V)[k] = slot[k]
            /\ HeapWithout(V)[slot[k]] = heap[slot[k]]

(* What evicting the unlocked keys V does to the entries.                  *)
LEMMA EvictionSeen ==
  ASSUME IInv, NEW V \in SUBSET Keys, \A v \in V : heap[slot[v]].locks = 0, NEW W,
         W = {v \in V : slot[v] # NoEntry}
  PROVE  SeenAs(V, W)
  <1>1. W \in SUBSET Keys /\ \A k \in W : EntryState(k) = "AVAILABLE" /\ WaitersFor(k) = {}
    BY UnlockedIsIdle
  <1>2. Contract!Idle(W)
    BY <1>1 DEF Contract!Idle
  <1>3. \A k \in Keys : Contract!Gone(W)[k] = IF k \in W THEN "ABSENT" ELSE EntryState(k)
    BY DEF Contract!Gone
  <1>4. \A k \in Keys : SlotsWithout(V)[k] # NoEntry =>
          /\ SlotsWithout(V)[k] = slot[k]
          /\ HeapWithout(V)[slot[k]] = heap[slot[k]]
    BY EvictionSpares
  <1>5. \A k \in Keys : SlotsWithout(V)[k] = IF k \in V THEN NoEntry ELSE slot[k]
    BY DEF SlotsWithout
  <1>6. QED
    BY <1>1, <1>2, <1>3, <1>4, <1>5 DEF EntryState, SeenAs

(* trim(), when nothing is inserted.                                       *)
LEMMA TrimEvicts ==
  ASSUME IInv, NEW V \in SUBSET Keys, \A v \in V : heap[slot[v]].locks = 0,
         slot' = SlotsWithout(V), heap' = HeapWithout(V), WaitersStay
  PROVE  Contract!Next
  <1>1. PICK W : W = {v \in V : slot[v] # NoEntry}
    OBVIOUS
  <1>2. /\ W \in SUBSET Keys /\ Contract!Idle(W)
        /\ \A k \in Keys :
              IF SlotsWithout(V)[k] = NoEntry
              THEN Contract!Gone(W)[k] = "ABSENT"
              ELSE /\ Contract!Gone(W)[k] = heap[slot[k]].state
                   /\ SlotsWithout(V)[k] = slot[k]
                   /\ HeapWithout(V)[slot[k]] = heap[slot[k]]
    <2>1. SeenAs(V, W)
      BY <1>1, EvictionSeen, Zenon
    <2>2. QED
      BY <2>1 DEF SeenAs
  <1>3. \A k \in Keys : EntryState(k)' = Contract!Gone(W)[k]
    BY <1>2 DEF EntryState
  <1>4. [k \in Keys |-> EntryState(k)]' = Contract!Gone(W)
    BY <1>3 DEF Contract!Gone
  <1>5. Contract!Evict(W)
    BY <1>2, <1>4 DEF Contract!Evict, WaitersStay
  <1>6. QED
    BY <1>2, <1>5 DEF Contract!Next

(* A miss: a new entry, or only the evictions when there is no capacity.   *)
LEMMA MissStarts ==
  ASSUME IInv, NEW t \in Threads, NEW k \in Keys, LookupMiss(t, k)
  PROVE  Contract!Next
  <1>1. PICK V \in SUBSET Keys : V = Miss(k).victims
                               /\ \A v \in V : heap[slot[v]].locks = 0
    BY MissFacts DEF IInv
  <1>2. pc[t] = "idle" /\ slot[k] = NoEntry /\ "idle" \notin Waiting /\ "producing" \notin Waiting
    BY DEF LookupMiss, Waiting
  <1>3. CASE ~Miss(k).stored
    <2>1. slot' = SlotsWithout(V) /\ heap' = HeapWithout(V) /\ Return(t, None)
      BY <1>1, <1>3 DEF LookupMiss
    <2>2. WaitersStay
      BY <1>2, <2>1, CallerAside DEF Return, IInv, TypeOK
    <2>3. QED
      BY <1>1, <2>1, <2>2, TrimEvicts, Zenon
  <1>4. CASE Miss(k).stored
    <2>1. PICK e \in Entries \ {SlotsWithout(V)[j] : j \in Keys} :
             /\ slot' = [SlotsWithout(V) EXCEPT ![k] = e]
             /\ heap' = [HeapWithout(V) EXCEPT ![e] = [Reset(k) EXCEPT !.locks = 1]]
             /\ Enter(t, "producing", k, e, Miss(k).suppress)
      BY <1>1, <1>4 DEF LookupMiss
    <2>2. WaitersStay
      BY <1>2, <2>1, CallerAside DEF Enter, IInv, TypeOK
    <2>3. PICK W : W = {v \in V : slot[v] # NoEntry}
      OBVIOUS
    <2>4. /\ W \in SUBSET Keys /\ Contract!Idle(W)
          /\ \A j \in Keys :
                IF SlotsWithout(V)[j] = NoEntry
                THEN Contract!Gone(W)[j] = "ABSENT"
                ELSE /\ Contract!Gone(W)[j] = heap[slot[j]].state
                     /\ SlotsWithout(V)[j] = slot[j]
                     /\ HeapWithout(V)[slot[j]] = heap[slot[j]]
      <3>1. SeenAs(V, W)
        BY <1>1, <2>3, EvictionSeen, Zenon
      <3>2. QED
        BY <3>1 DEF SeenAs
    <2>5. /\ SlotsWithout(V) \in [Keys -> Entries \cup {NoEntry}]
          /\ HeapWithout(V) \in [Entries -> [key : Keys \cup {NULL},
                value : Keys \cup {NULL}, locks : Nat,
                state : {"EMPTY", "AVAILABLE", "ROLLED_BACK"}]]
      BY <1>1, EvictionSpares
    <2>6. slot'[k] = e /\ heap'[e].state = "EMPTY" /\ e # NoEntry
      BY <2>1, <2>5, EntryAssumption DEF Reset
    <2>7. \A j \in Keys : j # k => /\ slot'[j] = SlotsWithout(V)[j] /\ slot'[j] # e
                                   /\ heap'[slot'[j]] = HeapWithout(V)[slot'[j]]
      BY <2>1, <2>5
    <2>8. \A j \in Keys : EntryState(j)' = IF j = k THEN "EMPTY" ELSE Contract!Gone(W)[j]
      BY <2>4, <2>6, <2>7 DEF EntryState
    <2>9. [j \in Keys |-> EntryState(j)]' = [Contract!Gone(W) EXCEPT ![k] = "EMPTY"]
      BY <2>8 DEF Contract!Gone
    <2>10. EntryState(k) = "ABSENT"
      BY <1>2 DEF EntryState
    <2>11. Contract!Start(k, W)
      BY <2>2, <2>4, <2>9, <2>10 DEF Contract!Start, WaitersStay
    <2>12. QED
      BY <2>4, <2>11 DEF Contract!Next
  <1>5. QED
    BY <1>3, <1>4

(* A step that changes the entry of frame k, and no other.                 *)
LEMMA EntryAlone ==
  ASSUME IInv, NEW k \in Keys, slot[k] # NoEntry, slot' = slot, NEW r,
         heap' = [heap EXCEPT ![slot[k]] = r]
  PROVE  \A j \in Keys : EntryState(j)' = IF j = k THEN r.state ELSE EntryState(j)
  <1>1. slot \in [Keys -> Entries \cup {NoEntry}] /\ slot[k] \in Entries
        /\ DOMAIN heap = Entries
    BY DEF IInv, TypeOK
  <1>2. \A j \in Keys : j # k => slot[j] # slot[k]
    BY DEF IInv, EntriesOK
  <1>3. heap'[slot[k]] = r /\ \A j \in Keys : j # k => heap'[slot[j]] = heap[slot[j]]
    BY <1>1, <1>2
  <1>4. QED
    BY <1>3 DEF EntryState

(* What a caller that locks an entry sees through the contract.            *)
LEMMA HandleSeen ==
  ASSUME IInv, NEW t \in Threads, pc[t] \in Locking
  PROVE  /\ key[t] \in Keys /\ slot[key[t]] = ent[t] /\ ent[t] \in Entries /\ ent[t] # NoEntry
         /\ EntryState(key[t]) = heap[ent[t]].state
         /\ pc[t] \in Producing => heap[ent[t]].state = "EMPTY"
  BY EntryAssumption DEF IInv, HandlesAreLive, SingleProducer, EntryState

(* Who waits, when caller t begins to ...                                  *)
LEMMA WaiterComes ==
  ASSUME IInv, NEW t \in Threads, NEW k \in Keys, pc[t] \notin Waiting, pc'[t] \in Waiting,
         \A s \in Threads : s # t => pc'[s] = pc[s] /\ key'[s] = key[s], key'[t] = k
  PROVE  \A j \in Keys : WaitersFor(j)' = IF j = k THEN WaitersFor(j) \cup {t}
                                                   ELSE WaitersFor(j)
  BY DEF WaitersFor

(* ... and when it leaves.                                                 *)
LEMMA WaiterLeaves ==
  ASSUME IInv, NEW t \in Threads, NEW k \in Keys, pc[t] \in Waiting, pc'[t] \notin Waiting,
         \A s \in Threads : s # t => pc'[s] = pc[s] /\ key'[s] = key[s], key[t] = k
  PROVE  \A j \in Keys : WaitersFor(j)' = IF j = k THEN WaitersFor(j) \ {t}
                                                   ELSE WaitersFor(j)
  BY DEF WaitersFor

(* A lookup that finds its key.                                            *)
LEMMA LookupKeepsContract ==
  ASSUME IInv, NEW t \in Threads, NEW k \in Keys, NEW block \in BOOLEAN,
         NEW suppress \in BOOLEAN, Lookup(t, k, block, suppress)
  PROVE  Contract!Next \/ (StatesStay /\ WaitersStay)
  <1>1. CASE LookupReady(t, k, block) \/ LookupNotAvailable(t, k) \/ LookupSuppressed(t, k)
    <2>1. /\ pc[t] = "idle" /\ pc' = [pc EXCEPT ![t] = "idle"] /\ key' = [key EXCEPT ![t] = NULL]
          /\ slot' = slot /\ heap' = heap
      BY <1>1 DEF LookupReady, LookupNotAvailable, LookupSuppressed, Return, cacheVars
    <2>2. WaitersStay
      BY <2>1, CallerAside DEF Waiting, IInv, TypeOK
    <2>3. StatesStay
      BY <2>1 DEF StatesStay, EntryState
    <2>4. QED
      BY <2>2, <2>3
  <1>2. CASE LookupWait(t, k, suppress)
    <2>1. /\ pc[t] = "idle" /\ slot[k] # NoEntry /\ heap[slot[k]].state = "EMPTY"
          /\ heap' = [heap EXCEPT ![slot[k]].locks = @ + 1] /\ slot' = slot
          /\ pc' = [pc EXCEPT ![t] = "waiting"] /\ key' = [key EXCEPT ![t] = k]
      BY <1>2 DEF LookupWait, Enter
    <2>2. slot[k] \in Entries /\ heap[slot[k]] \in [key : Keys \cup {NULL},
            value : Keys \cup {NULL}, locks : Nat, state : {"EMPTY", "AVAILABLE", "ROLLED_BACK"}]
      BY <2>1 DEF IInv, TypeOK
    <2>3. PICK r : r = [heap[slot[k]] EXCEPT !.locks = @ + 1]
      OBVIOUS
    <2>4. heap' = [heap EXCEPT ![slot[k]] = r] /\ r.state = "EMPTY"
      BY <2>1, <2>2, <2>3
    <2>5. \A j \in Keys : EntryState(j)' = IF j = k THEN r.state ELSE EntryState(j)
      BY <2>1, <2>4, EntryAlone, Zenon
    <2>6. EntryState(k) = "EMPTY"
      BY <2>1 DEF EntryState
    <2>7. \A j \in Keys : EntryState(j)' = EntryState(j)
      BY <2>4, <2>5, <2>6
    <2>8. /\ key'[t] = k /\ \A s \in Threads : s # t => pc'[s] = pc[s] /\ key'[s] = key[s]
          /\ pc'[t] \in Waiting /\ pc[t] \notin Waiting
      BY <2>1 DEF Waiting, IInv, TypeOK
    <2>9. \A j \in Keys : WaitersFor(j)' = IF j = k THEN WaitersFor(j) \cup {t}
                                                    ELSE WaitersFor(j)
      BY <2>8, WaiterComes, Zenon
    <2>10. \A j \in Keys : t \notin WaitersFor(j)
      BY <2>8 DEF WaitersFor
    <2>11. Contract!Wait(t, k)
      BY <2>6, <2>7, <2>9, <2>10 DEF Contract!Wait
    <2>12. QED
      BY <2>11 DEF Contract!Next
  <1>3. CASE LookupMiss(t, k)
    BY <1>3, MissStarts, Zenon
  <1>4. QED
    BY <1>1, <1>2, <1>3 DEF Lookup

(* Waking up, and notifying: those who wait go on doing so.                *)
LEMMA WakingKeepsContract ==
  ASSUME IInv, NEW t \in Threads,
         SpuriousWakeup(t) \/ WaitAgain(t) \/ NotifyAll(t) \/ NotifyOne(t)
  PROVE  StatesStay /\ WaitersStay
  <1>1. slot' = slot /\ heap' = heap
    BY DEF SpuriousWakeup, WaitAgain, NotifyAll, NotifyOne, cacheVars
  <1>2. StatesStay
    BY <1>1 DEF StatesStay, EntryState
  <1>3. "waiting" \in Waiting /\ "woken" \in Waiting /\ "idle" \notin Waiting
        /\ "notifyAll" \notin Waiting /\ "notifyOne" \notin Waiting
    BY DEF Waiting
  <1>4. CASE SpuriousWakeup(t) \/ WaitAgain(t)
    <2>1. key' = key /\ \A s \in Threads : pc'[s] \in Waiting <=> pc[s] \in Waiting
      BY <1>3, <1>4 DEF SpuriousWakeup, WaitAgain, IInv, TypeOK
    <2>2. QED
      BY <1>2, <2>1 DEF WaitersStay, WaitersFor
  <1>5. CASE NotifyAll(t)
    <2>1. /\ \A s \in Threads : pc'[s] \in Waiting <=> pc[s] \in Waiting
          /\ pc[t] \notin Waiting /\ \A s \in Threads : s # t => key'[s] = key[s]
      BY <1>3, <1>5 DEF NotifyAll, IInv, TypeOK
    <2>2. QED
      BY <1>2, <2>1 DEF WaitersStay, WaitersFor
  <1>6. CASE NotifyOne(t)
    <2>1. /\ pc[t] = "notifyOne" /\ \A s \in Threads : s # t => key'[s] = key[s]
      BY <1>6 DEF NotifyOne, IInv, TypeOK
    <2>2. \/ pc' = [pc EXCEPT ![t] = "idle"]
          \/ \E s \in Threads : /\ pc[s] = "waiting"
                                /\ pc' = [pc EXCEPT ![t] = "idle", ![s] = "woken"]
      BY <1>6 DEF NotifyOne
    <2>3. \A s \in Threads : pc'[s] \in Waiting <=> pc[s] \in Waiting
      BY <1>3, <2>1, <2>2 DEF IInv, TypeOK
    <2>4. QED
      BY <1>2, <1>3, <2>1, <2>3 DEF WaitersStay, WaitersFor
  <1>7. QED
    BY <1>4, <1>5, <1>6

(* A waiter leaves with the frame, or as the next producer.                *)
LEMMA LeavingKeepsContract ==
  ASSUME IInv, NEW t \in Threads, WaitOver(t) \/ TakeOver(t)
  PROVE  Contract!Next
  <1>1. pc[t] = "woken" /\ pc[t] \in Locking /\ pc[t] \in Waiting
    BY DEF WaitOver, TakeOver, Locking, Waiting
  <1>2. PICK k \in Keys, e \in Entries :
          key[t] = k /\ ent[t] = e /\ slot[k] = e /\ e # NoEntry
    BY <1>1, HandleSeen
  <1>3. t \in WaitersFor(k)
    BY <1>1, <1>2 DEF WaitersFor
  <1>4. heap[e] \in [key : Keys \cup {NULL}, value : Keys \cup {NULL}, locks : Nat,
                     state : {"EMPTY", "AVAILABLE", "ROLLED_BACK"}]
    BY DEF IInv, TypeOK
  <1>5. EntryState(k) = heap[e].state
    BY <1>2 DEF EntryState
  <1>6. CASE WaitOver(t)
    <2>1. /\ heap[e].state = "AVAILABLE" /\ slot' = slot
          /\ heap' = [heap EXCEPT ![slot[k]] = [heap[e] EXCEPT !.locks = @ - 1]]
          /\ pc' = [pc EXCEPT ![t] = "idle"] /\ key' = [key EXCEPT ![t] = NULL]
      BY <1>2, <1>6 DEF WaitOver, Return, cacheVars
    <2>2. PICK r : r = [heap[e] EXCEPT !.locks = @ - 1]
      OBVIOUS
    <2>3. heap' = [heap EXCEPT ![slot[k]] = r] /\ r.state = "AVAILABLE"
      BY <1>4, <2>1, <2>2
    <2>4. \A j \in Keys : EntryState(j)' = IF j = k THEN r.state ELSE EntryState(j)
      BY <1>2, <2>1, <2>3, EntryAlone
    <2>5. \A j \in Keys : EntryState(j)' = EntryState(j)
      BY <1>5, <2>1, <2>3, <2>4
    <2>6. /\ pc'[t] \notin Waiting
          /\ \A s \in Threads : s # t => pc'[s] = pc[s] /\ key'[s] = key[s]
      BY <2>1 DEF Waiting, IInv, TypeOK
    <2>7. \A j \in Keys : WaitersFor(j)' = IF j = k THEN WaitersFor(j) \ {t} ELSE WaitersFor(j)
      BY <1>1, <1>2, <2>6, WaiterLeaves, Zenon
    <2>8. Contract!Answered(t, k)
      BY <1>3, <1>5, <2>1, <2>5, <2>7 DEF Contract!Answered
    <2>9. QED
      BY <2>8 DEF Contract!Next
  <1>7. CASE TakeOver(t)
    <2>1. /\ heap[e].state = "ROLLED_BACK" /\ slot' = slot
          /\ heap' = [heap EXCEPT ![slot[k]] = [heap[e] EXCEPT !.state = "EMPTY"]]
          /\ pc' = [pc EXCEPT ![t] = "producing"] /\ key' = key
      BY <1>2, <1>7 DEF TakeOver, cacheVars
    <2>2. PICK r : r = [heap[e] EXCEPT !.state = "EMPTY"]
      OBVIOUS
    <2>3. heap' = [heap EXCEPT ![slot[k]] = r] /\ r.state = "EMPTY"
      BY <1>4, <2>1, <2>2
    <2>4. \A j \in Keys : EntryState(j)' = IF j = k THEN r.state ELSE EntryState(j)
      BY <1>2, <2>1, <2>3, EntryAlone
    <2>5. [j \in Keys |-> EntryState(j)]' = [[j \in Keys |-> EntryState(j)] EXCEPT ![k] = "EMPTY"]
      BY <2>3, <2>4
    <2>6. /\ pc'[t] \notin Waiting
          /\ \A s \in Threads : s # t => pc'[s] = pc[s] /\ key'[s] = key[s]
      BY <2>1 DEF Waiting, IInv, TypeOK
    <2>7. \A j \in Keys : WaitersFor(j)' = IF j = k THEN WaitersFor(j) \ {t} ELSE WaitersFor(j)
      BY <1>1, <1>2, <2>6, WaiterLeaves, Zenon
    <2>8. Contract!TakeOver(t, k)
      BY <1>3, <1>5, <2>1, <2>5, <2>7 DEF Contract!TakeOver
    <2>9. QED
      BY <2>8 DEF Contract!Next
  <1>8. QED
    BY <1>6, <1>7

(* The producer of frame k: others that have its entry locked wait.        *)
LEMMA ProducerSees ==
  ASSUME IInv, NEW t \in Threads, pc[t] \in Producing, NEW k \in Keys, key[t] = k
  PROVE  WaitersFor(k) = Lockers(ent[t]) \ {t}
  <1>1. pc[t] \in Locking /\ pc[t] \notin Waiting
    BY DEF Locking, Producing, Waiting
  <1>2. slot[k] = ent[t]
    BY <1>1, HandleSeen
  <1>3. \A s \in Threads : pc[s] \in Waiting /\ key[s] = k => ent[s] = ent[t]
    BY <1>2 DEF IInv, HandlesAreLive, Locking
  <1>4. \A s \in Lockers(ent[t]) : s # t => pc[s] \in Waiting
    BY DEF Lockers, Locking, IInv, SingleProducer
  <1>5. \A s \in Lockers(ent[t]) : key[s] = k
    BY <1>2, EntryAssumption DEF Lockers, IInv, HandlesAreLive, EntriesOK
  <1>6. QED
    BY <1>1, <1>3, <1>4, <1>5 DEF WaitersFor, Lockers, Locking

(* The producer's steps.                                                   *)
LEMMA ProducerKeepsContract ==
  ASSUME IInv, NEW t \in Threads, Fill(t) \/ CommitValue(t) \/ Rollback(t)
  PROVE  Contract!Next \/ (StatesStay /\ WaitersStay)
  <1>1. pc[t] \in Producing /\ pc[t] \in Locking /\ pc[t] \notin Waiting
    BY DEF Fill, CommitValue, Rollback, RollbackRemove, RollbackHandOver, Producing,
           Locking, Waiting
  <1>2. PICK k \in Keys, e \in Entries :
          /\ key[t] = k /\ ent[t] = e /\ slot[k] = e /\ e # NoEntry
          /\ heap[e].state = "EMPTY" /\ EntryState(k) = "EMPTY"
    BY <1>1, HandleSeen
  <1>3. heap[e] \in [key : Keys \cup {NULL}, value : Keys \cup {NULL}, locks : Nat,
                     state : {"EMPTY", "AVAILABLE", "ROLLED_BACK"}]
    BY DEF IInv, TypeOK
  <1>4. /\ WaitersFor(k) = Lockers(e) \ {t} /\ t \in Lockers(e)
        /\ heap[e].locks = Cardinality(Lockers(e)) /\ heap[e].key = k
    <2>1. WaitersFor(k) = Lockers(e) \ {t}
      BY <1>1, <1>2, ProducerSees
    <2>2. t \in Lockers(e)
      BY <1>1, <1>2 DEF Lockers
    <2>3. heap[e].locks = Cardinality(Lockers(e))
      BY <1>2 DEF IInv, LockAccounting
    <2>4. heap[e].key = k
      BY <1>2 DEF IInv, EntriesOK
    <2>5. QED
      BY <2>1, <2>2, <2>3, <2>4
  <1>5. ASSUME NEW w, w \notin Waiting, pc' = [pc EXCEPT ![t] = w],
               \A s \in Threads : s # t => key'[s] = key[s]
        PROVE  WaitersStay
    <2>1. pc'[t] = w /\ \A s \in Threads : s # t => pc'[s] = pc[s]
      BY <1>5 DEF IInv, TypeOK
    <2>2. QED
      BY <1>1, <1>5, <2>1, CallerAside
  <1>6. "filled" \notin Waiting /\ "notifyAll" \notin Waiting /\ "notifyOne" \notin Waiting
        /\ "idle" \notin Waiting
    BY DEF Waiting
  <1>7. ASSUME NEW r, slot' = slot, heap' = [heap EXCEPT ![slot[k]] = r]
        PROVE  \A j \in Keys : EntryState(j)' = IF j = k THEN r.state ELSE EntryState(j)
    BY <1>2, <1>7, EntryAlone
  <1>8. CASE Fill(t)
    <2>1. PICK r : r = [heap[e] EXCEPT !.value = k]
      OBVIOUS
    <2>2. slot' = slot /\ heap' = [heap EXCEPT ![slot[k]] = r] /\ key' = key
          /\ pc' = [pc EXCEPT ![t] = "filled"]
      BY <1>2, <1>8, <2>1 DEF Fill, cacheVars
    <2>3. r.state = "EMPTY"
      BY <1>2, <1>3, <2>1
    <2>4. StatesStay
      BY <1>2, <1>7, <2>2, <2>3 DEF StatesStay
    <2>5. WaitersStay
      BY <1>5, <1>6, <2>2
    <2>6. QED
      BY <2>4, <2>5
  <1>9. CASE CommitValue(t)
    <2>1. PICK r : r = [heap[e] EXCEPT !.state = "AVAILABLE", !.locks = @ - 1]
      OBVIOUS
    <2>2. slot' = slot /\ heap' = [heap EXCEPT ![slot[k]] = r] /\ key' = key
          /\ pc' = [pc EXCEPT ![t] = "notifyAll"]
      <3>1. heap' = [heap EXCEPT ![e].state = "AVAILABLE", ![e].locks = @ - 1]
        BY <1>2, <1>9 DEF CommitValue
      <3>2. heap' = [heap EXCEPT ![e] = r]
        BY <1>3, <2>1, <3>1 DEF IInv, TypeOK
      <3>3. QED
        BY <1>2, <1>9, <3>2 DEF CommitValue, cacheVars
    <2>3. r.state = "AVAILABLE"
      BY <1>3, <2>1
    <2>4. [j \in Keys |-> EntryState(j)]' = [[j \in Keys |-> EntryState(j)] EXCEPT ![k] = "AVAILABLE"]
      BY <1>7, <2>2, <2>3
    <2>5. WaitersStay
      BY <1>5, <1>6, <2>2
    <2>6. Contract!Commit(k)
      BY <1>2, <2>4, <2>5 DEF Contract!Commit, WaitersStay
    <2>7. QED
      BY <2>6 DEF Contract!Next
  <1>10. CASE RollbackHandOver(t)
    <2>1. PICK r : r = [heap[e] EXCEPT !.state = "ROLLED_BACK", !.locks = @ - 1]
      OBVIOUS
    <2>2. slot' = slot /\ heap' = [heap EXCEPT ![slot[k]] = r] /\ key' = key
          /\ pc' = [pc EXCEPT ![t] = "notifyOne"] /\ heap[e].locks > 1
      <3>1. heap' = [heap EXCEPT ![e].state = "ROLLED_BACK", ![e].locks = @ - 1]
        BY <1>2, <1>10 DEF RollbackHandOver
      <3>2. heap' = [heap EXCEPT ![e] = r]
        BY <1>3, <2>1, <3>1 DEF IInv, TypeOK
      <3>3. QED
        BY <1>2, <1>10, <3>2 DEF RollbackHandOver, cacheVars
    <2>3. r.state = "ROLLED_BACK"
      BY <1>3, <2>1
    <2>4. [j \in Keys |-> EntryState(j)]' = [[j \in Keys |-> EntryState(j)] EXCEPT ![k] = "ROLLED_BACK"]
      BY <1>7, <2>2, <2>3
    <2>5. WaitersStay
      BY <1>5, <1>6, <2>2
    <2>6. WaitersFor(k) # {}
      <3>1. Cardinality(Lockers(e)) > 1
        BY <1>4, <2>2
      <3>2. Cardinality({t}) = 1
        BY FS_Singleton
      <3>3. Lockers(e) # {t}
        BY <3>1, <3>2
      <3>4. QED
        BY <1>4, <3>3
    <2>7. Contract!HandOver(k)
      BY <1>2, <2>4, <2>5, <2>6 DEF Contract!HandOver, WaitersStay
    <2>8. QED
      BY <2>7 DEF Contract!Next
  <1>11. CASE RollbackRemove(t)
    <2>1. /\ heap[e].locks = 1 /\ slot' = [slot EXCEPT ![k] = NoEntry]
          /\ heap' = [heap EXCEPT ![e] = Reset(NULL)] /\ pc' = [pc EXCEPT ![t] = "idle"]
          /\ key' = [key EXCEPT ![t] = NULL]
      BY <1>2, <1>4, <1>11 DEF RollbackRemove, Return
    <2>2. WaitersFor(k) = {}
      <3>1. Cardinality(Lockers(e)) = 1
        BY <1>4, <2>1
      <3>2. Cardinality(Lockers(e) \ {t}) = Cardinality(Lockers(e)) - 1
        BY <1>4, LockersFinite, FS_RemoveElement
      <3>3. IsFiniteSet(Lockers(e) \ {t})
        BY LockersFinite, FS_RemoveElement
      <3>4. Lockers(e) \ {t} = {}
        BY <3>1, <3>2, <3>3, FS_EmptySet
      <3>5. QED
        BY <1>4, <3>4
    <2>3. WaitersStay
      <3>1. \A s \in Threads : s # t => key'[s] = key[s]
        BY <2>1 DEF IInv, TypeOK
      <3>2. QED
        BY <1>5, <1>6, <2>1, <3>1
    <2>4. slot'[k] = NoEntry /\ \A j \in Keys : j # k => /\ slot'[j] = slot[j] /\ slot[j] # e
                                                         /\ heap'[slot[j]] = heap[slot[j]]
      BY <1>2, <2>1 DEF IInv, TypeOK, EntriesOK
    <2>5. \A j \in Keys : EntryState(j)' = IF j = k THEN "ABSENT" ELSE EntryState(j)
      BY <2>4 DEF EntryState
    <2>6. [j \in Keys |-> EntryState(j)]' = Contract!Gone({k})
      BY <2>5 DEF Contract!Gone
    <2>7. Contract!Abandon({k})
      BY <1>2, <2>2, <2>3, <2>6 DEF Contract!Abandon, WaitersStay
    <2>8. QED
      BY <2>7 DEF Contract!Next
  <1>12. QED
    BY <1>8, <1>9, <1>10, <1>11 DEF Rollback

(* lookup, commit_value, rollback, set_limits and the evictions they cause *)
(* implement FrameEntries: a frame is computed by one caller at a time,    *)
(* only committed entries that nobody waits for are evicted, and a caller  *)
(* that waits leaves with the frame or as the next producer.               *)
THEOREM Refinement == Spec => KeepsContract
  <1> DEFINE state == [k \in Keys |-> EntryState(k)]
             waiting == [k \in Keys |-> WaitersFor(k)]
  <1>1. Init => Contract!Init
    BY DEF Init, Contract!Init, EntryState, WaitersFor, Waiting
  <1>2. IInv /\ [Next]_vars => [Contract!Next]_<<state, waiting>>
    <2> SUFFICES ASSUME IInv, [Next]_vars
                 PROVE  Contract!Next \/ (StatesStay /\ WaitersStay)
      BY DEF StatesStay, WaitersStay
    <2>1. ASSUME NEW t \in Threads, Step(t) \/ SpuriousWakeup(t)
          PROVE  Contract!Next \/ (StatesStay /\ WaitersStay)
      BY <2>1, WakingKeepsContract, LeavingKeepsContract, ProducerKeepsContract, Zenon DEF Step
    <2>2. ASSUME NEW l \in LimitChoices, SetLimits(l[1], l[2])
          PROVE  Contract!Next
      <3>1. PICK V \in SUBSET Keys : /\ \A v \in V : heap[slot[v]].locks = 0
                                     /\ slot' = SlotsWithout(V)
                                     /\ heap' = HeapWithout(V)
        BY <2>2, VictimsUnlocked DEF SetLimits
      <3>2. WaitersStay
        BY <2>2 DEF SetLimits, callerVars, WaitersStay, WaitersFor
      <3>3. QED
        BY <3>1, <3>2, TrimEvicts, Zenon
    <2>3. CASE UNCHANGED vars
      BY <2>3 DEF vars, cacheVars, callerVars, StatesStay, WaitersStay, EntryState, WaitersFor
    <2>4. QED
      BY <2>1, <2>2, <2>3, LookupKeepsContract, Zenon DEF Next
  <1>3. QED
    BY <1>1, <1>2, Invariance, PTL DEF Spec, KeepsContract, Contract!Spec, Contract!entryVars
=============================================================================
