---------------------------- MODULE FrameEntries ----------------------------
(***************************************************************************)
(* What the frame cache promises its callers about the entry of a frame,   *)
(* without keys' order, capacities, locks or storage.                      *)
(*                                                                         *)
(* An entry is computed once, by whoever found it absent; those who ask    *)
(* meanwhile wait.  It does not go away under them: they leave when it has *)
(* been committed, or one of them takes over from a producer that gave up. *)
(* Only a committed entry that nobody waits for is evicted.                *)
(***************************************************************************)
CONSTANTS Threads, Keys

VARIABLES
  state,   \* of each frame's entry
  waiting  \* the threads that wait for it

entryVars == <<state, waiting>>

Init ==
  /\ state = [k \in Keys |-> "ABSENT"]
  /\ waiting = [k \in Keys |-> {}]

\* Entries that may be evicted.
Idle(V) == \A k \in V : state[k] = "AVAILABLE" /\ waiting[k] = {}

Gone(V) == [k \in Keys |-> IF k \in V THEN "ABSENT" ELSE state[k]]

Evict(V) ==
  /\ Idle(V)
  /\ state' = Gone(V)
  /\ UNCHANGED waiting

\* An entry is made for a new producer, and others make room for it.
Start(k, V) ==
  /\ state[k] = "ABSENT" /\ Idle(V)
  /\ state' = [Gone(V) EXCEPT ![k] = "EMPTY"]
  /\ UNCHANGED waiting

Wait(t, k) ==
  /\ state[k] = "EMPTY" /\ \A j \in Keys : t \notin waiting[j]
  /\ waiting' = [waiting EXCEPT ![k] = @ \cup {t}]
  /\ UNCHANGED state

Answered(t, k) ==
  /\ state[k] = "AVAILABLE" /\ t \in waiting[k]
  /\ waiting' = [waiting EXCEPT ![k] = @ \ {t}]
  /\ UNCHANGED state

TakeOver(t, k) ==
  /\ state[k] = "ROLLED_BACK" /\ t \in waiting[k]
  /\ state' = [state EXCEPT ![k] = "EMPTY"]
  /\ waiting' = [waiting EXCEPT ![k] = @ \ {t}]

Commit(k) ==
  /\ state[k] = "EMPTY"
  /\ state' = [state EXCEPT ![k] = "AVAILABLE"]
  /\ UNCHANGED waiting

\* Producers give up.  The entries nobody waits for go ...
Abandon(V) ==
  /\ \A k \in V : state[k] = "EMPTY" /\ waiting[k] = {}
  /\ state' = Gone(V)
  /\ UNCHANGED waiting

\* ... any other is left to those that wait.
HandOver(k) ==
  /\ state[k] = "EMPTY" /\ waiting[k] # {}
  /\ state' = [state EXCEPT ![k] = "ROLLED_BACK"]
  /\ UNCHANGED waiting

Next ==
  \/ \E V \in SUBSET Keys : Evict(V) \/ Abandon(V) \/ \E k \in Keys : Start(k, V)
  \/ \E k \in Keys : Commit(k) \/ HandOver(k)
  \/ \E t \in Threads, k \in Keys : Wait(t, k) \/ Answered(t, k) \/ TakeOver(t, k)

Spec == Init /\ [][Next]_entryVars
=============================================================================
