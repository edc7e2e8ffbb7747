----------------------------- MODULE NamedLocks -----------------------------
(***************************************************************************)
(* What the process-wide named locks promise to the users of               *)
(* IScriptEnvironment::AcquireGlobalLock / ReleaseGlobalLock, in terms of  *)
(* what the users see: a call to acquire a name returns only when no       *)
(* thread holds that name, or it throws and changes nobody's locks; a name *)
(* stays with the thread that got it until this thread gives it back.      *)
(***************************************************************************)
CONSTANTS Threads, Names, NoName

VARIABLES
  want,  \* thread -> the name it is acquiring
  held   \* thread -> the names it holds

lockVars == <<want, held>>

Init ==
  /\ want = [t \in Threads |-> NoName]
  /\ held = [t \in Threads |-> {}]

Ask(t, n) ==
  /\ want[t] = NoName /\ n \notin held[t]
  /\ want' = [want EXCEPT ![t] = n]
  /\ UNCHANGED held

Grant(t, n) ==
  /\ want[t] = n /\ \A s \in Threads : n \notin held[s]
  /\ want' = [want EXCEPT ![t] = NoName]
  /\ held' = [held EXCEPT ![t] = @ \cup {n}]

Fail(t, n) ==
  /\ want[t] = n
  /\ want' = [want EXCEPT ![t] = NoName]
  /\ UNCHANGED held

GiveBack(t, n) ==
  /\ want[t] = NoName /\ n \in held[t]
  /\ held' = [held EXCEPT ![t] = @ \ {n}]
  /\ UNCHANGED want

Next == \E t \in Threads, n \in Names :
          Ask(t, n) \/ Grant(t, n) \/ Fail(t, n) \/ GiveBack(t, n)

Spec == Init /\ [][Next]_lockVars
=============================================================================
