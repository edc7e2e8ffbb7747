----------------------- MODULE PatternDetectorProofs ------------------------
(***************************************************************************)
(* The pattern detector, for every lock length and every clip length.      *)
(*                                                                         *)
(* IInv says how far the hits may be ahead or behind: off the locked       *)
(* pattern they trail the misses (so the detector unlocks before it could  *)
(* lock on something else), and since the reader last changed its interval *)
(* they have kept up with the repetitions (so it locks in time).           *)
(***************************************************************************)
EXTENDS PatternDetector, TLAPS

\* The interval of a request is one.
LEMMA IntervalType ==
  ASSUME TypeOK, NEW f \in Requests
  PROVE  IntervalTo(f) \in Intervals \cup {1}
BY DetectorAssumption DEF TypeOK, Requests, Intervals, IntervalTo

\* TypeOK apart from its Booleans, which the provers treat differently.
Numbers ==
  /\ LastRequestedFrame \in Requests
  /\ Pattern \in Intervals \cup {1} /\ LockedPattern \in Intervals \cup {1}
  /\ PatternHits \in 0 .. PATTERN_LOCK_LENGTH /\ PatternMisses \in 0 .. PATTERN_LOCK_LENGTH
  /\ steady \in 0 .. MaxSteady /\ interval \in Intervals \cup {1}

LEMMA TypeParts == TypeOK <=> Numbers /\ IsLocked \in BOOLEAN /\ wasLocked \in BOOLEAN
BY Zenon DEF TypeOK, Numbers

LEMMA InitIInv == Init => IInv
<1> SUFFICES ASSUME Init PROVE IInv
  OBVIOUS
<1>1. Numbers
  BY DetectorAssumption DEF Init, Numbers, Requests, Intervals, MaxSteady
<1>2. ~IsLocked /\ ~wasLocked /\ IsLocked \in BOOLEAN /\ wasLocked \in BOOLEAN
  BY Zenon DEF Init
<1>3. HitsTrailMisses /\ HitsKeepUp
  BY <1>2, Zenon DEF HitsTrailMisses, HitsKeepUp
<1>4. PatternHits < PATTERN_LOCK_LENGTH
  BY DetectorAssumption DEF Init
<1> QED
  BY <1>1, <1>2, <1>3, <1>4, TypeParts, Zenon DEF IInv

\* One request, whichever of the three branches it takes.
LEMMA RequestIInv ==
  ASSUME IInv, NEW f \in Requests, GetFrame(f)
  PROVE  IInv'
<1> DEFINE p == IntervalTo(f)
<1>1. p \in Intervals \cup {1}
  BY IntervalType DEF IInv
<1>2. PICK q \in Intervals \cup {1} : q = p
  BY <1>1
<1>3. Remember(q) /\ LastRequestedFrame' = f
      /\ (StayLocked(q) \/ LosePattern(q) \/ GainPattern(q))
  BY <1>2 DEF GetFrame
<1> HIDE DEF p
<1>4. /\ Numbers /\ HitsTrailMisses /\ HitsKeepUp
      /\ ~IsLocked => PatternHits < PATTERN_LOCK_LENGTH
      /\ wasLocked => steady > 0
      /\ IsLocked \in BOOLEAN /\ wasLocked \in BOOLEAN
  BY TypeParts, Zenon DEF IInv
<1>5. PATTERN_LOCK_LENGTH \in Nat \ {0} /\ q \in Intervals \cup {1} /\ q \in Int
  BY <1>2, DetectorAssumption DEF Intervals
<1> DEFINE repeated == q = interval /\ steady > 0
<1>6. /\ repeated => (wasLocked' <=> wasLocked)
      /\ ~repeated => (wasLocked' <=> IsLocked)
      /\ wasLocked' \in BOOLEAN
  BY <1>3, <1>4, Zenon DEF Remember
<1>7. /\ interval' = q /\ steady' \in 1 .. MaxSteady
      /\ repeated => steady' <= steady + 1
      /\ ~repeated => steady' = 1
  <2>1. repeated => steady' = IF steady < MaxSteady THEN steady + 1 ELSE steady
    BY <1>3, Zenon DEF Remember
  <2>2. interval' = q /\ (~repeated => steady' = 1)
    BY <1>3, Zenon DEF Remember
  <2>3. steady \in 0 .. MaxSteady /\ MaxSteady \in Nat \ {0}
    BY <1>4, <1>5 DEF Numbers, MaxSteady
  <2> QED
    BY <2>1, <2>2, <2>3
<1>8. wasLocked' => steady' > 0
  BY <1>7, <1>5 DEF MaxSteady
<1>9. CASE StayLocked(q)
  <2>1. /\ IsLocked /\ IsLocked' /\ IsLocked' \in BOOLEAN
        /\ Pattern' = q /\ LockedPattern' = LockedPattern
        /\ LockedMisses(q) < PATTERN_LOCK_LENGTH
        /\ PatternHits' = LockedHits(q) /\ PatternMisses' = LockedMisses(q)
    BY <1>4, <1>9, Zenon DEF StayLocked
  <2>2. /\ PatternMisses' \in 0 .. PATTERN_LOCK_LENGTH - 1
        /\ PatternHits' \in 0 .. PATTERN_LOCK_LENGTH
        /\ q = LockedPattern => PatternHits' = 0 /\ PatternMisses' = 0
        /\ q # LockedPattern => /\ PatternMisses' > 0 /\ PatternHits' < PatternMisses'
                                /\ q = Pattern => PatternHits' = PatternHits + 1
    BY <1>4, <1>5, <2>1 DEF LockedHits, LockedMisses, AddMiss, Numbers, HitsTrailMisses
  <2>3. HitsTrailMisses'
    BY <2>1, <2>2 DEF HitsTrailMisses
  <2>4. HitsKeepUp'
    BY <2>1, <2>2, <1>4, <1>5, <1>6, <1>7 DEF HitsKeepUp, Numbers
  <2>5. Numbers'
    BY <2>1, <2>2, <1>3, <1>4, <1>5, <1>7 DEF Numbers, MaxSteady
  <2> QED
    BY <2>1, <2>3, <2>4, <2>5, <1>6, <1>8, TypeParts, Zenon DEF IInv, TypeOK, Numbers
<1>10. CASE LosePattern(q)
  <2>1. /\ IsLocked /\ Pattern' = q
        /\ LockedMisses(q) >= PATTERN_LOCK_LENGTH
    BY <1>4, <1>10, Zenon DEF LosePattern
  <2>2. /\ ~(LockedHits(q) >= PATTERN_LOCK_LENGTH)
        /\ LockedHits(q) \in 0 .. PATTERN_LOCK_LENGTH - 1
        /\ LockedMisses(q) \in 0 .. PATTERN_LOCK_LENGTH
        /\ q # LockedPattern
        /\ q = Pattern => LockedHits(q) = PatternHits + 1
    BY <1>4, <1>5, <2>1 DEF LockedHits, LockedMisses, AddMiss, Numbers, HitsTrailMisses
  <2>3. /\ ~IsLocked' /\ LockedPattern' = LockedPattern
        /\ PatternHits' = LockedHits(q) /\ PatternMisses' = LockedMisses(q)
    BY <1>10, <2>2, Zenon DEF LosePattern
  <2>4. HitsTrailMisses' /\ PatternHits' < PATTERN_LOCK_LENGTH
    BY <2>2, <2>3, <1>5 DEF HitsTrailMisses
  <2>5. HitsKeepUp'
    BY <2>1, <2>2, <2>3, <1>4, <1>5, <1>6, <1>7 DEF HitsKeepUp, Numbers
  <2>6. Numbers'
    BY <2>1, <2>2, <2>3, <1>3, <1>4, <1>5, <1>7 DEF Numbers, MaxSteady
  <2>7. IsLocked' \in BOOLEAN
    BY <1>10 DEF LosePattern
  <2> QED
    BY <2>3, <2>4, <2>5, <2>6, <2>7, <1>6, <1>8, TypeParts, Zenon DEF IInv, TypeOK, Numbers
<1>11. CASE GainPattern(q)
  <2> DEFINE lock == FreeHits(q) >= PATTERN_LOCK_LENGTH
  <2>1. /\ ~IsLocked /\ Pattern' = Pattern /\ PatternHits' = FreeHits(q)
        /\ IsLocked' <=> lock
    BY <1>11, Zenon DEF GainPattern
  <2>2. /\ LockedPattern' = IF lock THEN q ELSE LockedPattern
        /\ PatternMisses' = IF lock \/ q = Pattern THEN 0 ELSE AddMiss(PatternMisses)
    BY <1>11, Zenon DEF GainPattern
  <2>3. /\ FreeHits(q) \in 0 .. PATTERN_LOCK_LENGTH
        /\ q = Pattern => FreeHits(q) = PatternHits + 1
        /\ lock => q = Pattern
        /\ AddMiss(PatternMisses) \in 0 .. PATTERN_LOCK_LENGTH
    BY <1>4, <1>5, <2>1 DEF FreeHits, AddMiss, Numbers
  <2>4. HitsTrailMisses' /\ (~IsLocked' => PatternHits' < PATTERN_LOCK_LENGTH)
    BY <2>1, <2>2, <2>3, <1>4, <1>5 DEF HitsTrailMisses, Numbers
  <2>5. HitsKeepUp'
    BY <2>1, <2>2, <2>3, <1>4, <1>5, <1>6, <1>7 DEF HitsKeepUp, Numbers
  <2>6. Numbers'
    BY <2>1, <2>2, <2>3, <1>3, <1>4, <1>5, <1>7 DEF Numbers, MaxSteady
  <2>7. IsLocked' \in BOOLEAN
    BY <1>11 DEF GainPattern
  <2> QED
    BY <2>1, <2>4, <2>5, <2>6, <2>7, <1>6, <1>8, TypeParts, Zenon DEF IInv, TypeOK, Numbers
<1> QED
  BY <1>3, <1>9, <1>10, <1>11, Zenon

\* IInv holds in every state of a serial reader.
THEOREM DetectorInvariant == Spec => []IInv
<1>1. Init => IInv
  BY InitIInv
<1>2. IInv /\ [Next]_vars => IInv'
  <2>1. ASSUME IInv, Next PROVE IInv'
    BY <2>1, RequestIInv DEF Next
  <2>2. ASSUME IInv, UNCHANGED vars PROVE IInv'
    BY <2>2 DEF IInv, TypeOK, HitsTrailMisses, HitsKeepUp, vars, fields, history
  <2> QED
    BY <2>1, <2>2
<1> QED
  BY <1>1, <1>2, PTL DEF Spec

\* A reader that leaves a locked pattern for another interval is followed
\* within PATTERN_LOCK_LENGTH + 1 requests, whatever it did before.
THEOREM ReaderIsFollowed == Spec => []FollowsReader
<1>1. IInv => FollowsReader
  BY DetectorAssumption DEF IInv, TypeOK, HitsTrailMisses, HitsKeepUp, FollowsReader, MaxSteady
<1> QED
  BY <1>1, DetectorInvariant, PTL

\* The branch that goes from one locked pattern straight to another is dead.
THEOREM RelockIsIndirect == Spec => NoDirectRelock
<1>1. ASSUME IInv, [Next]_vars, IsLocked, IsLocked'
      PROVE  LockedPattern' = LockedPattern
  <2>1. CASE UNCHANGED vars
    BY <2>1 DEF vars, fields
  <2>2. CASE Next
    <3>1. PICK f \in Requests : GetFrame(f)
      BY <2>2 DEF Next
    <3>2. PICK q \in Intervals \cup {1} : StayLocked(q) \/ LosePattern(q) \/ GainPattern(q)
      BY <3>1, IntervalType, <1>1 DEF GetFrame, IInv
    <3>3. CASE LosePattern(q)
      BY <3>3, <1>1, DetectorAssumption
         DEF IInv, TypeOK, HitsTrailMisses, LosePattern, LockedHits, LockedMisses, AddMiss,
             Intervals
    <3> QED
      BY <3>2, <3>3, <1>1 DEF StayLocked, GainPattern
  <2> QED
    BY <1>1, <2>1, <2>2
<1>2. IInv /\ [Next]_vars => [IsLocked /\ IsLocked' => LockedPattern' = LockedPattern]_vars
  BY <1>1
<1> QED
  BY <1>2, DetectorInvariant, PTL DEF Spec, NoDirectRelock
=============================================================================
