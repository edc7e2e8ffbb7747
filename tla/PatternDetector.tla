-------------------------- MODULE PatternDetector ---------------------------
(***************************************************************************)
(* The pattern detector of Prefetcher::GetFrame: it watches the intervals  *)
(* between the frames a reader asks for and, once it has locked on one,    *)
(* SchedulePrefetch walks ahead in that interval instead of one by one.    *)
(*                                                                         *)
(* The calls follow each other here.  (Its fields have no lock: Prefetcher *)
(* has what concurrent calls may do.)                                      *)
(***************************************************************************)
EXTENDS Integers

CONSTANTS
  num_frames,           \* vi.num_frames
  PATTERN_LOCK_LENGTH   \* 3 in the code

ASSUME DetectorAssumption ==
  num_frames \in Nat \ {0} /\ PATTERN_LOCK_LENGTH \in Nat \ {0}

VARIABLES
  LastRequestedFrame,
  Pattern,         \* the interval being counted
  LockedPattern,   \* the interval locked on, if IsLocked
  PatternHits, PatternMisses, IsLocked,
  steady,          \* history: how often the last interval has been repeated
  interval,        \* history: the last interval
  wasLocked        \* history: IsLocked when the reader changed to it

fields  == <<Pattern, LockedPattern, PatternHits, PatternMisses, IsLocked>>
history == <<steady, interval, wasLocked>>
vars    == <<LastRequestedFrame, fields, history>>

Requests  == 0 .. num_frames - 1
Intervals == (1 - num_frames) .. num_frames - 1

\* Bound: repetitions are counted up to one more than the lock length.
MaxSteady == PATTERN_LOCK_LENGTH + 1

TypeOK ==
  /\ LastRequestedFrame \in Requests
  /\ Pattern \in Intervals \cup {1} /\ LockedPattern \in Intervals \cup {1}
  /\ PatternHits \in 0 .. PATTERN_LOCK_LENGTH /\ PatternMisses \in 0 .. PATTERN_LOCK_LENGTH
  /\ IsLocked \in BOOLEAN
  /\ steady \in 0 .. MaxSteady /\ interval \in Intervals \cup {1} /\ wasLocked \in BOOLEAN

Init ==
  /\ LastRequestedFrame = 0
  /\ Pattern = 1 /\ LockedPattern = 1
  /\ PatternHits = 0 /\ PatternMisses = 0 /\ IsLocked = FALSE
  /\ steady = 0 /\ interval = 1 /\ wasLocked = FALSE

\* The interval of a request; the same frame again counts as one step forward.
IntervalTo(f) == IF f = LastRequestedFrame THEN 1 ELSE f - LastRequestedFrame

\* Bound: PatternMisses is only compared with PATTERN_LOCK_LENGTH.
AddMiss(misses) == IF misses < PATTERN_LOCK_LENGTH THEN misses + 1 ELSE misses

-----------------------------------------------------------------------------
(* While a pattern is locked, PatternMisses counts requests off it and     *)
(* PatternHits repetitions of the interval that is now being used.         *)

\* Faulty: a new interval counts as a hit at once.
LockedHitsFromOne(p) ==
  IF p = LockedPattern THEN 0 ELSE IF p = Pattern THEN PatternHits + 1 ELSE 1

LockedHits(p) ==
  IF p # LockedPattern /\ p = Pattern THEN PatternHits + 1 ELSE 0

LockedMisses(p) == IF p = LockedPattern THEN 0 ELSE AddMiss(PatternMisses)

\* On the pattern, or not long enough off it.
StayLocked(p) ==
  /\ IsLocked /\ LockedMisses(p) < PATTERN_LOCK_LENGTH
  /\ PatternHits' = LockedHits(p) /\ PatternMisses' = LockedMisses(p)
  /\ Pattern' = p
  /\ UNCHANGED <<LockedPattern, IsLocked>>

\* Too long off the pattern: lock on the new one if that has lasted as long,
\* otherwise unlock.
LosePattern(p) ==
  /\ IsLocked /\ LockedMisses(p) >= PATTERN_LOCK_LENGTH
  /\ Pattern' = p
  /\ LET relock == LockedHits(p) >= PATTERN_LOCK_LENGTH
     IN /\ LockedPattern' = IF relock THEN p ELSE LockedPattern
        /\ PatternHits' = IF relock THEN 0 ELSE LockedHits(p)
        /\ PatternMisses' = IF relock THEN 0 ELSE LockedMisses(p)
        /\ IsLocked' = relock

-----------------------------------------------------------------------------
(* While nothing is locked, both count for and against Pattern, which      *)
(* itself is left as it was.                                               *)

FreeHits(p) == IF p = Pattern THEN PatternHits + 1 ELSE 0

\* Faulty: it takes one repetition more.
GainPatternLate(p) ==
  /\ ~IsLocked
  /\ PatternHits' = FreeHits(p)
  /\ LET lock == FreeHits(p) > PATTERN_LOCK_LENGTH
     IN /\ LockedPattern' = IF lock THEN p ELSE LockedPattern
        /\ PatternMisses' = IF lock \/ p = Pattern THEN 0 ELSE AddMiss(PatternMisses)
        /\ IsLocked' = lock
  /\ UNCHANGED Pattern

GainPattern(p) ==
  /\ ~IsLocked
  /\ PatternHits' = FreeHits(p)
  /\ LET lock == FreeHits(p) >= PATTERN_LOCK_LENGTH
     IN /\ LockedPattern' = IF lock THEN p ELSE LockedPattern
        /\ PatternMisses' = IF lock \/ p = Pattern THEN 0 ELSE AddMiss(PatternMisses)
        /\ IsLocked' = lock
  /\ UNCHANGED Pattern

-----------------------------------------------------------------------------
\* What the properties need to remember of the requests.
Remember(p) ==
  /\ interval' = p
  /\ IF p = interval /\ steady > 0
     THEN /\ steady' = IF steady < MaxSteady THEN steady + 1 ELSE steady
          /\ UNCHANGED wasLocked
     ELSE steady' = 1 /\ wasLocked' = IsLocked

GetFrame(f) ==
  /\ LET p == IntervalTo(f) IN
       /\ StayLocked(p) \/ LosePattern(p) \/ GainPattern(p)
       /\ Remember(p)
  /\ LastRequestedFrame' = f

Next == \E f \in Requests : GetFrame(f)

Spec == Init /\ [][Next]_vars

-----------------------------------------------------------------------------
(* Properties.                                                             *)

\* Whatever a reader did before, a pattern that is locked when the reader
\* changes to another interval is given up for the new one, through an
\* unlocked phase, by the time that has come PATTERN_LOCK_LENGTH + 1 times.
FollowsReader ==
  wasLocked /\ steady = MaxSteady => IsLocked /\ LockedPattern = interval

\* The detector never goes from one locked pattern to another directly: an
\* interval that is off the locked one is counted as a miss before it is
\* counted as a hit, so the misses unlock it before the hits can suffice.
\* The branch that locks on the new pattern at once is never taken.
NoDirectRelock ==
  [][IsLocked /\ IsLocked' => LockedPattern' = LockedPattern]_vars

\* Why: off the locked pattern the hits stay behind the misses, and since the
\* reader changed its interval the hits have kept up with the repetitions.
HitsTrailMisses ==
  IsLocked => /\ PatternMisses < PATTERN_LOCK_LENGTH
              /\ PatternMisses = 0 => Pattern = LockedPattern
              /\ PatternMisses > 0 => PatternHits < PatternMisses

HitsKeepUp ==
  wasLocked => \/ IsLocked /\ LockedPattern = interval
               \/ Pattern = interval /\ PatternHits >= steady - 1

IInv == /\ TypeOK /\ HitsTrailMisses /\ HitsKeepUp
        /\ ~IsLocked => PatternHits < PATTERN_LOCK_LENGTH
        /\ wasLocked => steady > 0

\* The comment on PATTERN_LOCK_LENGTH, "The number of intervals a pattern has
\* to repeat itself to become (un)locked": a pattern that repeats itself more
\* often than that is locked.
RepeatedIsLocked == steady = MaxSteady => IsLocked /\ LockedPattern = interval
=============================================================================
