----------------------------- MODULE AudioCache -----------------------------
(***************************************************************************)
(* The audio half of AvsCache: GetAudio() and the audio hints.             *)
(*                                                                         *)
(* The cache keeps one window of samples: CacheCount samples from          *)
(* AudioCacheStart on, in a buffer of MaxSampleCount.  Everything from the *)
(* size test to the copy to the caller happens under CacheGuardMutex, with *)
(* one gap: when the request is larger than the buffer, the child is read  *)
(* without the mutex.  Hints come through CacheGuard::ApplyHints, which    *)
(* holds the same mutex; the automatic switching at the start of           *)
(* GetAudio() does not.                                                    *)
(*                                                                         *)
(* Assumed: the switching, which frees or reallocates the buffer, does not *)
(* fall into another call's critical section (the code does nothing to     *)
(* prevent it), and the score is updated in one step.  Everything else of  *)
(* the calls and the hints interleaves.                                    *)
(*                                                                         *)
(* Sample number i of the clip is represented by i itself; all sizes are   *)
(* in samples.                                                             *)
(***************************************************************************)
EXTENDS Integers

CONSTANTS
  Threads,
  num_audio_samples,
  Requests,       \* bound: the <<start, count>> pairs asked for
  Hints,          \* bound: the <<policy, size>> pairs set from outside
  Block,          \* 8192 bytes
  DefaultSize,    \* 256 KB
  AutoMax,        \* 4 MB, the largest automatic first size
  MaxSize,        \* 8 MB, the largest automatic size
  BufferMax,      \* bound: the largest size a hint asks for
  ScoreStart, ScoreOff, ScoreMax, ScoreMin,  \* 20, 80, 90, -2000000
  Silence, Junk, None, NoThread

Policies == {"CACHE_AUDIO", "CACHE_AUDIO_NOTHING",
             "CACHE_AUDIO_AUTO_START_OFF", "CACHE_AUDIO_AUTO_START_ON"}
Off == {"CACHE_AUDIO_NOTHING", "CACHE_AUDIO_AUTO_START_OFF"}

ASSUME SizesAssumption ==
  /\ {num_audio_samples, AutoMax} \subseteq Nat /\ Block \in Nat \ {0}
  /\ MaxSize \in Nat \ {0} /\ DefaultSize \in 0 .. MaxSize /\ AutoMax <= MaxSize
  /\ BufferMax \in Nat /\ MaxSize <= BufferMax
ASSUME InputsAssumption ==
  Requests \subseteq Int \X (Nat \ {0}) /\ Hints \subseteq Policies \X (0 .. BufferMax)
ASSUME ScoreAssumption ==
  {ScoreStart, ScoreOff, ScoreMax, ScoreMin} \subseteq Int /\ ScoreMin <= ScoreMax
ASSUME MarksAssumption == NoThread \notin Threads /\ Silence \notin Int /\ Junk \notin Int

VARIABLES
  AudioPolicy,
  AudioCache,       \* position -> the sample stored there
  MaxSampleCount,   \* 0: there is no buffer
  AudioCacheStart, CacheCount,
  ac_expected_next, ac_too_small_count, ac_currentscore,
  CacheGuardMutex,  \* the thread that holds it
  torn,             \* the child's read for a restart has failed at some time
  pc,
  ask,              \* thread: its request, <<start, count>>
  start, count,     \* thread: the part of it inside the clip
  from,             \* thread: the first position it reads from the child
  got               \* the request just answered, and the answer

window    == <<AudioCache, MaxSampleCount, AudioCacheStart, CacheCount, torn>>
autoVars  == <<ac_expected_next, ac_too_small_count, ac_currentscore>>
callVars  == <<ask, start, count, from>>
vars == <<AudioPolicy, window, autoVars, CacheGuardMutex, pc, callVars, got>>

Places == {"idle", "scored", "switchOn", "on", "switchOff", "decide",
           "direct", "lock", "locked", "outside", "reading"}

Positions == 0 .. BufferMax - 1
Samples   == 0 .. num_audio_samples - 1

Lesser(a, b)  == IF a <= b THEN a ELSE b
Greater(a, b) == IF a >= b THEN a ELSE b

TypeOK ==
  /\ AudioPolicy \in Policies
  /\ AudioCache \in [Positions -> Samples \cup {Junk}]
  /\ MaxSampleCount \in 0 .. BufferMax
  /\ AudioCacheStart \in Nat /\ CacheCount \in Nat
  /\ ac_expected_next \in Int /\ ac_too_small_count \in 0 .. 3
  /\ ac_currentscore \in Int
  /\ CacheGuardMutex \in Threads \cup {NoThread}
  /\ torn \in BOOLEAN
  /\ pc \in [Threads -> Places]
  /\ ask \in [Threads -> Int \X Nat]
  /\ start \in [Threads -> Nat] /\ count \in [Threads -> Nat]
  /\ from \in [Threads -> Nat]
  /\ got = None \/ got.ask \in Int \X Nat

\* A clip that has audio, before its child is asked for a policy.
Init ==
  /\ AudioPolicy = "CACHE_AUDIO_AUTO_START_OFF"
  /\ AudioCache = [i \in Positions |-> Junk]
  /\ MaxSampleCount = 0
  /\ AudioCacheStart = 0 /\ CacheCount = 0
  /\ ac_expected_next = 0 /\ ac_too_small_count = 0 /\ ac_currentscore = ScoreStart
  /\ CacheGuardMutex = NoThread
  /\ torn = FALSE
  /\ pc = [t \in Threads |-> "idle"]
  /\ ask = [t \in Threads |-> <<0, 0>>]
  /\ start = [t \in Threads |-> 0] /\ count = [t \in Threads |-> 0]
  /\ from = [t \in Threads |-> 0]
  /\ got = None

-----------------------------------------------------------------------------
(* SetCacheHints, the audio part.                                          *)

\* The buffer is freed.
FreeBuffer ==
  /\ AudioCache' = [i \in Positions |-> Junk]
  /\ MaxSampleCount' = 0 /\ AudioCacheStart' = 0 /\ CacheCount' = 0
  /\ UNCHANGED torn

\* Only made bigger: realloc keeps the content.
Enlarge(n) ==
  /\ MaxSampleCount' = Greater(n, MaxSampleCount)
  /\ AudioCacheStart' = IF MaxSampleCount = 0 THEN 0 ELSE AudioCacheStart
  /\ CacheCount' = IF MaxSampleCount = 0 THEN 0
                   ELSE Lesser(CacheCount, Greater(n, MaxSampleCount))
  /\ UNCHANGED <<AudioCache, torn>>

\* The two kinds of policies.
WithBuffer(policy, n) == Enlarge(n) /\ AudioPolicy' = policy
WithoutBuffer(policy) == FreeBuffer /\ AudioPolicy' = policy

\* From outside, through CacheGuard::ApplyHints.  A size of 0 asks for the
\* default, but only where there was no caching before.
ApplyHints(policy, n) ==
  /\ CacheGuardMutex = NoThread
  /\ \/ /\ policy \in Off
        /\ WithoutBuffer(policy)
     \/ /\ policy \notin Off /\ (n # 0 \/ AudioPolicy = "CACHE_AUDIO_AUTO_START_OFF")
        /\ WithBuffer(policy, IF n = 0 THEN DefaultSize ELSE n)
     \/ /\ policy \notin Off /\ n = 0 /\ AudioPolicy # "CACHE_AUDIO_AUTO_START_OFF"
        /\ UNCHANGED <<window, AudioPolicy>>
  /\ got' = None
  /\ UNCHANGED <<autoVars, CacheGuardMutex, pc, callVars>>

-----------------------------------------------------------------------------
(* GetAudio() before the mutex.                                            *)

\* What the caller is given: the part inside the clip, in `mid', between the
\* silence before its first and after its last sample.
Padded(t, mid) ==
  LET lead == Greater(0, -ask[t][1]) IN
  [i \in 0 .. ask[t][2] - 1 |->
     IF i < lead \/ i >= lead + count[t] THEN Silence ELSE mid[i - lead]]

\* Nothing of the request is inside the clip.
GetSilence(t, s, n) ==
  /\ pc[t] = "idle" /\ (s + n <= 0 \/ s >= num_audio_samples)
  /\ got' = [ask |-> <<s, n>>, buf |-> [i \in 0 .. n - 1 |-> Silence]]
  /\ UNCHANGED <<AudioPolicy, window, autoVars, CacheGuardMutex, pc, callVars>>

\* The score: revisiting, skipping or linear reading.
NewScore(s) ==
  LET cs == ac_currentscore + (CASE s < ac_expected_next -> -5
                                 [] s > ac_expected_next -> -1
                                 [] s = ac_expected_next -> 1)
  IN Greater(ScoreMin, Lesser(ScoreMax, cs))

AutoSize(n) == Lesser(AutoMax, ((n + Block - 1) \div Block) * Block)

\* The request is clipped and the score updated.
GetAudio(t, s, n) ==
  LET lo == Greater(0, s) IN
  /\ pc[t] = "idle" /\ s + n > 0 /\ s < num_audio_samples
  /\ ask' = [ask EXCEPT ![t] = <<s, n>>]
  /\ start' = [start EXCEPT ![t] = lo]
  /\ count' = [count EXCEPT ![t] = Lesser(s + n, num_audio_samples) - lo]
  /\ ac_currentscore' = NewScore(lo)
  /\ pc' = [pc EXCEPT ![t] = "scored"]
  /\ got' = None
  /\ UNCHANGED <<AudioPolicy, window, ac_expected_next, ac_too_small_count,
                 CacheGuardMutex, from>>

\* Within GetAudio, on to the next step.
Go(t, where) == pc' = [pc EXCEPT ![t] = where] /\ got' = None

\* Should automatic caching be switched on, ...
TestOn(t) ==
  /\ pc[t] = "scored"
  /\ Go(t, IF AudioPolicy = "CACHE_AUDIO_AUTO_START_OFF" /\ ac_currentscore <= 0
           THEN "switchOn" ELSE "on")
  /\ UNCHANGED <<AudioPolicy, window, autoVars, CacheGuardMutex, callVars>>

\* ... whatever the policy has become meanwhile, ...
SwitchOn(t) ==
  /\ pc[t] = "switchOn" /\ CacheGuardMutex = NoThread
  /\ WithBuffer("CACHE_AUDIO_AUTO_START_ON", AutoSize(count[t]))
  /\ Go(t, "on")
  /\ UNCHANGED <<autoVars, CacheGuardMutex, callVars>>

\* ... or off?
TestOff(t) ==
  /\ pc[t] = "on"
  /\ Go(t, IF AudioPolicy = "CACHE_AUDIO_AUTO_START_ON" /\ ac_currentscore > ScoreOff
           THEN "switchOff" ELSE "decide")
  /\ UNCHANGED <<AudioPolicy, window, autoVars, CacheGuardMutex, callVars>>

SwitchOff(t) ==
  /\ pc[t] = "switchOff" /\ CacheGuardMutex = NoThread
  /\ WithoutBuffer("CACHE_AUDIO_AUTO_START_OFF")
  /\ Go(t, "decide")
  /\ UNCHANGED <<autoVars, CacheGuardMutex, callVars>>

\* Through the cache, or past it.
Decide(t) ==
  /\ pc[t] = "decide"
  /\ ac_expected_next' = start[t] + count[t]
  /\ Go(t, IF AudioPolicy \in Off THEN "direct" ELSE "lock")
  /\ UNCHANGED <<AudioPolicy, window, ac_too_small_count, ac_currentscore,
                 CacheGuardMutex, callVars>>

-----------------------------------------------------------------------------
(* GetAudio() under the mutex.                                             *)

\* The child's answer: count samples from start on.
ChildSamples(t) == [i \in 0 .. count[t] - 1 |-> start[t] + i]

Return(t, answer) ==
  /\ got' = answer
  /\ pc' = [pc EXCEPT ![t] = "idle"]
  /\ ask' = [ask EXCEPT ![t] = <<0, 0>>]
  /\ start' = [start EXCEPT ![t] = 0]
  /\ count' = [count EXCEPT ![t] = 0]
  /\ from' = [from EXCEPT ![t] = 0]

Answer(t, mid) == Return(t, [ask |-> ask[t], buf |-> Padded(t, mid)])

\* child->GetAudio throws: the caller gets no samples.
Throw(t) == Return(t, None)

\* No caching: the child answers, or throws.
ReadDirect(t) ==
  /\ pc[t] = "direct"
  /\ Answer(t, ChildSamples(t)) \/ Throw(t)
  /\ UNCHANGED <<AudioPolicy, window, autoVars, CacheGuardMutex>>

Lock(t) ==
  /\ pc[t] = "lock" /\ CacheGuardMutex = NoThread
  /\ CacheGuardMutex' = t
  /\ Go(t, "locked")
  /\ UNCHANGED <<AudioPolicy, window, autoVars, callVars>>

WindowEnd == AudioCacheStart + CacheCount
Upsized(n) == Lesser(MaxSize, ((n + Block) \div Block) * Block)

\* The third request that is too large makes the buffer bigger, unless a hint
\* has turned caching off meanwhile.  (The count only matters up to 3.)
Upsize(t) ==
  /\ pc[t] = "locked" /\ count[t] > MaxSampleCount
  /\ ac_too_small_count + 1 > 2 /\ MaxSampleCount < MaxSize
  /\ \/ AudioPolicy \in Off /\ WithoutBuffer(AudioPolicy)
     \/ /\ AudioPolicy \notin Off
        /\ WithBuffer(AudioPolicy, Upsized(Greater(count[t], WindowEnd - start[t])))
  /\ ac_too_small_count' = 0
  /\ Go(t, "locked")
  /\ UNCHANGED <<ac_expected_next, ac_currentscore, CacheGuardMutex, callVars>>

\* Otherwise the child is asked without the mutex ...
TooSmall(t) ==
  /\ pc[t] = "locked" /\ count[t] > MaxSampleCount
  /\ ~(ac_too_small_count + 1 > 2 /\ MaxSampleCount < MaxSize)
  /\ ac_too_small_count' = Lesser(3, ac_too_small_count + 1)
  /\ CacheGuardMutex' = NoThread
  /\ Go(t, "outside")
  /\ UNCHANGED <<AudioPolicy, window, ac_expected_next, ac_currentscore, callVars>>

\* Faulty: the size of the buffer is not looked at again.
KeepTailUnbounded(t) ==
  /\ pc[t] = "outside" /\ CacheGuardMutex = NoThread
  /\ CacheCount' = count[t]
  /\ AudioCacheStart' = start[t]
  /\ AudioCache' = [i \in Positions |-> IF i < count[t] THEN start[t] + i
                                        ELSE AudioCache[i]]
  /\ Answer(t, ChildSamples(t))
  /\ UNCHANGED <<AudioPolicy, MaxSampleCount, torn, autoVars, CacheGuardMutex>>

\* ... and as much of the end of its answer is kept as the buffer, which may
\* have changed meanwhile, can take.
KeepTail(t) ==
  LET kept == Lesser(count[t], MaxSampleCount)
      first == start[t] + count[t] - kept
  IN /\ pc[t] = "outside" /\ CacheGuardMutex = NoThread
     /\ CacheCount' = kept
     /\ AudioCacheStart' = first
     /\ AudioCache' = [i \in Positions |-> IF i < kept THEN first + i ELSE AudioCache[i]]
     /\ Answer(t, ChildSamples(t))
     /\ UNCHANGED <<AudioPolicy, MaxSampleCount, torn, autoVars, CacheGuardMutex>>

OutsideFails(t) ==
  /\ pc[t] = "outside"
  /\ Throw(t)
  /\ UNCHANGED <<AudioPolicy, window, autoVars, CacheGuardMutex>>

Large(t) == count[t] > MaxSampleCount

\* The request starts before the window or beyond its linear reach: the
\* window is moved there, and its new size recorded, before the child is read.
Beyond(t) == \/ start[t] < AudioCacheStart
             \/ start[t] > AudioCacheStart + MaxSampleCount

Restart(t) ==
  /\ pc[t] = "locked" /\ ~Large(t) /\ Beyond(t)
  /\ CacheCount' = Lesser(count[t], MaxSampleCount)
  /\ AudioCacheStart' = start[t]
  /\ from' = [from EXCEPT ![t] = 0]
  /\ Go(t, "reading")
  /\ UNCHANGED <<AudioPolicy, AudioCache, MaxSampleCount, torn, autoVars,
                 CacheGuardMutex, ask, start, count>>

\* The window ends before the request does.
Short(t) == start[t] + count[t] > WindowEnd
Overflows(t) == start[t] + count[t] > AudioCacheStart + MaxSampleCount

\* How far the window has to be shifted; half of what precedes the request,
\* if that is more.
ShiftSamples(t) ==
  Greater(start[t] + count[t] - (AudioCacheStart + MaxSampleCount),
          (start[t] - AudioCacheStart) \div 2)

\* Faulty: the content is shifted, the start of the window is not.
ShiftContent(t) ==
  /\ ShiftSamples(t) < CacheCount
  /\ AudioCache' = [i \in Positions |-> IF i < CacheCount - ShiftSamples(t)
                                        THEN AudioCache[i + ShiftSamples(t)]
                                        ELSE AudioCache[i]]
  /\ CacheCount' = CacheCount - ShiftSamples(t)
  /\ UNCHANGED AudioCacheStart

\* memmove what is still of use to the front.
Shift(t) ==
  /\ ShiftSamples(t) < CacheCount
  /\ AudioCache' = [i \in Positions |-> IF i < CacheCount - ShiftSamples(t)
                                        THEN AudioCache[i + ShiftSamples(t)]
                                        ELSE AudioCache[i]]
  /\ AudioCacheStart' = AudioCacheStart + ShiftSamples(t)
  /\ CacheCount' = CacheCount - ShiftSamples(t)

\* Nothing can be saved: the window is made to end with the request.
Forget(t) ==
  /\ ShiftSamples(t) >= CacheCount
  /\ AudioCacheStart' = start[t] + count[t] - MaxSampleCount
  /\ CacheCount' = 0
  /\ UNCHANGED AudioCache

\* The window is extended to the end of the request.
Extend(t) ==
  /\ pc[t] = "locked" /\ ~Large(t) /\ ~Beyond(t) /\ Short(t)
  /\ \/ Overflows(t) /\ (Shift(t) \/ Forget(t))
     \/ ~Overflows(t) /\ UNCHANGED <<AudioCache, AudioCacheStart, CacheCount>>
  /\ from' = [from EXCEPT ![t] = CacheCount']
  /\ Go(t, "reading")
  /\ UNCHANGED <<AudioPolicy, MaxSampleCount, torn, autoVars, CacheGuardMutex,
                 ask, start, count>>

\* Faulty: copies from the front of the buffer.
FromWindowFront(t, cache, first) ==
  /\ Answer(t, [i \in 0 .. count[t] - 1 |-> cache[i]])
  /\ CacheGuardMutex' = NoThread

\* memcpy from the window to the caller's buffer; the mutex is given up.
FromWindow(t, cache, first) ==
  /\ Answer(t, [i \in 0 .. count[t] - 1 |-> cache[start[t] + i - first]])
  /\ CacheGuardMutex' = NoThread

\* Everything is in the window already.
Hit(t) ==
  /\ pc[t] = "locked" /\ ~Large(t) /\ ~Beyond(t) /\ ~Short(t)
  /\ FromWindow(t, AudioCache, AudioCacheStart)
  /\ UNCHANGED <<AudioPolicy, window, autoVars>>

\* The position after the last one read from the child.
To(t) == start[t] + count[t] - AudioCacheStart

\* child->GetAudio has delivered.
ReadDone(t) ==
  LET cache == [i \in Positions |-> IF i >= from[t] /\ i < To(t)
                                    THEN AudioCacheStart + i ELSE AudioCache[i]]
  IN /\ pc[t] = "reading"
     /\ AudioCache' = cache
     /\ CacheCount' = To(t)
     /\ FromWindow(t, cache, AudioCacheStart)
     /\ UNCHANGED <<AudioPolicy, MaxSampleCount, AudioCacheStart, torn, autoVars>>

\* It throws; what it has written until then is unknown.  CacheCount stays as
\* it is, which after a restart means that it counts what was never read.
ReadFails(t) ==
  /\ pc[t] = "reading"
  /\ AudioCache' = [i \in Positions |-> IF i >= from[t] /\ i < To(t)
                                        THEN Junk ELSE AudioCache[i]]
  /\ torn' = (torn \/ from[t] < CacheCount)
  /\ Throw(t)
  /\ CacheGuardMutex' = NoThread
  /\ UNCHANGED <<AudioPolicy, MaxSampleCount, AudioCacheStart, CacheCount, autoVars>>

Step(t) ==
  \/ TestOn(t) \/ SwitchOn(t) \/ TestOff(t) \/ SwitchOff(t) \/ Decide(t)
  \/ ReadDirect(t) \/ Lock(t) \/ Upsize(t) \/ TooSmall(t) \/ KeepTail(t)
  \/ OutsideFails(t) \/ Restart(t) \/ Extend(t) \/ Hit(t) \/ ReadDone(t) \/ ReadFails(t)

Next ==
  \/ \E t \in Threads : Step(t)
  \/ \E t \in Threads, r \in Requests : GetSilence(t, r[1], r[2]) \/ GetAudio(t, r[1], r[2])
  \/ \E h \in Hints : ApplyHints(h[1], h[2])

Spec == Init /\ [][Next]_vars

-----------------------------------------------------------------------------
(* Properties.                                                             *)

\* The window holds the samples it says it holds, through shifts, restarts,
\* upsizing and changes while the mutex was released; the only exception is
\* a restart whose read failed.
WindowIsRight ==
  ~torn => \A i \in Positions :
    i < CacheCount /\ (\A t \in Threads : pc[t] = "reading" => i < from[t]) =>
      AudioCache[i] = AudioCacheStart + i

\* Every copy and every read of the child stays inside the buffer and inside
\* the clip, whatever is asked for.
InBounds ==
  /\ CacheCount <= MaxSampleCount
  /\ \A t \in Threads : pc[t] = "reading" =>
       /\ from[t] <= To(t) /\ To(t) <= MaxSampleCount
       /\ start[t] >= AudioCacheStart
       /\ start[t] + count[t] <= num_audio_samples

\* What GetAudio answers is what was asked for: sample by sample the clip's,
\* and silence before and after it (unless a failed restart came before).
RightSamples ==
  ~torn /\ got # None =>
    \A i \in 0 .. got.ask[2] - 1 :
      got.buf[i] = IF got.ask[1] + i \in Samples THEN got.ask[1] + i ELSE Silence
-----------------------------------------------------------------------------
(* Why they hold.                                                          *)

\* Whoever looks at or reads into the window has the mutex.
MutexOK ==
  \A t \in Threads : pc[t] \in {"locked", "reading"} <=> CacheGuardMutex = t

\* A call's part inside the clip.
CallsOK ==
  \A t \in Threads : pc[t] # "idle" =>
    /\ start[t] = Greater(0, ask[t][1])
    /\ start[t] + count[t] = Lesser(ask[t][1] + ask[t][2], num_audio_samples)

\* The child is never asked for samples beyond the end of the window.
NoGap == \A t \in Threads : pc[t] = "reading" => from[t] <= CacheCount

IInv == TypeOK /\ MutexOK /\ CallsOK /\ NoGap /\ InBounds /\ WindowIsRight /\ RightSamples
=============================================================================
