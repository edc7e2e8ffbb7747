-------------------------- MODULE AudioCacheProofs ---------------------------
(***************************************************************************)
(* Proofs about AudioCache: for every number of readers, every length of   *)
(* the clip, all requests and all hints, and every size of the buffer, the *)
(* window holds what it says, no copy leaves the buffer, and every answer  *)
(* is right.                                                               *)
(***************************************************************************)
EXTENDS AudioCache, TLAPS

-----------------------------------------------------------------------------
(* Sizes.                                                                  *)

\* Rounding up to whole blocks, as GetAudio does when it sizes the buffer,
\* does not make a size negative.
LEMMA Blocks ==
  ASSUME NEW n \in Nat PROVE (n \div Block) * Block \in Nat
<1>1. Block \in Nat /\ Block > 0
  BY SizesAssumption
<1>2. n \div Block \in Nat
  BY <1>1, SMT
<1>3. \A a, b \in Nat : a * b \in Nat
  BY SMT
<1> QED
  BY <1>1, <1>2, <1>3

\* The sizes GetAudio gives the buffer by itself are sizes a buffer may have.
LEMMA OwnSizes ==
  ASSUME NEW n \in Nat PROVE AutoSize(n) \in 0 .. BufferMax /\ Upsized(n) \in 0 .. BufferMax
<1>1. /\ Block \in Nat /\ Block > 0 /\ AutoMax \in Nat /\ MaxSize \in Nat /\ AutoMax <= MaxSize
      /\ BufferMax \in Nat /\ MaxSize <= BufferMax
  BY SizesAssumption
<1>2. ((n + Block - 1) \div Block) * Block \in Nat
  BY <1>1, Blocks
<1>3. ((n + Block) \div Block) * Block \in Nat
  BY <1>1, Blocks
<1> QED
  BY <1>1, <1>2, <1>3 DEF AutoSize, Upsized, Lesser

-----------------------------------------------------------------------------
(* The mutex.                                                              *)

\* While the mutex is free nobody looks at the window.
LEMMA FreeMutex ==
  ASSUME MutexOK, CacheGuardMutex = NoThread
  PROVE  \A u \in Threads : pc[u] \notin {"locked", "reading"}
  BY MarksAssumption DEF MutexOK

\* While a thread has it nobody else does.
LEMMA HeldMutex ==
  ASSUME MutexOK, NEW t \in Threads, pc[t] \in {"locked", "reading"}
  PROVE  CacheGuardMutex = t /\ \A u \in Threads \ {t} : pc[u] \notin {"locked", "reading"}
  BY DEF MutexOK

-----------------------------------------------------------------------------
(* Answers.                                                                *)

\* An answer made of the right samples of the clip is padded correctly.
LEMMA AnswerIsRight ==
  ASSUME TypeOK, CallsOK, NEW t \in Threads, pc[t] # "idle", NEW mid, Answer(t, mid),
         \A j \in 0 .. count[t] - 1 : mid[j] = start[t] + j
  PROVE  \A i \in 0 .. got'.ask[2] - 1 :
           got'.buf[i] = IF got'.ask[1] + i \in Samples THEN got'.ask[1] + i ELSE Silence
<1> DEFINE lead == Greater(0, -ask[t][1])
<1>1. /\ ask[t][1] \in Int /\ ask[t][2] \in Nat /\ start[t] \in Nat /\ count[t] \in Nat
      /\ num_audio_samples \in Nat
  BY SizesAssumption DEF TypeOK
<1>2. /\ start[t] = Greater(0, ask[t][1])
      /\ start[t] + count[t] = Lesser(ask[t][1] + ask[t][2], num_audio_samples)
  BY DEF CallsOK
<1>3. got'.ask = ask[t] /\ got'.buf = Padded(t, mid)
  BY DEF Answer, Return
<1>4. lead \in Nat /\ lead + ask[t][1] = start[t]
  BY <1>1, <1>2 DEF Greater
<1>5. SUFFICES ASSUME NEW i \in 0 .. ask[t][2] - 1
               PROVE  Padded(t, mid)[i] = IF ask[t][1] + i \in Samples THEN ask[t][1] + i
                                          ELSE Silence
  BY <1>3
<1>6. Padded(t, mid)[i] = IF i < lead \/ i >= lead + count[t] THEN Silence ELSE mid[i - lead]
  BY <1>5 DEF Padded
<1>7. CASE i < lead \/ i >= lead + count[t]
  <2>1. ask[t][1] + i \notin Samples
    BY <1>1, <1>2, <1>4, <1>5, <1>7 DEF Samples, Lesser, Greater
  <2> QED
    BY <2>1, <1>6, <1>7
<1>8. CASE ~(i < lead \/ i >= lead + count[t])
  <2>1. i - lead \in 0 .. count[t] - 1 /\ start[t] + (i - lead) = ask[t][1] + i
    BY <1>1, <1>4, <1>5, <1>8
  <2>2. ask[t][1] + i \in Samples
    BY <1>1, <1>2, <2>1 DEF Samples, Lesser
  <2> QED
    BY <2>1, <2>2, <1>6, <1>8
<1> QED
  BY <1>7, <1>8

\* What Return leaves of the calls.
LEMMA ReturnTypes ==
  ASSUME TypeOK, CallsOK, NEW t \in Threads, NEW a, Return(t, a),
         a = None \/ a.ask \in Int \X Nat
  PROVE  /\ pc' \in [Threads -> Places]
         /\ ask' \in [Threads -> Int \X Nat]
         /\ start' \in [Threads -> Nat] /\ count' \in [Threads -> Nat]
         /\ from' \in [Threads -> Nat]
         /\ got' = None \/ got'.ask \in Int \X Nat
         /\ pc'[t] = "idle"
         /\ \A u \in Threads \ {t} : /\ pc'[u] = pc[u] /\ ask'[u] = ask[u]
                                     /\ start'[u] = start[u] /\ count'[u] = count[u]
                                     /\ from'[u] = from[u]
         /\ CallsOK'
<1>1. <<0, 0>> \in Int \X Nat
  OBVIOUS
<1> QED
  BY <1>1 DEF TypeOK, Return, CallsOK, Places

LEMMA AnswerTypes ==
  ASSUME TypeOK, NEW t \in Threads, NEW mid
  PROVE  [ask |-> ask[t], buf |-> Padded(t, mid)].ask \in Int \X Nat
  BY DEF TypeOK

\* The initial state.
LEMMA InitIInv == Init => IInv
<1> SUFFICES ASSUME Init PROVE IInv
  OBVIOUS
<1>1. <<0, 0>> \in Int \X Nat
  OBVIOUS
<1>2. TypeOK
  <2>1. torn \in BOOLEAN
    BY Zenon DEF Init
  <2>2. AudioCache \in [Positions -> Samples \cup {Junk}]
    BY DEF Init
  <2>3. /\ MaxSampleCount \in 0 .. BufferMax /\ AudioCacheStart \in Nat /\ CacheCount \in Nat
        /\ ac_expected_next \in Int /\ ac_too_small_count \in 0 .. 3
        /\ ac_currentscore \in Int
    BY SizesAssumption, ScoreAssumption DEF Init
  <2>4. /\ ask \in [Threads -> Int \X Nat] /\ start \in [Threads -> Nat]
        /\ count \in [Threads -> Nat] /\ from \in [Threads -> Nat]
    BY <1>1 DEF Init
  <2>5. /\ AudioPolicy \in Policies /\ CacheGuardMutex \in Threads \cup {NoThread}
        /\ pc \in [Threads -> Places]
        /\ got = None \/ got.ask \in Int \X Nat
    BY DEF Init, Policies, Places
  <2> QED
    BY <2>1, <2>2, <2>3, <2>4, <2>5 DEF TypeOK
<1>3. MutexOK
  BY MarksAssumption DEF Init, MutexOK
<1>4. CallsOK /\ NoGap /\ InBounds
  BY SizesAssumption DEF Init, CallsOK, NoGap, InBounds
<1>5. WindowIsRight
  BY SizesAssumption DEF Init, WindowIsRight, Positions
<1>6. RightSamples
  BY DEF Init, RightSamples
<1> QED
  BY <1>2, <1>3, <1>4, <1>5, <1>6 DEF IInv

-----------------------------------------------------------------------------
(* Steps that leave the window alone.                                      *)

\* If nobody begins or stops to read into it, what holds of the window stays.
LEMMA WindowKept ==
  ASSUME TypeOK, NoGap, InBounds, WindowIsRight, UNCHANGED window,
         \A u \in Threads : pc'[u] = "reading" <=> pc[u] = "reading",
         \A u \in Threads : pc[u] = "reading" =>
           start'[u] = start[u] /\ count'[u] = count[u] /\ from'[u] = from[u]
  PROVE  NoGap' /\ InBounds' /\ WindowIsRight'
<1>1. NoGap'
  BY DEF NoGap, window
<1>2. InBounds'
  BY DEF InBounds, To, window
<1>3. WindowIsRight'
  BY DEF WindowIsRight, window
<1> QED
  BY <1>1, <1>2, <1>3

\* The types of the window's variables, kept with them.
LEMMA WindowTypeKept ==
  ASSUME TypeOK, UNCHANGED window
  PROVE  /\ AudioCache' \in [Positions -> Samples \cup {Junk}]
         /\ MaxSampleCount' \in 0 .. BufferMax
         /\ AudioCacheStart' \in Nat /\ CacheCount' \in Nat /\ torn' \in BOOLEAN
<1>1. torn' \in BOOLEAN
  BY Zenon DEF TypeOK, window
<1> QED
  BY <1>1 DEF TypeOK, window

\* A request without any sample of the clip, answered with silence.
LEMMA GetSilenceIInv ==
  ASSUME IInv, NEW t \in Threads, NEW r \in Requests, GetSilence(t, r[1], r[2]) PROVE IInv'
<1> DEFINE s == r[1] n == r[2]
<1>1. s \in Int /\ n \in Nat /\ num_audio_samples \in Nat
  BY InputsAssumption, SizesAssumption
<1>2. /\ got' = [ask |-> <<s, n>>, buf |-> [i \in 0 .. n - 1 |-> Silence]]
      /\ s + n <= 0 \/ s >= num_audio_samples
      /\ UNCHANGED <<AudioPolicy, window, autoVars, CacheGuardMutex, pc, callVars>>
  BY DEF GetSilence
<1>3. got'.ask \in Int \X Nat
  BY <1>1, <1>2
<1>4. TypeOK'
  <2>1. TypeOK
    BY DEF IInv
  <2> QED
    BY <2>1, <1>2, <1>3, WindowTypeKept DEF TypeOK, autoVars, callVars
<1>5. MutexOK' /\ CallsOK'
  BY <1>2 DEF IInv, MutexOK, CallsOK, callVars
<1>6. NoGap' /\ InBounds' /\ WindowIsRight'
  BY <1>2, WindowKept DEF IInv, callVars
<1>7. RightSamples'
  <2> SUFFICES ASSUME NEW i \in 0 .. n - 1
               PROVE  got'.buf[i] = IF s + i \in Samples THEN s + i ELSE Silence
    BY <1>2 DEF RightSamples
  <2>1. s + i \notin Samples
    BY <1>1, <1>2 DEF Samples
  <2> QED
    BY <2>1, <1>2
<1> QED
  BY <1>4, <1>5, <1>6, <1>7 DEF IInv

\* Without caching the child's answer is passed on.
LEMMA ReadDirectIInv ==
  ASSUME IInv, NEW t \in Threads, ReadDirect(t) PROVE IInv'
<1> DEFINE mid == ChildSamples(t)
<1>0. TypeOK /\ MutexOK /\ CallsOK /\ NoGap /\ InBounds /\ WindowIsRight
  BY DEF IInv
<1>1. /\ pc[t] = "direct" /\ (Answer(t, mid) \/ Throw(t))
      /\ UNCHANGED <<AudioPolicy, window, autoVars, CacheGuardMutex>>
  BY DEF ReadDirect
<1>2. PICK a : Return(t, a) /\ (a = None \/ a.ask \in Int \X Nat)
  BY <1>0, <1>1, AnswerTypes DEF Answer, Throw
<1>3. TypeOK'
  BY <1>0, <1>1, <1>2, ReturnTypes, WindowTypeKept DEF TypeOK, autoVars
<1>4. MutexOK'
  BY <1>0, <1>1, <1>2, ReturnTypes DEF MutexOK
<1>5. CallsOK'
  BY <1>0, <1>2, ReturnTypes
<1>6. NoGap' /\ InBounds' /\ WindowIsRight'
  <2>1. \A u \in Threads : pc'[u] = "reading" <=> pc[u] = "reading"
    BY <1>0, <1>1, <1>2, ReturnTypes
  <2>2. \A u \in Threads : pc[u] = "reading" =>
          start'[u] = start[u] /\ count'[u] = count[u] /\ from'[u] = from[u]
    BY <1>0, <1>1, <1>2, ReturnTypes
  <2> QED
    BY <1>0, <1>1, <2>1, <2>2, WindowKept
<1>7. RightSamples'
  <2>1. CASE Throw(t)
    BY <2>1 DEF Throw, Return, RightSamples
  <2>2. CASE Answer(t, mid)
    <3>1. \A j \in 0 .. count[t] - 1 : mid[j] = start[t] + j
      BY DEF ChildSamples
    <3> QED
      BY <1>0, <1>1, <2>2, <3>1, AnswerIsRight DEF RightSamples
  <2> QED
    BY <1>1, <2>1, <2>2
<1> QED
  BY <1>3, <1>4, <1>5, <1>6, <1>7 DEF IInv

\* The child throws outside the mutex.
LEMMA OutsideFailsIInv ==
  ASSUME IInv, NEW t \in Threads, OutsideFails(t) PROVE IInv'
<1>0. TypeOK /\ MutexOK /\ CallsOK /\ NoGap /\ InBounds /\ WindowIsRight
  BY DEF IInv
<1>1. /\ pc[t] = "outside" /\ Return(t, None)
      /\ UNCHANGED <<AudioPolicy, window, autoVars, CacheGuardMutex>>
  BY DEF OutsideFails, Throw
<1>3. TypeOK'
  BY <1>0, <1>1, ReturnTypes, WindowTypeKept DEF TypeOK, autoVars
<1>4. MutexOK'
  BY <1>0, <1>1, ReturnTypes DEF MutexOK
<1>5. CallsOK'
  BY <1>0, <1>1, ReturnTypes
<1>6. NoGap' /\ InBounds' /\ WindowIsRight'
  <2>1. \A u \in Threads : pc'[u] = "reading" <=> pc[u] = "reading"
    BY <1>0, <1>1, ReturnTypes
  <2>2. \A u \in Threads : pc[u] = "reading" =>
          start'[u] = start[u] /\ count'[u] = count[u] /\ from'[u] = from[u]
    BY <1>0, <1>1, ReturnTypes
  <2> QED
    BY <1>0, <1>1, <2>1, <2>2, WindowKept
<1>7. RightSamples'
  BY <1>1 DEF Return, RightSamples
<1> QED
  BY <1>3, <1>4, <1>5, <1>6, <1>7 DEF IInv

\* Taking the mutex.
LEMMA LockIInv ==
  ASSUME IInv, NEW t \in Threads, Lock(t) PROVE IInv'
<1>0. TypeOK /\ MutexOK /\ CallsOK /\ NoGap /\ InBounds /\ WindowIsRight
  BY DEF IInv
<1>1. /\ pc[t] = "lock" /\ CacheGuardMutex = NoThread /\ CacheGuardMutex' = t
      /\ pc' = [pc EXCEPT ![t] = "locked"] /\ got' = None
      /\ UNCHANGED <<AudioPolicy, window, autoVars, callVars>>
  BY DEF Lock, Go
<1>3. TypeOK'
  BY <1>0, <1>1, WindowTypeKept DEF TypeOK, autoVars, callVars, Places
<1>4. MutexOK'
  BY <1>0, <1>1, FreeMutex DEF MutexOK, TypeOK
<1>5. CallsOK'
  BY <1>0, <1>1 DEF CallsOK, callVars, TypeOK
<1>6. NoGap' /\ InBounds' /\ WindowIsRight'
  BY <1>0, <1>1, WindowKept DEF callVars, TypeOK
<1>7. RightSamples'
  BY <1>1 DEF RightSamples
<1> QED
  BY <1>3, <1>4, <1>5, <1>6, <1>7 DEF IInv

\* Giving it up to read the child outside.
LEMMA TooSmallIInv ==
  ASSUME IInv, NEW t \in Threads, TooSmall(t) PROVE IInv'
<1>0. TypeOK /\ MutexOK /\ CallsOK /\ NoGap /\ InBounds /\ WindowIsRight
  BY DEF IInv
<1>1. /\ pc[t] = "locked" /\ CacheGuardMutex' = NoThread
      /\ ac_too_small_count' = Lesser(3, ac_too_small_count + 1)
      /\ pc' = [pc EXCEPT ![t] = "outside"] /\ got' = None
      /\ UNCHANGED <<AudioPolicy, window, ac_expected_next, ac_currentscore, callVars>>
  BY DEF TooSmall, Go
<1>2. ac_too_small_count' \in 0 .. 3
  BY <1>0, <1>1 DEF TypeOK, Lesser
<1>3. TypeOK'
  BY <1>0, <1>1, <1>2, WindowTypeKept DEF TypeOK, callVars, Places
<1>4. MutexOK'
  BY <1>0, <1>1, HeldMutex, MarksAssumption DEF MutexOK, TypeOK
<1>5. CallsOK'
  BY <1>0, <1>1 DEF CallsOK, callVars, TypeOK
<1>6. NoGap' /\ InBounds' /\ WindowIsRight'
  BY <1>0, <1>1, WindowKept DEF callVars, TypeOK
<1>7. RightSamples'
  BY <1>1 DEF RightSamples
<1> QED
  BY <1>3, <1>4, <1>5, <1>6, <1>7 DEF IInv

-----------------------------------------------------------------------------
(* Steps that change the buffer.                                           *)

WindowType ==
  /\ AudioCache \in [Positions -> Samples \cup {Junk}]
  /\ MaxSampleCount \in 0 .. BufferMax
  /\ AudioCacheStart \in Nat /\ CacheCount \in Nat /\ torn \in BOOLEAN

\* A buffer that was freed.
LEMMA Freed ==
  ASSUME TypeOK, FreeBuffer, \A u \in Threads : pc'[u] # "reading"
  PROVE  WindowType' /\ NoGap' /\ InBounds' /\ WindowIsRight'
<1>1. torn' \in BOOLEAN
  BY Zenon DEF TypeOK, FreeBuffer
<1>2. WindowType'
  BY <1>1, SizesAssumption DEF FreeBuffer, WindowType
<1>3. NoGap' /\ InBounds'
  BY DEF FreeBuffer, NoGap, InBounds
<1>4. WindowIsRight'
  BY SizesAssumption DEF FreeBuffer, WindowIsRight, Positions
<1> QED
  BY <1>2, <1>3, <1>4

\* A buffer that was enlarged while nobody read into it.
LEMMA Enlarged ==
  ASSUME TypeOK, InBounds, WindowIsRight, NEW n \in 0 .. BufferMax, Enlarge(n),
         \A u \in Threads : pc[u] # "reading", \A u \in Threads : pc'[u] # "reading"
  PROVE  WindowType' /\ NoGap' /\ InBounds' /\ WindowIsRight'
<1>1. torn' \in BOOLEAN
  BY Zenon DEF TypeOK, Enlarge
<1>2. /\ MaxSampleCount \in Nat /\ CacheCount \in Nat /\ BufferMax \in Nat /\ n \in Nat
      /\ CacheCount <= MaxSampleCount
  BY SizesAssumption DEF TypeOK, InBounds
<1>3. WindowType'
  BY <1>1, <1>2 DEF Enlarge, WindowType, TypeOK, Greater, Lesser
<1>4. NoGap' /\ InBounds'
  BY <1>2 DEF Enlarge, NoGap, InBounds, Greater, Lesser
<1>5. WindowIsRight'
  <2>1. MaxSampleCount # 0 => CacheCount' = CacheCount /\ AudioCacheStart' = AudioCacheStart
    BY <1>2 DEF Enlarge, Greater, Lesser
  <2>2. MaxSampleCount = 0 => CacheCount' = 0
    BY DEF Enlarge
  <2> SUFFICES ASSUME ~torn', NEW i \in Positions, i < CacheCount'
               PROVE  AudioCache'[i] = AudioCacheStart' + i
    BY DEF WindowIsRight
  <2>3. MaxSampleCount # 0
    BY <2>2, SizesAssumption DEF Positions
  <2>4. ~torn /\ AudioCache' = AudioCache
    BY DEF Enlarge
  <2> QED
    BY <2>1, <2>3, <2>4 DEF WindowIsRight
<1> QED
  BY <1>3, <1>4, <1>5

\* Hints from outside.
LEMMA ApplyHintsIInv ==
  ASSUME IInv, NEW h \in Hints, ApplyHints(h[1], h[2]) PROVE IInv'
<1> DEFINE policy == h[1] n == h[2]
<1>0. TypeOK /\ MutexOK /\ CallsOK /\ NoGap /\ InBounds /\ WindowIsRight
  BY DEF IInv
<1>1. policy \in Policies /\ n \in 0 .. BufferMax /\ DefaultSize \in 0 .. BufferMax
  BY InputsAssumption, SizesAssumption
<1>2. CacheGuardMutex = NoThread /\ got' = None /\ UNCHANGED <<autoVars, CacheGuardMutex, pc, callVars>>
  BY DEF ApplyHints
<1>3. \A u \in Threads : pc[u] # "reading" /\ pc'[u] # "reading"
  BY <1>0, <1>2, FreeMutex
<1>4. WindowType' /\ NoGap' /\ InBounds' /\ WindowIsRight' /\ AudioPolicy' \in Policies
  <2>1. CASE FreeBuffer /\ AudioPolicy' = policy
    BY <1>0, <1>1, <1>3, <2>1, Freed
  <2>2. CASE AudioPolicy' = policy /\ \E k \in {DefaultSize, n} : Enlarge(k)
    BY <1>0, <1>1, <1>3, <2>2, Enlarged
  <2>3. CASE UNCHANGED <<window, AudioPolicy>>
    <3>1. WindowType'
      BY <1>0, <2>3, WindowTypeKept DEF WindowType
    <3>2. NoGap' /\ InBounds' /\ WindowIsRight'
      BY <1>0, <1>2, <2>3, WindowKept DEF callVars
    <3> QED
      BY <1>0, <2>3, <3>1, <3>2 DEF TypeOK
  <2> QED
    BY <2>1, <2>2, <2>3 DEF ApplyHints, WithBuffer, WithoutBuffer
<1>5. TypeOK'
  BY <1>0, <1>2, <1>4 DEF TypeOK, WindowType, autoVars, callVars
<1>6. MutexOK' /\ CallsOK'
  BY <1>0, <1>2 DEF MutexOK, CallsOK, callVars
<1>7. RightSamples'
  BY <1>2 DEF RightSamples
<1> QED
  BY <1>4, <1>5, <1>6, <1>7 DEF IInv

\* The beginning of GetAudio.
LEMMA GetAudioIInv ==
  ASSUME IInv, NEW t \in Threads, NEW r \in Requests, GetAudio(t, r[1], r[2]) PROVE IInv'
<1> DEFINE s == r[1] n == r[2]
           lo == Greater(0, s)
           cn == Lesser(s + n, num_audio_samples) - lo
           sc == NewScore(lo)
<1>0. TypeOK /\ MutexOK /\ CallsOK /\ NoGap /\ InBounds /\ WindowIsRight
  BY DEF IInv
<1>1. s \in Int /\ n \in Nat /\ n > 0 /\ num_audio_samples \in Nat
  BY InputsAssumption, SizesAssumption
<1>2. /\ pc[t] = "idle" /\ s + n > 0 /\ s < num_audio_samples
      /\ ask' = [ask EXCEPT ![t] = <<s, n>>]
      /\ start' = [start EXCEPT ![t] = lo]
      /\ count' = [count EXCEPT ![t] = cn]
      /\ ac_currentscore' = sc
      /\ pc' = [pc EXCEPT ![t] = "scored"]
      /\ got' = None
      /\ UNCHANGED <<AudioPolicy, window, ac_expected_next, ac_too_small_count,
                     CacheGuardMutex, from>>
  BY Zenon DEF GetAudio
<1>3. lo \in Nat /\ cn \in Nat /\ lo + cn = Lesser(s + n, num_audio_samples)
  <2>1. s + n > 0 /\ s < num_audio_samples
    BY <1>2
  <2> HIDE DEF s, n
  <2> QED
    BY <1>1, <2>1 DEF Greater, Lesser
<1>4. sc \in Int
  <2>1. ac_currentscore \in Int /\ ac_expected_next \in Int /\ ScoreMin \in Int /\ ScoreMax \in Int
    BY <1>0, ScoreAssumption DEF TypeOK
  <2> HIDE DEF lo
  <2>2. lo < ac_expected_next \/ lo > ac_expected_next \/ lo = ac_expected_next
    BY <1>3, <2>1
  <2> QED
    BY <1>3, <2>1, <2>2 DEF NewScore, Greater, Lesser
<1> HIDE DEF sc
<1>5. /\ pc'[t] = "scored"
      /\ \A u \in Threads \ {t} : pc'[u] = pc[u] /\ start'[u] = start[u]
                                  /\ count'[u] = count[u] /\ ask'[u] = ask[u]
  BY <1>0, <1>2 DEF TypeOK
<1>6. NoGap' /\ InBounds' /\ WindowIsRight'
  <2>1. \A u \in Threads : pc'[u] = "reading" <=> pc[u] = "reading"
    BY <1>2, <1>5
  <2>2. \A u \in Threads : pc[u] = "reading" =>
          start'[u] = start[u] /\ count'[u] = count[u] /\ from'[u] = from[u]
    BY <1>2, <1>5
  <2> QED
    BY <1>0, <1>2, <2>1, <2>2, WindowKept
<1>7. TypeOK'
  <2>1. ask' \in [Threads -> Int \X Nat] /\ start' \in [Threads -> Nat] /\ count' \in [Threads -> Nat]
    BY <1>0, <1>1, <1>2, <1>3 DEF TypeOK
  <2>2. pc' \in [Threads -> Places]
    BY <1>0, <1>2 DEF TypeOK, Places
  <2>3. ac_expected_next' \in Int /\ ac_too_small_count' \in 0 .. 3 /\ ac_currentscore' \in Int
    BY <1>0, <1>2, <1>4 DEF TypeOK
  <2> QED
    BY <1>0, <1>2, <2>1, <2>2, <2>3, WindowTypeKept DEF TypeOK
<1>8. MutexOK'
  BY <1>0, <1>2, <1>5 DEF MutexOK
<1>9. CallsOK'
  <2>1. ask'[t] = <<s, n>> /\ start'[t] = lo /\ count'[t] = cn
    BY <1>0, <1>2 DEF TypeOK
  <2> QED
    BY <1>0, <1>3, <1>5, <2>1 DEF CallsOK
<1>10. RightSamples'
  BY <1>2 DEF RightSamples
<1> QED
  BY <1>6, <1>7, <1>8, <1>9, <1>10 DEF IInv

\* The steps of a call before the mutex.
Before == {"scored", "switchOn", "on", "switchOff", "decide"}

\* A step to the next place before or at the mutex, which leaves the window.
LEMMA OnwardIInv ==
  ASSUME IInv, NEW t \in Threads, pc[t] \in Before, NEW w \in Before \cup {"direct", "lock"},
         Go(t, w), ac_expected_next' \in Int,
         UNCHANGED <<AudioPolicy, window, ac_too_small_count, ac_currentscore,
                     CacheGuardMutex, callVars>>
  PROVE  IInv'
<1>0. TypeOK /\ MutexOK /\ CallsOK /\ NoGap /\ InBounds /\ WindowIsRight
  BY DEF IInv
<1>1. pc' = [pc EXCEPT ![t] = w] /\ got' = None
  BY DEF Go
<1>2. /\ pc[t] \notin {"idle", "locked", "reading"} /\ w \notin {"idle", "locked", "reading"}
      /\ w \in Places
  BY DEF Before, Places
<1>3. TypeOK'
  BY <1>0, <1>1, <1>2, WindowTypeKept DEF TypeOK, callVars
<1>4. MutexOK'
  BY <1>0, <1>1, <1>2 DEF MutexOK, TypeOK
<1>5. CallsOK'
  BY <1>0, <1>1, <1>2 DEF CallsOK, callVars, TypeOK
<1>6. NoGap' /\ InBounds' /\ WindowIsRight'
  BY <1>0, <1>1, <1>2, WindowKept DEF callVars, TypeOK
<1>7. RightSamples'
  BY <1>1 DEF RightSamples
<1> QED
  BY <1>3, <1>4, <1>5, <1>6, <1>7 DEF IInv

\* A step that switches automatic caching on or off while the mutex is free.
LEMMA SwitchIInv ==
  ASSUME IInv, NEW t \in Threads, pc[t] \in Before, NEW w \in Before, Go(t, w),
         CacheGuardMutex = NoThread, FreeBuffer \/ Enlarge(AutoSize(count[t])),
         AudioPolicy' \in Policies, UNCHANGED <<autoVars, CacheGuardMutex, callVars>>
  PROVE  IInv'
<1>0. TypeOK /\ MutexOK /\ CallsOK /\ NoGap /\ InBounds /\ WindowIsRight
  BY DEF IInv
<1>1. pc' = [pc EXCEPT ![t] = w] /\ got' = None
  BY DEF Go
<1>2. /\ pc[t] \notin {"idle", "locked", "reading"} /\ w \notin {"idle", "locked", "reading"}
      /\ w \in Places
  BY DEF Before, Places
<1>3. \A u \in Threads : pc[u] # "reading" /\ pc'[u] # "reading"
  BY <1>0, <1>1, <1>2, FreeMutex DEF TypeOK
<1>4. WindowType' /\ NoGap' /\ InBounds' /\ WindowIsRight'
  <2>1. count[t] \in Nat
    BY <1>0 DEF TypeOK
  <2>2. CASE FreeBuffer
    BY <1>0, <1>3, <2>2, Freed
  <2>3. CASE Enlarge(AutoSize(count[t]))
    BY <1>0, <1>3, <2>1, <2>3, Enlarged, OwnSizes
  <2> QED
    BY <2>2, <2>3
<1>5. TypeOK'
  BY <1>0, <1>1, <1>2, <1>4 DEF TypeOK, WindowType, autoVars, callVars
<1>6. MutexOK'
  BY <1>0, <1>1, <1>2 DEF MutexOK, TypeOK
<1>7. CallsOK'
  BY <1>0, <1>1, <1>2 DEF CallsOK, callVars, TypeOK
<1>8. RightSamples'
  BY <1>1 DEF RightSamples
<1> QED
  BY <1>4, <1>5, <1>6, <1>7, <1>8 DEF IInv

\* The two tests of the automatic mode and the decision after them.
LEMMA TestIInv ==
  ASSUME IInv, NEW t \in Threads, TestOn(t) \/ TestOff(t) \/ Decide(t) PROVE IInv'
<1>0. TypeOK
  BY DEF IInv
<1>1. ac_expected_next' \in Int
  BY <1>0 DEF TestOn, TestOff, Decide, autoVars, TypeOK
<1>2. pc[t] \in Before
  BY DEF TestOn, TestOff, Decide, Before
<1>3. PICK w \in Before \cup {"direct", "lock"} : Go(t, w)
  BY DEF TestOn, TestOff, Decide, Before
<1>4. UNCHANGED <<AudioPolicy, window, ac_too_small_count, ac_currentscore,
                  CacheGuardMutex, callVars>>
  BY DEF TestOn, TestOff, Decide, autoVars
<1> QED
  BY <1>1, <1>2, <1>3, <1>4, OnwardIInv

\* Automatic caching is switched on or off.
LEMMA SwitchOnOffIInv ==
  ASSUME IInv, NEW t \in Threads, SwitchOn(t) \/ SwitchOff(t) PROVE IInv'
<1>1. pc[t] \in Before
  BY DEF SwitchOn, SwitchOff, Before
<1>2. PICK w \in Before : Go(t, w)
  BY DEF SwitchOn, SwitchOff, Before
<1>3. /\ CacheGuardMutex = NoThread
      /\ FreeBuffer \/ Enlarge(AutoSize(count[t]))
      /\ UNCHANGED <<autoVars, CacheGuardMutex, callVars>>
  BY DEF SwitchOn, SwitchOff, WithBuffer, WithoutBuffer
<1>4. AudioPolicy' \in Policies
  BY DEF SwitchOn, SwitchOff, WithBuffer, WithoutBuffer, Policies
<1> QED
  BY <1>1, <1>2, <1>3, <1>4, SwitchIInv

\* The third request that is too large.
LEMMA UpsizeIInv ==
  ASSUME IInv, NEW t \in Threads, Upsize(t) PROVE IInv'
<1> DEFINE size == Greater(count[t], WindowEnd - start[t])
<1>0. TypeOK /\ MutexOK /\ CallsOK /\ NoGap /\ InBounds /\ WindowIsRight
  BY DEF IInv
<1>1. /\ pc[t] = "locked" /\ pc' = [pc EXCEPT ![t] = "locked"] /\ got' = None
      /\ (FreeBuffer \/ Enlarge(Upsized(size))) /\ AudioPolicy' = AudioPolicy
      /\ ac_too_small_count' = 0
      /\ UNCHANGED <<ac_expected_next, ac_currentscore, CacheGuardMutex, callVars>>
  BY DEF Upsize, Go, WithBuffer, WithoutBuffer
<1>2. size \in Nat
  BY <1>0 DEF TypeOK, WindowEnd, Greater
<1>3. pc' = pc /\ \A u \in Threads : pc[u] # "reading" /\ pc'[u] # "reading"
  BY <1>0, <1>1, HeldMutex DEF TypeOK
<1>4. WindowType' /\ NoGap' /\ InBounds' /\ WindowIsRight'
  BY <1>0, <1>1, <1>2, <1>3, Freed, Enlarged, OwnSizes
<1>5. TypeOK'
  BY <1>0, <1>1, <1>3, <1>4 DEF TypeOK, WindowType, callVars
<1>6. MutexOK' /\ CallsOK'
  BY <1>0, <1>1, <1>3 DEF MutexOK, CallsOK, callVars
<1>7. RightSamples'
  BY <1>1 DEF RightSamples
<1> QED
  BY <1>4, <1>5, <1>6, <1>7 DEF IInv

-----------------------------------------------------------------------------
(* Steps that change the window.                                           *)

\* What the arithmetic of a call may rely on.
LEMMA CallNumbers ==
  ASSUME TypeOK, CallsOK, InBounds, NEW t \in Threads, pc[t] # "idle"
  PROVE  /\ start[t] \in Nat /\ count[t] \in Nat /\ from[t] \in Nat
         /\ AudioCacheStart \in Nat /\ CacheCount \in Nat
         /\ MaxSampleCount \in Nat /\ MaxSampleCount <= BufferMax /\ BufferMax \in Nat
         /\ num_audio_samples \in Nat /\ CacheCount <= MaxSampleCount
         /\ start[t] + count[t] <= num_audio_samples
<1>1. ask[t][1] \in Int /\ ask[t][2] \in Nat
  BY DEF TypeOK
<1>2. start[t] + count[t] = Lesser(ask[t][1] + ask[t][2], num_audio_samples)
  BY DEF CallsOK
<1> QED
  BY <1>1, <1>2, SizesAssumption DEF TypeOK, InBounds, Lesser

\* The end of an answer that was read outside the mutex is kept.
LEMMA KeepTailIInv ==
  ASSUME IInv, NEW t \in Threads, KeepTail(t) PROVE IInv'
<1> DEFINE kept == Lesser(count[t], MaxSampleCount)
           first == start[t] + count[t] - kept
           mid == ChildSamples(t)
<1>0. TypeOK /\ MutexOK /\ CallsOK /\ NoGap /\ InBounds /\ WindowIsRight
  BY DEF IInv
<1>1. /\ pc[t] = "outside" /\ CacheGuardMutex = NoThread
      /\ CacheCount' = kept /\ AudioCacheStart' = first
      /\ AudioCache' = [i \in Positions |-> IF i < kept THEN first + i ELSE AudioCache[i]]
      /\ Answer(t, mid)
      /\ UNCHANGED <<AudioPolicy, MaxSampleCount, torn, autoVars, CacheGuardMutex>>
  BY DEF KeepTail
<1>2. PICK a : Return(t, a) /\ (a = None \/ a.ask \in Int \X Nat)
  BY <1>0, <1>1, AnswerTypes DEF Answer
<1>3. \A u \in Threads : pc'[u] # "reading"
  BY <1>0, <1>1, <1>2, ReturnTypes, FreeMutex
<1>4. /\ kept \in Nat /\ first \in Nat /\ kept <= MaxSampleCount
      /\ first + kept <= num_audio_samples
  BY <1>0, <1>1, CallNumbers DEF Lesser
<1>5. WindowType'
  <2>1. torn' \in BOOLEAN
    BY <1>0, <1>1, Zenon DEF TypeOK
  <2>2. AudioCache' \in [Positions -> Samples \cup {Junk}]
    <3>1. \A i \in Positions : i < kept => first + i \in Samples
      BY <1>4, SizesAssumption DEF Positions, Samples
    <3> QED
      BY <1>0, <1>1, <3>1 DEF TypeOK
  <2> QED
    BY <1>0, <1>1, <1>4, <2>1, <2>2 DEF WindowType, TypeOK
<1>6. NoGap' /\ InBounds' /\ WindowIsRight'
  BY <1>1, <1>3, <1>4 DEF NoGap, InBounds, WindowIsRight
<1>7. TypeOK'
  BY <1>0, <1>1, <1>2, <1>5, ReturnTypes DEF TypeOK, WindowType, autoVars
<1>8. MutexOK'
  BY <1>0, <1>1, <1>2, ReturnTypes DEF MutexOK
<1>9. CallsOK'
  BY <1>0, <1>2, ReturnTypes
<1>10. RightSamples'
  <2>1. \A j \in 0 .. count[t] - 1 : mid[j] = start[t] + j
    BY DEF ChildSamples
  <2> QED
    BY <1>0, <1>1, <2>1, AnswerIsRight DEF RightSamples
<1> QED
  BY <1>6, <1>7, <1>8, <1>9, <1>10 DEF IInv

\* The window is moved to the request.
LEMMA RestartIInv ==
  ASSUME IInv, NEW t \in Threads, Restart(t) PROVE IInv'
<1>0. TypeOK /\ MutexOK /\ CallsOK /\ NoGap /\ InBounds /\ WindowIsRight
  BY DEF IInv
<1>1. /\ pc[t] = "locked" /\ ~(count[t] > MaxSampleCount)
      /\ CacheCount' = Lesser(count[t], MaxSampleCount) /\ AudioCacheStart' = start[t]
      /\ from' = [from EXCEPT ![t] = 0]
      /\ pc' = [pc EXCEPT ![t] = "reading"] /\ got' = None
      /\ UNCHANGED <<AudioPolicy, AudioCache, MaxSampleCount, torn, autoVars,
                     CacheGuardMutex, ask, start, count>>
  BY DEF Restart, Go, Large
<1>2. CacheCount' = count[t] /\ count[t] <= MaxSampleCount
  BY <1>0, <1>1, CallNumbers DEF Lesser
<1>3. /\ pc'[t] = "reading" /\ from'[t] = 0
      /\ \A u \in Threads \ {t} : pc'[u] = pc[u] /\ pc'[u] # "reading"
  BY <1>0, <1>1, HeldMutex DEF TypeOK
<1>4. TypeOK'
  <2>1. torn' \in BOOLEAN
    BY <1>0, <1>1, Zenon DEF TypeOK
  <2> QED
    BY <1>0, <1>1, <1>2, <2>1 DEF TypeOK, autoVars, Places
<1>5. MutexOK'
  BY <1>0, <1>1, <1>3, HeldMutex DEF MutexOK
<1>6. CallsOK'
  BY <1>0, <1>1, <1>3 DEF CallsOK
<1>7. NoGap'
  BY <1>0, <1>1, <1>2, <1>3, CallNumbers DEF NoGap
<1>8. InBounds'
  <2>1. To(t)' = count[t]
    BY <1>0, <1>1, CallNumbers DEF To
  <2> QED
    BY <1>0, <1>1, <1>2, <1>3, <2>1, CallNumbers DEF InBounds
<1>9. WindowIsRight'
  BY <1>3, SizesAssumption DEF WindowIsRight, Positions
<1>10. RightSamples'
  BY <1>1 DEF RightSamples
<1> QED
  BY <1>4, <1>5, <1>6, <1>7, <1>8, <1>9, <1>10 DEF IInv

\* The window is extended, after a shift if need be.
LEMMA ExtendIInv ==
  ASSUME IInv, NEW t \in Threads, Extend(t) PROVE IInv'
<1> DEFINE d == ShiftSamples(t)
<1>0. TypeOK /\ MutexOK /\ CallsOK /\ NoGap /\ InBounds /\ WindowIsRight
  BY DEF IInv
<1>1. /\ pc[t] = "locked" /\ ~(count[t] > MaxSampleCount)
      /\ ~(start[t] < AudioCacheStart)
      /\ start[t] + count[t] > AudioCacheStart + CacheCount
      /\ from' = [from EXCEPT ![t] = CacheCount']
      /\ pc' = [pc EXCEPT ![t] = "reading"] /\ got' = None
      /\ UNCHANGED <<AudioPolicy, MaxSampleCount, torn, autoVars, CacheGuardMutex,
                     ask, start, count>>
  BY DEF Extend, Go, Large, Beyond, Short, WindowEnd
<1>n. /\ start[t] \in Nat /\ count[t] \in Nat /\ AudioCacheStart \in Nat /\ CacheCount \in Nat
      /\ MaxSampleCount \in Nat /\ MaxSampleCount <= BufferMax /\ BufferMax \in Nat
      /\ CacheCount <= MaxSampleCount /\ start[t] + count[t] <= num_audio_samples
      /\ num_audio_samples \in Nat
  BY <1>0, <1>1, CallNumbers
<1>r. \A u \in Threads : pc[u] # "reading"
  BY <1>0, <1>1, HeldMutex
<1>d. Overflows(t) => /\ d \in Nat /\ d <= start[t] - AudioCacheStart
                      /\ start[t] + count[t] <= AudioCacheStart + d + MaxSampleCount
  BY <1>1, <1>n DEF Overflows, ShiftSamples, Greater
\* The window that is left, and that it is right.
<1>2. /\ AudioCacheStart' \in Nat /\ CacheCount' \in Nat /\ CacheCount' <= MaxSampleCount
      /\ start[t] >= AudioCacheStart'
      /\ start[t] + count[t] <= AudioCacheStart' + MaxSampleCount
      /\ AudioCacheStart' + CacheCount' <= start[t] + count[t]
      /\ AudioCache' \in [Positions -> Samples \cup {Junk}]
      /\ ~torn => \A i \in Positions : i < CacheCount' => AudioCache'[i] = AudioCacheStart' + i
  <2>0. AudioCache \in [Positions -> Samples \cup {Junk}]
    BY <1>0 DEF TypeOK
  <2>1. ~torn => \A i \in Positions : i < CacheCount => AudioCache[i] = AudioCacheStart + i
    BY <1>0, <1>r DEF WindowIsRight
  <2>2. CASE Overflows(t) /\ Shift(t)
    <3>1. /\ d < CacheCount
          /\ AudioCache' = [i \in Positions |-> IF i < CacheCount - d
                                                THEN AudioCache[i + d] ELSE AudioCache[i]]
          /\ AudioCacheStart' = AudioCacheStart + d
          /\ CacheCount' = CacheCount - d
      BY <2>2 DEF Shift
    <3> HIDE DEF d
    <3>a. d \in Nat /\ d < CacheCount
      BY <1>d, <2>2, <3>1
    <3>2. \A i \in Positions : i < CacheCount - d => i + d \in Positions /\ i + d < CacheCount
      BY <1>n, <3>a DEF Positions
    <3>3. AudioCache' \in [Positions -> Samples \cup {Junk}]
      BY <2>0, <3>1, <3>2
    <3>4. ASSUME ~torn, NEW i \in Positions, i < CacheCount - d
          PROVE  AudioCache'[i] = AudioCacheStart + d + i
      <4>1. AudioCache'[i] = AudioCache[i + d]
        BY <3>1, <3>4
      <4>2. AudioCache[i + d] = AudioCacheStart + (i + d)
        BY <2>1, <3>2, <3>4
      <4>3. i \in Int
        BY <1>n DEF Positions
      <4> QED
        BY <1>n, <1>d, <2>2, <4>1, <4>2, <4>3
    <3>5. /\ AudioCacheStart' \in Nat /\ CacheCount' \in Nat /\ CacheCount' <= MaxSampleCount
          /\ start[t] >= AudioCacheStart'
          /\ start[t] + count[t] <= AudioCacheStart' + MaxSampleCount
          /\ AudioCacheStart' + CacheCount' <= start[t] + count[t]
      BY <1>1, <1>n, <1>d, <2>2, <3>1
    <3> QED
      BY <3>1, <3>3, <3>4, <3>5
  <2>3. CASE Overflows(t) /\ Forget(t)
    <3>1. /\ AudioCacheStart' = start[t] + count[t] - MaxSampleCount /\ CacheCount' = 0
          /\ AudioCache' = AudioCache /\ start[t] + count[t] > AudioCacheStart + MaxSampleCount
      BY <2>3 DEF Forget, Overflows
    <3>2. \A i \in Positions : ~(i < 0)
      BY <1>n DEF Positions
    <3> QED
      BY <1>1, <1>n, <2>0, <3>1, <3>2
  <2>4. CASE ~Overflows(t) /\ UNCHANGED <<AudioCache, AudioCacheStart, CacheCount>>
    BY <1>1, <1>n, <2>0, <2>1, <2>4 DEF Overflows
  <2> QED
    BY <2>2, <2>3, <2>4 DEF Extend
<1>3. /\ pc'[t] = "reading" /\ from'[t] = CacheCount'
      /\ \A u \in Threads \ {t} : pc'[u] = pc[u] /\ pc'[u] # "reading"
  BY <1>0, <1>1, <1>r DEF TypeOK
<1>4. TypeOK'
  <2>1. torn' \in BOOLEAN
    BY <1>0, <1>1, Zenon DEF TypeOK
  <2> QED
    BY <1>0, <1>1, <1>2, <2>1 DEF TypeOK, autoVars, Places
<1>5. MutexOK'
  BY <1>0, <1>1, <1>3, HeldMutex DEF MutexOK
<1>6. CallsOK'
  BY <1>0, <1>1, <1>3 DEF CallsOK
<1>7. NoGap'
  BY <1>2, <1>3 DEF NoGap
<1>8. InBounds'
  BY <1>1, <1>2, <1>3, <1>n DEF InBounds, To
<1>9. WindowIsRight'
  BY <1>1, <1>2 DEF WindowIsRight
<1>10. RightSamples'
  BY <1>1 DEF RightSamples
<1> QED
  BY <1>4, <1>5, <1>6, <1>7, <1>8, <1>9, <1>10 DEF IInv

-----------------------------------------------------------------------------
(* Steps that give up the mutex.                                           *)

\* A call that ends while its thread has the mutex leaves nobody reading.
LEMMA ReleasedMutex ==
  ASSUME TypeOK, MutexOK, CallsOK, NEW t \in Threads, pc[t] \in {"locked", "reading"},
         NEW a, Return(t, a), a = None \/ a.ask \in Int \X Nat, CacheGuardMutex' = NoThread
  PROVE  MutexOK' /\ \A u \in Threads : pc'[u] # "reading"
<1>1. \A u \in Threads : pc'[u] \notin {"locked", "reading"}
  BY HeldMutex, ReturnTypes
<1> QED
  BY <1>1, MarksAssumption DEF MutexOK

\* Everything asked for is in the window.
LEMMA HitIInv ==
  ASSUME IInv, NEW t \in Threads, Hit(t) PROVE IInv'
<1> DEFINE mid == [i \in 0 .. count[t] - 1 |-> AudioCache[start[t] + i - AudioCacheStart]]
<1>0. TypeOK /\ MutexOK /\ CallsOK /\ NoGap /\ InBounds /\ WindowIsRight
  BY DEF IInv
<1>1. /\ pc[t] = "locked" /\ ~(start[t] < AudioCacheStart)
      /\ ~(start[t] + count[t] > AudioCacheStart + CacheCount)
      /\ Answer(t, mid) /\ CacheGuardMutex' = NoThread
      /\ UNCHANGED <<AudioPolicy, window, autoVars>>
  BY DEF Hit, Beyond, Short, WindowEnd, FromWindow
<1>2. PICK a : Return(t, a) /\ (a = None \/ a.ask \in Int \X Nat)
  BY <1>0, <1>1, AnswerTypes DEF Answer
<1>3. MutexOK' /\ \A u \in Threads : pc'[u] # "reading"
  BY <1>0, <1>1, <1>2, ReleasedMutex
<1>4. TypeOK'
  BY <1>0, <1>1, <1>2, ReturnTypes, WindowTypeKept DEF TypeOK, autoVars
<1>5. CallsOK'
  BY <1>0, <1>2, ReturnTypes
<1>r. \A u \in Threads : pc[u] # "reading"
  BY <1>0, <1>1, HeldMutex
<1>6. NoGap' /\ InBounds' /\ WindowIsRight'
  BY <1>0, <1>1, <1>3, <1>r, WindowKept
<1>7. RightSamples'
  <2> SUFFICES ASSUME ~torn PROVE RightSamples'
    BY <1>1 DEF RightSamples, window
  <2>1. /\ start[t] \in Nat /\ count[t] \in Nat /\ AudioCacheStart \in Nat
        /\ CacheCount \in Nat /\ BufferMax \in Nat /\ CacheCount <= BufferMax
    BY <1>0, <1>1, CallNumbers
  <2>2. ASSUME NEW j \in 0 .. count[t] - 1 PROVE mid[j] = start[t] + j
    <3> DEFINE i == start[t] + j - AudioCacheStart
    <3>1. ~(start[t] < AudioCacheStart) /\ ~(start[t] + count[t] > AudioCacheStart + CacheCount)
      BY <1>1
    <3>2. i \in Positions /\ i < CacheCount /\ AudioCacheStart + i = start[t] + j
      BY <2>1, <2>2, <3>1 DEF Positions
    <3>3. AudioCache[i] = AudioCacheStart + i
      BY <1>0, <1>r, <3>2 DEF WindowIsRight
    <3> QED
      BY <3>2, <3>3
  <2> QED
    BY <1>0, <1>1, <2>2, AnswerIsRight DEF RightSamples
<1> QED
  BY <1>3, <1>4, <1>5, <1>6, <1>7 DEF IInv

\* The child has delivered what was missing.
LEMMA ReadDoneIInv ==
  ASSUME IInv, NEW t \in Threads, ReadDone(t) PROVE IInv'
<1> DEFINE cache == [i \in Positions |-> IF i >= from[t] /\ i < To(t)
                                         THEN AudioCacheStart + i ELSE AudioCache[i]]
           mid == [i \in 0 .. count[t] - 1 |-> cache[start[t] + i - AudioCacheStart]]
<1>0. TypeOK /\ MutexOK /\ CallsOK /\ NoGap /\ InBounds /\ WindowIsRight
  BY DEF IInv
<1>1. /\ pc[t] = "reading" /\ AudioCache' = cache /\ CacheCount' = To(t)
      /\ Answer(t, mid) /\ CacheGuardMutex' = NoThread
      /\ UNCHANGED <<AudioPolicy, MaxSampleCount, AudioCacheStart, torn, autoVars>>
  BY DEF ReadDone, FromWindow
<1>2. PICK a : Return(t, a) /\ (a = None \/ a.ask \in Int \X Nat)
  BY <1>0, <1>1, AnswerTypes DEF Answer
<1>3. MutexOK' /\ \A u \in Threads : pc'[u] # "reading"
  BY <1>0, <1>1, <1>2, ReleasedMutex
<1>n. /\ start[t] \in Nat /\ count[t] \in Nat /\ from[t] \in Nat /\ AudioCacheStart \in Nat
      /\ CacheCount \in Nat /\ MaxSampleCount \in Nat /\ MaxSampleCount <= BufferMax
      /\ BufferMax \in Nat /\ num_audio_samples \in Nat
      /\ start[t] + count[t] <= num_audio_samples
  BY <1>0, <1>1, CallNumbers
<1>t. /\ To(t) \in Nat /\ To(t) <= MaxSampleCount /\ AudioCacheStart + To(t) = start[t] + count[t]
      /\ start[t] >= AudioCacheStart /\ from[t] <= CacheCount
  <2>1. /\ from[t] <= To(t) /\ To(t) <= MaxSampleCount
        /\ start[t] >= AudioCacheStart /\ from[t] <= CacheCount
    <3>1. pc[t] = "reading"
      BY <1>1
    <3> QED
      BY <1>0, <3>1 DEF InBounds, NoGap
  <2> QED
    BY <1>n, <2>1 DEF To
<1> HIDE DEF cache
\* The window is filled up to its new end.
<1>w. ~torn => \A i \in Positions : i < To(t) => cache[i] = AudioCacheStart + i
  <2> SUFFICES ASSUME ~torn, NEW i \in Positions, i < To(t) PROVE cache[i] = AudioCacheStart + i
    OBVIOUS
  <2>1. CASE i >= from[t]
    BY <2>1 DEF cache
  <2>2. CASE i < from[t]
    <3>1. i \in Int
      BY <1>n DEF Positions
    <3>2. i < CacheCount /\ ~(i >= from[t])
      BY <1>n, <1>t, <2>2, <3>1
    <3>3. \A u \in Threads : pc[u] = "reading" => i < from[u]
      BY <1>0, <1>1, <2>2, HeldMutex
    <3>4. AudioCache[i] = AudioCacheStart + i
      BY <1>0, <3>2, <3>3 DEF WindowIsRight
    <3> QED
      BY <3>2, <3>4 DEF cache
  <2>3. i >= from[t] \/ i < from[t]
    BY <1>n DEF Positions
  <2> QED
    BY <2>1, <2>2, <2>3
<1>4. WindowType'
  <2>1. torn' \in BOOLEAN
    BY <1>0, <1>1, Zenon DEF TypeOK
  <2>2. \A i \in Positions : i < To(t) => AudioCacheStart + i \in Samples
    BY <1>n, <1>t DEF Positions, Samples
  <2>3. AudioCache \in [Positions -> Samples \cup {Junk}]
    BY <1>0 DEF TypeOK
  <2>4. cache \in [Positions -> Samples \cup {Junk}]
    BY <2>2, <2>3 DEF cache
  <2> QED
    BY <1>0, <1>1, <1>t, <2>1, <2>4 DEF WindowType, TypeOK
<1>5. TypeOK'
  BY <1>0, <1>1, <1>2, <1>4, ReturnTypes DEF TypeOK, WindowType, autoVars
<1>6. CallsOK'
  BY <1>0, <1>2, ReturnTypes
<1>7. NoGap' /\ InBounds' /\ WindowIsRight'
  BY <1>1, <1>3, <1>t, <1>w DEF NoGap, InBounds, WindowIsRight
<1>8. RightSamples'
  <2> SUFFICES ASSUME ~torn PROVE RightSamples'
    BY <1>1 DEF RightSamples
  <2>1. ASSUME NEW j \in 0 .. count[t] - 1 PROVE mid[j] = start[t] + j
    <3> DEFINE i == start[t] + j - AudioCacheStart
    <3>1. i \in Positions /\ i < To(t) /\ AudioCacheStart + i = start[t] + j
      BY <1>n, <1>t, <2>1 DEF Positions
    <3> QED
      BY <1>w, <3>1
  <2> QED
    BY <1>0, <1>1, <2>1, AnswerIsRight DEF RightSamples
<1> QED
  BY <1>3, <1>5, <1>6, <1>7, <1>8 DEF IInv

\* The child throws while it reads into the window.
LEMMA ReadFailsIInv ==
  ASSUME IInv, NEW t \in Threads, ReadFails(t) PROVE IInv'
<1>0. TypeOK /\ MutexOK /\ CallsOK /\ NoGap /\ InBounds /\ WindowIsRight
  BY DEF IInv
<1>1. /\ pc[t] = "reading" /\ Return(t, None) /\ CacheGuardMutex' = NoThread
      /\ AudioCache' = [i \in Positions |-> IF i >= from[t] /\ i < To(t)
                                            THEN Junk ELSE AudioCache[i]]
      /\ UNCHANGED <<AudioPolicy, MaxSampleCount, AudioCacheStart, CacheCount, autoVars>>
  BY DEF ReadFails, Throw
<1>b. torn' \in BOOLEAN /\ (~torn' => ~torn /\ ~(from[t] < CacheCount))
  BY Zenon DEF ReadFails
<1>3. MutexOK' /\ \A u \in Threads : pc'[u] # "reading"
  BY <1>0, <1>1, ReleasedMutex
<1>4. WindowType'
  BY <1>0, <1>1, <1>b DEF WindowType, TypeOK
<1>5. TypeOK'
  BY <1>0, <1>1, <1>4, ReturnTypes DEF TypeOK, WindowType, autoVars
<1>6. CallsOK'
  BY <1>0, <1>1, ReturnTypes
<1>7. NoGap' /\ InBounds'
  BY <1>0, <1>1, <1>3 DEF NoGap, InBounds
<1>8. WindowIsRight'
  <2> SUFFICES ASSUME ~torn', NEW i \in Positions, i < CacheCount
               PROVE  AudioCache'[i] = AudioCacheStart + i
    BY <1>1 DEF WindowIsRight
  <2>1. from[t] \in Nat /\ CacheCount \in Nat /\ BufferMax \in Nat
    BY <1>0, SizesAssumption DEF TypeOK
  <2>2. ~(from[t] < CacheCount) /\ ~torn
    BY <1>b
  <2>3. i < from[t] /\ ~(i >= from[t])
    BY <2>1, <2>2 DEF Positions
  <2>4. \A u \in Threads : pc[u] = "reading" => i < from[u]
    BY <1>0, <1>1, <2>3, HeldMutex
  <2>5. AudioCache[i] = AudioCacheStart + i
    BY <1>0, <2>2, <2>4 DEF WindowIsRight
  <2> QED
    BY <1>1, <2>3, <2>5
<1>9. RightSamples'
  BY <1>1 DEF Return, RightSamples
<1> QED
  BY <1>3, <1>5, <1>6, <1>7, <1>8, <1>9 DEF IInv

-----------------------------------------------------------------------------
(* The theorems.                                                           *)

\* Every step keeps the invariant.
LEMMA NextIInv == IInv /\ [Next]_vars => IInv'
<1> SUFFICES ASSUME IInv, [Next]_vars PROVE IInv'
  OBVIOUS
<1>1. ASSUME NEW t \in Threads, Step(t) PROVE IInv'
  BY <1>1, TestIInv, SwitchOnOffIInv, ReadDirectIInv, LockIInv, UpsizeIInv, TooSmallIInv,
     KeepTailIInv, OutsideFailsIInv, RestartIInv, ExtendIInv, HitIInv, ReadDoneIInv, ReadFailsIInv DEF Step
<1>2. ASSUME NEW t \in Threads, NEW r \in Requests,
             GetSilence(t, r[1], r[2]) \/ GetAudio(t, r[1], r[2])
      PROVE  IInv'
  BY <1>2, GetSilenceIInv, GetAudioIInv
<1>3. ASSUME NEW h \in Hints, ApplyHints(h[1], h[2]) PROVE IInv'
  BY <1>3, ApplyHintsIInv
<1>4. CASE UNCHANGED vars
  <2>0. TypeOK /\ MutexOK /\ CallsOK /\ NoGap /\ InBounds /\ WindowIsRight /\ RightSamples
    BY DEF IInv
  <2>1. /\ UNCHANGED window
        /\ UNCHANGED <<AudioPolicy, autoVars, CacheGuardMutex, pc, callVars, got>>
    BY <1>4 DEF vars
  <2>2. TypeOK'
    BY <2>0, <2>1, WindowTypeKept DEF TypeOK, autoVars, callVars
  <2>3. MutexOK' /\ CallsOK'
    BY <2>0, <2>1 DEF MutexOK, CallsOK, callVars
  <2>4. NoGap' /\ InBounds' /\ WindowIsRight'
    BY <2>0, <2>1, WindowKept DEF callVars
  <2>5. RightSamples'
    BY <2>0, <2>1 DEF RightSamples, window
  <2> QED
    BY <2>2, <2>3, <2>4, <2>5 DEF IInv
<1> QED
  BY <1>1, <1>2, <1>3, <1>4 DEF Next

\* The inductive invariant of the audio cache.
THEOREM Invariance == Spec => []IInv
  BY InitIInv, NextIInv, PTL DEF Spec

\* The window holds the samples it says it holds, after every sequence of
\* shifts, restarts, upsizings, hints and reads outside the mutex.
THEOREM WindowCorrect == Spec => []WindowIsRight
<1>1. IInv => WindowIsRight
  BY DEF IInv
<1> QED
  BY <1>1, Invariance, PTL

\* No copy and no read of the child leaves the buffer or the clip.
THEOREM CopiesInBounds == Spec => []InBounds
<1>1. IInv => InBounds
  BY DEF IInv
<1> QED
  BY <1>1, Invariance, PTL

\* Every answer of GetAudio is the clip's samples, padded with silence.
THEOREM AnswersCorrect == Spec => []RightSamples
<1>1. IInv => RightSamples
  BY DEF IInv
<1> QED
  BY <1>1, Invariance, PTL
=============================================================================
