---------------------------- MODULE FrameRegistry ----------------------------
(***************************************************************************)
(* Frame buffers, the VideoFrame objects on them, and FrameRegistry2.      *)
(*                                                                         *)
(* A VideoFrameBuffer is shared by the frames made from it with Subframe;  *)
(* a VideoFrame is shared by the PVideoFrames that point to it.  Both have *)
(* a reference count, changed with interlocked instructions and without    *)
(* any lock.  The registry lists every frame under its buffer; it is       *)
(* searched, grown and collected under memory_mutex.  So the counts the    *)
(* registry looks at move while it looks: every access to a count is an    *)
(* action of its own, and GetNewFrame() is a series of them.               *)
(*                                                                         *)
(* A holder is whoever has one PVideoFrame of a frame: a thread or a cache *)
(* (a thread with two copies is two holders).  memory_used is the sum of   *)
(* the sizes of the buffers: it changes where they come and go.  Sizes are *)
(* those GetNewFrame() has rounded up; there is one device.                *)
(***************************************************************************)
EXTENDS Integers, FiniteSets, FiniteSetsExt, TLC

CONSTANTS
  Threads,      \* threads that run filters
  Caches,       \* frame caches, holders without a thread of their own
  Frames,       \* bound: addresses for VideoFrame objects
  Buffers,      \* bound: addresses for VFBStorage objects
  Sizes,        \* buffer sizes that are asked for
  MemoryLimit,  \* 85% of memory_max
  free_thresh,  \* collections a free buffer survives
  NoFrame, NoBuffer, NoThread

Holders == Threads \cup Caches

ASSUME HoldersAssumption == IsFiniteSet(Holders) /\ Threads \cap Caches = {}
ASSUME ObjectsAssumption == /\ IsFiniteSet(Frames) /\ NoFrame \notin Frames
                            /\ IsFiniteSet(Buffers) /\ NoBuffer \notin Buffers
                            /\ NoThread \notin Threads /\ Threads \cap Frames = {}
ASSUME MemoryAssumption == /\ Sizes \subseteq Nat \ {0}
                           /\ MemoryLimit \in Nat /\ free_thresh \in Nat

VARIABLES
  vfb,          \* frame -> its buffer; NoBuffer: there is no such object
  refcount,     \* frame -> its reference count
  registry,     \* the frames listed in FrameRegistry2 (under their buffer)
  data_size,    \* buffer -> its size; 0: there is no such object
  vfbRefcount,  \* buffer -> its reference count
  free_count,   \* buffer -> collections it has survived
  memory_mutex, \* the thread that holds it
  closing,      \* frame_properties_closing
  held,         \* holder -> frames it has a PVideoFrame of
  pc,           \* where each thread is
  obj,          \* thread: the frame object in its hands
  old,          \* thread: the frame its PVideoFrame pointed to before
  saved,        \* thread: the _vfb of its Release()
  req           \* thread: the size GetNewFrame was asked for

frameVars  == <<vfb, refcount, registry>>
bufferVars == <<data_size, vfbRefcount, free_count>>
threadVars == <<pc, obj, old, saved, req>>
vars == <<frameVars, bufferVars, memory_mutex, closing, held, threadVars>>

\* Inside GetNewFrame, with memory_mutex.
Allocating == {"search", "alloc", "shrink", "search2", "alloc2", "collect", "alloc3"}

TypeOK ==
  /\ vfb \in [Frames -> Buffers \cup {NoBuffer}]
  /\ refcount \in [Frames -> Nat]
  /\ registry \subseteq Frames
  /\ data_size \in [Buffers -> Nat]
  /\ vfbRefcount \in [Buffers -> Nat]
  /\ free_count \in [Buffers -> Nat]
  /\ memory_mutex \in Threads \cup {NoThread}
  /\ closing \in BOOLEAN
  /\ held \in [Holders -> SUBSET Frames]
  /\ pc \in [Threads -> Allocating \cup
               {"idle", "new", "fresh", "sub", "drop", "release", "check", "writing"}]
  /\ obj \in [Threads -> Frames \cup {NoFrame}]
  /\ old \in [Threads -> Frames \cup {NoFrame}]
  /\ saved \in [Threads -> Buffers \cup {NoBuffer}]
  /\ req \in [Threads -> Nat]

Init ==
  /\ vfb = [f \in Frames |-> NoBuffer]
  /\ refcount = [f \in Frames |-> 0]
  /\ registry = {}
  /\ data_size = [b \in Buffers |-> 0]
  /\ vfbRefcount = [b \in Buffers |-> 0]
  /\ free_count = [b \in Buffers |-> 0]
  /\ memory_mutex = NoThread
  /\ closing = FALSE
  /\ held = [h \in Holders |-> {}]
  /\ pc = [t \in Threads |-> "idle"]
  /\ obj = [t \in Threads |-> NoFrame]
  /\ old = [t \in Threads |-> NoFrame]
  /\ saved = [t \in Threads |-> NoBuffer]
  /\ req = [t \in Threads |-> 0]

-----------------------------------------------------------------------------
(* The registry.                                                           *)

MemoryUsed == MapThenSumSet(LAMBDA b : data_size[b], Buffers)

Listed(b) == {f \in registry : vfb[f] = b}
Free(b) == data_size[b] # 0 /\ vfbRefcount[b] = 0

\* GetFrameFromRegistry takes a free buffer of the size or up to half as much
\* again.  (Smallest size first, but a count it has passed may drop to zero
\* while it goes on: any that fits may be the one it meets.)
Fits(b, s) == Free(b) /\ s <= data_size[b] /\ 2 * data_size[b] <= 3 * s

\* delete frame, for all frames in D: Release() in the destructor counts the
\* dead object's reference count down to -1 and leaves the buffer alone.
VfbWithout(D) == [f \in Frames |-> IF f \in D THEN NoBuffer ELSE vfb[f]]

Lock(t) == memory_mutex = NoThread /\ memory_mutex' = t
Unlock(t) == memory_mutex = t /\ memory_mutex' = NoThread

Go(t, where) == pc' = [pc EXCEPT ![t] = where]

\* One of the frames listed under the buffer is kept, the others deleted.
Reuse(t, f) ==
  LET b == vfb[f] IN
  /\ f \in registry /\ Fits(b, req[t])
  /\ vfb' = VfbWithout(Listed(b) \ {f})
  /\ registry' = registry \ (Listed(b) \ {f})
  /\ vfbRefcount' = [vfbRefcount EXCEPT ![b] = @ + 1]
  /\ free_count' = [free_count EXCEPT ![b] = 0]
  /\ obj' = [obj EXCEPT ![t] = f]
  /\ Go(t, "fresh") /\ Unlock(t)
  /\ UNCHANGED <<refcount, data_size, closing, held, old, saved, req>>

\* AllocateFrame: a new buffer with one frame, which counts once.
Allocate(t, b, f) ==
  /\ data_size[b] = 0 /\ vfb[f] = NoBuffer
  /\ data_size' = [data_size EXCEPT ![b] = req[t]]
  /\ vfbRefcount' = [vfbRefcount EXCEPT ![b] = 1]
  /\ free_count' = [free_count EXCEPT ![b] = 0]
  /\ vfb' = [vfb EXCEPT ![f] = b]
  /\ refcount' = [refcount EXCEPT ![f] = 0]
  /\ registry' = registry \cup {f}
  /\ obj' = [obj EXCEPT ![t] = f]
  /\ Go(t, "fresh") /\ Unlock(t)
  /\ UNCHANGED <<closing, held, old, saved, req>>

\* Buffers and the frames listed under them are deleted.
Delete(B) ==
  /\ data_size' = [b \in Buffers |-> IF b \in B THEN 0 ELSE data_size[b]]
  /\ vfb' = VfbWithout({f \in registry : vfb[f] \in B})
  /\ registry' = {f \in registry : vfb[f] \notin B}

-----------------------------------------------------------------------------
(* GetNewFrame(), step by step, under memory_mutex.                        *)

\* NewVideoFrame, or the copy MakeWritable makes: the mutex is taken.
GetNewFrame(t, s) ==
  /\ pc[t] \in {"idle", "new"}
  /\ Lock(t)
  /\ req' = [req EXCEPT ![t] = s]
  /\ Go(t, IF closing THEN "alloc3" ELSE "search")
  /\ UNCHANGED <<frameVars, bufferVars, closing, held, obj, old, saved>>

Search(t) ==
  /\ pc[t] \in {"search", "search2"}
  /\ \/ \E f \in Frames : Reuse(t, f)
     \/ /\ ~\E b \in Buffers : Fits(b, req[t])
        /\ Go(t, IF pc[t] = "search" THEN "alloc" ELSE "alloc2")
        /\ UNCHANGED <<frameVars, bufferVars, memory_mutex, closing, held, obj,
                       old, saved, req>>

\* The first attempt stays within the limit; like the others it also fails
\* when new throws bad_alloc, which may happen at any time.
AllocateWithin(t) ==
  /\ pc[t] = "alloc"
  /\ \/ /\ MemoryUsed + req[t] < MemoryLimit
        /\ \E b \in Buffers, f \in Frames : Allocate(t, b, f)
     \/ /\ Go(t, "shrink")
        /\ UNCHANGED <<frameVars, bufferVars, memory_mutex, closing, held, obj,
                       old, saved, req>>

\* ShrinkCache, first half: a cache of smaller capacity drops a frame.
ShrinkCache(t, c, f) ==
  /\ pc[t] = "shrink" /\ f \in held[c]
  /\ held' = [held EXCEPT ![c] = @ \ {f}]
  /\ refcount' = [refcount EXCEPT ![f] = @ - 1]
  /\ saved' = [saved EXCEPT ![t] = IF refcount[f] = 1 THEN vfb[f] ELSE NoBuffer]
  /\ Go(t, IF refcount[f] = 1 THEN "release" ELSE "shrink")
  /\ UNCHANGED <<vfb, registry, bufferVars, memory_mutex, closing, obj, old, req>>

\* What a pass over the registry finds free.  Each count is read when its
\* turn comes, while releases go on without the mutex: a buffer may have been
\* passed before it was let go, but one that was met free stays free.
MetFree == SUBSET {b \in Buffers : Free(b)}

\* Second half, unless no cache had anything to give: free buffers that have
\* survived long enough are deleted.
ShrinkCollect(t) ==
  /\ pc[t] = "shrink"
  /\ \/ \E B \in MetFree :
          /\ Delete({b \in B : free_count[b] >= free_thresh})
          /\ free_count' = [b \in Buffers |-> IF b \in B THEN free_count[b] + 1
                                                         ELSE free_count[b]]
     \/ /\ \A c \in Caches : held[c] = {}
        /\ UNCHANGED <<vfb, registry, data_size, free_count>>
  /\ Go(t, "search2")
  /\ UNCHANGED <<refcount, vfbRefcount, memory_mutex, closing, held, obj, old,
                 saved, req>>

\* The other attempts only fail with bad_alloc; after the last, an error.
AllocateBeyond(t) ==
  /\ pc[t] \in {"alloc2", "alloc3"}
  /\ \/ \E b \in Buffers, f \in Frames : Allocate(t, b, f)
     \/ /\ \/ /\ pc[t] = "alloc2"
              /\ Go(t, "collect")
              /\ UNCHANGED <<memory_mutex, old, req>>
           \/ /\ pc[t] = "alloc3"
              /\ Go(t, "idle") /\ Unlock(t)
              /\ old' = [old EXCEPT ![t] = NoFrame]
              /\ req' = [req EXCEPT ![t] = 0]
        /\ UNCHANGED <<frameVars, bufferVars, closing, held, obj, saved>>

\* Faulty: buffers in use are deleted too.
CollectAllUsed(t) ==
  /\ pc[t] = "collect"
  /\ Delete({b \in Buffers : data_size[b] <= req[t]})
  /\ Go(t, "alloc3")
  /\ UNCHANGED <<refcount, vfbRefcount, free_count, memory_mutex, closing, held,
                 obj, old, saved, req>>

\* All buffers found free that are not larger than the request are deleted.
CollectAll(t) ==
  /\ pc[t] = "collect"
  /\ \E B \in MetFree : Delete({b \in B : data_size[b] <= req[t]})
  /\ Go(t, "alloc3")
  /\ UNCHANGED <<refcount, vfbRefcount, free_count, memory_mutex, closing, held,
                 obj, old, saved, req>>

\* PVideoFrame(res), after the mutex was given up.  MakeWritable then lets go
\* of the frame it copied.
Adopt(t) ==
  /\ pc[t] = "fresh"
  /\ refcount' = [refcount EXCEPT ![obj[t]] = @ + 1]
  /\ held' = [held EXCEPT ![t] = @ \cup {obj[t]}]
  /\ obj' = [obj EXCEPT ![t] = NoFrame]
  /\ req' = [req EXCEPT ![t] = 0]
  /\ Go(t, IF old[t] = NoFrame THEN "idle" ELSE "drop")
  /\ UNCHANGED <<vfb, registry, bufferVars, memory_mutex, closing, old, saved>>

-----------------------------------------------------------------------------
(* References.                                                             *)

\* A PVideoFrame is copied into a cache, or out of one.
Share(g, h, f) ==
  /\ f \in held[g] \ held[h]
  /\ g \in Threads => pc[g] = "idle"
  /\ h \in Threads => pc[h] = "idle"
  /\ {g, h} \cap Threads # {} /\ {g, h} \cap Caches # {}
  /\ refcount' = [refcount EXCEPT ![f] = @ + 1]
  /\ held' = [held EXCEPT ![h] = @ \cup {f}]
  /\ UNCHANGED <<vfb, registry, bufferVars, memory_mutex, closing, threadVars>>

\* Faulty: both counts at once, the buffer's first.
ReleaseTwice(t, h, f) ==
  /\ pc[t] = "idle" /\ f \in held[h] /\ h \in Caches \cup {t}
  /\ held' = [held EXCEPT ![h] = @ \ {f}]
  /\ refcount' = [refcount EXCEPT ![f] = @ - 1]
  /\ vfbRefcount' = [vfbRefcount EXCEPT ![vfb[f]] = @ - 1]
  /\ UNCHANGED <<vfb, registry, data_size, free_count, memory_mutex, closing, threadVars>>

\* Release() of a thread's own PVideoFrame, or of one it evicts from a cache.
Release(t, h, f) ==
  /\ pc[t] = "idle" /\ f \in held[h] /\ h \in Caches \cup {t}
  /\ held' = [held EXCEPT ![h] = @ \ {f}]
  /\ refcount' = [refcount EXCEPT ![f] = @ - 1]
  /\ saved' = [saved EXCEPT ![t] = IF refcount[f] = 1 THEN vfb[f] ELSE NoBuffer]
  /\ Go(t, IF refcount[f] = 1 THEN "release" ELSE "idle")
  /\ UNCHANGED <<vfb, registry, bufferVars, memory_mutex, closing, obj, old, req>>

\* *pvf = dst lets go of the frame it pointed to (MakePropertyWritable still
\* holds the mutex).
DropOld(t) ==
  LET f == old[t] IN
  /\ pc[t] = "drop"
  /\ held' = [held EXCEPT ![t] = @ \ {f}]
  /\ refcount' = [refcount EXCEPT ![f] = @ - 1]
  /\ saved' = [saved EXCEPT ![t] = IF refcount[f] = 1 THEN vfb[f] ELSE NoBuffer]
  /\ old' = [old EXCEPT ![t] = NoFrame]
  /\ Go(t, IF refcount[f] = 1 THEN "release" ELSE "idle")
  /\ memory_mutex' = IF memory_mutex = t /\ refcount[f] # 1 THEN NoThread
                                                           ELSE memory_mutex
  /\ UNCHANGED <<vfb, registry, bufferVars, closing, obj, req>>

\* The second half of Release(): the buffer the frame had.
ReleaseBuffer(t) ==
  /\ pc[t] = "release"
  /\ vfbRefcount' = [vfbRefcount EXCEPT ![saved[t]] = @ - 1]
  /\ saved' = [saved EXCEPT ![t] = NoBuffer]
  /\ Go(t, IF req[t] = 0 THEN "idle" ELSE "shrink")
  /\ memory_mutex' = IF memory_mutex = t /\ req[t] = 0 THEN NoThread ELSE memory_mutex
  /\ UNCHANGED <<frameVars, data_size, free_count, closing, held, obj, old, req>>

-----------------------------------------------------------------------------
(* Subframe(), MakePropertyWritable() and MakeWritable().                  *)

\* Faulty: the new frame does not count.
SubframeUncounted(t, f, replace) ==
  /\ pc[t] = "idle" /\ f \in held[t]
  /\ replace => refcount[f] # 1
  /\ \E g \in Frames :
       /\ vfb[g] = NoBuffer
       /\ vfb' = [vfb EXCEPT ![g] = vfb[f]]
       /\ refcount' = [refcount EXCEPT ![g] = 0]
       /\ obj' = [obj EXCEPT ![t] = g]
  /\ old' = [old EXCEPT ![t] = IF replace THEN f ELSE NoFrame]
  /\ Go(t, "sub")
  /\ UNCHANGED <<registry, bufferVars, memory_mutex, closing, held, saved, req>>

\* A new frame on f's buffer.  MakePropertyWritable makes one when f is
\* shared, in order to put it in f's place.
Subframe(t, f, replace) ==
  /\ pc[t] = "idle" /\ f \in held[t]
  /\ replace => refcount[f] # 1
  /\ \E g \in Frames :
       /\ vfb[g] = NoBuffer
       /\ vfb' = [vfb EXCEPT ![g] = vfb[f]]
       /\ refcount' = [refcount EXCEPT ![g] = 0]
       /\ vfbRefcount' = [vfbRefcount EXCEPT ![vfb[f]] = @ + 1]
       /\ obj' = [obj EXCEPT ![t] = g]
  /\ old' = [old EXCEPT ![t] = IF replace THEN f ELSE NoFrame]
  /\ Go(t, "sub")
  /\ UNCHANGED <<registry, data_size, free_count, memory_mutex, closing, held, saved, req>>

\* The frames RegisterSubFrameInRegistry deletes: those of the buffer that
\* nobody holds, unless the environment is closing.
StaleClosing(b) == {f \in Listed(b) : refcount[f] = 0}
Stale(b) == {f \in Listed(b) : refcount[f] = 0 /\ ~closing}

\* Faulty: the new frame is not listed.
RegisterSubFrameNot(t) ==
  LET g == obj[t] IN
  /\ pc[t] = "sub" /\ memory_mutex = NoThread
  /\ vfb' = VfbWithout(Stale(vfb[g]))
  /\ registry' = registry \ Stale(vfb[g])
  /\ refcount' = [refcount EXCEPT ![g] = @ + 1]
  /\ held' = [held EXCEPT ![t] = @ \cup {g}]
  /\ obj' = [obj EXCEPT ![t] = NoFrame]
  /\ Go(t, IF old[t] = NoFrame THEN "idle" ELSE "drop")
  /\ memory_mutex' = IF old[t] = NoFrame THEN NoThread ELSE t
  /\ UNCHANGED <<bufferVars, closing, old, saved, req>>

\* RegisterSubFrameInRegistry, and the PVideoFrame of the result, which is
\* made before the mutex is given up.
RegisterSubFrame(t) ==
  LET g == obj[t] IN
  /\ pc[t] = "sub" /\ memory_mutex = NoThread
  /\ vfb' = VfbWithout(Stale(vfb[g]))
  /\ registry' = (registry \ Stale(vfb[g])) \cup {g}
  /\ refcount' = [refcount EXCEPT ![g] = @ + 1]
  /\ held' = [held EXCEPT ![t] = @ \cup {g}]
  /\ obj' = [obj EXCEPT ![t] = NoFrame]
  /\ Go(t, IF old[t] = NoFrame THEN "idle" ELSE "drop")
  /\ memory_mutex' = IF old[t] = NoFrame THEN NoThread ELSE t
  /\ UNCHANGED <<bufferVars, closing, old, saved, req>>

\* MakeWritable asks IsWritable(), which reads the frame's count first ...
CheckFrame(t, f) ==
  /\ pc[t] = "idle" /\ f \in held[t]
  /\ \/ /\ refcount[f] = 1
        /\ Go(t, "check")
        /\ obj' = [obj EXCEPT ![t] = f]
        /\ UNCHANGED old
     \/ /\ refcount[f] # 1
        /\ Go(t, "new")
        /\ old' = [old EXCEPT ![t] = f]
        /\ UNCHANGED obj
  /\ UNCHANGED <<frameVars, bufferVars, memory_mutex, closing, held, saved, req>>

\* Faulty: the buffer's count is not looked at.
CheckBufferNot(t) ==
  /\ pc[t] = "check"
  /\ Go(t, "writing")
  /\ UNCHANGED <<frameVars, bufferVars, memory_mutex, closing, held, obj, old, saved, req>>

\* ... and then the buffer's.  A frame that is not writable is copied.
CheckBuffer(t) ==
  /\ pc[t] = "check"
  /\ \/ /\ vfbRefcount[vfb[obj[t]]] = 1
        /\ Go(t, "writing")
        /\ UNCHANGED <<obj, old>>
     \/ /\ vfbRefcount[vfb[obj[t]]] # 1
        /\ Go(t, "new")
        /\ old' = [old EXCEPT ![t] = obj[t]]
        /\ obj' = [obj EXCEPT ![t] = NoFrame]
  /\ UNCHANGED <<frameVars, bufferVars, memory_mutex, closing, held, saved, req>>

\* The filter has written what it wanted to.
Written(t) ==
  /\ pc[t] = "writing"
  /\ Go(t, "idle")
  /\ obj' = [obj EXCEPT ![t] = NoFrame]
  /\ UNCHANGED <<frameVars, bufferVars, memory_mutex, closing, held, old, saved, req>>

\* DrainFramePropertiesForShutdown: from here on the registry only grows.
Close ==
  /\ ~closing /\ memory_mutex = NoThread
  /\ closing' = TRUE
  /\ UNCHANGED <<frameVars, bufferVars, memory_mutex, held, threadVars>>

Step(t) ==
  \/ Search(t) \/ AllocateWithin(t) \/ AllocateBeyond(t) \/ CollectAll(t)
  \/ ShrinkCollect(t) \/ Adopt(t) \/ DropOld(t) \/ ReleaseBuffer(t)
  \/ RegisterSubFrame(t) \/ CheckBuffer(t) \/ Written(t)

Next ==
  \/ \E t \in Threads : Step(t)
  \/ \E t \in Threads, s \in Sizes : GetNewFrame(t, s)
  \/ \E t \in Threads, c \in Caches, f \in Frames : ShrinkCache(t, c, f)
  \/ \E g, h \in Holders, f \in Frames : Share(g, h, f)
  \/ \E t \in Threads, h \in Holders, f \in Frames : Release(t, h, f)
  \/ \E t \in Threads, f \in Frames : CheckFrame(t, f)
  \/ \E t \in Threads, f \in Frames, replace \in BOOLEAN : Subframe(t, f, replace)
  \/ Close

Spec == Init /\ [][Next]_vars

-----------------------------------------------------------------------------
(* Properties.                                                             *)

\* Frames a thread has made or been given and does not hold yet.
InHand == {t \in Threads : pc[t] \in {"fresh", "sub"}}

\* The threads and frames a buffer's count stands for: frames somebody holds,
\* frames in a thread's hands, and frames whose Release() is half done.
Live(b) == {f \in Frames : vfb[f] = b /\ refcount[f] > 0}
Users(b) == Live(b) \cup {t \in InHand : vfb[obj[t]] = b}
                    \cup {t \in Threads : pc[t] = "release" /\ saved[t] = b}

\* Both counts are exact in every state, however the two halves of Release(),
\* the search of the registry, Subframe() and PVideoFrame copies interleave.
\* (The asserts in GetFrameFromRegistry, GetNewFrame and ShrinkCache follow:
\* no frame of a free buffer is held.)
CountsExact ==
  /\ \A f \in Frames : vfb[f] # NoBuffer =>
       refcount[f] = Cardinality({h \in Holders : f \in held[h]})
  /\ \A b \in Buffers : data_size[b] # 0 => vfbRefcount[b] = Cardinality(Users(b))

\* No frame is deleted under a holder or a thread that is about to hold it,
\* and no buffer under a frame: what is held is there, on a buffer that is
\* there, and listed, so that it will be collected in the end.
NothingDangles ==
  /\ \A h \in Holders : \A f \in held[h] : f \in registry
  /\ \A t \in InHand : vfb[obj[t]] # NoBuffer /\ (pc[t] = "fresh" => obj[t] \in registry)
  /\ \A f \in Frames : vfb[f] # NoBuffer => data_size[vfb[f]] # 0
  /\ \A t \in Threads : pc[t] = "release" => saved[t] \in Buffers /\ data_size[saved[t]] # 0

\* A buffer that nobody uses is never lost: a frame is listed under it through
\* which it is found again.
NoBufferLost ==
  \A b \in Buffers : data_size[b] # 0 =>
    Listed(b) # {} /\ \A f \in registry : vfb[f] # NoBuffer

\* While a filter writes to a frame that IsWritable() said was its own, no
\* other thread or cache holds that frame or any other frame on its buffer.
WriterIsAlone ==
  \A t \in Threads : pc[t] = "writing" =>
    \A h \in Holders : \A f \in held[h] :
      vfb[f] = vfb[obj[t]] => h = t /\ f = obj[t]

\* DrainFramePropertiesForShutdown relies on it: once the environment is
\* closing, no registered frame or buffer goes away.
ClosingKeepsFrames ==
  [][closing => registry \subseteq registry' /\ \A f \in registry : vfb'[f] = vfb[f]]_vars
-----------------------------------------------------------------------------
(* Why they hold: the inductive invariant.                                 *)

\* memory_mutex is with the thread that is inside GetNewFrame or ShrinkCache,
\* and whoever has it is there or in the last steps of MakePropertyWritable.
MutexOwned ==
  /\ \A t \in Threads : pc[t] \in Allocating \/ (pc[t] = "release" /\ req[t] # 0)
                          => memory_mutex = t
  /\ memory_mutex # NoThread => pc[memory_mutex] \in Allocating \cup {"drop", "release"}

\* The environment closes while nobody is inside; later calls skip to the end.
ClosedToSearch ==
  closing => \A t \in Threads : /\ pc[t] \notin Allocating \ {"alloc3"}
                                /\ pc[t] = "release" => req[t] = 0

\* A size is asked for during GetNewFrame only, and it is not zero.
Requested ==
  \A t \in Threads :
    /\ pc[t] \in Allocating => req[t] # 0
    /\ pc[t] \in {"idle", "new", "sub", "drop", "check", "writing"} => req[t] = 0

\* The frame that is to be replaced is held until it is let go of.
OldHeld ==
  \A t \in Threads :
    /\ old[t] # NoFrame => old[t] \in held[t]
    /\ pc[t] = "drop" => old[t] # NoFrame
    /\ pc[t] \in {"idle", "check", "writing"} => old[t] = NoFrame
    /\ pc[t] = "release" /\ req[t] = 0 => old[t] = NoFrame

\* The registry lists the frames there are, except those Subframe() has made
\* and not registered yet.
ListedUnlessSub ==
  /\ \A f \in registry : vfb[f] # NoBuffer
  /\ \A f \in Frames : vfb[f] # NoBuffer /\ f \notin registry =>
       \E t \in Threads : pc[t] = "sub" /\ obj[t] = f

\* A frame in a thread's hands is in no other thread's, a new one's buffer is
\* used by nobody else, and a subframe is not listed.
InHandApart ==
  \A t \in InHand :
    /\ obj[t] \in Frames
    /\ \A u \in InHand : obj[t] = obj[u] => t = u
    /\ pc[t] = "sub" => obj[t] \notin registry
    /\ pc[t] = "fresh" => Users(vfb[obj[t]]) = {t}

\* What IsWritable() has found out stays so until the write is over.
CheckedStays ==
  \A t \in Threads :
    /\ pc[t] \in {"check", "writing"} =>
         obj[t] \in Frames /\ \A h \in Holders : obj[t] \in held[h] <=> h = t
    /\ pc[t] = "writing" => Users(vfb[obj[t]]) = {obj[t]}

IInv == /\ TypeOK /\ CountsExact /\ NothingDangles /\ NoBufferLost
        /\ MutexOwned /\ ClosedToSearch /\ Requested /\ OldHeld
        /\ ListedUnlessSub /\ InHandApart /\ CheckedStays
=============================================================================
