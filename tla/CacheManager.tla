---------------------------- MODULE CacheManager ----------------------------
(***************************************************************************)
(* ScriptEnvironment::ManageCache: which frame cache may grow, and at      *)
(* whose expense.                                                          *)
(*                                                                         *)
(* The environment lists its caches, the least recently used first; the    *)
(* one that was made last is kept apart as FrontCache.  Everything here    *)
(* runs under memory_mutex.  Of a cache only the capacities and the number *)
(* of entries are kept; entries that are locked, which a cache cannot give *)
(* up at once, are LruCache's.  Whether memory is scarce depends on the    *)
(* buffers of FrameRegistry and is an input.                               *)
(***************************************************************************)
EXTENDS SimpleLruCache

CONSTANTS
  Caches,
  DeviceOf,      \* the device of each cache
  SizeMax,       \* bound, a number: stands for numeric_limits<size_t>::max()
  NoCache        \* the null pointer, and what there is when nothing was taken

VARIABLES
  FrontCache,
  CacheRegistry,  \* sequence of caches
  limits,         \* cache -> Min-, Max-, Requested- and RealCapacity
  size,           \* cache -> number of entries
  took            \* history: the cache the last expansion turned to, the
                  \* entries it had and the capacity it was left with

vars == <<FrontCache, CacheRegistry, limits, size, took>>

Registered == ToSet(CacheRegistry) \cup ({FrontCache} \ {NoCache})

TypeOK ==
  /\ FrontCache \in Caches \cup {NoCache}
  /\ CacheRegistry \in Seq(Caches) /\ IsInjective(CacheRegistry)
  /\ FrontCache \notin ToSet(CacheRegistry)
  /\ limits \in [Caches -> [min : Nat, max : Nat, requested : Nat, real : Nat]]
  /\ size \in [Caches -> Nat]

\* CachePimpl: a cache starts without capacity and without limits.
Fresh == Limits(0, SizeMax, 0)

Init ==
  /\ FrontCache = NoCache /\ CacheRegistry = <<>>
  /\ limits = [c \in Caches |-> Fresh] /\ size = [c \in Caches |-> 0]
  /\ took = NoCache

Smaller(m, n) == IF m < n THEN m ELSE n

\* resize() with a new MaxCapacity, towards the capacity that was asked for.
Capped(c, max) == Limits(limits[c].min, max, limits[c].requested)

\* The caches in `max', with `had' entries, get a new MaxCapacity and are
\* trimmed to it.
SetMaxCapacity(max, had) ==
  /\ limits' = [c \in Caches |-> IF c \in DOMAIN max THEN Capped(c, max[c]) ELSE limits[c]]
  /\ size' = [c \in Caches |-> IF c \in DOMAIN max THEN Smaller(had[c], limits'[c].real)
                                                   ELSE had[c]]

-----------------------------------------------------------------------------
RegisterCache(c) ==
  /\ c \notin Registered
  /\ CacheRegistry' = IF FrontCache # NoCache THEN Append(CacheRegistry, FrontCache)
                                              ELSE CacheRegistry
  /\ FrontCache' = c
  /\ limits' = [limits EXCEPT ![c] = Fresh] /\ size' = [size EXCEPT ![c] = 0]
  /\ took' = NoCache

UnRegisterCache(c) ==
  /\ c \in Registered
  /\ FrontCache' = IF c = FrontCache THEN NoCache ELSE FrontCache
  /\ CacheRegistry' = Without(CacheRegistry, {c})
  /\ limits' = [limits EXCEPT ![c] = Fresh] /\ size' = [size EXCEPT ![c] = 0]
  /\ took' = NoCache

\* A cache that was used is the last one to be taken from.
Nod(c) ==
  /\ CacheRegistry' = IF c = FrontCache THEN CacheRegistry
                                        ELSE Append(Without(CacheRegistry, {c}), c)
  /\ UNCHANGED FrontCache

NodCache(c) ==
  /\ c \in Registered /\ limits[c].requested <= limits[c].real
  /\ Nod(c)
  /\ took' = NoCache
  /\ UNCHANGED <<limits, size>>

\* The first cache of the list on c's device, if the size that is asked for,
\* c's own, is not zero.
Oldest(c) ==
  LET same == SelectSeq(CacheRegistry', LAMBDA o : DeviceOf[o] = DeviceOf[c])
  IN IF same # <<>> /\ size[c] # 0 THEN same[1] ELSE NoCache

\* A cache whose growth was limited gets one slot more.  When memory is
\* scarce the oldest cache is limited first, to one less than the size of c;
\* that may be c itself, which then loses an entry and grows all the same.
NodAndExpandCache(c, scarce) ==
  /\ c \in Registered /\ limits[c].requested > limits[c].real
  /\ Nod(c)
  /\ LET old == IF scarce THEN Oldest(c) ELSE NoCache
         cut == [o \in Caches |-> IF o = old THEN Smaller(size[o], Capped(o, size[c] - 1).real)
                                              ELSE size[o]]
     IN /\ SetMaxCapacity([o \in {c, old} \ {NoCache} |->
                             IF o = c THEN limits[c].real + 1 ELSE size[c] - 1], cut)
        /\ took' = IF old \in {NoCache, c} THEN NoCache
                   ELSE [had |-> size[old], left |-> limits'[old].real]

\* ShrinkCache: every listed cache on the device that has entries is limited
\* to one less than it has.
ShrinkCache(d) ==
  /\ SetMaxCapacity([c \in {o \in ToSet(CacheRegistry) :
                              DeviceOf[o] = d /\ size[o] # 0} |-> size[c] - 1], size)
  /\ took' = NoCache
  /\ UNCHANGED <<FrontCache, CacheRegistry>>

-----------------------------------------------------------------------------
(* What lookups do to a cache: see Miss in LruCache.                       *)

Store(c) ==
  /\ c \in Registered /\ limits[c].real # 0
  /\ size' = [size EXCEPT ![c] = Smaller(@, limits[c].real) + 1]
  /\ took' = NoCache
  /\ UNCHANGED <<FrontCache, CacheRegistry, limits>>

Grow(c) ==
  /\ c \in Registered /\ limits[c].real < SizeMax
  /\ limits' = [limits EXCEPT ![c] = Limits(@.min, @.max, @.real + 1)]
  /\ size' = [size EXCEPT ![c] = Smaller(@, limits'[c].real)]
  /\ took' = NoCache
  /\ UNCHANGED <<FrontCache, CacheRegistry>>

Next ==
  \/ \E c \in Caches : \/ RegisterCache(c) \/ UnRegisterCache(c) \/ NodCache(c)
                       \/ NodAndExpandCache(c, TRUE) \/ NodAndExpandCache(c, FALSE)
                       \/ Store(c) \/ Grow(c)
  \/ \E d \in {DeviceOf[c] : c \in Caches} : ShrinkCache(d)

Spec == Init /\ [][Next]_vars

-----------------------------------------------------------------------------
(* Properties.                                                             *)

\* The comment in MC_NodAndExpandCache, "take away a cache slot from a cache
\* instance that hasn't been used since long": a cache that an expansion under
\* scarce memory turns to, and that has entries, is left with room for fewer.
SlotIsTaken == took # NoCache /\ took.had > 0 => took.left < took.had
=============================================================================
