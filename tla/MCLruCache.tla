----------------------------- MODULE MCLruCache -----------------------------
(* Instances of LruCache for TLC.                                          *)
EXTENDS LruCache

CONSTANTS t1, t2, t3, f1, f2, f3, e1, e2, e3

\* set_limits as the memory manager (close the cache, reopen it) and
\* CACHE_SET_MIN_CAPACITY use it.
MCShrink == {<<0, 0>>, <<0, 2>>}
MCClose == {<<0, 0>>, <<1, 1>>}
MCSymmetry == Permutations(Threads) \cup Permutations(Entries) \cup Permutations(Keys)
=============================================================================
