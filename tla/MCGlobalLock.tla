---------------------------- MODULE MCGlobalLock ----------------------------
(* Instance of GlobalLock for TLC.                                         *)
EXTENDS GlobalLock, TLC

CONSTANTS t1, t2, t3, a, b, d1, d2, d3

MCSymmetry == Permutations(Threads) \cup Permutations(Nodes)
=============================================================================
