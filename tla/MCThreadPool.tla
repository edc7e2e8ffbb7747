---------------------------- MODULE MCThreadPool ----------------------------
(* Instances of ThreadPool for TLC.                                        *)
EXTENDS ThreadPool

CONSTANTS w1, w2, c1, c2, f1, f2

MCSymmetry == Permutations(Workers) \cup Permutations(Clients)
              \cup Permutations(Finishers)
=============================================================================
