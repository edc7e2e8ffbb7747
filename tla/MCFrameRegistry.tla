--------------------------- MODULE MCFrameRegistry ---------------------------
(* An instance of FrameRegistry for TLC.                                   *)
EXTENDS FrameRegistry

CONSTANTS t1, t2, c1, f1, f2, f3, f4, b1, b2

MCSymmetry == Permutations(Threads) \cup Permutations(Frames)
              \cup Permutations(Buffers)
=============================================================================
