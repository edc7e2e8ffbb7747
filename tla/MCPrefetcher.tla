---------------------------- MODULE MCPrefetcher ----------------------------
(* An instance of Prefetcher for TLC.                                      *)
EXTENDS Prefetcher

CONSTANTS c1, c2, w1, w2

\* Forwards and backwards: the latter runs into negative frame numbers.
MCStrides == {1, -1}
MCFrames == (-nPrefetchFrames) .. num_frames - 1
=============================================================================
