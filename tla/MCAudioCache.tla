---------------------------- MODULE MCAudioCache ----------------------------
(* An instance of AudioCache for TLC.                                      *)
EXTENDS AudioCache, TLC

CONSTANTS t1, t2

\* Requests before, in and after the clip, and across its ends; the largest
\* is larger than the largest buffer.
MCRequests == {<<-1, 2>>, <<0, 2>>, <<1, 2>>, <<2, 3>>, <<0, 4>>, <<4, 1>>}
MCHints == {<<"CACHE_AUDIO", 0>>, <<"CACHE_AUDIO", 3>>, <<"CACHE_AUDIO_NOTHING", 0>>,
            <<"CACHE_AUDIO_AUTO_START_OFF", 0>>}
MCScoreMin == -1
MCSymmetry == Permutations(Threads)
=============================================================================
