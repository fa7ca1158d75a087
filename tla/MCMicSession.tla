---------------------------- MODULE MCMicSession ----------------------------
(* Small instance of MicSession: two capture threads, two mono formats   *)
(* and a stereo one, two audio sources.                                    *)
EXTENDS MicSession

CONSTANTS c1, c2, call8k, voice16k, stereo

MCCaptures == {c1, c2}
MCFormats == {call8k, voice16k}
MCUnusable == {stereo}
=============================================================================
