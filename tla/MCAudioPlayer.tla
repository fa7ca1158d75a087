--------------------------- MODULE MCAudioPlayer ---------------------------
(* Small instance of AudioPlayer: a queue of three slots that is trimmed   *)
(* to one when it holds two.                                               *)
EXTENDS AudioPlayer, TLC

CONSTANTS media, b1, b2, b3, b4, w1, w2, null

MCTypes == {media}
MCBuffers == {b1, b2, b3, b4}
MCFewBuffers == {b1, b2}
MCOneWorker == {w1}
MCWorkers == {w1, w2}

\* one array is like another, and so are two threads
Symmetric == Permutations(MCBuffers) \cup Permutations(MCWorkers)
=============================================================================
