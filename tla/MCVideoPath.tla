---------------------------- MODULE MCVideoPath ----------------------------
(* Small instance of VideoPath: the Surface that goes and the one that comes, *)
(* the stream that ends and the one that begins.                             *)
EXTENDS VideoPath

CONSTANTS s1, s2, p1, p2, null

MCSurfaces == {s1, s2}
MCStreams == {p1, p2}
=============================================================================
