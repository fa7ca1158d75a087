----------------------------- MODULE MCOmxCodec -----------------------------
(* Small instance of OmxCodec: a codec that was orphaned and one that works, *)
(* and room for a buffer in each place one can be.                           *)
EXTENDS OmxCodec

CONSTANTS c1, c2, b1, b2, b3, none, null

MCCodecs == {c1, c2}
MCBuffers == {b1, b2, b3}
=============================================================================
