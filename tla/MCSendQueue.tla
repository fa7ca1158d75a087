---------------------------- MODULE MCSendQueue ----------------------------
(* Small instance of SendQueue: one thread that sends commands, one that   *)
(* sends microphone chunks, a queue of two slots.                          *)
EXTENDS SendQueue

CONSTANTS ui, mic, none

MCSenders == {ui, mic}
MCAudioSenders == {mic}
MCIds == 1..6
=============================================================================
