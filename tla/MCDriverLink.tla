---------------------------- MODULE MCDriverLink ----------------------------
(* Small instance of DriverLink: a queue message with payload and one      *)
(* without, two racing callers of stop().                                  *)
EXTENDS DriverLink

CONSTANTS s1, s2, command, bare, beat, focus, close

MCStoppers == {s1, s2}
MCQueueMessages == {command, bare}
MCBare == {bare, beat, close}
=============================================================================
