----------------------------- MODULE FrameFeed -----------------------------
(***************************************************************************)
(* What the native video path promises its caller: the frames put into an  *)
(* open feed are decoded in that order and once; closing the feed discards *)
(* what waits, nothing is decoded after it, and the next feed opens only   *)
(* when every frame of the last one has been given back.                   *)
(***************************************************************************)
EXTENDS Naturals, Sequences

CONSTANT Frames

VARIABLES
  open,       \* frames are taken
  waiting,    \* frames put and not decoded yet, oldest first
  decoding    \* frames in the hands of the decoder

vars == <<open, waiting, decoding>>

Init == open = FALSE /\ waiting = <<>> /\ decoding = {}

Open ==
  /\ ~open /\ waiting = <<>> /\ decoding = {}
  /\ open' = TRUE
  /\ UNCHANGED <<waiting, decoding>>

Put(f) ==
  /\ open
  /\ \A i \in 1..Len(waiting) : waiting[i] # f
  /\ f \notin decoding
  /\ waiting' = Append(waiting, f)
  /\ UNCHANGED <<open, decoding>>

Decode ==
  /\ open /\ waiting # <<>>
  /\ waiting' = Tail(waiting)
  /\ decoding' = decoding \cup {Head(waiting)}
  /\ UNCHANGED open

GiveBack == decoding' \subseteq decoding /\ UNCHANGED <<open, waiting>>

Close == open /\ open' = FALSE /\ waiting' = <<>> /\ UNCHANGED decoding

Next == Open \/ (\E f \in Frames : Put(f)) \/ Decode \/ GiveBack \/ Close

Spec == Init /\ [][Next]_vars
=============================================================================
