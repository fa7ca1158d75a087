------------------------- MODULE AudioLossyChannel -------------------------
(***************************************************************************)
(* What CarlinkitDriver.send() promises its callers about the messages it  *)
(* accepts: they reach the USB writer one by one in the order they were    *)
(* accepted, and the only message that may vanish on the way is the oldest *)
(* audio chunk.  Nothing is said about what send() refuses.                *)
(***************************************************************************)
EXTENDS Naturals, Sequences

CONSTANTS
  Messages,     \* what can be sent
  Audio,        \* the messages that are 20 ms microphone chunks
  Nothing       \* no message has been taken yet

VARIABLES
  pending,      \* accepted, not taken by the writer yet, oldest first
  out           \* the message the writer took last: it writes no other

vars == <<pending, out>>

Init == pending = <<>> /\ out = Nothing

Accept(m) == pending' = Append(pending, m) /\ UNCHANGED out

Emit ==
  /\ pending # <<>>
  /\ out' = Head(pending)
  /\ pending' = Tail(pending)

\* i is the position of the oldest audio chunk
DropOldestAudio ==
  \E i \in 1..Len(pending) :
    /\ pending[i] \in Audio
    /\ \A j \in 1..(i - 1) : pending[j] \notin Audio
    /\ pending' = SubSeq(pending, 1, i - 1) \o SubSeq(pending, i + 1, Len(pending))
    /\ UNCHANGED out

Next == (\E m \in Messages : Accept(m)) \/ Emit \/ DropOldestAudio

Spec == Init /\ [][Next]_vars
=============================================================================
