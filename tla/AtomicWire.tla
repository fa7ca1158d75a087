----------------------------- MODULE AtomicWire -----------------------------
(***************************************************************************)
(* The OUT pipe of the dongle as the rest of the program may think of it:  *)
(* messages are written one at a time and whole, CLOSE_DONGLE is written   *)
(* right after RELEASE_VIDEO_FOCUS, and the interface is given up once.    *)
(* A write may fail and tear the stream; nothing repairs it then.          *)
(***************************************************************************)
CONSTANTS
  Messages,      \* what is written
  ReleaseFocus,  \* the first closing message
  Close,         \* the second closing message
  Nothing        \* nothing has been written

VARIABLES
  last,          \* the message written last
  torn,          \* some message went out in part
  attached       \* the interface is claimed

vars == <<last, torn, attached>>

Init == last = Nothing /\ torn = FALSE /\ attached = TRUE

Write(m) ==
  /\ m = Close => last = ReleaseFocus
  /\ last' = m
  /\ torn' \in {torn, TRUE}
  /\ UNCHANGED attached

Detach == attached /\ attached' = FALSE /\ UNCHANGED <<last, torn>>

Next == (\E m \in Messages : Write(m)) \/ Detach

Spec == Init /\ [][Next]_vars
=============================================================================
