-------------------------- MODULE StaleFirstQueue --------------------------
(***************************************************************************)
(* What CarlinkitAudioPlayer promises about the work it queues for its     *)
(* worker: it is done in the order it came in, and what is lost is stale:  *)
(* the oldest sound, or whatever is at the front when the queue is cleared.*)
(* Sound never outlives older sound, and a control never overtakes the     *)
(* sound it ends.                                                          *)
(***************************************************************************)
EXTENDS Naturals, Sequences

CONSTANTS
  Works,        \* what can be queued
  Sound         \* the works that are PCM chunks

VARIABLES
  pending,      \* queued, oldest first
  done          \* the works handed to the worker and not finished yet, at most one

vars == <<pending, done>>

Init == pending = <<>> /\ done = {}

Accept(w) == pending' = Append(pending, w) /\ UNCHANGED done

Serve ==
  /\ pending # <<>>
  /\ done = {}
  /\ done' = {Head(pending)}
  /\ pending' = Tail(pending)

Finish == done' = {} /\ UNCHANGED pending

LoseFront == pending # <<>> /\ pending' = Tail(pending) /\ UNCHANGED done

\* i is the position of the oldest sound
LoseOldestSound ==
  \E i \in 1..Len(pending) :
    /\ pending[i] \in Sound
    /\ \A j \in 1..(i - 1) : pending[j] \notin Sound
    /\ pending' = SubSeq(pending, 1, i - 1) \o SubSeq(pending, i + 1, Len(pending))
    /\ UNCHANGED done

Next == (\E w \in Works : Accept(w)) \/ Serve \/ Finish \/ LoseFront \/ LoseOldestSound

Spec == Init /\ [][Next]_vars
=============================================================================
