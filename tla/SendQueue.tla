----------------------------- MODULE SendQueue -----------------------------
(***************************************************************************)
(* The send queue of CarlinkitDriver: any thread calls send(), which never *)
(* touches USB; one write thread drains the queue.  A full queue makes     *)
(* room by dropping its oldest audio chunk.  send() holds no lock: every   *)
(* operation on the ArrayBlockingQueue (offer, one step of the iteration,  *)
(* remove, poll) is atomic and every gap between two is a step here.       *)
(*                                                                         *)
(* A message is an object: remove(o) goes by identity, so it carries the   *)
(* identity of the object, recycled when no thread holds it any more.      *)
(***************************************************************************)
EXTENDS Naturals, Sequences, FiniteSets

CONSTANTS
  Senders,       \* threads that call send(): UI, Binder, microphone, connect loop
  AudioSenders,  \* those whose messages are AUDIO_DATA
  Ids,           \* object identities of Outgoing
  Capacity,      \* SEND_QUEUE_CAPACITY, 128 in the code
  InitLength,    \* messages of the init sequence, 12 in the code
  MaxDropped,    \* bound of the model on the sendDropped counter
  Nothing        \* no message

ASSUME CapacityAssumption == Capacity \in Nat \ {0}
ASSUME InitAssumption == InitLength \in Nat /\ InitLength <= Capacity
ASSUME SendersAssumption == IsFiniteSet(Senders) /\ AudioSenders \subseteq Senders
ASSUME BoundAssumption == MaxDropped \in Nat

Message == [id : Ids, audio : BOOLEAN]
ASSUME NothingAssumption == Nothing \notin Message

VARIABLES
  running,      \* the driver's flag: the write loop goes on
  stopped,      \* stop() has been called
  toInit,       \* init messages start() still has to send
  queue,        \* sendQueue
  pc,           \* where each sender is in send()
  msg,          \* the message each sender is sending
  cand,         \* the chunk dropOldestAudio() is about to remove
  writer,       \* where the write loop is
  taken,        \* the message the write loop polled last
  sendDropped,  \* the driver's counter
  lost          \* messages the queue really lost: removed from it or refused

vars == <<running, stopped, toInit, queue, pc, msg, cand, writer, taken, sendDropped,
          lost>>
lifecycle == <<running, stopped, toInit>>
drain == <<writer, taken>>
count == <<sendDropped, lost>>
call == <<pc, msg, cand>>

SenderPc == {"idle", "scan", "remove", "reoffer"}
WriterPc == {"off", "top", "poll", "write", "done"}

----------------------------------------------------------------------------
Elements(s) == {s[i] : i \in 1..Len(s)}

\* the objects some thread or the queue can still reach
Reachable == Elements(queue) \cup {taken}
             \cup {msg[s] : s \in Senders} \cup {cand[s] : s \in Senders}

FreeIds == {i \in Ids : \A m \in Reachable : m # Nothing => m.id # i}

NewMessage(audio) == [id |-> CHOOSE i \in FreeIds : TRUE, audio |-> audio]

\* fault: one slot too many
HasRoomFault == Len(queue) <= Capacity

HasRoom == Len(queue) < Capacity

\* fault: dropOldestAudio() forgets to look at the type
AudioAtFault == 1..Len(queue)

AudioAt == {i \in 1..Len(queue) : queue[i].audio}

Oldest(i) == \A j \in AudioAt : i <= j

Without(i) == SubSeq(queue, 1, i - 1) \o SubSeq(queue, i + 1, Len(queue))

----------------------------------------------------------------------------
Init ==
  /\ running = FALSE /\ stopped = FALSE /\ toInit = 0
  /\ queue = <<>>
  /\ pc = [s \in Senders |-> "idle"]
  /\ msg = [s \in Senders |-> Nothing]
  /\ cand = [s \in Senders |-> Nothing]
  /\ writer = "off" /\ taken = Nothing
  /\ sendDropped = 0 /\ lost = 0

\* start(): clears the queue, then starts the consumer before it sends anything
Start ==
  /\ ~running /\ ~stopped
  /\ running' = TRUE
  /\ toInit' = InitLength
  /\ queue' = <<>>
  /\ writer' = "top"
  /\ UNCHANGED <<stopped, call, taken, count>>

\* sendInitSequence(), inside the monitor of start(); the session hands the
\* driver out only after start() returned, so nobody else sends meanwhile
SendInit ==
  /\ toInit > 0
  /\ FreeIds # {}
  /\ HasRoom
  /\ queue' = Append(queue, NewMessage(FALSE))
  /\ toInit' = toInit - 1
  /\ UNCHANGED <<running, stopped, call, drain, count>>

\* stop() needs the monitor start() holds; the send side only sees its flags
Stop ==
  /\ ~stopped /\ toInit = 0
  /\ stopped' = TRUE
  /\ running' = FALSE
  /\ UNCHANGED <<toInit, queue, call, drain, count>>

----------------------------------------------------------------------------
(* send(), by any thread that holds the driver: also after stop(), when    *)
(* the queue no longer drains.                                             *)

\* send() returns: the caller keeps no reference to the message
Return(s) ==
  /\ pc' = [pc EXCEPT ![s] = "idle"]
  /\ msg' = [msg EXCEPT ![s] = Nothing]
  /\ cand' = [cand EXCEPT ![s] = Nothing]

\* the first offer
Send(s) ==
  /\ pc[s] = "idle"
  /\ toInit = 0 /\ (running \/ stopped)
  /\ FreeIds # {} /\ sendDropped < MaxDropped
  /\ LET m == NewMessage(s \in AudioSenders)
     IN  \/ HasRoom /\ queue' = Append(queue, m) /\ UNCHANGED call
         \/ /\ ~HasRoom
            /\ msg' = [msg EXCEPT ![s] = m]
            /\ pc' = [pc EXCEPT ![s] = "scan"]
            /\ UNCHANGED <<queue, cand>>
  /\ UNCHANGED <<lifecycle, drain, count>>

\* The iteration of dropOldestAudio() reaches its next audio chunk, or the end. An
\* iterator holds its next element before it gives out the current one: after a
\* failed remove() it may be at the end although audio was queued meanwhile; and
\* a chunk it holds is still the oldest one, or gone, when its remove() fails too.
Scan(s) ==
  /\ pc[s] = "scan"
  /\ \/ \E i \in AudioAt :
          /\ Oldest(i)
          /\ cand' = [cand EXCEPT ![s] = queue[i]]
          /\ pc' = [pc EXCEPT ![s] = "remove"]
          /\ UNCHANGED <<msg, count>>
     \/ /\ AudioAt = {} \/ cand[s] # Nothing
        /\ sendDropped' = sendDropped + 1
        /\ lost' = lost + 1
        /\ Return(s)
  /\ UNCHANGED <<lifecycle, queue, drain>>

\* sendQueue.remove(o): FALSE when the writer or another sender was faster
Remove(s) ==
  /\ pc[s] = "remove"
  /\ \/ \E i \in 1..Len(queue) :
          /\ queue[i] = cand[s]
          /\ queue' = Without(i)
          /\ lost' = lost + 1
          /\ pc' = [pc EXCEPT ![s] = "reoffer"]
     \/ /\ cand[s] \notin Elements(queue)
        /\ pc' = [pc EXCEPT ![s] = "scan"]
        /\ UNCHANGED <<queue, lost>>
  /\ UNCHANGED <<lifecycle, msg, cand, drain, sendDropped>>

\* fault: a drop that made room is not counted
ReofferFault(s) ==
  /\ pc[s] = "reoffer"
  /\ \/ HasRoom /\ queue' = Append(queue, msg[s]) /\ UNCHANGED count
     \/ ~HasRoom /\ lost' = lost + 1 /\ sendDropped' = sendDropped + 1 /\ UNCHANGED queue
  /\ Return(s)
  /\ UNCHANGED <<lifecycle, drain>>

\* the second offer: the slot may already be taken by another sender
Reoffer(s) ==
  /\ pc[s] = "reoffer"
  /\ sendDropped' = sendDropped + 1
  /\ \/ HasRoom /\ queue' = Append(queue, msg[s]) /\ UNCHANGED lost
     \/ ~HasRoom /\ lost' = lost + 1 /\ UNCHANGED queue
  /\ Return(s)
  /\ UNCHANGED <<lifecycle, drain>>

----------------------------------------------------------------------------
(* WriteLoop: looks at running only at the top of the loop, so a message   *)
(* polled before stop() is still written after it.                         *)

WriterTop ==
  /\ writer = "top"
  /\ writer' = IF running THEN "poll" ELSE "done"
  /\ UNCHANGED <<lifecycle, queue, call, taken, count>>

Poll ==
  /\ writer = "poll"
  /\ queue # <<>>
  /\ taken' = Head(queue)
  /\ queue' = Tail(queue)
  /\ writer' = "write"
  /\ UNCHANGED <<lifecycle, call, count>>

PollTimeout ==
  /\ writer = "poll"
  /\ queue = <<>>
  /\ writer' = "top"
  /\ UNCHANGED <<lifecycle, queue, call, taken, count>>

\* fault: an exception of bulkTransfer ends the write thread
WriteFault ==
  /\ writer = "write"
  /\ writer' \in {"top", "done"}
  /\ UNCHANGED <<lifecycle, queue, call, taken, count>>

\* sendNow(taken), whatever it returns or throws: nothing is retried
Write ==
  /\ writer = "write"
  /\ writer' = "top"
  /\ UNCHANGED <<lifecycle, queue, call, taken, count>>

WriteLoop == WriterTop \/ Poll \/ PollTimeout \/ Write

Next ==
  \/ Start \/ SendInit \/ Stop \/ WriteLoop
  \/ \E s \in Senders : Send(s) \/ Scan(s) \/ Remove(s) \/ Reoffer(s)

\* The write thread is scheduled and bulkTransfer returns (WRITE_TIMEOUT_MS);
\* no caller is obliged to send, to finish a send or to stop.
Spec == Init /\ [][Next]_vars /\ WF_vars(WriteLoop) /\ WF_vars(SendInit)

----------------------------------------------------------------------------
TypeOK ==
  /\ running \in BOOLEAN /\ stopped \in BOOLEAN
  /\ toInit \in 0..InitLength
  /\ queue \in Seq(Message) /\ Len(queue) <= Capacity
  /\ pc \in [Senders -> SenderPc]
  /\ msg \in [Senders -> Message \cup {Nothing}]
  /\ cand \in [Senders -> Message \cup {Nothing}]
  /\ writer \in WriterPc
  /\ taken \in Message \cup {Nothing}
  /\ sendDropped \in Nat /\ lost \in Nat

Channel == INSTANCE AudioLossyChannel WITH
             Messages <- Message,
             Audio <- {m \in Message : m.audio},
             pending <- queue,
             out <- taken

\* The queue is a FIFO that loses nothing but its oldest audio: whatever the
\* interleaving of offers, drops and polls, an accepted command or touch is
\* written once, in the order of acceptance (CarlinkitDriver.send, WriteLoop).
AudioLossyFifo == Channel!Spec

Between(n) == {s \in Senders : pc[s] = n}

\* sendDropped counts each send() that lost something, never twice: it is at
\* most the number of lost messages and at least half of it, beside the calls
\* that removed a chunk and have not counted it yet.
DropsAccounted ==
  LET uncounted == Cardinality(Between("reoffer"))
  IN  /\ sendDropped + uncounted <= lost
      /\ lost <= 2 * sendDropped + uncounted

\* An accepted command is handed to USB however many senders keep the queue
\* full, unless the driver is stopped (a command still queued then is not sent).
AcceptedGoesOut ==
  \A m \in Message :
    (m \in Elements(queue) /\ ~m.audio) ~> ((taken = m /\ writer = "write") \/ stopped)

\* While the driver runs the write thread is there: it leaves its loop only after
\* stop(), and stop() is final (WriteLoop, CarlinkitDriver.stop).
WriterServes == running => writer \in {"top", "poll", "write"}

\* The steps of the write thread before it has the i-th message in hand.
Due(i) ==
  3 * i + (CASE writer = "write" -> 2 [] writer = "top" -> 1 [] OTHER -> 0)

\* The i-th message is written, or keeps its place and gets nearer.
Advances(i) ==
  \/ taken' = queue[i] /\ writer' = "write"
  \/ \E j \in 1..i : /\ j <= Len(queue') /\ queue'[j] = queue[i]
                     /\ writer' # writer => Due(j)' < Due(i)

\* A queued command keeps its place until it is written: no step of a sender
\* sets it back, not even the removal of a chunk found before others queued and
\* polled, and each step of the write thread brings it nearer (send, WriteLoop).
CommandGetsNearer ==
  [][\A i \in 1..Len(queue) :
       running /\ running' /\ ~queue[i].audio => Advances(i)]_vars

\* A command is refused only when there is no audio left to drop for it: what
\* the comment in send() says, "a command or a touch matters more than a 20ms
\* chunk from the past".
Refused(s) ==
  pc[s] # "idle" /\ pc'[s] = "idle" /\ msg[s] \notin Elements(queue')

CommandOutranksAudio ==
  [][\A s \in Senders \ AudioSenders : Refused(s) => AudioAt = {}]_vars
=============================================================================
