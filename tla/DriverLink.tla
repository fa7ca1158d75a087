----------------------------- MODULE DriverLink -----------------------------
(***************************************************************************)
(* The threads of CarlinkitDriver and the USB interface they share: the    *)
(* write thread, the heartbeat that bypasses the queue, the read and the   *)
(* connect thread, and the callers of stop().  A message is two transfers, *)
(* header and payload, and writeLock must keep them together.              *)
(*                                                                         *)
(* Time: a join() of stop() may expire on a thread that is still alive, at *)
(* any moment for a thread that writes or sleeps (one write can block for  *)
(* WRITE_TIMEOUT_MS twice and waits for the lock besides, the heartbeat    *)
(* sleeps 2000 ms and the connect thread 10000 ms, against the 1500 ms of  *)
(* the join).  The read thread looks at `running` after every transfer and *)
(* READ_TIMEOUT_MS is 500, so its join expires only inside a callback.     *)
(***************************************************************************)
EXTENDS Naturals

CONSTANTS
  Stoppers,      \* threads that call stop()
  QueueMessages, \* what the write thread takes from the queue
  Bare,          \* the messages without payload: DISCONNECT_PHONE, heartbeat, close
  Heartbeat, ReleaseFocus, Close,
  Nothing,       \* no message
  MaxFailures    \* HEARTBEAT_MAX_FAILURES

Messages == QueueMessages \cup {Heartbeat, ReleaseFocus, Close}
Workers == {"write", "beat", "read", "connect"}
Threads == Workers \cup Stoppers

ASSUME ThreadsAssumption == Stoppers \cap Workers = {}
ASSUME MessagesAssumption ==
  /\ ReleaseFocus # Close
  /\ {Heartbeat, ReleaseFocus, Close} \cap QueueMessages = {}
  /\ Heartbeat # ReleaseFocus /\ Heartbeat # Close
  /\ Bare \subseteq Messages /\ {Heartbeat, Close} \subseteq Bare
  /\ ReleaseFocus \notin Bare
  /\ Nothing \notin Messages
ASSUME FailuresAssumption == MaxFailures \in Nat \ {0}

\* the dongle got the bytes of one message inside another
Garbage == [of |-> Nothing]
NoThread == "nobody"
ASSUME NoThreadAssumption == NoThread \notin Threads
ASSUME GarbageAssumption == Garbage \notin Messages \cup {Nothing}

VARIABLES
  running,       \* the loops of all four threads go on
  stopped,       \* some thread entered stop()
  starting,      \* start() is between its first and its last thread
  pc,            \* where each thread is
  msg,           \* the message a thread passes to sendNow()
  lock,          \* owner of writeLock
  failures,      \* consecutiveFailures of the heartbeat
  due,           \* the dongle got this message's header and waits for its payload
  last,          \* the message written last, also when its transfer failed
  torn,          \* a transfer failed halfway
  attached,      \* the interface is claimed
  releases       \* calls of releaseInterface()

flags == <<running, stopped, starting>>
pipe == <<due, last, torn>>
iface == <<attached, releases>>
vars == <<flags, pc, msg, lock, failures, pipe, iface>>

Goto(t, l) == pc' = [pc EXCEPT ![t] = l]

\* a bulkTransfer of this thread is on the OUT pipe
Transferring(t) == pc[t] \in {"header", "payload"}

Alive(t) == pc[t] \notin {"off", "done"}

----------------------------------------------------------------------------
Init ==
  /\ running = FALSE /\ stopped = FALSE /\ starting = FALSE
  /\ pc = [t \in Threads |-> "off"]
  /\ msg = [t \in Threads |-> Nothing]
  /\ lock = NoThread
  /\ failures = 0
  /\ due = Nothing /\ last = Nothing /\ torn = FALSE
  /\ attached = TRUE /\ releases = 0

\* start(): refuses on running and on stopped, starts the write thread first
Start ==
  /\ ~running /\ ~stopped
  /\ running' = TRUE /\ starting' = TRUE
  /\ Goto("write", "top")
  /\ UNCHANGED <<stopped, msg, lock, failures, pipe, iface>>

\* the init sequence is queued: the other three threads, and start() returns
StartOthers ==
  /\ starting
  /\ starting' = FALSE
  /\ pc' = [pc EXCEPT !["read"] = "top", !["beat"] = "top", !["connect"] = "sleep"]
  /\ UNCHANGED <<running, stopped, msg, lock, failures, pipe, iface>>

----------------------------------------------------------------------------
(* sendNow(): the caller wants the lock, then transfers header and payload *)

\* fault: sendNow() is not synchronized
AcquireFault(t) ==
  /\ pc[t] = "want"
  /\ lock' = t
  /\ Goto(t, "header")
  /\ UNCHANGED <<flags, msg, failures, pipe, iface>>

Acquire(t) ==
  /\ pc[t] = "want" /\ lock = NoThread
  /\ lock' = t
  /\ Goto(t, "header")
  /\ UNCHANGED <<flags, msg, failures, pipe, iface>>

\* fault: an exception leaves the lock behind
UnlockFault(outcome) == lock' = IF outcome = "thrown" THEN lock ELSE NoThread

Unlock(outcome) == lock' = NoThread

\* fault: one failure too many is tolerated
GivesUpFault(n) == n > MaxFailures

\* the heartbeat reports the link dead, and its thread is gone
GivesUp(n) == n >= MaxFailures

\* What a thread does with the result of sendNow(): the write thread goes on
\* with its loop
WriterResult(outcome) ==
  /\ Goto("write", "top")
  /\ msg' = [msg EXCEPT !["write"] = Nothing]
  /\ Unlock(outcome)
  /\ UNCHANGED failures

\* the heartbeat counts the failures in a row
BeatResult(outcome) ==
  /\ failures' = IF outcome = "sent" THEN 0 ELSE failures + 1
  /\ Goto("beat", IF GivesUp(failures') THEN "done" ELSE "sleep")
  /\ msg' = [msg EXCEPT !["beat"] = Nothing]
  /\ Unlock(outcome)

\* stop() holds the lock from RELEASE_VIDEO_FOCUS to CLOSE_DONGLE, which it skips
\* only when the first one throws
StopperResult(s, outcome) ==
  IF msg[s] = ReleaseFocus /\ outcome # "thrown"
    THEN /\ msg' = [msg EXCEPT ![s] = Close]
         /\ Goto(s, "header")
         /\ UNCHANGED <<lock, failures>>
    ELSE /\ Goto(s, "joinRead")
         /\ msg' = [msg EXCEPT ![s] = Nothing]
         /\ Unlock(outcome)
         /\ UNCHANGED failures

Result(t, outcome) ==
  \/ t = "write" /\ WriterResult(outcome)
  \/ t = "beat" /\ BeatResult(outcome)
  \/ t \in Stoppers /\ StopperResult(t, outcome)

\* The dongle takes a whole header or a whole payload of m.  Only an undamaged
\* stream says what it makes of it.
Receive(expected, m, whole) ==
  IF torn \/ due = expected
    THEN /\ due' = IF whole THEN Nothing ELSE m
         /\ last' = IF whole THEN m ELSE last
    ELSE due' = Nothing /\ last' = Garbage

Header(t) ==
  /\ pc[t] = "header"
  /\ \/ /\ attached
        /\ Receive(Nothing, msg[t], msg[t] \in Bare)
        /\ IF msg[t] \in Bare
             THEN Result(t, "sent")
             ELSE Goto(t, "payload") /\ UNCHANGED <<msg, lock, failures>>
        /\ UNCHANGED torn
     \/ \E outcome \in {"short", "thrown"} :
          \* none of the bytes went out, or some did
          /\ torn' \in {torn, TRUE}
          /\ last' = msg[t]
          /\ Result(t, outcome)
          /\ UNCHANGED due
  /\ UNCHANGED <<flags, iface>>

Payload(t) ==
  /\ pc[t] = "payload"
  /\ \/ /\ attached
        /\ Receive(msg[t], msg[t], TRUE)
        /\ Result(t, "sent")
        /\ UNCHANGED torn
     \/ \E outcome \in {"short", "thrown"} :
          /\ torn' = TRUE
          /\ due' = Nothing /\ last' = msg[t]
          /\ Result(t, outcome)
  /\ UNCHANGED <<flags, iface>>

SendNow(t) == Acquire(t) \/ Header(t) \/ Payload(t)

----------------------------------------------------------------------------
(* The four loops *)

\* fault: the loop does not look at running
LoopFault(t, busy) ==
  /\ pc[t] = "top"
  /\ Goto(t, busy)
  /\ UNCHANGED <<flags, lock, failures, pipe, iface>>

Loop(t, busy) ==
  /\ pc[t] = "top"
  /\ Goto(t, IF running THEN busy ELSE "done")
  /\ UNCHANGED <<flags, lock, failures, pipe, iface>>

\* poll() waits 200 ms for a message
WriterTop == Loop("write", "poll") /\ UNCHANGED msg

Polled ==
  /\ pc["write"] = "poll"
  /\ \/ \E m \in QueueMessages :
          msg' = [msg EXCEPT !["write"] = m] /\ Goto("write", "want")
     \/ Goto("write", "top") /\ UNCHANGED msg
  /\ UNCHANGED <<flags, lock, failures, pipe, iface>>

BeatTop == Loop("beat", "want") /\ msg' = [msg EXCEPT !["beat"] = Heartbeat]

\* Thread.sleep(HEARTBEAT_INTERVAL_MS)
BeatSlept ==
  /\ pc["beat"] = "sleep"
  /\ Goto("beat", "top")
  /\ UNCHANGED <<flags, msg, lock, failures, pipe, iface>>

ReaderTop == Loop("read", "transfer") /\ UNCHANGED msg

\* An IN transfer ends: timeout or discarded header, a payload to go on with
\* while running, or a message to dispatch
ReaderRead ==
  /\ pc["read"] = "transfer"
  /\ \/ Goto("read", "top")
     \/ Goto("read", "dispatch")
     \/ running /\ UNCHANGED pc
  /\ UNCHANGED <<flags, msg, lock, failures, pipe, iface>>

\* the listener returns, or throws what dispatch() catches
ReaderDispatched ==
  /\ pc["read"] = "dispatch"
  /\ Goto("read", "top")
  /\ UNCHANGED <<flags, msg, lock, failures, pipe, iface>>

\* the connect thread sleeps 10 s at a time; its requests go to the queue
ConnectSlept ==
  /\ pc["connect"] = "sleep"
  /\ ~running
  /\ Goto("connect", "done")
  /\ UNCHANGED <<flags, msg, lock, failures, pipe, iface>>

----------------------------------------------------------------------------
(* stop() *)

\* fault: stop() is not idempotent
StopEnterFault(s) ==
  /\ pc[s] = "off" /\ ~starting
  /\ stopped' = TRUE /\ running' = FALSE
  /\ Goto(s, "joinWrite")
  /\ UNCHANGED <<starting, msg, lock, failures, pipe, iface>>

\* the synchronized block: it waits for start(), only the first caller goes on
StopEnter(s) ==
  /\ pc[s] = "off" /\ ~starting
  /\ stopped' = TRUE /\ running' = FALSE
  /\ Goto(s, IF stopped THEN "done" ELSE "joinWrite")
  /\ UNCHANGED <<starting, msg, lock, failures, pipe, iface>>

MayExpire(t) == t = "read" => pc[t] = "dispatch"

\* joinQuietly(t): t has ended or was never started, or 1500 ms are over
Join(s, here, t, next) ==
  /\ pc[s] = here
  /\ ~Alive(t) \/ MayExpire(t)
  /\ Goto(s, next)
  /\ UNCHANGED <<flags, lock, failures, pipe, iface>>

JoinWriter(s) ==
  Join(s, "joinWrite", "write", "want") /\ msg' = [msg EXCEPT ![s] = ReleaseFocus]

Joins(s) ==
  /\ \/ Join(s, "joinRead", "read", "joinBeat")
     \/ Join(s, "joinBeat", "beat", "joinConnect")
     \/ Join(s, "joinConnect", "connect", "wantRelease")
  /\ UNCHANGED msg

\* fault: the interface is released without the lock
ReleaseFault(s) ==
  /\ pc[s] = "wantRelease"
  /\ attached' = FALSE /\ releases' = releases + 1
  /\ Goto(s, "done")
  /\ UNCHANGED <<flags, msg, lock, failures, pipe>>

\* releaseInterface() under writeLock
Release(s) ==
  /\ pc[s] = "wantRelease" /\ lock = NoThread
  /\ attached' = FALSE /\ releases' = releases + 1
  /\ Goto(s, "done")
  /\ UNCHANGED <<flags, msg, lock, failures, pipe>>

Stop(s) == SendNow(s) \/ JoinWriter(s) \/ Joins(s) \/ Release(s)

Writer == WriterTop \/ Polled \/ SendNow("write")
Beat == BeatTop \/ BeatSlept \/ SendNow("beat")
Reader == ReaderTop \/ ReaderRead \/ ReaderDispatched

Next ==
  \/ Start \/ StartOthers
  \/ Writer \/ Beat \/ Reader \/ ConnectSlept
  \/ \E s \in Stoppers : StopEnter(s) \/ Stop(s)

\* Every started thread is scheduled, its transfers, sleeps and callbacks end,
\* and a monitor that is free infinitely often is not refused for ever (after
\* stop() each rival wants it at most once more).  Nobody has to call stop().
Fairness ==
  /\ WF_vars(StartOthers)
  /\ WF_vars(Writer) /\ WF_vars(Beat) /\ WF_vars(ConnectSlept)
  /\ WF_vars(ReaderTop) /\ WF_vars(ReaderDispatched)
  /\ WF_vars(pc["read"] = "transfer" /\ ReaderRead /\ pc'["read"] # "transfer")
  /\ \A s \in Stoppers : WF_vars(Stop(s))

Spec == Init /\ [][Next]_vars /\ Fairness

----------------------------------------------------------------------------
Pcs == {"off", "top", "poll", "want", "header", "payload", "sleep", "transfer",
        "dispatch", "joinWrite", "joinRead", "joinBeat", "joinConnect",
        "wantRelease", "done"}

TypeOK ==
  /\ running \in BOOLEAN /\ stopped \in BOOLEAN /\ starting \in BOOLEAN
  /\ pc \in [Threads -> Pcs]
  /\ msg \in [Threads -> Messages \cup {Nothing}]
  /\ lock \in Threads \cup {NoThread}
  /\ failures \in 0..MaxFailures
  /\ due \in Messages \cup {Nothing}
  /\ last \in Messages \cup {Nothing, Garbage}
  /\ torn \in BOOLEAN /\ attached \in BOOLEAN /\ releases \in Nat

\* Two transfers under writeLock are one atomic write: as long as no transfer
\* failed halfway the dongle never reads one message inside another, and
\* CLOSE_DONGLE always comes right behind RELEASE_VIDEO_FOCUS, whatever the
\* write thread, the heartbeat and stop() do at the same time (sendNow, stop).
Wire == INSTANCE AtomicWire
WritesAreAtomic == Wire!Spec

\* The interface is never released under a transfer: neither under one of a
\* writer that outlived its join() nor under one of the read thread (stop).
ReleaseIsExclusive ==
  [][attached' # attached =>
       (\A t \in Threads : ~Transferring(t)) /\ pc["read"] # "transfer"]_vars

\* "releasing the interface twice is not harmless": racing stop() calls
ReleasedAtMostOnce == releases <= 1

\* Whoever waits for writeLock waits for a thread that is in a transfer, which
\* ends: no result and no exception of sendNow() leaves the lock behind.
LockIsInUse == lock # NoThread => lock \in Threads /\ Transferring(lock)

\* The steps a thread of a stopped driver still has before it is over; a header
\* may have a payload and then another message behind it.
ToGo(t) ==
  CASE pc[t] = "done" -> 0
    [] pc[t] \in {"off", "top", "wantRelease"} -> 1
    [] pc[t] \in {"sleep", "dispatch", "joinConnect"} -> 2
    [] pc[t] \in {"transfer", "joinBeat"} -> 3
    [] pc[t] = "joinRead" -> 4
    [] pc[t] = "header" /\ msg[t] = Close -> 5
    [] pc[t] = "payload" -> 6
    [] pc[t] = "header" /\ msg[t] # Close -> 7
    [] pc[t] = "want" -> 8
    [] pc[t] \in {"poll", "joinWrite"} -> 9

\* Once stop() has begun no thread starts over: every step of a loop, of a late
\* heartbeat, of a read under way or of stop() itself brings its thread nearer to
\* its end, and no other thread's takes it away from there.
WindsDown ==
  [][stopped => \A t \in Threads :
       \/ pc'[t] = pc[t] /\ msg'[t] = msg[t]
       \/ ToGo(t)' < ToGo(t)]_vars

\* The interface of a stopped driver is released, or a thread is still in stop()
\* on its way to release it: no path through stop() leaves it claimed.
ReleaseIsComing ==
  stopped => releases = 1 \/ \E s \in Stoppers : pc[s] \notin {"off", "done"}

\* stop() comes to its end, with the interface released, however the transfers
\* and the joins turn out.
StopCompletes ==
  \A s \in Stoppers : pc[s] = "joinWrite" ~> (pc[s] = "done" /\ releases = 1)

\* No thread of the driver outlives a stopped driver for ever, the ones whose
\* join() expired included.
ThreadsEnd == stopped ~> (\A t \in Workers : ~Alive(t))
=============================================================================
