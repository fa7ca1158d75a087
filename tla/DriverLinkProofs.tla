-------------------------- MODULE DriverLinkProofs --------------------------
(***************************************************************************)
(* Proofs about DriverLink for any set of callers of stop(), any messages  *)
(* and any number of tolerated failures.                                   *)
(***************************************************************************)
EXTENDS DriverLink, TLAPS

\* Where each kind of thread can be
WriterPcs == {"off", "top", "poll", "want", "header", "payload", "done"}
BeatPcs == {"off", "top", "want", "header", "payload", "sleep", "done"}
ReaderPcs == {"off", "top", "transfer", "dispatch", "done"}
ConnectPcs == {"off", "sleep", "done"}
StopperPcs == {"off", "joinWrite", "want", "header", "payload", "joinRead", "joinBeat",
               "joinConnect", "wantRelease", "done"}
Stopping(s) == pc[s] \notin {"off", "done"}

PlaceInv ==
  /\ pc["write"] \in WriterPcs /\ pc["beat"] \in BeatPcs
  /\ pc["read"] \in ReaderPcs /\ pc["connect"] \in ConnectPcs
  /\ \A s \in Stoppers : pc[s] \in StopperPcs

\* writeLock is held during transfers and only then
LockInv == \A t \in Threads : Transferring(t) <=> lock = t

\* what each thread passes to sendNow()
MessageInv ==
  /\ \A t \in Threads : pc[t] \in {"want", "header", "payload"} => msg[t] \in Messages
  /\ \A t \in Threads : pc[t] = "payload" => msg[t] \notin Bare
  /\ pc["write"] \in {"want", "header", "payload"} => msg["write"] \in QueueMessages
  /\ pc["beat"] \in {"want", "header", "payload"} => msg["beat"] = Heartbeat
  /\ \A s \in Stoppers :
       /\ pc[s] \in {"want", "payload"} => msg[s] = ReleaseFocus
       /\ pc[s] = "header" => msg[s] \in {ReleaseFocus, Close}

\* the dongle waits for a payload exactly while its writer is about to send it
FramingInv ==
  /\ ~torn => /\ \A t \in Threads : pc[t] = "payload" => due = msg[t]
              /\ lock = NoThread => due = Nothing
              /\ \A t \in Threads : pc[t] = "header" => due = Nothing
  /\ last # Garbage

\* CLOSE_DONGLE is due right after RELEASE_VIDEO_FOCUS was written
ClosingInv ==
  \A s \in Stoppers : pc[s] = "header" /\ msg[s] = Close => last = ReleaseFocus

BeatInv == pc["beat"] # "done" => failures < MaxFailures

\* one caller at most is stopping, and the interface outlives it
StopInv ==
  /\ stopped => ~running /\ ~starting
  /\ ~stopped => releases = 0 /\ \A s \in Stoppers : pc[s] = "off"
  /\ \A r, s \in Stoppers : Stopping(r) /\ Stopping(s) => r = s
  /\ releases > 0 => \A s \in Stoppers : ~Stopping(s)
  /\ releases <= 1
  /\ attached <=> releases = 0

\* nothing runs before start(), and start() raises the write thread first
StartInv ==
  /\ ~running /\ ~stopped => \A t \in Threads : pc[t] = "off"
  /\ starting => /\ running /\ ~stopped
                 /\ \A t \in {"read", "beat", "connect"} : pc[t] = "off"

\* past the join of the read thread no IN transfer runs or begins
ReaderInv ==
  \A s \in Stoppers :
    pc[s] \in {"joinBeat", "joinConnect", "wantRelease"} => pc["read"] # "transfer"

IInv ==
  /\ TypeOK /\ PlaceInv /\ LockInv /\ MessageInv /\ FramingInv /\ ClosingInv
  /\ BeatInv /\ StartInv /\ StopInv /\ ReaderInv

USE ThreadsAssumption, MessagesAssumption, FailuresAssumption, NoThreadAssumption,
    GarbageAssumption

\* Before start() nothing is owned, sent or released.
LEMMA InitInv == Init => IInv
<1> SUFFICES ASSUME Init PROVE IInv
  OBVIOUS
<1>1. TypeOK
  <2>1. pc \in [Threads -> Pcs] /\ msg \in [Threads -> Messages \cup {Nothing}]
    BY DEF Init, Pcs
  <2>2. failures \in 0..MaxFailures /\ releases \in Nat
    BY DEF Init
  <2>3. /\ running \in BOOLEAN /\ stopped \in BOOLEAN /\ starting \in BOOLEAN
        /\ torn \in BOOLEAN /\ attached \in BOOLEAN
        /\ lock \in Threads \cup {NoThread}
        /\ due \in Messages \cup {Nothing}
        /\ last \in Messages \cup {Nothing, Garbage}
    BY Zenon DEF Init
  <2> QED
    BY <2>1, <2>2, <2>3 DEF TypeOK
<1>2. PlaceInv
  BY DEF Init, PlaceInv, Threads, Workers, WriterPcs, BeatPcs, ReaderPcs, ConnectPcs, StopperPcs
<1>3. LockInv
  BY DEF Init, LockInv, Transferring, StartInv, Threads, Workers
<1>4. MessageInv
  BY DEF Init, MessageInv, Threads, Workers
<1>5. FramingInv
  BY DEF Init, FramingInv, StartInv
<1>6. ClosingInv
  BY DEF Init, ClosingInv, MessageInv, Threads, Workers
<1>7. BeatInv
  BY DEF Init, BeatInv, StartInv, Threads, Workers
<1>8. StartInv
  BY DEF Init, StartInv, Threads, Workers
<1>9. StopInv
  BY DEF Init, StopInv, Stopping, Threads, Workers
<1>10. ReaderInv
  BY DEF Init, ReaderInv, StartInv, Threads, Workers
<1> QED
  BY <1>1, <1>2, <1>3, <1>4, <1>5, <1>6, <1>7, <1>8, <1>9, <1>10 DEF IInv

\* start() begins: the write thread is the only one.
LEMMA StartKeeps ==
  ASSUME IInv, Start
  PROVE  IInv'
<1> USE DEF IInv, Goto, flags, pipe, iface, Start
<1>1. TypeOK'
  BY DEF TypeOK, Pcs
<1>2. PlaceInv'
  BY DEF PlaceInv, TypeOK, Threads, Workers, WriterPcs, BeatPcs, ReaderPcs, ConnectPcs, StopperPcs
<1>3. LockInv'
  BY DEF LockInv, TypeOK, Transferring, StartInv, Threads, Workers
<1>4. MessageInv'
  BY DEF MessageInv, TypeOK, Threads, Workers
<1>5. FramingInv'
  BY DEF FramingInv, TypeOK, StartInv
<1>6. ClosingInv'
  BY DEF ClosingInv, TypeOK, MessageInv, Threads, Workers
<1>7. BeatInv'
  BY DEF BeatInv, TypeOK, StartInv, Threads, Workers
<1>8. StartInv'
  BY DEF StartInv, TypeOK, Threads, Workers
<1>9. StopInv'
  BY DEF StopInv, TypeOK, Stopping, Threads, Workers
<1>10. ReaderInv'
  BY DEF ReaderInv, TypeOK, StartInv, StopInv, Stopping, Threads, Workers
<1> QED
  BY <1>1, <1>2, <1>3, <1>4, <1>5, <1>6, <1>7, <1>8, <1>9, <1>10

\* start() returns: all four threads are there.
LEMMA StartOthersKeeps ==
  ASSUME IInv, StartOthers
  PROVE  IInv'
<1> USE DEF IInv, Goto, flags, pipe, iface, StartOthers
<1>1. TypeOK'
  BY DEF TypeOK, Pcs
<1>2. PlaceInv'
  BY DEF PlaceInv, TypeOK, Threads, Workers, WriterPcs, BeatPcs, ReaderPcs, ConnectPcs, StopperPcs
<1>3. LockInv'
  BY DEF LockInv, TypeOK, Transferring, StartInv, Threads, Workers
<1>4. MessageInv'
  BY DEF MessageInv, TypeOK, Threads, Workers
<1>5. FramingInv'
  BY DEF FramingInv, TypeOK, StartInv
<1>6. ClosingInv'
  BY DEF ClosingInv, TypeOK, MessageInv, Threads, Workers
<1>7. BeatInv'
  BY DEF BeatInv, TypeOK, StartInv, Threads, Workers
<1>8. StartInv'
  BY DEF StartInv, TypeOK, Threads, Workers
<1>9. StopInv'
  BY DEF StopInv, TypeOK, Stopping, Threads, Workers
<1>10. ReaderInv'
  BY DEF ReaderInv, TypeOK, StartInv, StopInv, Stopping, Threads, Workers
<1> QED
  BY <1>1, <1>2, <1>3, <1>4, <1>5, <1>6, <1>7, <1>8, <1>9, <1>10

\* A thread enters the synchronized block of sendNow().
LEMMA AcquireKeeps ==
  ASSUME IInv, NEW t \in Threads, Acquire(t)
  PROVE  IInv'
<1> USE DEF IInv, Goto, flags, pipe, iface, Acquire
<1>1. TypeOK'
  BY DEF TypeOK, Pcs
<1>2. PlaceInv'
  BY DEF PlaceInv, TypeOK, Threads, Workers, WriterPcs, BeatPcs, ReaderPcs, ConnectPcs, StopperPcs
<1>3. LockInv'
  BY DEF LockInv, TypeOK, Transferring, StartInv, Threads, Workers
<1>4. MessageInv'
  BY DEF MessageInv, TypeOK, Threads, Workers
<1>5. FramingInv'
  BY DEF FramingInv, TypeOK, StartInv
<1>6. ClosingInv'
  BY DEF ClosingInv, TypeOK, MessageInv, Threads, Workers
<1>7. BeatInv'
  BY DEF BeatInv, TypeOK, StartInv, Threads, Workers
<1>8. StartInv'
  BY DEF StartInv, TypeOK, Threads, Workers
<1>9. StopInv'
  BY DEF StopInv, TypeOK, Stopping, Threads, Workers
<1>10. ReaderInv'
  BY DEF ReaderInv, TypeOK, StartInv, StopInv, Stopping, Threads, Workers
<1> QED
  BY <1>1, <1>2, <1>3, <1>4, <1>5, <1>6, <1>7, <1>8, <1>9, <1>10

\* The write loop looks at running.
LEMMA WriterTopKeeps ==
  ASSUME IInv, WriterTop
  PROVE  IInv'
<1> USE DEF IInv, Goto, flags, pipe, iface, WriterTop, Loop
<1>1. TypeOK'
  BY DEF TypeOK, Pcs
<1>2. PlaceInv'
  BY DEF PlaceInv, TypeOK, Threads, Workers, WriterPcs, BeatPcs, ReaderPcs, ConnectPcs, StopperPcs
<1>3. LockInv'
  BY DEF LockInv, TypeOK, Transferring, StartInv, Threads, Workers
<1>4. MessageInv'
  BY DEF MessageInv, TypeOK, Threads, Workers
<1>5. FramingInv'
  BY DEF FramingInv, TypeOK, StartInv
<1>6. ClosingInv'
  BY DEF ClosingInv, TypeOK, MessageInv, Threads, Workers
<1>7. BeatInv'
  BY DEF BeatInv, TypeOK, StartInv, Threads, Workers
<1>8. StartInv'
  BY DEF StartInv, TypeOK, Threads, Workers
<1>9. StopInv'
  BY DEF StopInv, TypeOK, Stopping, Threads, Workers
<1>10. ReaderInv'
  BY DEF ReaderInv, TypeOK, StartInv, StopInv, Stopping, Threads, Workers
<1> QED
  BY <1>1, <1>2, <1>3, <1>4, <1>5, <1>6, <1>7, <1>8, <1>9, <1>10

\* The write loop has a message, or nothing for 200 ms.
LEMMA PolledKeeps ==
  ASSUME IInv, Polled
  PROVE  IInv'
<1> USE DEF IInv, Goto, flags, pipe, iface, Polled
<1>1. TypeOK'
  BY DEF TypeOK, Pcs, Messages
<1>2. PlaceInv'
  BY DEF PlaceInv, TypeOK, Threads, Workers, WriterPcs, BeatPcs, ReaderPcs, ConnectPcs, StopperPcs
<1>3. LockInv'
  BY DEF LockInv, TypeOK, Transferring, StartInv, Threads, Workers
<1>4. MessageInv'
  <2>1. \A t \in Threads \ {"write"} : msg'[t] = msg[t] /\ pc'[t] = pc[t]
    BY DEF TypeOK
  <2>2. \/ pc'["write"] = "top" /\ msg'["write"] = msg["write"]
        \/ pc'["write"] = "want" /\ msg'["write"] \in QueueMessages
    BY DEF TypeOK, Threads, Workers
  <2>3. /\ "beat" \in Threads \ {"write"}
        /\ \A s \in Stoppers : s \in Threads \ {"write"}
        /\ QueueMessages \subseteq Messages
    BY DEF Threads, Workers, Messages
  <2>4. pc["write"] = "poll" /\ MessageInv
    OBVIOUS
  <2> QED
    BY ONLY <2>1, <2>2, <2>3, <2>4 DEF MessageInv
<1>5. FramingInv'
  BY DEF FramingInv, TypeOK, StartInv
<1>6. ClosingInv'
  BY DEF ClosingInv, TypeOK, MessageInv, Threads, Workers
<1>7. BeatInv'
  BY DEF BeatInv, TypeOK, StartInv, Threads, Workers
<1>8. StartInv'
  BY DEF StartInv, TypeOK, Threads, Workers
<1>9. StopInv'
  BY DEF StopInv, TypeOK, Stopping, Threads, Workers
<1>10. ReaderInv'
  BY DEF ReaderInv, TypeOK, StartInv, StopInv, Stopping, Threads, Workers
<1> QED
  BY <1>1, <1>2, <1>3, <1>4, <1>5, <1>6, <1>7, <1>8, <1>9, <1>10

\* The heartbeat is due.
LEMMA BeatTopKeeps ==
  ASSUME IInv, BeatTop
  PROVE  IInv'
<1> USE DEF IInv, Goto, flags, pipe, iface, BeatTop, Loop
<1>1. TypeOK'
  BY DEF TypeOK, Pcs
<1>2. PlaceInv'
  BY DEF PlaceInv, TypeOK, Threads, Workers, WriterPcs, BeatPcs, ReaderPcs, ConnectPcs, StopperPcs
<1>3. LockInv'
  BY DEF LockInv, TypeOK, Transferring, StartInv, Threads, Workers
<1>4. MessageInv'
  BY DEF MessageInv, TypeOK, Threads, Workers
<1>5. FramingInv'
  BY DEF FramingInv, TypeOK, StartInv
<1>6. ClosingInv'
  BY DEF ClosingInv, TypeOK, MessageInv, Threads, Workers
<1>7. BeatInv'
  BY DEF BeatInv, TypeOK, StartInv, Threads, Workers
<1>8. StartInv'
  BY DEF StartInv, TypeOK, Threads, Workers
<1>9. StopInv'
  BY DEF StopInv, TypeOK, Stopping, Threads, Workers
<1>10. ReaderInv'
  BY DEF ReaderInv, TypeOK, StartInv, StopInv, Stopping, Threads, Workers
<1> QED
  BY <1>1, <1>2, <1>3, <1>4, <1>5, <1>6, <1>7, <1>8, <1>9, <1>10

\* The heartbeat has slept.
LEMMA BeatSleptKeeps ==
  ASSUME IInv, BeatSlept
  PROVE  IInv'
<1> USE DEF IInv, Goto, flags, pipe, iface, BeatSlept
<1>1. TypeOK'
  BY DEF TypeOK, Pcs
<1>2. PlaceInv'
  BY DEF PlaceInv, TypeOK, Threads, Workers, WriterPcs, BeatPcs, ReaderPcs, ConnectPcs, StopperPcs
<1>3. LockInv'
  BY DEF LockInv, TypeOK, Transferring, StartInv, Threads, Workers
<1>4. MessageInv'
  BY DEF MessageInv, TypeOK, Threads, Workers
<1>5. FramingInv'
  BY DEF FramingInv, TypeOK, StartInv
<1>6. ClosingInv'
  BY DEF ClosingInv, TypeOK, MessageInv, Threads, Workers
<1>7. BeatInv'
  BY DEF BeatInv, TypeOK, StartInv, Threads, Workers
<1>8. StartInv'
  BY DEF StartInv, TypeOK, Threads, Workers
<1>9. StopInv'
  BY DEF StopInv, TypeOK, Stopping, Threads, Workers
<1>10. ReaderInv'
  BY DEF ReaderInv, TypeOK, StartInv, StopInv, Stopping, Threads, Workers
<1> QED
  BY <1>1, <1>2, <1>3, <1>4, <1>5, <1>6, <1>7, <1>8, <1>9, <1>10

\* The read thread touches nothing of the write side.
LEMMA ReaderKeeps ==
  ASSUME IInv, Reader
  PROVE  IInv'
<1> USE DEF IInv, Goto, flags, pipe, iface, Reader, ReaderTop, ReaderRead, ReaderDispatched, Loop
<1>1. TypeOK'
  BY DEF TypeOK, Pcs
<1>2. PlaceInv'
  BY DEF PlaceInv, TypeOK, Threads, Workers, WriterPcs, BeatPcs, ReaderPcs, ConnectPcs, StopperPcs
<1>3. LockInv'
  BY DEF LockInv, TypeOK, Transferring, StartInv, Threads, Workers
<1>4. MessageInv'
  <2>1. /\ \A t \in Threads \ {"read"} : pc'[t] = pc[t]
        /\ pc'["read"] \notin {"want", "header", "payload"}
    BY DEF TypeOK, Threads, Workers
  <2>2. UNCHANGED msg /\ MessageInv
    OBVIOUS
  <2>3. {"write", "beat"} \cup Stoppers \subseteq Threads \ {"read"}
    BY DEF Threads, Workers
  <2> QED
    BY ONLY <2>1, <2>2, <2>3 DEF MessageInv
<1>5. FramingInv'
  BY DEF FramingInv, TypeOK, StartInv
<1>6. ClosingInv'
  BY DEF ClosingInv, TypeOK, MessageInv, Threads, Workers
<1>7. BeatInv'
  BY DEF BeatInv, TypeOK, StartInv, Threads, Workers
<1>8. StartInv'
  BY DEF StartInv, TypeOK, Threads, Workers
<1>9. StopInv'
  <2>1. \A s \in Stoppers : pc'[s] = pc[s]
    BY DEF TypeOK, Threads, Workers
  <2> QED
    BY <2>1 DEF StopInv, Stopping
<1>10. ReaderInv'
  BY DEF ReaderInv, TypeOK, StartInv, StopInv, Stopping, Threads, Workers
<1> QED
  BY <1>1, <1>2, <1>3, <1>4, <1>5, <1>6, <1>7, <1>8, <1>9, <1>10

\* The connect thread notices that the driver stopped.
LEMMA ConnectSleptKeeps ==
  ASSUME IInv, ConnectSlept
  PROVE  IInv'
<1> USE DEF IInv, Goto, flags, pipe, iface, ConnectSlept
<1>1. TypeOK'
  BY DEF TypeOK, Pcs
<1>2. PlaceInv'
  BY DEF PlaceInv, TypeOK, Threads, Workers, WriterPcs, BeatPcs, ReaderPcs, ConnectPcs, StopperPcs
<1>3. LockInv'
  BY DEF LockInv, TypeOK, Transferring, StartInv, Threads, Workers
<1>4. MessageInv'
  BY DEF MessageInv, TypeOK, Threads, Workers
<1>5. FramingInv'
  BY DEF FramingInv, TypeOK, StartInv
<1>6. ClosingInv'
  BY DEF ClosingInv, TypeOK, MessageInv, Threads, Workers
<1>7. BeatInv'
  BY DEF BeatInv, TypeOK, StartInv, Threads, Workers
<1>8. StartInv'
  BY DEF StartInv, TypeOK, Threads, Workers
<1>9. StopInv'
  BY DEF StopInv, TypeOK, Stopping, Threads, Workers
<1>10. ReaderInv'
  BY DEF ReaderInv, TypeOK, StartInv, StopInv, Stopping, Threads, Workers
<1> QED
  BY <1>1, <1>2, <1>3, <1>4, <1>5, <1>6, <1>7, <1>8, <1>9, <1>10

\* Only the first caller of stop() goes on.
LEMMA StopEnterKeeps ==
  ASSUME IInv, NEW s \in Stoppers, StopEnter(s)
  PROVE  IInv'
<1> USE DEF IInv, Goto, flags, pipe, iface, StopEnter
<1>1. TypeOK'
  BY DEF TypeOK, Pcs
<1>2. PlaceInv'
  BY DEF PlaceInv, TypeOK, Threads, Workers, WriterPcs, BeatPcs, ReaderPcs, ConnectPcs, StopperPcs
<1>3. LockInv'
  BY DEF LockInv, TypeOK, Transferring, StartInv, Threads, Workers
<1>4. MessageInv'
  BY DEF MessageInv, TypeOK, Threads, Workers
<1>5. FramingInv'
  BY DEF FramingInv, TypeOK, StartInv
<1>6. ClosingInv'
  BY DEF ClosingInv, TypeOK, MessageInv, Threads, Workers
<1>7. BeatInv'
  BY DEF BeatInv, TypeOK, StartInv, Threads, Workers
<1>8. StartInv'
  BY DEF StartInv, TypeOK, Threads, Workers
<1>9. StopInv'
  BY DEF StopInv, TypeOK, Stopping, Threads, Workers
<1>10. ReaderInv'
  BY DEF ReaderInv, TypeOK, StartInv, StopInv, Stopping, Threads, Workers
<1> QED
  BY <1>1, <1>2, <1>3, <1>4, <1>5, <1>6, <1>7, <1>8, <1>9, <1>10

\* stop() waited for the write thread, in vain or not.
LEMMA JoinWriterKeeps ==
  ASSUME IInv, NEW s \in Stoppers, JoinWriter(s)
  PROVE  IInv'
<1> USE DEF IInv, Goto, flags, pipe, iface, JoinWriter, Join
<1>1. TypeOK'
  <2>1. pc' \in [Threads -> Pcs]
    BY DEF TypeOK, Pcs
  <2>2. msg' \in [Threads -> Messages \cup {Nothing}]
    BY DEF TypeOK, Messages
  <2>3. UNCHANGED <<running, stopped, starting, lock, failures, due, last, torn, attached,
                    releases>>
    OBVIOUS
  <2>4. TypeOK
    OBVIOUS
  <2> QED
    BY ONLY <2>1, <2>2, <2>3, <2>4 DEF TypeOK
<1>2. PlaceInv'
  <2>1. (\A t \in Threads \ {s} : pc'[t] = pc[t]) /\ pc'[s] \in StopperPcs
    BY DEF TypeOK, Threads, StopperPcs
  <2>2. /\ Workers \subseteq Threads \ {s} /\ Stoppers \subseteq Threads
        /\ PlaceInv
    BY DEF Threads
  <2> QED
    BY ONLY <2>1, <2>2 DEF PlaceInv, Workers
<1>3. LockInv'
  BY DEF LockInv, TypeOK, Transferring, StartInv, Threads, Workers
<1>4. MessageInv'
  <2>1. \A t \in Threads \ {s} : pc'[t] = pc[t] /\ msg'[t] = msg[t]
    BY DEF TypeOK
  <2>2. /\ pc'[s] = "want" /\ msg'[s] = ReleaseFocus
        /\ ReleaseFocus \in Messages /\ MessageInv
    BY DEF TypeOK, Threads, Messages
  <2>3. {"write", "beat"} \subseteq Threads \ {s} /\ Stoppers \subseteq Threads
    BY DEF Threads, Workers
  <2> QED
    BY ONLY <2>1, <2>2, <2>3 DEF MessageInv
<1>5. FramingInv'
  BY DEF FramingInv, TypeOK, StartInv
<1>6. ClosingInv'
  BY DEF ClosingInv, TypeOK, MessageInv, Threads, Workers
<1>7. BeatInv'
  BY DEF BeatInv, TypeOK, StartInv, Threads, Workers
<1>8. StartInv'
  BY DEF StartInv, TypeOK, Threads, Workers
<1>9. StopInv'
  BY DEF StopInv, TypeOK, Stopping, Threads, Workers
<1>10. ReaderInv'
  BY DEF ReaderInv, TypeOK, StartInv, StopInv, Stopping, Threads, Workers
<1> QED
  BY <1>1, <1>2, <1>3, <1>4, <1>5, <1>6, <1>7, <1>8, <1>9, <1>10

\* stop() waited for the other threads: the read thread is through or in a callback.
LEMMA JoinsKeep ==
  ASSUME IInv, NEW s \in Stoppers, Joins(s)
  PROVE  IInv'
<1> USE DEF IInv, Goto, flags, pipe, iface, Joins, Join, MayExpire, Alive
<1>1. TypeOK'
  BY DEF TypeOK, Pcs
<1>2. PlaceInv'
  <2>1. (\A t \in Threads \ {s} : pc'[t] = pc[t]) /\ pc'[s] \in StopperPcs
    BY DEF TypeOK, Threads, StopperPcs
  <2>2. /\ Workers \subseteq Threads \ {s} /\ Stoppers \subseteq Threads
        /\ PlaceInv
    BY DEF Threads
  <2> QED
    BY ONLY <2>1, <2>2 DEF PlaceInv, Workers
<1>a. \A t \in Threads : /\ Transferring(t)' <=> Transferring(t)
                         /\ pc'[t] \in {"want", "header", "payload"} => pc'[t] = pc[t]
  BY DEF TypeOK, Transferring
<1>b. Stoppers \cup {"write", "beat"} \subseteq Threads
  BY DEF Threads, Workers
<1>c. UNCHANGED <<msg, lock, due, last, torn>>
  OBVIOUS
<1>3. LockInv'
  BY ONLY <1>a, <1>c, LockInv DEF LockInv
<1>4. MessageInv'
  BY ONLY <1>a, <1>b, <1>c, MessageInv DEF MessageInv
<1>5. FramingInv'
  BY ONLY <1>a, <1>c, FramingInv DEF FramingInv
<1>6. ClosingInv'
  BY ONLY <1>a, <1>b, <1>c, ClosingInv DEF ClosingInv
<1>7. BeatInv'
  BY DEF BeatInv, TypeOK, StartInv, Threads, Workers
<1>8. StartInv'
  BY DEF StartInv, TypeOK, Threads, Workers
<1>9. StopInv'
  <2>1. \A r \in Stoppers : Stopping(r)' <=> Stopping(r)
    BY DEF TypeOK, Stopping, Threads, Workers
  <2>2. stopped
    BY DEF StopInv
  <2>3. UNCHANGED <<running, stopped, starting, releases, attached>>
    OBVIOUS
  <2>4. StopInv
    OBVIOUS
  <2> QED
    BY ONLY <2>1, <2>2, <2>3, <2>4 DEF StopInv
<1>10. ReaderInv'
  <2>1. stopped /\ Stopping(s) /\ pc'["read"] = pc["read"]
    BY DEF TypeOK, StopInv, Stopping, Threads, Workers
  <2>2. \A r \in Stoppers \ {s} : pc'[r] = pc[r]
    BY DEF TypeOK, Threads
  <2>3. pc["read"] # "transfer"
    BY DEF ReaderInv, PlaceInv, ReaderPcs
  <2> QED
    BY ONLY <2>1, <2>2, <2>3 DEF ReaderInv
<1> QED
  BY <1>1, <1>2, <1>3, <1>4, <1>5, <1>6, <1>7, <1>8, <1>9, <1>10

\* stop() releases the interface under writeLock.
LEMMA ReleaseKeeps ==
  ASSUME IInv, NEW s \in Stoppers, Release(s)
  PROVE  IInv'
<1> USE DEF IInv, Goto, flags, pipe, iface, Release
<1>1. TypeOK'
  <2>1. releases' \in Nat
    BY DEF TypeOK
  <2>2. pc' \in [Threads -> Pcs]
    BY DEF TypeOK, Pcs
  <2> QED
    BY <2>1, <2>2, Zenon DEF TypeOK
<1>2. PlaceInv'
  BY DEF PlaceInv, TypeOK, Threads, Workers, WriterPcs, BeatPcs, ReaderPcs, ConnectPcs, StopperPcs
<1>3. LockInv'
  BY DEF LockInv, TypeOK, Transferring, StartInv, Threads, Workers
<1>4. MessageInv'
  BY DEF MessageInv, TypeOK, Threads, Workers
<1>5. FramingInv'
  BY DEF FramingInv, TypeOK, StartInv
<1>6. ClosingInv'
  BY DEF ClosingInv, TypeOK, MessageInv, Threads, Workers
<1>7. BeatInv'
  BY DEF BeatInv, TypeOK, StartInv, Threads, Workers
<1>8. StartInv'
  BY DEF StartInv, TypeOK, Threads, Workers
<1>9. StopInv'
  BY DEF StopInv, TypeOK, Stopping, Threads, Workers
<1>10. ReaderInv'
  BY DEF ReaderInv, TypeOK, StartInv, StopInv, Stopping, Threads, Workers
<1> QED
  BY <1>1, <1>2, <1>3, <1>4, <1>5, <1>6, <1>7, <1>8, <1>9, <1>10

\* sendNow() ends, whichever transfer was the last one
LEMMA ResultKeeps ==
  ASSUME IInv, NEW t \in Threads, Transferring(t),
         NEW outcome \in {"sent", "short", "thrown"}, Result(t, outcome),
         UNCHANGED <<flags, iface>>,
         torn' \in BOOLEAN, torn => torn',
         due' \in Messages \cup {Nothing}, ~torn' => due' = Nothing,
         last' = msg[t]
  PROVE  IInv'
<1> USE DEF IInv, flags, iface
<1>0. t \in {"write", "beat"} \cup Stoppers
  BY DEF Transferring, PlaceInv, ReaderPcs, ConnectPcs, Threads, Workers
<1>1. CASE t = "write"
  <2>0. /\ pc' = [pc EXCEPT !["write"] = "top"]
        /\ msg' = [msg EXCEPT !["write"] = Nothing]
        /\ lock' = NoThread /\ failures' = failures
    BY <1>1 DEF Result, WriterResult, BeatResult, StopperResult, Goto, Unlock, Workers
  <2>a. msg["write"] \in Messages
    BY <1>1 DEF MessageInv, Transferring
  <2>1. TypeOK'
    BY <1>1, <2>0, <2>a DEF TypeOK, Pcs, Messages
  <2>2. PlaceInv'
    BY <1>1, <2>0, <2>a DEF PlaceInv, TypeOK, Threads, Workers, WriterPcs, BeatPcs, ReaderPcs, ConnectPcs, StopperPcs
  <2>3. LockInv'
    BY <1>1, <2>0, <2>a DEF LockInv, TypeOK, Transferring, Threads, Workers
  <2>4. MessageInv'
    BY <1>1, <2>0, <2>a DEF MessageInv, TypeOK, PlaceInv, Threads, Workers, Messages
  <2>5. FramingInv'
    BY <1>1, <2>0, <2>a DEF FramingInv, TypeOK, LockInv, Transferring, MessageInv
  <2>6. ClosingInv'
    BY <1>1, <2>0, <2>a DEF ClosingInv, TypeOK, MessageInv, LockInv, Transferring, Threads, Workers
  <2>7. BeatInv'
    BY <1>1, <2>0, <2>a DEF BeatInv, TypeOK, PlaceInv, Threads, Workers
  <2>8. StartInv'
    BY <1>1, <2>0, <2>a DEF StartInv, TypeOK, Transferring, Threads, Workers
  <2>9. StopInv'
    BY <1>1, <2>0, <2>a DEF StopInv, TypeOK, Stopping, Threads, Workers
  <2>10. ReaderInv'
    BY <1>1, <2>0, <2>a DEF ReaderInv, TypeOK, Transferring, Threads, Workers
  <2> QED
    BY <2>1, <2>2, <2>3, <2>4, <2>5, <2>6, <2>7, <2>8, <2>9, <2>10
<1>2. CASE t = "beat"
  <2>0. /\ pc' = [pc EXCEPT !["beat"] = IF failures' >= MaxFailures THEN "done" ELSE "sleep"]
        /\ msg' = [msg EXCEPT !["beat"] = Nothing]
        /\ lock' = NoThread
        /\ failures' = IF outcome = "sent" THEN 0 ELSE failures + 1
    BY <1>2 DEF Result, WriterResult, BeatResult, StopperResult, Goto, Unlock, GivesUp, Workers
  <2>a. msg["beat"] \in Messages
    BY <1>2 DEF MessageInv, Transferring
  <2>b. failures' \in 0..MaxFailures
    BY <1>2, <2>0 DEF BeatInv, TypeOK, Transferring
  <2>1. TypeOK'
    BY <1>2, <2>0, <2>a, <2>b DEF TypeOK, Pcs, Messages
  <2>2. PlaceInv'
    BY <1>2, <2>0, <2>a, <2>b DEF PlaceInv, TypeOK, Threads, Workers, WriterPcs, BeatPcs, ReaderPcs, ConnectPcs, StopperPcs
  <2>3. LockInv'
    BY <1>2, <2>0, <2>a, <2>b DEF LockInv, TypeOK, Transferring, Threads, Workers
  <2>4. MessageInv'
    BY <1>2, <2>0, <2>a, <2>b DEF MessageInv, TypeOK, PlaceInv, Threads, Workers, Messages
  <2>5. FramingInv'
    BY <1>2, <2>0, <2>a, <2>b DEF FramingInv, TypeOK, LockInv, Transferring, MessageInv
  <2>6. ClosingInv'
    BY <1>2, <2>0, <2>a, <2>b DEF ClosingInv, TypeOK, MessageInv, LockInv, Transferring, Threads, Workers
  <2>7. BeatInv'
    BY <1>2, <2>0, <2>a, <2>b DEF BeatInv, TypeOK, PlaceInv, Threads, Workers
  <2>8. StartInv'
    BY <1>2, <2>0, <2>a, <2>b DEF StartInv, TypeOK, Transferring, Threads, Workers
  <2>9. StopInv'
    BY <1>2, <2>0, <2>a, <2>b DEF StopInv, TypeOK, Stopping, Threads, Workers
  <2>10. ReaderInv'
    BY <1>2, <2>0, <2>a, <2>b DEF ReaderInv, TypeOK, Transferring, Threads, Workers
  <2> QED
    BY <2>1, <2>2, <2>3, <2>4, <2>5, <2>6, <2>7, <2>8, <2>9, <2>10
<1>3. CASE t \in Stoppers /\ msg[t] = ReleaseFocus /\ outcome # "thrown"
  <2>0. /\ pc' = [pc EXCEPT ![t] = "header"]
        /\ msg' = [msg EXCEPT ![t] = Close]
        /\ lock' = lock /\ failures' = failures
    BY <1>3 DEF Result, WriterResult, BeatResult, StopperResult, Goto, Workers
  <2>a. msg[t] \in Messages
    BY <1>3 DEF Messages
  <2>1. TypeOK'
    BY <1>3, <2>0, <2>a DEF TypeOK, Pcs, Messages
  <2>2. PlaceInv'
    BY <1>3, <2>0, <2>a DEF PlaceInv, TypeOK, Threads, Workers, WriterPcs, BeatPcs, ReaderPcs, ConnectPcs, StopperPcs
  <2>3. LockInv'
    BY <1>3, <2>0, <2>a DEF LockInv, TypeOK, Transferring, Threads, Workers
  <2>4. MessageInv'
    BY <1>3, <2>0, <2>a DEF MessageInv, TypeOK, PlaceInv, Threads, Workers, Messages
  <2>5. FramingInv'
    BY <1>3, <2>0, <2>a DEF FramingInv, TypeOK, LockInv, Transferring, MessageInv
  <2>6. ClosingInv'
    BY <1>3, <2>0, <2>a DEF ClosingInv, TypeOK, MessageInv, LockInv, Transferring, Threads, Workers
  <2>7. BeatInv'
    BY <1>3, <2>0, <2>a DEF BeatInv, TypeOK, PlaceInv, Threads, Workers
  <2>8. StartInv'
    BY <1>3, <2>0, <2>a DEF StartInv, TypeOK, Transferring, Threads, Workers
  <2>9. StopInv'
    <3>1. \A r \in Stoppers : Stopping(r)' <=> Stopping(r)
      BY <1>3, <2>0 DEF TypeOK, Stopping, Transferring, Threads, Workers
    <3>2. stopped
      BY <1>3 DEF StopInv, Transferring
    <3>3. UNCHANGED <<running, stopped, starting, releases, attached>>
      OBVIOUS
    <3>4. StopInv
      OBVIOUS
    <3> QED
      BY ONLY <3>1, <3>2, <3>3, <3>4 DEF StopInv
  <2>10. ReaderInv'
    BY <1>3, <2>0, <2>a DEF ReaderInv, TypeOK, Transferring, Threads, Workers
  <2> QED
    BY <2>1, <2>2, <2>3, <2>4, <2>5, <2>6, <2>7, <2>8, <2>9, <2>10
<1>4. CASE t \in Stoppers /\ ~(msg[t] = ReleaseFocus /\ outcome # "thrown")
  <2>0. /\ pc' = [pc EXCEPT ![t] = "joinRead"]
        /\ msg' = [msg EXCEPT ![t] = Nothing]
        /\ lock' = NoThread /\ failures' = failures
    BY <1>4 DEF Result, WriterResult, BeatResult, StopperResult, Goto, Unlock, Workers
  <2>a. msg[t] \in Messages
    BY <1>4 DEF MessageInv, Transferring
  <2>1. TypeOK'
    BY <1>4, <2>0, <2>a DEF TypeOK, Pcs, Messages
  <2>2. PlaceInv'
    BY <1>4, <2>0, <2>a DEF PlaceInv, TypeOK, Threads, Workers, WriterPcs, BeatPcs, ReaderPcs, ConnectPcs, StopperPcs
  <2>3. LockInv'
    BY <1>4, <2>0, <2>a DEF LockInv, TypeOK, Transferring, Threads, Workers
  <2>4. MessageInv'
    BY <1>4, <2>0, <2>a DEF MessageInv, TypeOK, PlaceInv, Threads, Workers, Messages
  <2>5. FramingInv'
    BY <1>4, <2>0, <2>a DEF FramingInv, TypeOK, LockInv, Transferring, MessageInv
  <2>6. ClosingInv'
    BY <1>4, <2>0, <2>a DEF ClosingInv, TypeOK, MessageInv, LockInv, Transferring, Threads, Workers
  <2>7. BeatInv'
    BY <1>4, <2>0, <2>a DEF BeatInv, TypeOK, PlaceInv, Threads, Workers
  <2>8. StartInv'
    BY <1>4, <2>0, <2>a DEF StartInv, TypeOK, Transferring, Threads, Workers
  <2>9. StopInv'
    <3>1. \A r \in Stoppers : Stopping(r)' <=> Stopping(r)
      BY <1>4, <2>0 DEF TypeOK, Stopping, Transferring, Threads, Workers
    <3>2. stopped
      BY <1>4 DEF StopInv, Transferring
    <3>3. UNCHANGED <<running, stopped, starting, releases, attached>>
      OBVIOUS
    <3>4. StopInv
      OBVIOUS
    <3> QED
      BY ONLY <3>1, <3>2, <3>3, <3>4 DEF StopInv
  <2>10. ReaderInv'
    BY <1>4, <2>0, <2>a DEF ReaderInv, TypeOK, Transferring, Threads, Workers
  <2> QED
    BY <2>1, <2>2, <2>3, <2>4, <2>5, <2>6, <2>7, <2>8, <2>9, <2>10
<1> QED
  BY <1>0, <1>1, <1>2, <1>3, <1>4

\* the whole header of a message with a payload went out
LEMMA HeaderOutKeeps ==
  ASSUME IInv, NEW t \in Threads, pc[t] = "header", msg[t] \notin Bare,
         Receive(Nothing, msg[t], FALSE), Goto(t, "payload"),
         UNCHANGED <<flags, iface, msg, lock, failures, torn>>
  PROVE  IInv'
<1> USE DEF IInv, flags, iface, Goto
<1>a. msg[t] \in Messages
  BY DEF MessageInv
<1>b. /\ due' = msg[t]
      /\ last' = last
  BY DEF Receive, FramingInv
<1>c. t \in {"write", "beat"} \cup Stoppers
  BY DEF PlaceInv, ReaderPcs, ConnectPcs, Threads, Workers
<1>d. t = "beat" => msg[t] = Heartbeat
  BY DEF MessageInv
<1>e. t \in Stoppers => msg[t] = ReleaseFocus
  BY DEF MessageInv
<1>1. TypeOK'
  BY <1>a, <1>b, <1>c, <1>d, <1>e DEF TypeOK, Pcs
<1>2. PlaceInv'
  BY <1>a, <1>b, <1>c, <1>d, <1>e DEF PlaceInv, TypeOK, Threads, Workers, WriterPcs, BeatPcs, ReaderPcs, ConnectPcs, StopperPcs
<1>3. LockInv'
  BY <1>a, <1>b, <1>c, <1>d, <1>e DEF LockInv, TypeOK, Transferring, Threads, Workers
<1>4. MessageInv'
  BY <1>a, <1>b, <1>c, <1>d, <1>e DEF MessageInv, TypeOK, PlaceInv, Threads, Workers
<1>5. FramingInv'
  BY <1>a, <1>b, <1>c, <1>d, <1>e DEF FramingInv, TypeOK, LockInv, Transferring, MessageInv
<1>6. ClosingInv'
  BY <1>a, <1>b, <1>c, <1>d, <1>e DEF ClosingInv, TypeOK, MessageInv, LockInv, Transferring, Threads, Workers
<1>7. BeatInv'
  BY <1>a, <1>b, <1>c, <1>d, <1>e DEF BeatInv, TypeOK, PlaceInv, Threads, Workers
<1>8. StartInv'
  BY <1>a, <1>b, <1>c, <1>d, <1>e DEF StartInv, TypeOK, Threads, Workers
<1>9. StopInv'
  <2>1. \A r \in Stoppers : Stopping(r)' <=> Stopping(r)
    BY DEF TypeOK, Stopping, Threads, Workers
  <2>2. ~stopped => t \notin Stoppers
    BY DEF StopInv
  <2>3. UNCHANGED <<running, stopped, starting, releases, attached>>
    OBVIOUS
  <2>4. StopInv /\ pc' = [pc EXCEPT ![t] = "payload"]
    OBVIOUS
  <2>5. \A r \in Stoppers : r # t => pc'[r] = pc[r]
    BY DEF TypeOK, Threads
  <2> QED
    BY ONLY <2>1, <2>2, <2>3, <2>4, <2>5 DEF StopInv
<1>10. ReaderInv'
  BY <1>a, <1>b, <1>c, <1>d, <1>e DEF ReaderInv, TypeOK, Threads, Workers
<1> QED
  BY <1>1, <1>2, <1>3, <1>4, <1>5, <1>6, <1>7, <1>8, <1>9, <1>10

\* The first transfer of a message.
LEMMA HeaderKeeps ==
  ASSUME IInv, NEW t \in Threads, Header(t)
  PROVE  IInv'
<1>0. /\ pc[t] = "header" /\ Transferring(t)
      /\ UNCHANGED <<flags, iface>>
  BY DEF Header, Transferring
<1>1. CASE /\ Receive(Nothing, msg[t], FALSE) /\ msg[t] \notin Bare
           /\ Goto(t, "payload") /\ UNCHANGED <<msg, lock, failures, torn>>
  BY <1>0, <1>1, HeaderOutKeeps
<1>2. CASE /\ Receive(Nothing, msg[t], TRUE) /\ Result(t, "sent")
           /\ UNCHANGED torn
  <2>1. due' = Nothing /\ last' = msg[t]
    BY <1>0, <1>2 DEF Receive, IInv, FramingInv
  <2>2. torn' \in BOOLEAN /\ (torn => torn')
    BY <1>2 DEF IInv, TypeOK
  <2> QED
    BY <1>0, <1>2, <2>1, <2>2, ResultKeeps
<1>3. ASSUME NEW outcome \in {"short", "thrown"},
             torn' \in {torn, TRUE}, last' = msg[t], Result(t, outcome), due' = due
      PROVE  IInv'
  <2>0. torn \in BOOLEAN
    BY DEF IInv, TypeOK
  <2>1. torn' \in BOOLEAN /\ (torn => torn')
    <3>1. torn' = torn \/ torn' = TRUE
      BY <1>3
    <3>2. CASE torn' = torn
      BY <2>0, <3>2
    <3>3. CASE torn' = TRUE
      BY <3>3
    <3> QED
      BY ONLY <3>1, <3>2, <3>3
  <2>2. due' \in Messages \cup {Nothing}
    BY <1>3 DEF IInv, TypeOK
  <2>3. ~torn' => due' = Nothing
    BY <1>0, <1>3, <2>1 DEF IInv, FramingInv
  <2> QED
    BY <1>0, <1>3, <2>1, <2>2, <2>3, ResultKeeps
<1> QED
  BY <1>1, <1>2, <1>3 DEF Header, Receive

\* The second transfer of a message.
LEMMA PayloadKeeps ==
  ASSUME IInv, NEW t \in Threads, Payload(t)
  PROVE  IInv'
<1>0. /\ pc[t] = "payload" /\ Transferring(t)
      /\ UNCHANGED <<flags, iface>>
  BY DEF Payload, Transferring
<1>1. CASE Receive(msg[t], msg[t], TRUE) /\ Result(t, "sent") /\ UNCHANGED torn
  <2>1. due' = Nothing /\ last' = msg[t]
    BY <1>0, <1>1 DEF Receive, IInv, FramingInv
  <2>2. torn' \in BOOLEAN /\ (torn => torn')
    BY <1>1 DEF IInv, TypeOK
  <2> QED
    BY <1>0, <1>1, <2>1, <2>2, ResultKeeps
<1>2. ASSUME NEW outcome \in {"short", "thrown"},
             torn' = TRUE, due' = Nothing, last' = msg[t], Result(t, outcome)
      PROVE  IInv'
  BY <1>0, <1>2, ResultKeeps
<1> QED
  BY <1>1, <1>2 DEF Payload

\* A step of anything else changes none of it.
LEMMA StutterKeeps == IInv /\ UNCHANGED vars => IInv'
  BY DEF vars, flags, pipe, iface, IInv, TypeOK, PlaceInv, LockInv, MessageInv, FramingInv,
         ClosingInv, BeatInv, StartInv, StopInv, ReaderInv, Transferring, Stopping

\* Every step of the driver keeps the invariant.
LEMMA NextKeeps == IInv /\ [Next]_vars => IInv'
<1> SUFFICES ASSUME IInv, [Next]_vars PROVE IInv'
  OBVIOUS
<1>0. {"write", "beat"} \cup Stoppers \subseteq Threads
  BY DEF Threads, Workers
<1>1. CASE Start \/ StartOthers
  BY <1>1, StartKeeps, StartOthersKeeps
<1>2. ASSUME NEW t \in {"write", "beat"} \cup Stoppers, SendNow(t) PROVE IInv'
  BY <1>0, <1>2, AcquireKeeps, HeaderKeeps, PayloadKeeps DEF SendNow
<1>3. CASE Writer
  BY <1>2, <1>3, WriterTopKeeps, PolledKeeps DEF Writer
<1>4. CASE Beat
  BY <1>2, <1>4, BeatTopKeeps, BeatSleptKeeps DEF Beat
<1>5. CASE Reader \/ ConnectSlept
  BY <1>5, ReaderKeeps, ConnectSleptKeeps
<1>6. ASSUME NEW s \in Stoppers, StopEnter(s) \/ Stop(s) PROVE IInv'
  BY <1>2, <1>6, StopEnterKeeps, JoinWriterKeeps, JoinsKeep, ReleaseKeeps DEF Stop
<1>7. CASE UNCHANGED vars
  BY <1>7, StutterKeeps
<1> QED
  BY <1>1, <1>3, <1>4, <1>5, <1>6, <1>7 DEF Next

\* Where each thread of the driver is, who owns writeLock, which message the dongle
\* waits for and how far stop() is always fit together: the invariant the theorems
\* below rest on.
THEOREM Inductive == Spec => []IInv
  BY InitInv, NextKeeps, PTL DEF Spec

\* Every variable of the driver's write side keeps its type: the heartbeat
\* never counts past HEARTBEAT_MAX_FAILURES and the dongle never gets garbage.
THEOREM TypeCorrect == Spec => []TypeOK
<1>1. IInv => TypeOK
  BY DEF IInv
<1> QED
  BY <1>1, Inductive, PTL

\* stop() releases the interface at most once, for any number of callers.
THEOREM OneRelease == Spec => []ReleasedAtMostOnce
<1>1. IInv => ReleasedAtMostOnce
  BY DEF IInv, StopInv, ReleasedAtMostOnce
<1> QED
  BY <1>1, Inductive, PTL

\* releaseInterface() waits for writeLock and for the read thread: no transfer
\* of any thread is on the interface when it goes.
THEOREM ReleaseExclusive == Spec => ReleaseIsExclusive
<1>1. IInv /\ [Next]_vars =>
        [attached' # attached =>
           (\A t \in Threads : ~Transferring(t)) /\ pc["read"] # "transfer"]_vars
  <2> SUFFICES ASSUME IInv, Next, attached' # attached
               PROVE  (\A t \in Threads : ~Transferring(t)) /\ pc["read"] # "transfer"
    OBVIOUS
  <2>1. PICK s \in Stoppers : Release(s)
    <3>1. \A t : ~SendNow(t)
      BY DEF SendNow, Acquire, Header, Payload, iface
    <3>2. \A s : ~StopEnter(s) /\ ~JoinWriter(s) /\ ~Joins(s)
      BY DEF StopEnter, JoinWriter, Joins, Join, iface
    <3>3. ~Start /\ ~StartOthers /\ ~WriterTop /\ ~Polled /\ ~BeatTop /\ ~BeatSlept
      BY DEF Start, StartOthers, WriterTop, Polled, BeatTop, BeatSlept, Loop, iface
    <3>4. ~Reader /\ ~ConnectSlept
      BY DEF Reader, ReaderTop, ReaderRead, ReaderDispatched, ConnectSlept, Loop, iface
    <3> QED
      BY <3>1, <3>2, <3>3, <3>4 DEF Next, Writer, Beat, Stop
  <2>2. lock = NoThread /\ pc[s] = "wantRelease"
    BY <2>1 DEF Release
  <2>3. \A t \in Threads : ~Transferring(t)
    BY <2>2 DEF IInv, LockInv
  <2>4. pc["read"] # "transfer"
    BY <2>2 DEF IInv, ReaderInv
  <2> QED
    BY <2>3, <2>4
<1> QED
  BY <1>1, Inductive, PTL DEF Spec, ReleaseIsExclusive

\* A sender is about to write CLOSE_DONGLE only behind RELEASE_VIDEO_FOCUS
LEMMA ClosingOrder ==
  ASSUME IInv, NEW t \in {"write", "beat"} \cup Stoppers, Transferring(t)
  PROVE  msg[t] \in Messages /\ (msg[t] = Close => last = ReleaseFocus)
<1>1. t \in Threads /\ msg[t] \in Messages
  BY DEF IInv, MessageInv, Transferring, Threads, Workers
<1>2. CASE t = "write"
  BY <1>1, <1>2 DEF IInv, MessageInv, Transferring
<1>3. CASE t = "beat"
  BY <1>1, <1>3 DEF IInv, MessageInv, Transferring
<1>4. CASE t \in Stoppers
  BY <1>1, <1>4 DEF IInv, MessageInv, ClosingInv, Transferring
<1> QED
  BY <1>1, <1>2, <1>3, <1>4

\* A transfer is a step of AtomicWire, or none it can see.
LEMMA SendNowIsWrite ==
  ASSUME IInv, NEW t \in {"write", "beat"} \cup Stoppers, SendNow(t)
  PROVE  Wire!Write(msg[t]) \/ UNCHANGED Wire!vars
<1> USE DEF pipe, iface, Wire!vars
<1>0. t \in Threads
  BY DEF Threads, Workers
<1>1. CASE Acquire(t)
  BY <1>1 DEF Acquire
<1>2. CASE Header(t)
  <2>1. Transferring(t) /\ pc[t] = "header" /\ UNCHANGED attached
    BY <1>2 DEF Header, Transferring
  <2>2. msg[t] = Close => last = ReleaseFocus
    BY <2>1, ClosingOrder
  <2>3. torn \/ due = Nothing
    BY <1>0, <2>1 DEF IInv, FramingInv
  <2>4. CASE Receive(Nothing, msg[t], msg[t] \in Bare) /\ UNCHANGED torn
    BY <2>1, <2>2, <2>3, <2>4 DEF Receive, Wire!Write
  <2>5. CASE torn' \in {torn, TRUE} /\ last' = msg[t]
    BY <2>1, <2>2, <2>5 DEF Wire!Write
  <2> QED
    BY <1>2, <2>4, <2>5 DEF Header
<1>3. CASE Payload(t)
  <2>1. Transferring(t) /\ pc[t] = "payload" /\ UNCHANGED attached
    BY <1>3 DEF Payload, Transferring
  <2>2. msg[t] = Close => last = ReleaseFocus
    BY <2>1, ClosingOrder
  <2>3. torn \/ due = msg[t]
    BY <1>0, <2>1 DEF IInv, FramingInv
  <2>4. torn' \in {torn, TRUE} /\ last' = msg[t]
    BY <1>3, <2>3 DEF Payload, Receive
  <2> QED
    BY <2>1, <2>2, <2>4 DEF Wire!Write
<1> QED
  BY <1>1, <1>2, <1>3 DEF SendNow

\* releaseInterface() is the one step that detaches.
LEMMA ReleaseIsDetach ==
  ASSUME IInv, NEW s \in Stoppers, Release(s)
  PROVE  Wire!Detach
<1>1. releases = 0
  BY DEF IInv, StopInv, Stopping, Release, TypeOK
<1>2. attached
  BY <1>1 DEF IInv, StopInv
<1> QED
  BY <1>2 DEF Release, Wire!Detach, pipe

\* The header and the payload of sendNow(), each a transfer of its own, are one
\* write of AtomicWire: whichever threads send, the dongle gets whole messages,
\* CLOSE_DONGLE right behind RELEASE_VIDEO_FOCUS, and loses the link once.
THEOREM AtomicWrites == Spec => WritesAreAtomic
<1>1. Init => Wire!Init
  BY DEF Init, Wire!Init
<1>2. IInv /\ [Next]_vars => [Wire!Next]_Wire!vars
  <2> SUFFICES ASSUME IInv, [Next]_vars PROVE Wire!Next \/ UNCHANGED Wire!vars
    OBVIOUS
  <2>1. ASSUME NEW t \in {"write", "beat"} \cup Stoppers, SendNow(t)
        PROVE  Wire!Next \/ UNCHANGED Wire!vars
    <3>1. CASE UNCHANGED Wire!vars
      BY <3>1
    <3>2. CASE Wire!Write(msg[t])
      <4>1. SendNow(t) /\ ~Acquire(t) => Transferring(t)
        BY DEF SendNow, Header, Payload, Transferring
      <4>2. Acquire(t) => UNCHANGED Wire!vars
        BY DEF Acquire, pipe, iface, Wire!vars
      <4> QED
        BY <2>1, <3>2, <4>1, <4>2, ClosingOrder DEF Wire!Next
    <3> QED
      BY <2>1, <3>1, <3>2, SendNowIsWrite
  <2>2. CASE UNCHANGED <<pipe, iface>>
    BY <2>2 DEF pipe, iface, Wire!vars
  <2>3. ASSUME NEW s \in Stoppers, Release(s) PROVE Wire!Next
    BY <2>3, ReleaseIsDetach DEF Wire!Next
  <2>4. Start \/ StartOthers \/ WriterTop \/ Polled \/ BeatTop \/ BeatSlept
        \/ ConnectSlept => UNCHANGED <<pipe, iface>>
    BY DEF Start, StartOthers, WriterTop, Polled, BeatTop, BeatSlept, ConnectSlept, Loop
  <2>5. Reader => UNCHANGED <<pipe, iface>>
    BY DEF Reader, ReaderTop, ReaderRead, ReaderDispatched, Loop
  <2>6. ASSUME NEW s \in Stoppers PROVE StopEnter(s) \/ JoinWriter(s) \/ Joins(s)
                                          => UNCHANGED <<pipe, iface>>
    BY DEF StopEnter, JoinWriter, Joins, Join
  <2>7. UNCHANGED vars => UNCHANGED <<pipe, iface>>
    BY DEF vars
  <2> QED
    BY <2>1, <2>2, <2>3, <2>4, <2>5, <2>6, <2>7 DEF Next, Writer, Beat, Stop
<1> QED
  BY <1>1, <1>2, Inductive, PTL DEF Spec, WritesAreAtomic, Wire!Spec

----------------------------------------------------------------------------
\* writeLock is only held in a transfer, through every result and every exception of
\* sendNow(): whoever waits for it waits for something that ends.
THEOREM LockInUse == Spec => []LockIsInUse
<1>1. IInv => LockIsInUse
  BY DEF IInv, TypeOK, LockInv, LockIsInUse
<1> QED
  BY <1>1, Inductive, PTL

\* A thread alone moves, and towards its end.
Nears(t) ==
  /\ ToGo(t)' < ToGo(t)
  /\ \A u \in Threads \ {t} : pc'[u] = pc[u] /\ msg'[u] = msg[u]

\* What is ahead of a thread is a number, so it is used up.
LEMMA ToGoIsNatural ==
  ASSUME IInv, NEW t \in Threads
  PROVE  ToGo(t) \in Nat
<1>1. pc[t] \in Pcs
  BY DEF IInv, TypeOK
<1> QED
  BY <1>1 DEF Pcs, ToGo

\* A transfer ended and its message with it: the write thread and the heartbeat are
\* back in their loops, stop() has CLOSE_DONGLE or the joins before it.
LEMMA ResultNears ==
  ASSUME IInv, NEW t \in {"write", "beat"} \cup Stoppers, Transferring(t),
         NEW outcome \in {"sent", "short", "thrown"}, Result(t, outcome)
  PROVE  Nears(t)
<1> USE DEF IInv, TypeOK, Goto, Nears, ToGo, Transferring
<1>0. t \in Threads /\ {"write", "beat"} \subseteq Threads
  BY DEF Threads, Workers
<1>1. CASE t = "write"
  <2>1. WriterResult(outcome)
    BY <1>1 DEF Result, Workers
  <2>2. /\ pc'["write"] = "top"
        /\ \A u \in Threads \ {"write"} : pc'[u] = pc[u] /\ msg'[u] = msg[u]
    BY <1>0, <2>1 DEF WriterResult
  <2> QED
    BY <1>1, <2>2
<1>2. CASE t = "beat"
  <2>1. BeatResult(outcome)
    BY <1>2 DEF Result, Workers
  <2>2. /\ pc'["beat"] \in {"done", "sleep"}
        /\ \A u \in Threads \ {"beat"} : pc'[u] = pc[u] /\ msg'[u] = msg[u]
    BY <1>0, <2>1 DEF BeatResult
  <2> QED
    BY <1>2, <2>2
<1>3. CASE t \in Stoppers
  <2>1. StopperResult(t, outcome)
    BY <1>3 DEF Result, Workers
  <2>2. pc[t] = "payload" => msg[t] = ReleaseFocus
    BY <1>3 DEF MessageInv
  <2>3. CASE msg[t] = ReleaseFocus /\ outcome # "thrown"
    <3>1. /\ pc'[t] = "header" /\ msg'[t] = Close
          /\ \A u \in Threads \ {t} : pc'[u] = pc[u] /\ msg'[u] = msg[u]
      BY <1>0, <2>1, <2>3 DEF StopperResult
    <3> QED
      BY <2>3, <3>1
  <2>4. CASE ~(msg[t] = ReleaseFocus /\ outcome # "thrown")
    <3>1. /\ pc'[t] = "joinRead"
          /\ \A u \in Threads \ {t} : pc'[u] = pc[u] /\ msg'[u] = msg[u]
      BY <1>0, <2>1, <2>4 DEF StopperResult
    <3> QED
      BY <3>1
  <2> QED
    BY <2>3, <2>4
<1> QED
  BY <1>1, <1>2, <1>3

\* Every step of sendNow() is one on the way out of it.
LEMMA SendNowNears ==
  ASSUME IInv, NEW t \in {"write", "beat"} \cup Stoppers, SendNow(t)
  PROVE  Nears(t)
<1>0. t \in Threads /\ pc \in [Threads -> Pcs] /\ MessageInv
  BY DEF IInv, TypeOK, Threads, Workers
<1>1. CASE Acquire(t)
  BY <1>0, <1>1 DEF Acquire, Goto, Nears, ToGo
<1>2. CASE Header(t)
  <2>1. pc[t] = "header"
    BY <1>2 DEF Header
  <2>2. CASE \E outcome \in {"sent", "short", "thrown"} : Result(t, outcome)
    BY <2>1, <2>2, ResultNears DEF Transferring
  <2>3. CASE msg[t] \notin Bare /\ Goto(t, "payload") /\ UNCHANGED msg
    <3>1. msg[t] # Close
      BY <2>3
    <3>2. pc'[t] = "payload" /\ \A u \in Threads \ {t} : pc'[u] = pc[u]
      BY <1>0, <2>3 DEF Goto
    <3> QED
      BY <2>1, <2>3, <3>1, <3>2 DEF Nears, ToGo
  <2> QED
    BY <1>2, <2>2, <2>3 DEF Header
<1>3. CASE Payload(t)
  <2>1. pc[t] = "payload" /\ \E outcome \in {"sent", "short", "thrown"} : Result(t, outcome)
    BY <1>3 DEF Payload
  <2> QED
    BY <2>1, ResultNears DEF Transferring
<1> QED
  BY <1>1, <1>2, <1>3 DEF SendNow

\* The loops of a stopped driver end at their top, and what they were in the middle
\* of leads there.
LEMMA LoopsNear ==
  ASSUME IInv, stopped
  PROVE  /\ WriterTop \/ Polled => Nears("write")
         /\ BeatTop \/ BeatSlept => Nears("beat")
         /\ Reader => Nears("read")
         /\ ConnectSlept => Nears("connect")
<1> USE DEF IInv, Goto, Nears, ToGo
<1>0. /\ Workers \subseteq Threads /\ ~running
      /\ pc \in [Threads -> Pcs] /\ msg \in [Threads -> Messages \cup {Nothing}]
  BY DEF TypeOK, Threads, StopInv
<1>1. WriterTop => Nears("write")
  BY <1>0 DEF WriterTop, Loop, Workers
<1>2. Polled => Nears("write")
  BY <1>0 DEF Polled, Workers
<1>3. BeatTop => Nears("beat")
  BY <1>0 DEF BeatTop, Loop, Workers
<1>4. BeatSlept => Nears("beat")
  BY <1>0 DEF BeatSlept, Workers
<1>5. ReaderTop => Nears("read")
  BY <1>0 DEF ReaderTop, Loop, Workers
<1>6. ReaderRead => Nears("read")
  BY <1>0 DEF ReaderRead, Workers
<1>7. ReaderDispatched => Nears("read")
  BY <1>0 DEF ReaderDispatched, Workers
<1>8. ConnectSlept => Nears("connect")
  BY <1>0 DEF ConnectSlept, Workers
<1> QED
  BY <1>1, <1>2, <1>3, <1>4, <1>5, <1>6, <1>7, <1>8 DEF Reader

\* stop() goes from join to join, and a late caller returns at once.
LEMMA StopNears ==
  ASSUME IInv, stopped, NEW s \in Stoppers, StopEnter(s) \/ Stop(s)
  PROVE  Nears(s)
<1>0. s \in Threads /\ pc \in [Threads -> Pcs] /\ msg \in [Threads -> Messages \cup {Nothing}]
  BY DEF IInv, TypeOK, Threads
<1>1. CASE StopEnter(s)
  BY <1>0, <1>1 DEF StopEnter, Goto, Nears, ToGo
<1>2. CASE SendNow(s)
  BY <1>2, SendNowNears
<1>3. CASE JoinWriter(s)
  BY <1>0, <1>3 DEF JoinWriter, Join, Goto, Nears, ToGo
<1>4. CASE Joins(s)
  BY <1>0, <1>4 DEF Joins, Join, Goto, Nears, ToGo
<1>5. CASE Release(s)
  BY <1>0, <1>5 DEF Release, Goto, Nears, ToGo
<1> QED
  BY <1>1, <1>2, <1>3, <1>4, <1>5 DEF Stop

\* Every step of a stopped driver is one of these.
LEMMA StepNears ==
  ASSUME IInv, Next, stopped
  PROVE  \/ \E t \in Workers : Nears(t)
         \/ \E s \in Stoppers : (StopEnter(s) \/ Stop(s)) /\ Nears(s)
<1>1. ~Start /\ ~StartOthers
  BY DEF IInv, StopInv, Start, StartOthers
<1>2. CASE Writer \/ Beat
  BY <1>2, LoopsNear, SendNowNears DEF Writer, Beat, Workers
<1>3. CASE Reader \/ ConnectSlept
  BY <1>3, LoopsNear DEF Workers
<1>4. CASE \E s \in Stoppers : StopEnter(s) \/ Stop(s)
  BY <1>4, StopNears
<1> QED
  BY <1>1, <1>2, <1>3, <1>4 DEF Next

\* From the moment stop() begins every thread only comes nearer to its end, whatever
\* fails and however the joins expire: the part of StopCompletes and ThreadsEnd that
\* asks nothing of the scheduler (stop, readLoop, writeLoop, heartbeatLoop).
THEOREM ThreadsWindDown == Spec => WindsDown
<1> DEFINE A == stopped => \A t \in Threads :
                  \/ pc'[t] = pc[t] /\ msg'[t] = msg[t]
                  \/ ToGo(t)' < ToGo(t)
<1>1. IInv /\ Next /\ stopped => \E t \in Threads : Nears(t)
  BY StepNears DEF Threads
<1>2. IInv /\ Next => A
  BY <1>1 DEF Nears
<1> HIDE DEF A
<1>3. IInv /\ [Next]_vars => [A]_vars
  BY <1>2
<1>4. Spec => [][A]_vars
  BY <1>3, Inductive, PTL DEF Spec
<1> QED
  BY <1>4 DEF WindsDown, A

\* Only releaseInterface() ends the one stop() that is under way.
LEMMA StopperStays ==
  ASSUME IInv, NEW s \in Stoppers, Stopping(s), StopEnter(s) \/ Stop(s)
  PROVE  Stopping(s)' \/ Release(s)
<1>0. s \in Threads /\ s \notin Workers /\ pc \in [Threads -> Pcs]
  BY DEF IInv, TypeOK, Threads
<1>1. CASE StopEnter(s) \/ JoinWriter(s) \/ Joins(s)
  BY <1>0, <1>1 DEF Stopping, StopEnter, JoinWriter, Joins, Join, Goto
<1>2. CASE SendNow(s)
  <2>1. pc'[s] \in {"header", "payload", "joinRead"}
    <3>1. CASE Acquire(s)
      BY <1>0, <3>1 DEF Acquire, Goto
    <3>2. CASE Header(s)
      BY <1>0, <3>2 DEF Header, Result, StopperResult, Goto, Workers
    <3>3. CASE Payload(s)
      BY <1>0, <3>3 DEF Payload, Result, StopperResult, Goto, Workers
    <3> QED
      BY <1>2, <3>1, <3>2, <3>3 DEF SendNow
  <2> QED
    BY <2>1 DEF Stopping
<1> QED
  BY <1>1, <1>2 DEF Stop

\* A stop() under way ends with the interface released, and the first one began it.
LEMMA ReleaseStaysComing ==
  ASSUME IInv, ReleaseIsComing, Next
  PROVE  ReleaseIsComing'
<1> USE DEF IInv, ReleaseIsComing
<1>1. ASSUME stopped, releases = 1 PROVE ReleaseIsComing'
  <2>0. StopInv /\ releases > 0
    BY <1>1
  <2>1. \A s \in Stoppers : ~Stopping(s)
    BY ONLY <2>0 DEF StopInv
  <2>2. \A s \in Stoppers : ~Release(s)
    BY <2>1 DEF Stopping, Release
  <2>3. releases' = releases
    BY <2>2
    DEF Next, Start, StartOthers, Writer, Beat, Reader, WriterTop, Polled, BeatTop, BeatSlept,
        ReaderTop, ReaderRead, ReaderDispatched, ConnectSlept, Loop, SendNow, Acquire, Header,
        Payload, StopEnter, Stop, JoinWriter, Joins, Join, iface
  <2> QED
    BY <1>1, <2>3
<1>2. ASSUME stopped, NEW s \in Stoppers, Stopping(s) PROVE ReleaseIsComing'
  <2>1. s \notin Workers /\ s \in Threads
    BY DEF Threads
  <2>2. CASE pc'[s] = pc[s]
    BY <1>2, <2>2 DEF Stopping
  <2>3. CASE StopEnter(s) \/ Stop(s)
    <3>1. releases = 0
      BY <1>2 DEF StopInv, TypeOK
    <3>2. Release(s) => releases' = 1
      BY <3>1 DEF Release
    <3> QED
      BY <1>2, <2>3, <3>2, StopperStays DEF Stopping
  <2> QED
    BY <1>2, <2>1, <2>2, <2>3, StepNears DEF Nears
<1>3. ASSUME ~stopped, NEW s \in Stoppers, StopEnter(s) PROVE ReleaseIsComing'
  <2>1. pc'[s] = "joinWrite"
    BY <1>3 DEF TypeOK, StopEnter, Goto, Threads
  <2> QED
    BY <2>1
<1>4. ASSUME ~stopped, ~\E s \in Stoppers : StopEnter(s) PROVE ReleaseIsComing'
  <2>1. stopped' = stopped
    BY <1>4
    DEF Next, Start, StartOthers, Writer, Beat, Reader, WriterTop, Polled, BeatTop, BeatSlept,
        ReaderTop, ReaderRead, ReaderDispatched, ConnectSlept, Loop, SendNow, Acquire, Header,
        Payload, Stop, JoinWriter, Joins, Join, Release, flags
  <2> QED
    BY <1>4, <2>1
<1> QED
  BY <1>1, <1>2, <1>3, <1>4 DEF Stopping

\* No way through stop(), with its failing transfers, its expired joins and its late
\* callers, leaves the interface claimed (stop).
THEOREM ReleaseComes == Spec => []ReleaseIsComing
<1>1. Init => ReleaseIsComing
  BY DEF Init, ReleaseIsComing
<1>2. IInv /\ ReleaseIsComing /\ [Next]_vars => ReleaseIsComing'
  <2>1. UNCHANGED vars /\ ReleaseIsComing => ReleaseIsComing'
    BY DEF ReleaseIsComing, vars, flags, iface
  <2> QED
    BY <2>1, ReleaseStaysComing
<1> QED
  BY <1>1, <1>2, Inductive, PTL DEF Spec
=============================================================================
