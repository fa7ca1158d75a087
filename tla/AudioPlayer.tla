---------------------------- MODULE AudioPlayer ----------------------------
(***************************************************************************)
(* CarlinkitAudioPlayer: the driver's read thread queues PCM and commands  *)
(* (onAudio), the UI thread queues mutes (setMuted), one worker thread     *)
(* owns the AudioTracks and drains the queue, and the service starts and   *)
(* stops all of it.  The producers take no lock: each operation on the     *)
(* ArrayBlockingQueue is atomic and each gap between two is a step.        *)
(*                                                                         *)
(* A PCM chunk is the pooled array it was copied to.  remove(w) goes by    *)
(* identity of the work, and its array may be in use again by then: a      *)
(* candidate that left the queue becomes Nothing.  Counters and timings,   *)
(* which nothing but the log reads, are left out.                          *)
(***************************************************************************)
EXTENDS Naturals, Sequences, FiniteSets

CONSTANTS
  Types,           \* decodeTypes the phone plays
  Buffers,         \* PCM arrays
  Workers,         \* worker threads: bounds how many are alive at once
  Capacity,        \* AUDIO_QUEUE_CAPACITY, 16 in the code
  HighWatermark,   \* AUDIO_QUEUE_HIGH_WATERMARK, 12
  Target,          \* AUDIO_QUEUE_TARGET, 4
  Nothing          \* null

ASSUME SizesAssumption ==
  /\ {Capacity, HighWatermark, Target} \subseteq Nat
  /\ Target < HighWatermark /\ HighWatermark < Capacity
ASSUME SetsAssumption == IsFiniteSet(Types) /\ IsFiniteSet(Buffers)

Pcm == [kind : {"pcm"}, type : Types, buffer : Buffers]
Command == [kind : {"command"}, type : Types]
Mute == [kind : {"mute"}, on : BOOLEAN]
Work == Pcm \cup Command \cup Mute

ASSUME NothingAssumption == Nothing \notin Buffers \cup Workers \cup Work

Producers == {"reader", "ui"}

VARIABLES
  running, muted,
  audioThread,     \* the worker that may drain the queue
  audioQueue,
  pcmPool,         \* arrays to use again; one is put back by its only holder
  at,              \* where each producer is in its call
  goal,            \* what it drops the oldest chunk for
  work,            \* the work it is queueing
  candidate,       \* the array of the chunk it is about to remove
  worker,          \* where each worker is
  item,            \* the work it took
  tracks,          \* per decodeType: no AudioTrack, or its play state
  service,         \* where the service is in start() or stop()
  muteLost         \* since the last setMuted(), a clear took a mute away

lifecycle == <<running, audioThread, service>>
calls == <<at, goal, work, candidate>>
threads == <<worker, item>>
vars == <<lifecycle, muted, audioQueue, pcmPool, calls, threads, tracks, muteLost>>

----------------------------------------------------------------------------
IsPcm(w) == w \in Pcm

Elements(s) == {s[i] : i \in 1..Len(s)}

SoundAt == {i \in 1..Len(audioQueue) : IsPcm(audioQueue[i])}

Without(i) == SubSeq(audioQueue, 1, i - 1) \o SubSeq(audioQueue, i + 1, Len(audioQueue))

\* the arrays of a set of works
Arrays(S) == {w.buffer : w \in {v \in S : IsPcm(v)}}

Held == Arrays({work[p] : p \in Producers} \cup {item[w] : w \in Workers})

\* an array nothing refers to: one that new byte[] may return
Fresh == Buffers \ (pcmPool \cup Held \cup Arrays(Elements(audioQueue)))

\* fault: the pool has no bound
RecycleFault(S) == pcmPool' = pcmPool \cup S

\* recyclePcmBuffer(); S is one array, or none for a work without PCM
Recycle(S) ==
  pcmPool' = IF Cardinality(pcmPool) < Capacity THEN pcmPool \cup S ELSE pcmPool

\* the work leaves the queue: whoever was about to remove it comes too late
Forget(w) ==
  candidate' = [p \in Producers |->
                 IF candidate[p] \in Arrays({w}) THEN Nothing ELSE candidate[p]]

HasRoom == Len(audioQueue) < Capacity

Alive(w) == worker[w] # "dead"

----------------------------------------------------------------------------
Init ==
  /\ running = FALSE /\ muted = FALSE /\ audioThread = Nothing
  /\ audioQueue = <<>> /\ pcmPool = {}
  /\ at = [p \in Producers |-> "idle"]
  /\ goal = [p \in Producers |-> "none"]
  /\ work = [p \in Producers |-> Nothing]
  /\ candidate = [p \in Producers |-> Nothing]
  /\ worker = [w \in Workers |-> "dead"]
  /\ item = [w \in Workers |-> Nothing]
  /\ tracks = [d \in Types |-> "none"]
  /\ service = "idle" /\ muteLost = FALSE

----------------------------------------------------------------------------
(* The producers: offerPcm() and offerControl() *)

Goto(p, l) == at' = [at EXCEPT ![p] = l]

\* the call returns
Return(p) ==
  /\ Goto(p, "idle")
  /\ goal' = [goal EXCEPT ![p] = "none"]
  /\ work' = [work EXCEPT ![p] = Nothing]

Drop(p, why) == Goto(p, "scan") /\ goal' = [goal EXCEPT ![p] = why]

Call(p, w, l) ==
  /\ at[p] = "idle"
  /\ work' = [work EXCEPT ![p] = w]
  /\ Goto(p, l)

\* acquirePcmBuffer(): one of the pool that is long enough, or a new one
Acquire(b) ==
  /\ b \in pcmPool \cup Fresh
  /\ pcmPool' = pcmPool \ {b}

\* onAudio() with PCM, which a stopped or muted player ignores
OnPcm(d) ==
  /\ running /\ ~muted
  /\ \E b \in Buffers :
       /\ Acquire(b)
       /\ Call("reader", [kind |-> "pcm", type |-> d, buffer |-> b], "measure")

\* onAudio() with a command
OnCommand(d) ==
  /\ running
  /\ Call("reader", [kind |-> "command", type |-> d], "offer")
  /\ UNCHANGED pcmPool

OnAudio ==
  /\ \E d \in Types : OnPcm(d) \/ OnCommand(d)
  /\ UNCHANGED <<lifecycle, muted, audioQueue, goal, candidate, threads, tracks,
                 muteLost>>

\* setMuted(): the flag first
SetMuted(v) ==
  /\ muted' = v
  /\ muteLost' = FALSE
  /\ Call("ui", [kind |-> "mute", on |-> v], "check")
  /\ UNCHANGED <<lifecycle, audioQueue, pcmPool, goal, candidate, threads, tracks>>

\* then the control, which a stopped player does not need; muting purges
CheckRunning ==
  /\ at["ui"] = "check"
  /\ \/ ~running /\ Return("ui")
     \/ running /\ work["ui"].on /\ Drop("ui", "purge") /\ UNCHANGED work
     \/ running /\ ~work["ui"].on /\ Goto("ui", "offer") /\ UNCHANGED <<goal, work>>
  /\ UNCHANGED <<audioQueue, pcmPool, candidate, muteLost>>

\* offerPcm(): is there more than 240 ms to catch up with?
Measure ==
  /\ at["reader"] = "measure"
  /\ Goto("reader", IF Len(audioQueue) >= HighWatermark THEN "trim" ELSE "offer")
  /\ UNCHANGED <<audioQueue, pcmPool, goal, work, candidate, muteLost>>

Trim ==
  /\ at["reader"] = "trim"
  /\ IF Len(audioQueue) > Target
       THEN Drop("reader", "trim")
       ELSE Goto("reader", "offer") /\ UNCHANGED goal
  /\ UNCHANGED <<audioQueue, pcmPool, work, candidate, muteLost>>

\* fault: it is the newest chunk that goes
ScanFault(p) ==
  /\ at[p] = "scan"
  /\ \/ \E i \in SoundAt :
          /\ \A j \in SoundAt : i >= j
          /\ candidate' = [candidate EXCEPT ![p] = audioQueue[i].buffer]
          /\ Goto(p, "remove")
          /\ UNCHANGED <<goal, work>>
     \/ /\ SoundAt = {} /\ goal[p] # "room"
        /\ Goto(p, "offer")
        /\ UNCHANGED <<goal, work, candidate>>
  /\ UNCHANGED <<audioQueue, pcmPool, muteLost>>

\* dropOldestPcm(): the iteration reaches its next chunk, or its end
Scan(p) ==
  /\ at[p] = "scan"
  /\ \/ \E i \in SoundAt :
          /\ \A j \in SoundAt : i <= j
          /\ candidate' = [candidate EXCEPT ![p] = audioQueue[i].buffer]
          /\ Goto(p, "remove")
          /\ UNCHANGED <<pcmPool, goal, work>>
     \/ /\ SoundAt = {} /\ goal[p] # "room"
        /\ Goto(p, "offer")
        /\ UNCHANGED <<pcmPool, goal, work, candidate>>
     \/ /\ SoundAt = {} /\ goal[p] = "room"
        /\ Recycle(Arrays({work[p]}))
        /\ Return(p)
        /\ UNCHANGED candidate
  /\ UNCHANGED <<audioQueue, muteLost>>

AfterDrop == [trim |-> "trim", purge |-> "scan", room |-> "reoffer"]

\* audioQueue.remove(w), and the array is free again
Remove(p) ==
  /\ at[p] = "remove"
  /\ \/ \E i \in SoundAt :
          /\ audioQueue[i].buffer = candidate[p]
          /\ audioQueue' = Without(i)
          /\ Recycle({candidate[p]})
          /\ Forget(audioQueue[i])
          /\ Goto(p, AfterDrop[goal[p]])
     \/ /\ candidate[p] = Nothing
        /\ Goto(p, "scan")
        /\ UNCHANGED <<audioQueue, pcmPool, candidate>>
  /\ UNCHANGED <<goal, work, muteLost>>

\* the first offer
Offer(p) ==
  /\ at[p] = "offer"
  /\ \/ HasRoom /\ audioQueue' = Append(audioQueue, work[p]) /\ Return(p)
     \/ ~HasRoom /\ IsPcm(work[p]) /\ Drop(p, "room") /\ UNCHANGED <<audioQueue, work>>
     \/ /\ ~HasRoom /\ ~IsPcm(work[p])
        /\ Goto(p, "clear")
        /\ UNCHANGED <<audioQueue, goal, work>>
  /\ UNCHANGED <<pcmPool, candidate, muteLost>>

\* clearQueueAndRecycle(), one poll(); other producers go on meanwhile
ClearOne ==
  /\ audioQueue # <<>>
  /\ audioQueue' = Tail(audioQueue)
  /\ Recycle(Arrays({Head(audioQueue)}))
  /\ Forget(Head(audioQueue))

Clear(p) ==
  /\ at[p] = "clear"
  /\ ClearOne
  /\ muteLost' = (muteLost \/ Head(audioQueue) \in Mute)
  /\ UNCHANGED <<at, goal, work>>

Cleared(p) ==
  /\ at[p] = "clear"
  /\ audioQueue = <<>>
  /\ Goto(p, "reoffer")
  /\ UNCHANGED <<audioQueue, pcmPool, goal, work, candidate, muteLost>>

\* fault: the array is given back whether the chunk was queued or not
ReofferFault(p) ==
  /\ at[p] = "reoffer"
  /\ audioQueue' = IF HasRoom THEN Append(audioQueue, work[p]) ELSE audioQueue
  /\ Recycle(Arrays({work[p]}))
  /\ Return(p)
  /\ UNCHANGED <<candidate, muteLost>>

\* the second offer: a chunk that lost the race for the slot gives its array back
Reoffer(p) ==
  /\ at[p] = "reoffer"
  /\ \/ /\ HasRoom
        /\ audioQueue' = Append(audioQueue, work[p])
        /\ UNCHANGED <<pcmPool, muteLost>>
     \/ /\ ~HasRoom
        /\ Recycle(Arrays({work[p]}))
        /\ muteLost' = (muteLost \/ work[p] \in Mute)
        /\ UNCHANGED audioQueue
  /\ Return(p)
  /\ UNCHANGED candidate

InCall(p) ==
  /\ \/ p = "ui" /\ CheckRunning
     \/ p = "reader" /\ (Measure \/ Trim)
     \/ Scan(p) \/ Remove(p) \/ Offer(p) \/ Clear(p) \/ Cleared(p) \/ Reoffer(p)
  /\ UNCHANGED <<lifecycle, muted, threads, tracks>>

----------------------------------------------------------------------------
(* AudioWriteLoop *)

\* monitor of lifecycleLock: start() and stop() clear the queue inside it
LockFree == service \notin {"startClear", "stopClear"}

WorkerAt(w, l) == worker' = [worker EXCEPT ![w] = l]

\* fault: the loop does not look at running again
LoopFault(w) ==
  /\ worker[w] = "loop"
  /\ WorkerAt(w, IF audioThread = w THEN "poll" ELSE "release")
  /\ UNCHANGED <<running, audioThread, audioQueue, pcmPool, candidate, item, tracks>>

Loop(w) ==
  /\ worker[w] = "loop"
  /\ WorkerAt(w, IF running /\ audioThread = w THEN "poll" ELSE "release")
  /\ UNCHANGED <<running, audioThread, audioQueue, pcmPool, candidate, item, tracks>>

\* poll(): a work, or a timeout, or the interrupt of stop()
Poll(w) ==
  /\ worker[w] = "poll"
  /\ \/ /\ audioQueue # <<>>
        /\ item' = [item EXCEPT ![w] = Head(audioQueue)]
        /\ audioQueue' = Tail(audioQueue)
        /\ Forget(Head(audioQueue))
        /\ WorkerAt(w, Head(audioQueue).kind)
     \/ /\ audioQueue = <<>> \/ ~running
        /\ WorkerAt(w, "loop")
        /\ UNCHANGED <<audioQueue, candidate, item>>
  /\ UNCHANGED <<running, audioThread, pcmPool, tracks>>

\* the work is done with; its array returns to the pool
Done(w, l) ==
  /\ WorkerAt(w, l)
  /\ Recycle(Arrays({item[w]}))
  /\ item' = [item EXCEPT ![w] = Nothing]

\* fault: what was queued when the player was muted is still written
WritePcmFault(w) ==
  /\ worker[w] = "pcm"
  /\ WorkerAt(w, "ensure")
  /\ UNCHANGED <<running, audioThread, audioQueue, pcmPool, candidate, item, tracks>>

\* writePcm(): nothing is written while muted
WritePcm(w) ==
  /\ worker[w] = "pcm"
  /\ \/ muted /\ Done(w, "loop")
     \/ ~muted /\ WorkerAt(w, "ensure") /\ UNCHANGED <<pcmPool, item>>
  /\ UNCHANGED <<running, audioThread, audioQueue, candidate, tracks>>

\* ensureTrack(): the track of the format, made when there is none, which may
\* fail; it plays unless the player was muted in between
EnsureTrack(w) ==
  /\ worker[w] = "ensure"
  /\ LET d == item[w].type
     IN  \/ /\ WorkerAt(w, "write")
            /\ tracks' = [tracks EXCEPT ![d] =
                 IF ~muted THEN "playing" ELSE IF @ = "none" THEN "paused" ELSE @]
            /\ UNCHANGED <<pcmPool, item>>
         \/ tracks[d] = "none" /\ Done(w, "loop") /\ UNCHANGED tracks
  /\ UNCHANGED <<running, audioThread, audioQueue, candidate>>

\* track.write() returns or throws
Write(w) ==
  /\ worker[w] = "write"
  /\ Done(w, "loop")
  /\ UNCHANGED <<running, audioThread, audioQueue, candidate, tracks>>

\* a Throwable out of ensureTrack() ends the worker and the player with it
Dies(w) ==
  /\ worker[w] = "ensure"
  /\ LockFree
  /\ running' = (running /\ audioThread # w)
  /\ Done(w, "release")
  /\ UNCHANGED <<audioThread, audioQueue, candidate, tracks>>

\* handleCommand(): a source that stops is paused and flushed, no other; the
\* commands that start one do nothing
HandleCommand(w) ==
  /\ worker[w] = "command"
  /\ LET d == item[w].type
     IN  \/ tracks' = [tracks EXCEPT ![d] = IF @ = "playing" THEN "paused" ELSE @]
         \/ UNCHANGED tracks
  /\ Done(w, "loop")
  /\ UNCHANGED <<running, audioThread, audioQueue, candidate>>

\* fault: muting relies on the flag and pauses nothing
ApplyMutedFault(w) ==
  /\ worker[w] = "mute"
  /\ tracks' = [d \in Types |-> IF tracks[d] = "none" \/ item[w].on
                                THEN tracks[d] ELSE "playing"]
  /\ Done(w, "loop")
  /\ UNCHANGED <<running, audioThread, audioQueue, candidate>>

\* applyMuted()
ApplyMuted(w) ==
  /\ worker[w] = "mute"
  /\ tracks' = [d \in Types |-> IF tracks[d] = "none" THEN "none"
                                ELSE IF item[w].on THEN "paused" ELSE "playing"]
  /\ Done(w, "loop")
  /\ UNCHANGED <<running, audioThread, audioQueue, candidate>>

\* releaseTrack(), on the thread that wrote to the tracks
ReleaseTrack(w) ==
  /\ worker[w] = "release"
  /\ tracks' = [d \in Types |-> "none"]
  /\ WorkerAt(w, "exit")
  /\ UNCHANGED <<running, audioThread, audioQueue, pcmPool, candidate, item>>

\* the last synchronized block, and the thread is gone
Exit(w) ==
  /\ worker[w] = "exit"
  /\ LockFree
  /\ IF audioThread = w
       THEN audioThread' = Nothing /\ running' = FALSE
       ELSE UNCHANGED <<audioThread, running>>
  /\ WorkerAt(w, "dead")
  /\ UNCHANGED <<audioQueue, pcmPool, candidate, item, tracks>>

WorkerStep(w) ==
  /\ \/ Loop(w) \/ Poll(w) \/ WritePcm(w) \/ EnsureTrack(w) \/ Write(w) \/ Dies(w)
     \/ HandleCommand(w) \/ ApplyMuted(w) \/ ReleaseTrack(w) \/ Exit(w)
  /\ UNCHANGED <<service, muted, at, goal, work, muteLost>>

----------------------------------------------------------------------------
(* start() and stop(), one after the other, by the service: start() before *)
(* driver.start(), stop() after driver.stop() has joined the read thread   *)

\* the worker before is still there
Lingers == audioThread # Nothing /\ Alive(audioThread)

\* fault: start() does not wait for the worker before
StartFault ==
  /\ service = "idle" /\ ~running /\ at["reader"] = "idle"
  /\ service' = "startClear"
  /\ UNCHANGED <<running, audioThread, audioQueue, pcmPool, candidate, worker>>

\* start(): waits for the worker before, inside lifecycleLock.wait()
Start ==
  /\ service = "idle" /\ ~running /\ at["reader"] = "idle"
  /\ service' = IF Lingers THEN "startWait" ELSE "startClear"
  /\ UNCHANGED <<running, audioThread, audioQueue, pcmPool, candidate, worker>>

\* the worker is gone, or WORKER_STOP_WAIT_MS are over and start() refuses
Waited ==
  /\ service = "startWait"
  /\ service' = IF Lingers THEN "idle" ELSE "startClear"
  /\ UNCHANGED <<running, audioThread, audioQueue, pcmPool, candidate, worker>>

\* the queue is empty: the player runs, with a new worker
Begin ==
  /\ service = "startClear" /\ audioQueue = <<>>
  /\ \E w \in Workers :
       /\ ~Alive(w)
       /\ running' = TRUE /\ audioThread' = w
       /\ WorkerAt(w, "loop")
  /\ service' = "idle"
  /\ UNCHANGED <<audioQueue, pcmPool, candidate>>

\* stop(): nothing to do, or running goes and the queue is cleared
Stop ==
  /\ service = "idle" /\ at["reader"] = "idle"
  /\ running \/ audioThread # Nothing
  /\ running' = FALSE
  /\ service' = "stopClear"
  /\ UNCHANGED <<audioThread, audioQueue, pcmPool, candidate, worker>>

ServiceClears ==
  /\ service \in {"startClear", "stopClear"}
  /\ ClearOne
  /\ UNCHANGED <<lifecycle, worker>>

\* interrupt(), the monitor is left, and join(WORKER_STOP_WAIT_MS) begins
Interrupt ==
  /\ service = "stopClear" /\ audioQueue = <<>>
  /\ service' = IF audioThread = Nothing THEN "idle" ELSE "join"
  /\ UNCHANGED <<running, audioThread, audioQueue, pcmPool, candidate, worker>>

\* the join is over, whether the worker has ended or not
Joined ==
  /\ service = "join"
  /\ audioThread' = IF Lingers THEN audioThread ELSE Nothing
  /\ service' = "idle"
  /\ UNCHANGED <<running, audioQueue, pcmPool, candidate, worker>>

ServiceStep ==
  /\ Start \/ Stop \/ Waited \/ Begin \/ ServiceClears \/ Interrupt \/ Joined
  /\ UNCHANGED <<muted, at, goal, work, item, tracks, muteLost>>

----------------------------------------------------------------------------
Next ==
  \/ OnAudio \/ (\E v \in BOOLEAN : SetMuted(v))
  \/ \E p \in Producers : InCall(p)
  \/ \E w \in Workers : WorkerStep(w)
  \/ ServiceStep

\* Every thread goes on with a call it began: poll, join and wait have a timeout,
\* and write() returns because the track plays or has room.  lifecycleLock is
\* granted in the end.  No call has to come.
Fairness ==
  /\ \A p \in Producers : WF_vars(InCall(p))
  /\ \A w \in Workers : WF_vars(WorkerStep(w)) /\ SF_vars(WorkerStep(w) /\ Exit(w))
  /\ WF_vars(service # "idle" /\ ServiceStep)

Spec == Init /\ [][Next]_vars /\ Fairness

----------------------------------------------------------------------------
ProducerPcs == {"idle", "check", "measure", "trim", "scan", "remove", "offer", "clear",
                "reoffer"}
WorkerPcs == {"dead", "loop", "poll", "pcm", "ensure", "write", "command", "mute",
              "release", "exit"}

TypeOK ==
  /\ running \in BOOLEAN /\ muted \in BOOLEAN /\ muteLost \in BOOLEAN
  /\ audioThread \in Workers \cup {Nothing}
  /\ audioQueue \in Seq(Work) /\ Len(audioQueue) <= Capacity
  /\ pcmPool \in SUBSET Buffers /\ Cardinality(pcmPool) <= Capacity
  /\ at \in [Producers -> ProducerPcs]
  /\ goal \in [Producers -> {"none", "trim", "purge", "room"}]
  /\ work \in [Producers -> Work \cup {Nothing}]
  /\ candidate \in [Producers -> Buffers \cup {Nothing}]
  /\ worker \in [Workers -> WorkerPcs]
  /\ item \in [Workers -> Work \cup {Nothing}]
  /\ tracks \in [Types -> {"none", "paused", "playing"}]
  /\ service \in {"idle", "startWait", "startClear", "stopClear", "join"}

\* A PCM array is in one place at a time: the pool, the queue, the read thread
\* that fills it or the worker that writes it.  Otherwise a chunk is overwritten
\* while it waits or plays (acquirePcmBuffer, recyclePcmBuffer).
BufferExclusive ==
  /\ \A i, j \in SoundAt : audioQueue[i].buffer = audioQueue[j].buffer => i = j
  /\ pcmPool \cap Held = {}
  /\ Arrays(Elements(audioQueue)) \cap (pcmPool \cup Held) = {}
  /\ \A w \in Workers : Arrays({item[w]}) \cap Arrays({work["reader"]}) = {}

\* A thread that is past start() and has not released the tracks yet
UsesTracks(w) == worker[w] \notin {"dead", "exit"}

\* There is never a second thread on the tracks: "concurrent writes and
\* release-with-write-in-flight" (start), and without one there are no tracks.
OneConsumer ==
  /\ \A v, w \in Workers : UsesTracks(v) /\ UsesTracks(w) => v = w
  /\ (\A w \in Workers : ~UsesTracks(w)) => \A d \in Types : tracks[d] = "none"

Playing == \E d \in Types : tracks[d] = "playing"

\* the worker still has to apply a mute
MutePending == \E m \in Mute : m \in Elements(audioQueue) \cup {item[w] : w \in Workers}

\* When setMuted(true) has returned and its control has been applied, no track
\* plays and nothing is written, whatever was queued or half way then ("the
\* audio has to stop so it does not compete with the FM radio", setMuted).
MuteHolds ==
  muted /\ at["ui"] = "idle" /\ running /\ ~MutePending /\ ~muteLost
    => ~Playing /\ \A w \in Workers : worker[w] # "write"

\* The control is applied: the purge ends although sound keeps coming in.  Only a
\* clear may take for ever, when commands come in faster than it empties the queue.
MuteSettles ==
  (muted /\ Playing) ~> (~Playing \/ ~muted \/ muteLost \/ at["ui"] = "clear")

\* The worker has to end: the player was stopped, or has another worker.
Quits(w) == Alive(w) /\ ~(running /\ audioThread = w)

\* The steps a worker that has to end still has, with the work it took or may
\* still take.
StepsLeft ==
  [dead |-> 0, exit |-> 1, release |-> 2, loop |-> 3, write |-> 4, command |-> 4,
   mute |-> 4, ensure |-> 5, pcm |-> 6, poll |-> 7]

\* A worker that has to end is never taken back, neither by a start() that finds
\* it still there nor by one that does not, and takes one work more at the most:
\* each of its steps brings it nearer to its end (AudioWriteLoop, start).
StoppedWorkerEnds ==
  [][\A w \in Workers : Quits(w) =>
       \/ worker'[w] = worker[w] /\ Quits(w)'
       \/ StepsLeft[worker'[w]] < StepsLeft[worker[w]] /\ (Alive(w)' => Quits(w)')]_vars

\* The arrays with sound that is queued, and with sound that is still to come.
QueuedSound == Arrays(Elements(audioQueue))
SoundToCome == QueuedSound \cup Arrays({work["reader"]})

\* No sound is added for as long as the player is muted, and a chunk that left
\* the queue does not come back: the purge, and a drop that makes room for it,
\* have less before them with every chunk (setMuted, dropOldestPcm).
PurgeGetsThrough ==
  [][muted /\ muted' =>
       /\ SoundToCome' \subseteq SoundToCome
       /\ (QueuedSound \ QueuedSound') \cap SoundToCome' = {}]_vars

\* stop() ends the worker sooner or later even when its join expired, and a
\* worker that died lets the player start again (AudioWriteLoop).
WorkerEnds ==
  \A w \in Workers : (audioThread = w /\ ~running) ~> (audioThread # w)

Queue == INSTANCE StaleFirstQueue WITH
           Works <- Work,
           Sound <- Pcm,
           pending <- audioQueue,
           done <- {item[w] : w \in Workers} \ {Nothing}

\* Sound and controls are served in the order of their arrival by one thread,
\* and what is given up is the oldest sound or the front of a queue that is
\* cleared (offerPcm, offerControl, dropOldestPcm, clearQueueAndRecycle).
StaleGoesFirst == Queue!Spec
=============================================================================
