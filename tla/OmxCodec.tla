------------------------------ MODULE OmxCodec ------------------------------
(***************************************************************************)
(* The native video decoder: OMXVideoCodec, OMXSource and OMXDecoder under *)
(* their JNI layer.  One caller at a time drives it, because the renderer  *)
(* holds its monitor around every call; each codec has a decoder thread of *)
(* its own.  A section of the code under a mutex is one step, and so is a  *)
(* step that touches nothing another thread can see yet.                   *)
(*                                                                         *)
(* OMXCodec of the platform is external: decoder_->read() reads its source *)
(* any number of times, gives input buffers back when it likes, and        *)
(* returns a picture or an error.                                          *)
(***************************************************************************)
EXTENDS Naturals, Sequences, FiniteSets

CONSTANTS
  Codecs,      \* native codec objects, an object is reused when it was deleted
  Buffers,     \* MediaBuffers on the heap, reused when they were freed
  NoCodec,     \* the renderer has no codec
  NoBuffer     \* the caller holds no buffer

ASSUME NoCodecAssumption == NoCodec \notin Codecs
ASSUME NoBufferAssumption == NoBuffer \notin Buffers

VARIABLES
  pc,           \* where the caller is
  cur,          \* the codec the renderer holds
  buffer,       \* the buffer the caller has filled and not queued yet
  live,         \* codec objects that exist
  initialized,  \* decoderThreadInitialized_
  quit,         \* decoderThreadQuitFlag_
  status,       \* OMXDecoder::status_
  window,       \* who holds a reference on the native window
  thread,       \* where each decoder thread is
  sourceQuit,   \* OMXSource::quitFlag_
  pbuffers,     \* OMXSource::pbuffers_
  lent,         \* buffers read by OMXCodec and not returned yet
  heap,         \* allocated buffers
  crashed       \* a null pointer was followed: the process is gone

caller == <<pc, cur, buffer>>
codec == <<live, initialized, quit, status, window>>
source == <<sourceQuit, pbuffers>>
vars == <<caller, codec, thread, source, lent, heap, crashed>>

CallerPc == {"idle", "spawned", "waiting", "status", "queueing", "stopSource", "join",
             "release", "delete"}
ThreadPc == {"none", "start", "ready", "notify", "loop", "read", "next", "waiting", "eos",
             "render", "stopping", "ended"}
Status == {"unset", "ok", "refused", "noclient", "nocodec"}

Elements(s) == {s[i] : i \in 1..Len(s)}

----------------------------------------------------------------------------
Init ==
  /\ pc = "idle" /\ cur = NoCodec /\ buffer = NoBuffer
  /\ live = {} /\ initialized = {} /\ quit = {}
  /\ status = [c \in Codecs |-> "unset"]
  /\ window = [c \in Codecs |-> {}]
  /\ thread = [c \in Codecs |-> "none"]
  /\ sourceQuit = {}
  /\ pbuffers = [c \in Codecs |-> <<>>]
  /\ lent = [c \in Codecs |-> {}]
  /\ heap = {}
  /\ crashed = FALSE

(***************************************************************************)
(* The caller.                                                             *)
(***************************************************************************)

\* start() of the renderer: nativeSetup(), nativeSurfaceInit() and the first
\* half of init(), up to the new thread
Create(c) ==
  /\ pc = "idle" /\ cur = NoCodec
  /\ c \notin live
  /\ live' = live \cup {c}
  /\ cur' = c
  /\ initialized' = initialized \ {c}
  /\ quit' = quit \ {c}
  /\ sourceQuit' = sourceQuit \ {c}
  /\ status' = [status EXCEPT ![c] = "unset"]
  /\ window' = [window EXCEPT ![c] = {"surface", "codec"}]
  /\ thread' = [thread EXCEPT ![c] = "start"]
  /\ pc' = "spawned"
  /\ UNCHANGED <<buffer, pbuffers, lent, heap>>

\* init() waits for the thread: the flag is read under codecMutex_
AwaitInit ==
  /\ pc = "spawned"
  /\ pc' = IF cur \in initialized THEN "status" ELSE "waiting"
  /\ UNCHANGED <<cur, buffer, codec, thread, source, lent, heap>>

\* fault: a codec whose decoder did not start is kept
InitReturnsFault ==
  /\ pc = "status"
  /\ pc' = "idle"
  /\ cur' = IF status[cur] = "unset" THEN NoCodec ELSE cur
  /\ UNCHANGED <<buffer, codec, thread, source, lent, heap>>

\* init() failed: the renderer forgets the codec without deleting it
InitReturns ==
  /\ pc = "status"
  /\ pc' = "idle"
  /\ cur' = IF status[cur] = "ok" THEN cur ELSE NoCodec
  /\ UNCHANGED <<buffer, codec, thread, source, lent, heap>>

\* mediaDecode(), up to the new buffer; a codec that quits takes no more
Allocate(b) ==
  /\ pc = "idle" /\ cur # NoCodec
  /\ cur \notin quit
  /\ b \notin heap
  /\ heap' = heap \cup {b}
  /\ buffer' = b
  /\ pc' = "queueing"
  /\ UNCHANGED <<cur, codec, thread, source, lent>>

\* cond_.notify_one(): the decoder thread is the only one that waits
Woken(c) == [thread EXCEPT ![c] = IF @ = "waiting" THEN "next" ELSE @]

\* fault: the pointer is cleared before it is pushed
QueueBufferFault ==
  /\ pc = "queueing"
  /\ pbuffers' = [pbuffers EXCEPT ![cur] = Append(@, NoBuffer)]
  /\ thread' = Woken(cur)
  /\ buffer' = NoBuffer
  /\ pc' = "idle"
  /\ UNCHANGED <<cur, codec, sourceQuit, lent, heap>>

\* OMXSource::queueBuffer(): a source that quit drops the pointer
QueueBuffer ==
  /\ pc = "queueing"
  /\ IF cur \notin sourceQuit
     THEN /\ pbuffers' = [pbuffers EXCEPT ![cur] = Append(@, buffer)]
          /\ thread' = Woken(cur)
     ELSE UNCHANGED <<pbuffers, thread>>
  /\ buffer' = NoBuffer
  /\ pc' = "idle"
  /\ UNCHANGED <<cur, codec, sourceQuit, lent, heap>>

\* nativeDelete(): shutdown() raises the flag of the decoder thread first
Shutdown ==
  /\ pc = "idle" /\ cur # NoCodec
  /\ IF cur \in initialized
     THEN quit' = quit \cup {cur} /\ pc' = "stopSource"
     ELSE pc' = "delete" /\ UNCHANGED quit
  /\ UNCHANGED <<cur, buffer, live, initialized, status, window, thread, source, lent,
                 heap>>

\* fault: stop() raises the flag and leaves the queue alone
SourceStopFault(c) ==
  /\ sourceQuit' = sourceQuit \cup {c}
  /\ thread' = Woken(c)
  /\ UNCHANGED <<pbuffers, heap>>

\* OMXSource::stop(): the buffers that wait are freed under the source's mutex
SourceStop(c) ==
  IF c \in sourceQuit THEN UNCHANGED <<sourceQuit, pbuffers, thread, heap>>
  ELSE /\ sourceQuit' = sourceQuit \cup {c}
       /\ heap' = heap \ Elements(pbuffers[c])
       /\ pbuffers' = [pbuffers EXCEPT ![c] = <<>>]
       /\ thread' = Woken(c)

StopSource ==
  /\ pc = "stopSource"
  /\ SourceStop(cur)
  /\ pc' = "join"
  /\ UNCHANGED <<cur, buffer, codec, lent>>

\* fault: the thread is detached instead of joined
JoinFault ==
  /\ pc = "join"
  /\ pc' = "release"
  /\ UNCHANGED <<cur, buffer, codec, thread, source, lent, heap>>

Join ==
  /\ pc = "join"
  /\ thread[cur] = "ended"
  /\ pc' = "release"
  /\ UNCHANGED <<cur, buffer, codec, thread, source, lent, heap>>

\* ANativeWindow_release() of the reference nativeSurfaceInit() took
ReleaseWindow ==
  /\ pc = "release"
  /\ window' = [window EXCEPT ![cur] = @ \ {"surface"}]
  /\ pc' = "delete"
  /\ UNCHANGED <<cur, buffer, live, initialized, quit, status, thread, source, lent, heap>>

\* the destructors: the decoder and the codec drop their references, and the
\* source goes with the decoder; its queue frees nothing
Delete ==
  /\ pc = "delete"
  /\ live' = live \ {cur}
  /\ window' = [window EXCEPT ![cur] = @ \ {"codec", "decoder"}]
  /\ pbuffers' = [pbuffers EXCEPT ![cur] = <<>>]
  /\ cur' = NoCodec
  /\ pc' = "idle"
  /\ UNCHANGED <<buffer, initialized, quit, status, thread, sourceQuit, lent, heap>>

(***************************************************************************)
(* The decoder thread of a codec.                                          *)
(***************************************************************************)
Goto(c, place) == thread' = [thread EXCEPT ![c] = place]

\* the source, the decoder and its init(): nobody else sees them yet.  connect()
\* may fail, and so may start() of the OMXCodec
Setup(c) ==
  /\ thread[c] = "start"
  /\ \E s \in {"ok", "refused", "noclient"} : status' = [status EXCEPT ![c] = s]
  /\ window' = [window EXCEPT ![c] = @ \cup {"decoder"}]
  /\ Goto(c, "ready")
  /\ UNCHANGED <<caller, live, initialized, quit, source, lent, heap>>

SetInitialized(c) ==
  /\ thread[c] = "ready"
  /\ initialized' = initialized \cup {c}
  /\ Goto(c, "notify")
  /\ UNCHANGED <<caller, live, quit, status, window, source, lent, heap>>

\* fault: the notification comes while nobody waits for it, so it is left out
NotifyFault(c) ==
  /\ thread[c] = "notify"
  /\ Goto(c, "loop")
  /\ UNCHANGED <<caller, codec, source, lent, heap>>

\* omxDecoderCond_.notify_one(), after the mutex was released
Notify(c) ==
  /\ thread[c] = "notify"
  /\ pc' = IF pc = "waiting" /\ cur = c THEN "spawned" ELSE pc
  /\ Goto(c, "loop")
  /\ UNCHANGED <<cur, buffer, codec, source, lent, heap>>

Loop(c) ==
  /\ thread[c] = "loop"
  /\ Goto(c, IF c \in quit THEN "stopping" ELSE "read")
  /\ UNCHANGED <<caller, codec, source, lent, heap>>

\* OMXCodec wants input: OMXSource::read()
Fill(c) ==
  /\ thread[c] = "read" /\ status[c] = "ok"
  /\ Goto(c, "next")
  /\ UNCHANGED <<caller, codec, source, lent, heap>>

\* nextBuffer(), and the reference read() adds to the buffer it found
NextBuffer(c) ==
  /\ thread[c] = "next"
  /\ IF c \in sourceQuit
     THEN Goto(c, "eos") /\ UNCHANGED <<pbuffers, lent>>
     ELSE IF pbuffers[c] = <<>>
     THEN Goto(c, "waiting") /\ UNCHANGED <<pbuffers, lent>>
     ELSE /\ lent' = [lent EXCEPT ![c] = @ \cup {Head(pbuffers[c])}]
          /\ pbuffers' = [pbuffers EXCEPT ![c] = Tail(@)]
          /\ Goto(c, "read")
  /\ UNCHANGED <<caller, codec, sourceQuit, heap>>

\* the second of wait_until() is over
WaitTimeout(c) ==
  /\ thread[c] = "waiting"
  /\ Goto(c, "next")
  /\ UNCHANGED <<caller, codec, source, lent, heap>>

\* OMXCodec releases an input: signalBufferReturned() frees it
ReturnInput(c, b) ==
  /\ thread[c] \in {"read", "eos"}
  /\ b \in lent[c]
  /\ lent' = [lent EXCEPT ![c] = @ \ {b}]
  /\ heap' = heap \ {b}
  /\ UNCHANGED <<caller, codec, thread, source>>

Output(c) ==
  /\ thread[c] \in {"read", "eos"} /\ status[c] = "ok"
  /\ Goto(c, "render")
  /\ UNCHANGED <<caller, codec, source, lent, heap>>

\* read() returned an error: the thread just tries again
ReadFails(c) ==
  /\ thread[c] \in {"read", "eos"} /\ status[c] # "noclient"
  /\ Goto(c, "loop")
  /\ UNCHANGED <<caller, codec, source, lent, heap>>

\* the picture goes to the native window, the output buffer back to OMXCodec
Render(c) ==
  /\ thread[c] = "render"
  /\ Goto(c, "loop")
  /\ UNCHANGED <<caller, codec, source, lent, heap>>

\* fault: the inputs OMXCodec still holds are forgotten
StopDecoderFault(c) ==
  /\ thread[c] = "stopping"
  /\ Goto(c, "ended")
  /\ UNCHANGED <<caller, codec, source, lent, heap>>

\* OMXDecoder::stop(): OMXCodec gives back all its inputs (it stops its
\* source too, which has been stopped already)
StopDecoder(c) ==
  /\ thread[c] = "stopping" /\ status[c] # "noclient"
  /\ heap' = heap \ lent[c]
  /\ lent' = [lent EXCEPT ![c] = {}]
  /\ Goto(c, "ended")
  /\ UNCHANGED <<caller, codec, source>>

\* connect() succeeded and OMXCodec::Create() found no decoder: init() starts the
\* null pointer it got
NullCodec(c) ==
  /\ thread[c] = "start"
  /\ status' = [status EXCEPT ![c] = "nocodec"]
  /\ window' = [window EXCEPT ![c] = @ \cup {"decoder"}]
  /\ crashed' = TRUE
  /\ UNCHANGED <<caller, live, initialized, quit, thread, source, lent, heap>>

\* connect() failed, so decoder_ is null when the loop reads it all the same
NullDecoder(c) ==
  /\ thread[c] \in {"read", "stopping"} /\ status[c] = "noclient"
  /\ crashed' = TRUE
  /\ UNCHANGED <<caller, codec, thread, source, lent, heap>>

----------------------------------------------------------------------------
Calls ==
  \/ \E c \in Codecs : Create(c)
  \/ \E b \in Buffers : Allocate(b)
  \/ Shutdown

CallGoesOn ==
  \/ AwaitInit
  \/ InitReturns
  \/ QueueBuffer
  \/ StopSource
  \/ Join
  \/ ReleaseWindow
  \/ Delete

DecoderThread(c) ==
  \/ Setup(c)
  \/ SetInitialized(c)
  \/ Notify(c)
  \/ Loop(c)
  \/ Fill(c)
  \/ NextBuffer(c)
  \/ WaitTimeout(c)
  \/ \E b \in Buffers : ReturnInput(c, b)
  \/ Output(c)
  \/ ReadFails(c)
  \/ Render(c)
  \/ StopDecoder(c)

CallerStep == Calls \/ CallGoesOn

\* a crash ends every thread
Next ==
  /\ ~crashed
  /\ \/ CallerStep /\ UNCHANGED crashed
     \/ \E c \in Codecs : DecoderThread(c) /\ UNCHANGED crashed
     \/ \E c \in Codecs : NullCodec(c) \/ NullDecoder(c)

Spec == Init /\ [][Next]_vars

\* both threads are scheduled, and OMXCodec returns from its calls; nothing
\* makes the renderer begin a call
FairSpec ==
  /\ Spec
  /\ WF_vars(~crashed /\ CallGoesOn /\ UNCHANGED crashed)
  /\ \A c \in Codecs : WF_vars(~crashed /\ DecoderThread(c) /\ UNCHANGED crashed)

(***************************************************************************)
(* Properties.                                                             *)
(***************************************************************************)

\* Every variable keeps its type; a codec is waited for, fed and shut down
\* only while it is there, and a buffer is in the caller's hands only between
\* its allocation and its queueing.
TypeOK ==
  /\ pc \in CallerPc
  /\ cur \in Codecs \cup {NoCodec} /\ (pc # "idle" => cur # NoCodec)
  /\ buffer \in Buffers \cup {NoBuffer} /\ (buffer # NoBuffer <=> pc = "queueing")
  /\ live \subseteq Codecs /\ initialized \subseteq Codecs /\ quit \subseteq Codecs
  /\ status \in [Codecs -> Status]
  /\ window \in [Codecs -> SUBSET {"surface", "codec", "decoder"}]
  /\ thread \in [Codecs -> ThreadPc]
  /\ sourceQuit \subseteq Codecs
  /\ pbuffers \in [Codecs -> Seq(Buffers)]
  /\ lent \in [Codecs -> SUBSET Buffers]
  /\ heap \subseteq Buffers
  /\ crashed \in BOOLEAN

Holds(c, b) == b \in Elements(pbuffers[c]) \/ b \in lent[c]

\* No buffer leaks and none is used after it was freed: a MediaBuffer is
\* allocated exactly while the caller, the queue of one source or OMXCodec has
\* it, through shutdowns in the middle of a frame and failed starts.
BuffersOwned ==
  /\ \A b \in Buffers : b \in heap <=> b = buffer \/ \E c \in Codecs : Holds(c, b)
  /\ \A c, d \in Codecs : (Elements(pbuffers[c]) \cup {buffer}) \cap lent[d] = {}

\* While a decoder thread runs, the codec, its source and its decoder exist and
\* the window it draws to is referenced: nothing is deleted or released before
\* the join returned.
TeardownIsOrdered ==
  \A c \in Codecs : thread[c] \notin {"none", "ended"} =>
    /\ c \in live
    /\ "surface" \in window[c]
    /\ thread[c] # "start" => "decoder" \in window[c]

\* the renderer is inside init()
Initializing == pc \in {"spawned", "waiting"}

\* A codec the renderer no longer holds but that still exists is one whose
\* init() failed, and it has no frame: a decoder that works is never left behind.
\* Two null pointers can crash the process, and no other: that of a codec that
\* got no client, at any time after, and that of one there is no decoder for,
\* while the renderer is still inside its init().
OnlyFailedInitOrphans ==
  /\ \A c \in live \ {cur} : status[c] \in {"refused", "noclient"} /\ pbuffers[c] = <<>>
  /\ pc = "idle" /\ cur # NoCodec => status[cur] = "ok"
  /\ crashed => \E c \in live :
       \/ status[c] = "noclient"
       \/ status[c] = "nocodec" /\ c = cur /\ Initializing

Feeding == pc \notin {"spawned", "waiting", "status"} /\ cur # NoCodec
           /\ cur \notin sourceQuit

Feed == INSTANCE FrameFeed WITH
  Frames <- Buffers,
  open <- Feeding,
  waiting <- IF cur = NoCodec THEN <<>> ELSE pbuffers[cur],
  decoding <- UNION {lent[c] : c \in Codecs}

\* OmxCodec implements FrameFeed: the frames given to a codec are decoded in
\* order and once, none after the source was stopped, and the next codec gets
\* its first frame only when the last has returned all of its own.
FeedsInOrder == Feed!Spec

\* Nobody sleeps through what he waits for: init() sleeps only while its thread
\* has yet to notify it, a decoder thread only while its source is empty and
\* open, and none that is joined sleeps in nextBuffer() or has yet to start.
NoLostWakeup ==
  /\ pc = "waiting" => thread[cur] \in {"start", "ready", "notify"}
  /\ \A c \in Codecs : thread[c] = "waiting" => pbuffers[c] = <<>> /\ c \notin sourceQuit
  /\ pc = "join" => thread[cur] \notin {"none", "start", "ready", "waiting"}

\* how far a thread that was told to stop is from its end
Distance ==
  [start |-> 10, ready |-> 9, notify |-> 8, read |-> 7, waiting |-> 6, next |-> 5,
   eos |-> 4, render |-> 3, loop |-> 2, stopping |-> 1, ended |-> 0, none |-> 0]

\* nearer, or where it was with fewer buffers lent
Nearer(c) ==
  \/ Distance[thread'[c]] < Distance[thread[c]]
  \/ thread'[c] = thread[c] /\ lent'[c] \subseteq lent[c] /\ lent'[c] # lent[c]

\* What CallsReturn waits for comes nearer with every step of the decoder
\* thread: until it notified init(), and from the moment its two flags are up,
\* there is no way round the read loop that leads back.
ThreadNears ==
  [][\A c \in Codecs :
       DecoderThread(c) /\ (\/ thread[c] \in {"start", "ready", "notify"}
                            \/ c \in quit /\ c \in sourceQuit)
         => Nearer(c)]_vars

\* Every call of the renderer returns: init() hears of its thread, shutdown()
\* is never left waiting in the join by a thread asleep in nextBuffer().
CallsReturn == (pc # "idle") ~> (pc = "idle" \/ crashed)
=============================================================================
