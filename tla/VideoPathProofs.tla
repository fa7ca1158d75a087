--------------------------- MODULE VideoPathProofs ---------------------------
(***************************************************************************)
(* Proofs about VideoPath for any Surfaces and any connections of the      *)
(* phone.                                                                  *)
(***************************************************************************)
EXTENDS VideoPath, TLAPS

\* What TypeOK says of the flags, and of the streams and the counters.
FlagsType ==
  /\ valid \in Surfaces \cup {Nothing} /\ dying \in BOOLEAN /\ view \in BOOLEAN
  /\ surfaceReady \in BOOLEAN /\ screenTaken \in BOOLEAN /\ stopped \in BOOLEAN

StreamType ==
  /\ cache \in Streams \cup {Nothing} /\ params \in Streams \cup {Nothing}
  /\ stream \in Streams \cup {Nothing} /\ spsSent \in BOOLEAN /\ keyWanted \in BOOLEAN
  /\ behind \in BOOLEAN /\ fedTaken \in Nat

\* onSurfaceReady() goes on only with a decoder, and only while the session
\* lives; the Binder thread makes no other call than its own.
MainInv ==
  /\ pc["main"] \in {"cache", "inject"} => Running
  /\ pc["main"] \in {"ready", "start", "cache", "inject", "keyframe"} => ~stopped
  /\ pc["binder"] \in {"idle", "handback"}

\* The read thread has a message exactly while it handles one, and the parameter
\* sets it has are those it put into the cache.
ReadInv ==
  /\ read = "idle" <=> frame = Nothing
  /\ frame = "sps" => stream = cache

\* A decoder the main thread made shows on the Surface that is there, until the
\* main thread stops it.
LifeInv ==
  Running /\ decoder.by = "main" =>
    /\ decoder.surface = valid /\ view
    /\ stopped => pc["main"] = "joined"
    /\ pc["main"] \notin {"clear", "unready"}

\* A decoder without the sets of the stream gets them: they are on their way, or
\* onSurfaceReady() is or will be injecting them.
KnowInv ==
  Running /\ cache # Nothing =>
    \/ decoder.params = cache \/ behind
    \/ frame = "sps"
    \/ pc["main"] \in {"start", "cache", "inject"}
    \/ ~surfaceReady

\* One frame at most is past the check of screenTakenByHeadUnit.
TakenInv ==
  screenTaken => fedTaken <= 1 /\ (read \in {"running", "start", "feed"} => fedTaken = 0)

IInv == TypeOK /\ MainInv /\ ReadInv /\ LifeInv /\ KnowInv /\ TakenInv

USE NothingAssumption, DecoderAssumption

\* start() leaves a decoder, or none.
LEMMA StartType ==
  ASSUME TypeOK, NEW by \in {"main", "read"}, VideoStart(by)
  PROVE  decoder' \in Decoder \cup {Nothing}
<1>1. CASE UNCHANGED decoder
  BY <1>1 DEF TypeOK
<1>2. CASE /\ valid # Nothing
           /\ decoder' = [surface |-> valid, by |-> by,
                           params |-> Nothing, picture |-> FALSE]
  <2>1. valid \in Surfaces
    BY <1>2 DEF TypeOK
  <2> QED
    BY <1>2, <2>1 DEF Decoder
<1> QED
  BY <1>1, <1>2 DEF VideoStart

\* A frame changes what the decoder has, not that it is there.
LEMMA DecodedType ==
  ASSUME TypeOK, Running
  PROVE  Decoded \in Decoder
<1>1. decoder \in Decoder
  BY DEF TypeOK, Running
<1>2. CASE frame = "sps" /\ stream \in Streams \cup {Nothing}
  BY <1>1, <1>2 DEF Decoder, Decoded
<1>3. CASE frame = "key"
  <2>1. Decoded = [decoder EXCEPT !.picture = (decoder.params = stream)]
    BY <1>3 DEF Decoded
  <2> QED
    BY <1>1, <2>1 DEF Decoder
<1>4. CASE frame # "sps" /\ frame # "key"
  BY <1>1, <1>4 DEF Decoded
<1> QED
  BY <1>2, <1>3, <1>4 DEF TypeOK

\* The system makes a Surface.
LEMMA SurfaceCreatedKeeps ==
  ASSUME IInv, SurfaceCreated,
         UNCHANGED <<cache, stream, spsSent, read, frame>>
  PROVE  IInv'
<1> USE DEF IInv, surface, flags, dongle, Threads, MainIdle, SurfaceCreated
<1>1. TypeOK'
  BY DEF TypeOK, MainPc, ReadPc, Frames, Decoder
<1>2. MainInv'
  BY DEF TypeOK, MainInv, Running
<1>3. ReadInv'
  BY DEF TypeOK, ReadInv, Frames
<1>4. LifeInv'
  <2>1. Running => decoder.surface \in Surfaces
    BY DEF TypeOK, Running, Decoder
  <2> QED
    BY <2>1 DEF TypeOK, MainInv, LifeInv, Running
<1>5. KnowInv'
  BY DEF TypeOK, MainInv, ReadInv, KnowInv, Running, Frames
<1>6. TakenInv'
  BY DEF TypeOK, TakenInv
<1> QED
  BY <1>1, <1>2, <1>3, <1>4, <1>5, <1>6

\* attachSurface() sets the view.
LEMMA AttachKeeps ==
  ASSUME IInv, Attach,
         UNCHANGED <<cache, stream, spsSent, read, frame>>
  PROVE  IInv'
<1> USE DEF IInv, surface, flags, dongle, Threads, Goto, MainIdle, Attach
<1>1. TypeOK'
  BY DEF TypeOK, MainPc, ReadPc, Frames, Decoder
<1>2. MainInv'
  BY DEF TypeOK, MainInv, Running
<1>3. ReadInv'
  BY DEF TypeOK, ReadInv, Frames
<1>4. LifeInv'
  BY DEF TypeOK, MainInv, LifeInv, Running
<1>5. KnowInv'
  BY DEF TypeOK, MainInv, ReadInv, KnowInv, Running, Frames
<1>6. TakenInv'
  BY DEF TypeOK, TakenInv
<1> QED
  BY <1>1, <1>2, <1>3, <1>4, <1>5, <1>6

\* onSurfaceReady() sets its flag.
LEMMA SurfaceReadyKeeps ==
  ASSUME IInv, SurfaceReady,
         UNCHANGED <<cache, stream, spsSent, read, frame>>
  PROVE  IInv'
<1> USE DEF IInv, surface, flags, dongle, Threads, Goto, SurfaceReady
<1>1. TypeOK'
  BY DEF TypeOK, MainPc, ReadPc, Frames, Decoder
<1>2. MainInv'
  BY DEF TypeOK, MainInv, Running
<1>3. ReadInv'
  BY DEF TypeOK, ReadInv, Frames
<1>4. LifeInv'
  BY DEF TypeOK, MainInv, LifeInv, Running
<1>5. KnowInv'
  BY DEF TypeOK, MainInv, ReadInv, KnowInv, Running, Frames
<1>6. TakenInv'
  BY DEF TypeOK, TakenInv
<1> QED
  BY <1>1, <1>2, <1>3, <1>4, <1>5, <1>6

\* onSurfaceReady() starts the decoder.
LEMMA MainStartKeeps ==
  ASSUME IInv, MainStart,
         UNCHANGED <<cache, stream, spsSent, read, frame>>
  PROVE  IInv'
<1> USE DEF IInv, surface, flags, dongle, Threads, Goto, MainStart, VideoStart
<1>1. TypeOK'
  <2>1. decoder' \in Decoder \cup {Nothing}
    BY StartType
  <2>2. pc' \in [Threads -> MainPc]
    BY DEF TypeOK, MainPc
  <2>3. read' \in ReadPc /\ frame' \in Frames \cup {Nothing}
    BY DEF TypeOK, ReadPc, Frames
  <2>4. FlagsType' /\ StreamType'
    BY DEF TypeOK, FlagsType, StreamType
  <2> QED
    BY <2>1, <2>2, <2>3, <2>4 DEF TypeOK, FlagsType, StreamType
<1>2. MainInv'
  BY DEF TypeOK, MainInv, Running
<1>3. ReadInv'
  BY DEF TypeOK, ReadInv, Frames
<1>4. LifeInv'
  BY DEF TypeOK, MainInv, LifeInv, Running
<1>5. KnowInv'
  BY DEF TypeOK, MainInv, ReadInv, KnowInv, Running, Frames
<1>6. TakenInv'
  BY DEF TypeOK, TakenInv
<1> QED
  BY <1>1, <1>2, <1>3, <1>4, <1>5, <1>6

\* onSurfaceReady() copies the cached sets.
LEMMA ReadCacheKeeps ==
  ASSUME IInv, ReadCache,
         UNCHANGED <<cache, stream, spsSent, read, frame>>
  PROVE  IInv'
<1> USE DEF IInv, surface, flags, dongle, Threads, Goto, ReadCache
<1>1. TypeOK'
  BY DEF TypeOK, MainPc, ReadPc, Frames, Decoder
<1>2. MainInv'
  BY DEF TypeOK, MainInv, Running
<1>3. ReadInv'
  BY DEF TypeOK, ReadInv, Frames
<1>4. LifeInv'
  BY DEF TypeOK, MainInv, LifeInv, Running
<1>5. KnowInv'
  BY DEF TypeOK, MainInv, ReadInv, KnowInv, Running, Frames
<1>6. TakenInv'
  BY DEF TypeOK, TakenInv
<1> QED
  BY <1>1, <1>2, <1>3, <1>4, <1>5, <1>6

\* onSurfaceReady() injects them.
LEMMA InjectKeeps ==
  ASSUME IInv, Inject,
         UNCHANGED <<cache, stream, spsSent, read, frame>>
  PROVE  IInv'
<1> USE DEF IInv, surface, flags, dongle, Threads, Goto, Inject
<1>1. TypeOK'
  <2>1. decoder' \in Decoder \cup {Nothing}
    BY DEF TypeOK, MainInv, Running, Decoder
  <2>2. pc' \in [Threads -> MainPc]
    BY DEF TypeOK, MainPc
  <2>3. read' \in ReadPc /\ frame' \in Frames \cup {Nothing}
    BY DEF TypeOK, ReadPc, Frames
  <2>4. FlagsType' /\ StreamType'
    BY DEF TypeOK, FlagsType, StreamType
  <2> QED
    BY <2>1, <2>2, <2>3, <2>4 DEF TypeOK, FlagsType, StreamType
<1>2. MainInv'
  BY DEF TypeOK, MainInv, Running
<1>3. ReadInv'
  BY DEF TypeOK, ReadInv, Frames
<1>4. LifeInv'
  BY DEF TypeOK, MainInv, LifeInv, Running
<1>5. KnowInv'
  BY DEF TypeOK, MainInv, ReadInv, KnowInv, Running, Frames
<1>6. TakenInv'
  BY DEF TypeOK, TakenInv
<1> QED
  BY <1>1, <1>2, <1>3, <1>4, <1>5, <1>6

\* onSurfaceReady() asks for a keyframe.
LEMMA AskKeyframeKeeps ==
  ASSUME IInv, AskKeyframe,
         UNCHANGED <<cache, stream, spsSent, read, frame>>
  PROVE  IInv'
<1> USE DEF IInv, surface, flags, dongle, Threads, Goto, AskKeyframe
<1>1. TypeOK'
  BY DEF TypeOK, MainPc, ReadPc, Frames, Decoder
<1>2. MainInv'
  BY DEF TypeOK, MainInv, Running
<1>3. ReadInv'
  BY DEF TypeOK, ReadInv, Frames
<1>4. LifeInv'
  BY DEF TypeOK, MainInv, LifeInv, Running
<1>5. KnowInv'
  BY DEF TypeOK, MainInv, ReadInv, KnowInv, Running, Frames
<1>6. TakenInv'
  BY DEF TypeOK, TakenInv
<1> QED
  BY <1>1, <1>2, <1>3, <1>4, <1>5, <1>6

\* detachSurface() stops the decoder.
LEMMA DetachKeeps ==
  ASSUME IInv, Detach,
         UNCHANGED <<cache, stream, spsSent, read, frame>>
  PROVE  IInv'
<1> USE DEF IInv, surface, flags, dongle, Threads, Goto, MainIdle, Detach, VideoStop
<1>1. TypeOK'
  <2>1. decoder' \in Decoder \cup {Nothing}
    BY DEF TypeOK
  <2>2. pc' \in [Threads -> MainPc]
    BY DEF TypeOK, MainPc
  <2>3. read' \in ReadPc /\ frame' \in Frames \cup {Nothing}
    BY DEF TypeOK, ReadPc, Frames
  <2>4. FlagsType' /\ StreamType'
    BY DEF TypeOK, FlagsType, StreamType
  <2> QED
    BY <2>1, <2>2, <2>3, <2>4 DEF TypeOK, FlagsType, StreamType
<1>2. MainInv'
  BY DEF TypeOK, MainInv, Running
<1>3. ReadInv'
  BY DEF TypeOK, ReadInv, Frames
<1>4. LifeInv'
  BY DEF TypeOK, MainInv, LifeInv, Running
<1>5. KnowInv'
  BY DEF TypeOK, MainInv, ReadInv, KnowInv, Running, Frames
<1>6. TakenInv'
  BY DEF TypeOK, TakenInv
<1> QED
  BY <1>1, <1>2, <1>3, <1>4, <1>5, <1>6

\* detachSurface() clears the view.
LEMMA ClearViewKeeps ==
  ASSUME IInv, ClearView,
         UNCHANGED <<cache, stream, spsSent, read, frame>>
  PROVE  IInv'
<1> USE DEF IInv, surface, flags, dongle, Threads, Goto, ClearView
<1>1. TypeOK'
  <2>1. decoder' \in Decoder \cup {Nothing}
    BY DEF TypeOK
  <2>2. pc' \in [Threads -> MainPc]
    BY DEF TypeOK, MainPc
  <2>3. read' \in ReadPc /\ frame' \in Frames \cup {Nothing}
    BY DEF TypeOK, ReadPc, Frames
  <2>4. FlagsType' /\ StreamType'
    BY DEF TypeOK, FlagsType, StreamType
  <2> QED
    BY <2>1, <2>2, <2>3, <2>4 DEF TypeOK, FlagsType, StreamType
<1>2. MainInv'
  BY DEF TypeOK, MainInv, Running
<1>3. ReadInv'
  BY DEF TypeOK, ReadInv, Frames
<1>4. LifeInv'
  BY DEF TypeOK, MainInv, LifeInv, Running
<1>5. KnowInv'
  BY DEF TypeOK, MainInv, ReadInv, KnowInv, Running, Frames
<1>6. TakenInv'
  BY DEF TypeOK, TakenInv
<1> QED
  BY <1>1, <1>2, <1>3, <1>4, <1>5, <1>6

\* detachSurface() clears its flag.
LEMMA UnreadyKeeps ==
  ASSUME IInv, Unready,
         UNCHANGED <<cache, stream, spsSent, read, frame>>
  PROVE  IInv'
<1> USE DEF IInv, surface, flags, dongle, Threads, Goto, Unready
<1>1. TypeOK'
  <2>1. decoder' \in Decoder \cup {Nothing}
    BY DEF TypeOK
  <2>2. pc' \in [Threads -> MainPc]
    BY DEF TypeOK, MainPc
  <2>3. read' \in ReadPc /\ frame' \in Frames \cup {Nothing}
    BY DEF TypeOK, ReadPc, Frames
  <2>4. FlagsType' /\ StreamType'
    BY DEF TypeOK, FlagsType, StreamType
  <2> QED
    BY <2>1, <2>2, <2>3, <2>4 DEF TypeOK, FlagsType, StreamType
<1>2. MainInv'
  BY DEF TypeOK, MainInv, Running
<1>3. ReadInv'
  BY DEF TypeOK, ReadInv, Frames
<1>4. LifeInv'
  BY DEF TypeOK, MainInv, LifeInv, Running
<1>5. KnowInv'
  BY DEF TypeOK, MainInv, ReadInv, KnowInv, Running, Frames
<1>6. TakenInv'
  BY DEF TypeOK, TakenInv
<1> QED
  BY <1>1, <1>2, <1>3, <1>4, <1>5, <1>6

\* stop() stops the driver.
LEMMA StopSessionKeeps ==
  ASSUME IInv, StopSession,
         UNCHANGED <<cache, stream, spsSent, read, frame>>
  PROVE  IInv'
<1> USE DEF IInv, surface, flags, dongle, Threads, Goto, MainIdle, StopSession
<1>1. TypeOK'
  BY DEF TypeOK, MainPc, ReadPc, Frames, Decoder
<1>2. MainInv'
  BY DEF TypeOK, MainInv, Running
<1>3. ReadInv'
  BY DEF TypeOK, ReadInv, Frames
<1>4. LifeInv'
  BY DEF TypeOK, MainInv, LifeInv, Running
<1>5. KnowInv'
  BY DEF TypeOK, MainInv, ReadInv, KnowInv, Running, Frames
<1>6. TakenInv'
  BY DEF TypeOK, TakenInv
<1> QED
  BY <1>1, <1>2, <1>3, <1>4, <1>5, <1>6

\* stop() stops the decoder.
LEMMA StopVideoKeeps ==
  ASSUME IInv, StopVideo,
         UNCHANGED <<cache, stream, spsSent, read, frame>>
  PROVE  IInv'
<1> USE DEF IInv, surface, flags, dongle, Threads, Goto, StopVideo, VideoStop
<1>1. TypeOK'
  <2>1. decoder' \in Decoder \cup {Nothing}
    BY DEF TypeOK
  <2>2. pc' \in [Threads -> MainPc]
    BY DEF TypeOK, MainPc
  <2>3. read' \in ReadPc /\ frame' \in Frames \cup {Nothing}
    BY DEF TypeOK, ReadPc, Frames
  <2>4. FlagsType' /\ StreamType'
    BY DEF TypeOK, FlagsType, StreamType
  <2> QED
    BY <2>1, <2>2, <2>3, <2>4 DEF TypeOK, FlagsType, StreamType
<1>2. MainInv'
  BY DEF TypeOK, MainInv, Running
<1>3. ReadInv'
  BY DEF TypeOK, ReadInv, Frames
<1>4. LifeInv'
  BY DEF TypeOK, MainInv, LifeInv, Running
<1>5. KnowInv'
  BY DEF TypeOK, MainInv, ReadInv, KnowInv, Running, Frames
<1>6. TakenInv'
  BY DEF TypeOK, TakenInv
<1> QED
  BY <1>1, <1>2, <1>3, <1>4, <1>5, <1>6

\* The head unit takes the screen.
LEMMA TakeScreenKeeps ==
  ASSUME IInv, NEW t \in Threads, TakeScreen(t),
         UNCHANGED <<cache, stream, spsSent, read, frame>>
  PROVE  IInv'
<1> USE DEF IInv, surface, flags, dongle, Threads, TakeScreen
<1>1. TypeOK'
  BY DEF TypeOK, MainPc, ReadPc, Frames, Decoder
<1>2. MainInv'
  BY DEF TypeOK, MainInv, Running
<1>3. ReadInv'
  BY DEF TypeOK, ReadInv, Frames
<1>4. LifeInv'
  BY DEF TypeOK, MainInv, LifeInv, Running
<1>5. KnowInv'
  BY DEF TypeOK, MainInv, ReadInv, KnowInv, Running, Frames
<1>6. TakenInv'
  BY DEF TypeOK, TakenInv
<1> QED
  BY <1>1, <1>2, <1>3, <1>4, <1>5, <1>6

\* The head unit hands the screen back.
LEMMA HandBackScreenKeeps ==
  ASSUME IInv, NEW t \in Threads, HandBackScreen(t),
         UNCHANGED <<cache, stream, spsSent, read, frame>>
  PROVE  IInv'
<1> USE DEF IInv, surface, flags, dongle, Threads, Goto, HandBackScreen
<1>1. TypeOK'
  <2>1. decoder' \in Decoder \cup {Nothing}
    BY DEF TypeOK
  <2>2. pc' \in [Threads -> MainPc]
    BY DEF TypeOK, MainPc
  <2>3. read' \in ReadPc /\ frame' \in Frames \cup {Nothing}
    BY DEF TypeOK, ReadPc, Frames
  <2>4. FlagsType' /\ StreamType'
    BY DEF TypeOK, FlagsType, StreamType
  <2> QED
    BY <2>1, <2>2, <2>3, <2>4 DEF TypeOK, FlagsType, StreamType
<1>2. MainInv'
  BY DEF TypeOK, MainInv, Running
<1>3. ReadInv'
  BY DEF TypeOK, ReadInv, Frames
<1>4. LifeInv'
  BY DEF TypeOK, MainInv, LifeInv, Running
<1>5. KnowInv'
  BY DEF TypeOK, MainInv, ReadInv, KnowInv, Running, Frames
<1>6. TakenInv'
  BY DEF TypeOK, TakenInv
<1> QED
  BY <1>1, <1>2, <1>3, <1>4, <1>5, <1>6

\* The call that handed it back returns.
LEMMA HandedBackKeeps ==
  ASSUME IInv, NEW t \in Threads, HandedBack(t),
         UNCHANGED <<cache, stream, spsSent, read, frame>>
  PROVE  IInv'
<1> USE DEF IInv, surface, flags, dongle, Threads, Goto, HandedBack
<1>1. TypeOK'
  BY DEF TypeOK, MainPc, ReadPc, Frames, Decoder
<1>2. MainInv'
  BY DEF TypeOK, MainInv, Running
<1>3. ReadInv'
  BY DEF TypeOK, ReadInv, Frames
<1>4. LifeInv'
  BY DEF TypeOK, MainInv, LifeInv, Running
<1>5. KnowInv'
  BY DEF TypeOK, MainInv, ReadInv, KnowInv, Running, Frames
<1>6. TakenInv'
  BY DEF TypeOK, TakenInv
<1> QED
  BY <1>1, <1>2, <1>3, <1>4, <1>5, <1>6

\* The dongle sends the parameter sets.
LEMMA ReceiveSpsKeeps ==
  ASSUME IInv, ReceiveSps,
         UNCHANGED <<surface, flags, params, pc>>
  PROVE  IInv'
<1> USE DEF IInv, surface, flags, dongle, Threads, ReceiveSps, Receives, Handle
<1>1. TypeOK'
  BY DEF TypeOK, MainPc, ReadPc, Frames, Decoder
<1>2. MainInv'
  BY DEF TypeOK, MainInv, Running
<1>3. ReadInv'
  BY DEF TypeOK, ReadInv, Frames
<1>4. LifeInv'
  BY DEF TypeOK, MainInv, LifeInv, Running
<1>5. KnowInv'
  BY DEF TypeOK, MainInv, ReadInv, KnowInv, Running, Frames
<1>6. TakenInv'
  BY DEF TypeOK, TakenInv
<1> QED
  BY <1>1, <1>2, <1>3, <1>4, <1>5, <1>6

\* The dongle sends a keyframe.
LEMMA ReceiveKeyKeeps ==
  ASSUME IInv, ReceiveKey,
         UNCHANGED <<surface, flags, params, pc>>
  PROVE  IInv'
<1> USE DEF IInv, surface, flags, dongle, Threads, ReceiveKey, Receives, Handle
<1>1. TypeOK'
  <2>1. decoder' \in Decoder \cup {Nothing}
    BY DEF TypeOK
  <2>2. pc' \in [Threads -> MainPc]
    BY DEF TypeOK, MainPc
  <2>3. read' \in ReadPc /\ frame' \in Frames \cup {Nothing}
    BY DEF TypeOK, ReadPc, Frames
  <2>4. FlagsType' /\ StreamType'
    BY DEF TypeOK, FlagsType, StreamType
  <2> QED
    BY <2>1, <2>2, <2>3, <2>4 DEF TypeOK, FlagsType, StreamType
<1>2. MainInv'
  BY DEF TypeOK, MainInv, Running
<1>3. ReadInv'
  BY DEF TypeOK, ReadInv, Frames
<1>4. LifeInv'
  BY DEF TypeOK, MainInv, LifeInv, Running
<1>5. KnowInv'
  BY DEF TypeOK, MainInv, ReadInv, KnowInv, Running, Frames
<1>6. TakenInv'
  BY DEF TypeOK, TakenInv
<1> QED
  BY <1>1, <1>2, <1>3, <1>4, <1>5, <1>6

\* The dongle sends another slice.
LEMMA ReceiveSliceKeeps ==
  ASSUME IInv, ReceiveSlice,
         UNCHANGED <<surface, flags, params, pc>>
  PROVE  IInv'
<1> USE DEF IInv, surface, flags, dongle, Threads, ReceiveSlice, Receives, Handle
<1>1. TypeOK'
  <2>1. decoder' \in Decoder \cup {Nothing}
    BY DEF TypeOK
  <2>2. pc' \in [Threads -> MainPc]
    BY DEF TypeOK, MainPc
  <2>3. read' \in ReadPc /\ frame' \in Frames \cup {Nothing}
    BY DEF TypeOK, ReadPc, Frames
  <2>4. FlagsType' /\ StreamType'
    BY DEF TypeOK, FlagsType, StreamType
  <2> QED
    BY <2>1, <2>2, <2>3, <2>4 DEF TypeOK, FlagsType, StreamType
<1>2. MainInv'
  BY DEF TypeOK, MainInv, Running
<1>3. ReadInv'
  BY DEF TypeOK, ReadInv, Frames
<1>4. LifeInv'
  BY DEF TypeOK, MainInv, LifeInv, Running
<1>5. KnowInv'
  BY DEF TypeOK, MainInv, ReadInv, KnowInv, Running, Frames
<1>6. TakenInv'
  BY DEF TypeOK, TakenInv
<1> QED
  BY <1>1, <1>2, <1>3, <1>4, <1>5, <1>6

\* A phone connects.
LEMMA PluggedKeeps ==
  ASSUME IInv, Plugged,
         UNCHANGED <<surface, flags, params, pc>>
  PROVE  IInv'
<1> USE DEF IInv, surface, flags, dongle, Threads, Plugged, Receives
<1>1. TypeOK'
  BY DEF TypeOK, MainPc, ReadPc, Frames, Decoder
<1>2. MainInv'
  BY DEF TypeOK, MainInv, Running
<1>3. ReadInv'
  BY DEF TypeOK, ReadInv, Frames
<1>4. LifeInv'
  BY DEF TypeOK, MainInv, LifeInv, Running
<1>5. KnowInv'
  BY DEF TypeOK, MainInv, ReadInv, KnowInv, Running, Frames
<1>6. TakenInv'
  BY DEF TypeOK, TakenInv
<1> QED
  BY <1>1, <1>2, <1>3, <1>4, <1>5, <1>6

\* The phone goes.
LEMMA UnpluggedKeeps ==
  ASSUME IInv, Unplugged,
         UNCHANGED <<surface, flags, params, pc>>
  PROVE  IInv'
<1> USE DEF IInv, surface, flags, dongle, Threads, Unplugged, Receives
<1>1. TypeOK'
  <2>1. decoder' \in Decoder \cup {Nothing}
    BY DEF TypeOK
  <2>2. pc' \in [Threads -> MainPc]
    BY DEF TypeOK, MainPc
  <2>3. read' \in ReadPc /\ frame' \in Frames \cup {Nothing}
    BY DEF TypeOK, ReadPc, Frames
  <2>4. FlagsType' /\ StreamType'
    BY DEF TypeOK, FlagsType, StreamType
  <2> QED
    BY <2>1, <2>2, <2>3, <2>4 DEF TypeOK, FlagsType, StreamType
<1>2. MainInv'
  BY DEF TypeOK, MainInv, Running
<1>3. ReadInv'
  BY DEF TypeOK, ReadInv, Frames
<1>4. LifeInv'
  BY DEF TypeOK, MainInv, LifeInv, Running
<1>5. KnowInv'
  BY DEF TypeOK, MainInv, ReadInv, KnowInv, Running, Frames
<1>6. TakenInv'
  BY DEF TypeOK, TakenInv
<1> QED
  BY <1>1, <1>2, <1>3, <1>4, <1>5, <1>6

\* onVideoFrame() looks at surfaceReady.
LEMMA CheckSurfaceKeeps ==
  ASSUME IInv, CheckSurface,
         UNCHANGED <<surface, flags, params, pc>>
  PROVE  IInv'
<1> USE DEF IInv, surface, flags, dongle, Threads, CheckSurface, Step
<1>1. TypeOK'
  <2>1. decoder' \in Decoder \cup {Nothing}
    BY DEF TypeOK
  <2>2. pc' \in [Threads -> MainPc]
    BY DEF TypeOK, MainPc
  <2>3. read' \in ReadPc /\ frame' \in Frames \cup {Nothing}
    BY DEF TypeOK, ReadPc, Frames
  <2>4. FlagsType' /\ StreamType'
    BY DEF TypeOK, FlagsType, StreamType
  <2> QED
    BY <2>1, <2>2, <2>3, <2>4 DEF TypeOK, FlagsType, StreamType
<1>2. MainInv'
  BY DEF TypeOK, MainInv, Running
<1>3. ReadInv'
  <2>1. read # "idle" /\ frame # Nothing
    BY DEF ReadInv
  <2> QED
    BY <2>1 DEF ReadInv, Frames
<1>4. LifeInv'
  BY DEF TypeOK, MainInv, LifeInv, Running
<1>5. KnowInv'
  BY DEF TypeOK, MainInv, ReadInv, KnowInv, Running, Frames
<1>6. TakenInv'
  BY DEF TypeOK, TakenInv
<1> QED
  BY <1>1, <1>2, <1>3, <1>4, <1>5, <1>6

\* onVideoFrame() looks at the screen.
LEMMA CheckScreenKeeps ==
  ASSUME IInv, CheckScreen,
         UNCHANGED <<surface, flags, params, pc>>
  PROVE  IInv'
<1> USE DEF IInv, surface, flags, dongle, Threads, CheckScreen, Step
<1>1. TypeOK'
  <2>1. decoder' \in Decoder \cup {Nothing}
    BY DEF TypeOK
  <2>2. pc' \in [Threads -> MainPc]
    BY DEF TypeOK, MainPc
  <2>3. read' \in ReadPc /\ frame' \in Frames \cup {Nothing}
    BY DEF TypeOK, ReadPc, Frames
  <2>4. FlagsType' /\ StreamType'
    BY DEF TypeOK, FlagsType, StreamType
  <2> QED
    BY <2>1, <2>2, <2>3, <2>4 DEF TypeOK, FlagsType, StreamType
<1>2. MainInv'
  BY DEF TypeOK, MainInv, Running
<1>3. ReadInv'
  <2>1. read # "idle" /\ frame # Nothing
    BY DEF ReadInv
  <2> QED
    BY <2>1 DEF ReadInv, Frames
<1>4. LifeInv'
  BY DEF TypeOK, MainInv, LifeInv, Running
<1>5. KnowInv'
  BY DEF TypeOK, MainInv, ReadInv, KnowInv, Running, Frames
<1>6. TakenInv'
  BY DEF TypeOK, TakenInv
<1> QED
  BY <1>1, <1>2, <1>3, <1>4, <1>5, <1>6

\* onVideoFrame() looks at the decoder.
LEMMA CheckRunningKeeps ==
  ASSUME IInv, CheckRunning,
         UNCHANGED <<surface, flags, params, pc>>
  PROVE  IInv'
<1> USE DEF IInv, surface, flags, dongle, Threads, CheckRunning, Step
<1>1. TypeOK'
  <2>1. decoder' \in Decoder \cup {Nothing}
    BY DEF TypeOK
  <2>2. pc' \in [Threads -> MainPc]
    BY DEF TypeOK, MainPc
  <2>3. read' \in ReadPc /\ frame' \in Frames \cup {Nothing}
    BY DEF TypeOK, ReadPc, Frames
  <2>4. FlagsType' /\ StreamType'
    BY DEF TypeOK, FlagsType, StreamType
  <2> QED
    BY <2>1, <2>2, <2>3, <2>4 DEF TypeOK, FlagsType, StreamType
<1>2. MainInv'
  BY DEF TypeOK, MainInv, Running
<1>3. ReadInv'
  <2>1. read # "idle" /\ frame # Nothing
    BY DEF ReadInv
  <2> QED
    BY <2>1 DEF ReadInv, Frames
<1>4. LifeInv'
  BY DEF TypeOK, MainInv, LifeInv, Running
<1>5. KnowInv'
  BY DEF TypeOK, MainInv, ReadInv, KnowInv, Running, Frames
<1>6. TakenInv'
  BY DEF TypeOK, TakenInv
<1> QED
  BY <1>1, <1>2, <1>3, <1>4, <1>5, <1>6

\* onVideoFrame() starts the decoder.
LEMMA ReadStartKeeps ==
  ASSUME IInv, ReadStart,
         UNCHANGED <<surface, flags, params, pc>>
  PROVE  IInv'
<1> USE DEF IInv, surface, flags, dongle, Threads, ReadStart, VideoStart, Step
<1>1. TypeOK'
  <2>1. decoder' \in Decoder \cup {Nothing}
    BY StartType
  <2>2. pc' \in [Threads -> MainPc]
    BY DEF TypeOK, MainPc
  <2>3. read' \in ReadPc /\ frame' \in Frames \cup {Nothing}
    BY DEF TypeOK, ReadPc, Frames
  <2>4. FlagsType' /\ StreamType'
    BY DEF TypeOK, FlagsType, StreamType
  <2> QED
    BY <2>1, <2>2, <2>3, <2>4 DEF TypeOK, FlagsType, StreamType
<1>2. MainInv'
  BY DEF TypeOK, MainInv, Running
<1>3. ReadInv'
  <2>1. read # "idle" /\ frame # Nothing
    BY DEF ReadInv
  <2> QED
    BY <2>1 DEF ReadInv, Frames
<1>4. LifeInv'
  BY DEF TypeOK, MainInv, LifeInv, Running
<1>5. KnowInv'
  BY DEF TypeOK, MainInv, ReadInv, KnowInv, Running, Frames
<1>6. TakenInv'
  BY DEF TypeOK, TakenInv
<1> QED
  BY <1>1, <1>2, <1>3, <1>4, <1>5, <1>6

\* The frame is fed.
LEMMA FeedKeeps ==
  ASSUME IInv, Feed,
         UNCHANGED <<surface, flags, params, pc>>
  PROVE  IInv'
<1> USE DEF IInv, surface, flags, dongle, Threads, Feed, Step, Decoded
<1>1. TypeOK'
  <2>1. decoder' \in Decoder \cup {Nothing}
    BY DecodedType DEF TypeOK
  <2>2. pc' \in [Threads -> MainPc]
    BY DEF TypeOK, MainPc
  <2>3. read' \in ReadPc /\ frame' \in Frames \cup {Nothing}
    BY DEF TypeOK, ReadPc, Frames
  <2>4. FlagsType' /\ StreamType'
    BY DEF TypeOK, FlagsType, StreamType
  <2> QED
    BY <2>1, <2>2, <2>3, <2>4 DEF TypeOK, FlagsType, StreamType
<1>2. MainInv'
  <2>1. Running => decoder' # Nothing
    BY DecodedType DEF Running
  <2> QED
    BY <2>1 DEF MainInv, Running
<1>3. ReadInv'
  BY DEF TypeOK, ReadInv, Frames
<1>4. LifeInv'
  BY DEF TypeOK, MainInv, LifeInv, Running
<1>5. KnowInv'
  BY DEF TypeOK, MainInv, ReadInv, KnowInv, Running, Frames
<1>6. TakenInv'
  BY DEF TypeOK, TakenInv
<1> QED
  BY <1>1, <1>2, <1>3, <1>4, <1>5, <1>6

(***************************************************************************)
(* The invariant.                                                          *)
(***************************************************************************)

\* At first there is no Surface, no decoder and no phone.
LEMMA InitInv == Init => IInv
<1> SUFFICES ASSUME Init PROVE IInv
  OBVIOUS
<1>1. TypeOK
  BY DEF Init, TypeOK, Threads, MainPc, ReadPc
<1>2. MainInv /\ ReadInv /\ LifeInv /\ KnowInv /\ TakenInv
  BY DEF Init, MainInv, ReadInv, LifeInv, KnowInv, TakenInv, Threads, Running, Frames
<1> QED
  BY <1>1, <1>2 DEF IInv

\* The invariant is inductive.
LEMMA Inductive == IInv /\ [Next]_vars => IInv'
<1> SUFFICES ASSUME IInv, [Next]_vars PROVE IInv'
  OBVIOUS
<1>1. CASE MainGoesOn
  BY <1>1, SurfaceReadyKeeps, MainStartKeeps, ReadCacheKeeps, InjectKeeps, AskKeyframeKeeps,
     ClearViewKeeps, UnreadyKeeps, StopVideoKeeps, HandedBackKeeps
  DEF MainGoesOn, OnSurfaceReady, Teardown, Threads
<1>2. CASE BinderGoesOn
  BY <1>2, HandedBackKeeps DEF BinderGoesOn, Threads
<1>3. CASE Events
  BY <1>3, SurfaceCreatedKeeps, AttachKeeps, DetachKeeps, StopSessionKeeps, TakeScreenKeeps,
     HandBackScreenKeeps DEF Events
<1>4. CASE Reader
  BY <1>4, ReceiveSpsKeeps, ReceiveKeyKeeps, ReceiveSliceKeeps, PluggedKeeps,
     UnpluggedKeeps, CheckSurfaceKeeps, CheckScreenKeeps, CheckRunningKeeps, ReadStartKeeps,
     FeedKeeps
  DEF Reader, Messages, OnVideoFrame
<1>5. CASE UNCHANGED vars
  <2>1. UNCHANGED <<valid, dying, view, surfaceReady, screenTaken, stopped, decoder, cache,
                    params, stream, spsSent, keyWanted, pc, read, frame, behind, fedTaken>>
    BY <1>5 DEF vars, surface, flags, dongle
  <2> QED
    BY <2>1 DEF IInv, TypeOK, MainInv, ReadInv, LifeInv, KnowInv, TakenInv, Running
<1> QED
  BY <1>1, <1>2, <1>3, <1>4, <1>5 DEF Next

LEMMA AlwaysIInv == Spec => []IInv
<1> QED
  BY InitInv, Inductive, PTL DEF Spec

(***************************************************************************)
(* Theorems.                                                               *)
(***************************************************************************)

\* Every variable keeps its type.
THEOREM TypeCorrect == Spec => []TypeOK
<1>1. IInv => TypeOK
  BY DEF IInv
<1> QED
  BY AlwaysIInv, <1>1, PTL

\* Only a restart by the read thread leaves a decoder without its Surface, its
\* view or its session (detachSurface, stop).
THEOREM OnlyRestartOutlives == Spec => []OutlivesOnlyByRestart
<1>1. ASSUME IInv PROVE OutlivesOnlyByRestart
  <2>1. Running => decoder.by \in {"main", "read"}
    BY <1>1 DEF IInv, TypeOK, Running, Decoder
  <2> QED
    BY <1>1, <2>1 DEF IInv, LifeInv, OutlivesOnlyByRestart, MainIdle
<1> QED
  BY AlwaysIInv, <1>1, PTL

\* The parameter sets come once: whichever of the frames and of onSurfaceReady()
\* is first, the decoder has those of the stream, or lacks them for a known reason.
THEOREM SetsKnown == Spec => []DecoderKnowsStream
<1>1. ASSUME IInv PROVE DecoderKnowsStream
  <2>1. read = "idle" => frame # "sps"
    BY <1>1 DEF IInv, ReadInv, Frames
  <2> QED
    BY <1>1, <2>1 DEF IInv, KnowInv, DecoderKnowsStream, MainIdle
<1> QED
  BY AlwaysIInv, <1>1, PTL

\* After the head unit took the screen one frame at most is decoded.
THEOREM OneFrameSlips == Spec => []OneFrameAfterTaken
<1>1. IInv => OneFrameAfterTaken
  BY DEF IInv, TakenInv, OneFrameAfterTaken
<1> QED
  BY AlwaysIInv, <1>1, PTL

(***************************************************************************)
(* The keyframe.                                                           *)
(***************************************************************************)

\* What the read thread put into the cache is of the stream that is being sent.
CacheInv == cache # Nothing => cache = stream

\* A decoder that waits for a picture stays one that has asked for it, whatever
\* the main thread does.
LEMMA MainKeepsKeyframe ==
  ASSUME IInv, CacheInv, KeyframeIsComing, MainGoesOn
  PROVE  KeyframeIsComing'
<1> USE DEF IInv, KeyframeIsComing, Running, Goto, Threads, surface, flags, dongle
<1>1. pc \in [Threads -> MainPc]
  BY DEF TypeOK
<1>2. UNCHANGED <<cache, frame>>
  BY DEF MainGoesOn
<1>3. CASE SurfaceReady
  BY <1>1, <1>2, <1>3 DEF SurfaceReady
<1>4. CASE MainStart
  BY <1>1, <1>2, <1>4 DEF MainStart, VideoStart
<1>5. CASE ReadCache
  BY <1>1, <1>2, <1>5 DEF ReadCache
<1>6. CASE Inject
  BY <1>1, <1>2, <1>6 DEF Inject
<1>7. CASE AskKeyframe
  BY <1>1, <1>2, <1>7 DEF AskKeyframe
<1>8. CASE ClearView
  BY <1>1, <1>2, <1>8 DEF ClearView
<1>9. CASE Unready
  BY <1>1, <1>2, <1>9 DEF Unready
<1>10. CASE StopVideo
  BY <1>1, <1>2, <1>10 DEF StopVideo, VideoStop
<1>11. CASE HandedBack("main")
  BY <1>1, <1>2, <1>11 DEF HandedBack
<1> QED
  BY <1>3, <1>4, <1>5, <1>6, <1>7, <1>8, <1>9, <1>10, <1>11
  DEF MainGoesOn, OnSurfaceReady, Teardown

\* The Binder thread asks where a picture could be shown.
LEMMA BinderKeepsKeyframe ==
  ASSUME IInv, KeyframeIsComing, BinderGoesOn
  PROVE  KeyframeIsComing'
<1>1. pc \in [Threads -> MainPc]
  BY DEF IInv, TypeOK
<1>2. HandedBack("binder") /\ UNCHANGED <<cache, frame>>
  BY DEF BinderGoesOn
<1> QED
  BY <1>1, <1>2 DEF HandedBack, KeyframeIsComing, Running, Goto, Threads, surface, flags

\* Nor does a Surface, a stop or the screen that comes and goes.
LEMMA EventsKeepKeyframe ==
  ASSUME IInv, KeyframeIsComing, Events
  PROVE  KeyframeIsComing'
<1> USE DEF IInv, KeyframeIsComing, Running, Goto, Threads, MainIdle, surface, flags, dongle
<1>1. pc \in [Threads -> MainPc]
  BY DEF TypeOK
<1>2. UNCHANGED <<cache, frame>>
  BY DEF Events
<1>3. CASE SurfaceCreated
  BY <1>1, <1>2, <1>3 DEF SurfaceCreated
<1>4. CASE Attach
  BY <1>1, <1>2, <1>4 DEF Attach
<1>5. CASE Detach
  BY <1>1, <1>2, <1>5 DEF Detach, VideoStop
<1>6. CASE StopSession
  BY <1>1, <1>2, <1>6 DEF StopSession
<1>7. ASSUME NEW t \in Threads, TakeScreen(t) PROVE KeyframeIsComing'
  BY <1>1, <1>2, <1>7 DEF TakeScreen
<1>8. ASSUME NEW t \in Threads, HandBackScreen(t) PROVE KeyframeIsComing'
  BY <1>1, <1>2, <1>8 DEF HandBackScreen
<1> QED
  BY <1>3, <1>4, <1>5, <1>6, <1>7, <1>8 DEF Events

\* The cache follows the stream: sets are offered while it runs, and the end of
\* the stream clears them.
LEMMA CacheFollows ==
  ASSUME CacheInv, [Next]_vars
  PROVE  CacheInv'
<1> USE DEF CacheInv
<1>1. CASE Messages
  BY <1>1 DEF Messages, ReceiveSps, ReceiveKey, ReceiveSlice, Plugged, Unplugged, dongle
<1>2. CASE OnVideoFrame
  BY <1>2 DEF OnVideoFrame, CheckSurface, CheckScreen, CheckRunning, ReadStart, Feed, dongle
<1>3. CASE UNCHANGED <<cache, stream>>
  BY <1>3
<1> QED
  BY <1>1, <1>2, <1>3
  DEF Next, MainGoesOn, BinderGoesOn, Events, Reader, vars, dongle

\* The read thread uses a request up only with a keyframe in hand, and a keyframe
\* is dropped only where none can be shown.
LEMMA ReaderKeepsKeyframe ==
  ASSUME IInv, CacheInv, KeyframeIsComing, Reader
  PROVE  KeyframeIsComing'
<1> USE DEF IInv, KeyframeIsComing, Running, Threads, surface, flags, dongle
<1>1. UNCHANGED <<valid, view, surfaceReady, screenTaken, stopped, pc>>
  BY DEF Reader
<1>2. read = "idle" => frame = Nothing
  BY DEF ReadInv
<1>3. Nothing \notin Frames
  OBVIOUS
<1>4. CASE ReceiveSps
  BY <1>1, <1>4 DEF ReceiveSps, Handle
<1>5. CASE ReceiveKey
  BY <1>1, <1>5 DEF ReceiveKey, Handle
<1>6. CASE ReceiveSlice
  BY <1>1, <1>2, <1>3, <1>6 DEF ReceiveSlice, Receives, Handle, Frames
<1>7. CASE Plugged
  BY <1>1, <1>7 DEF Plugged
<1>8. CASE Unplugged
  BY <1>1, <1>8 DEF Unplugged
<1>9. CASE CheckSurface
  BY <1>1, <1>9 DEF CheckSurface, Step
<1>10. CASE CheckScreen
  BY <1>1, <1>10 DEF CheckScreen, Step
<1>11. CASE CheckRunning
  BY <1>1, <1>11 DEF CheckRunning, Step
<1>12. CASE ReadStart
  BY <1>1, <1>12 DEF ReadStart, Step, VideoStart
<1>13. CASE Feed
  <2>1. UNCHANGED <<cache, stream, keyWanted>>
    BY <1>13 DEF Feed
  <2>2. CASE ~Running
    BY <1>13, <2>2 DEF Feed
  <2>3. CASE Running /\ frame \in {"sps", "key"}
    <3>1. decoder \in Decoder /\ decoder' = Decoded
      BY <1>13, <2>3 DEF Feed, TypeOK
    <3>2. CASE frame = "sps"
      <4>1. decoder'.picture = TRUE
        BY <3>1, <3>2 DEF Decoded, Decoder
      <4> QED
        BY <4>1
    <3>3. CASE frame = "key"
      <4>1. decoder'.picture = (decoder.params = stream) /\ decoder'.params = decoder.params
        BY <3>1, <3>3 DEF Decoded, Decoder
      <4> QED
        BY <2>1, <4>1 DEF CacheInv
    <3> QED
      BY <2>3, <3>2, <3>3
  <2>4. CASE Running /\ frame \notin {"sps", "key"}
    <3>1. decoder' = decoder
      BY <1>13, <2>4 DEF Feed, Decoded
    <3> QED
      BY <1>1, <2>1, <2>4, <3>1
  <2> QED
    BY <2>2, <2>3, <2>4
<1> QED
  BY <1>4, <1>5, <1>6, <1>7, <1>8, <1>9, <1>10, <1>11, <1>12, <1>13
  DEF Reader, Messages, OnVideoFrame

\* A decoder that waits for its picture has a keyframe coming, whatever the
\* surface callbacks, the frames and the head unit interleave: the part of
\* ReadyGetsPicture that asks nothing of the scheduler.
THEOREM KeyframeComes == Spec => []KeyframeIsComing
<1>1. Init => CacheInv /\ KeyframeIsComing
  BY DEF Init, CacheInv, KeyframeIsComing
<1>2. ASSUME IInv, CacheInv, KeyframeIsComing, [Next]_vars
      PROVE  CacheInv' /\ KeyframeIsComing'
  <2>1. CacheInv'
    BY <1>2, CacheFollows
  <2>2. UNCHANGED vars => KeyframeIsComing'
    BY <1>2 DEF vars, surface, flags, dongle, KeyframeIsComing, Running
  <2>3. KeyframeIsComing'
    BY <1>2, <2>2, MainKeepsKeyframe, BinderKeepsKeyframe, EventsKeepKeyframe,
       ReaderKeepsKeyframe
    DEF Next
  <2> QED
    BY <2>1, <2>3
<1> QED
  BY AlwaysIInv, <1>1, <1>2, PTL DEF Spec
=============================================================================
