----------------------------- MODULE VideoPath -----------------------------
(***************************************************************************)
(* From a VIDEO_DATA message to the decoder: the parameter set cache, the  *)
(* video side of CarlinkitSession and CarlinkitVideoRenderer.  Three       *)
(* threads meet here: the main thread (surface, window focus, stop), the   *)
(* driver's read thread (frames) and a Binder thread of the head unit (the *)
(* screen is taken or handed back).                                        *)
(*                                                                         *)
(* The synchronized methods of the renderer and of the cache are one step  *)
(* each; the session holds no lock, so every gap between two is a step.    *)
(* A stream is what one connection of the phone sends: its parameter sets  *)
(* come once, with the first picture.                                      *)
(***************************************************************************)
EXTENDS Naturals

CONSTANTS
  Surfaces,    \* Surface objects of the SurfaceView, one after the other
  Streams,     \* connections of the phone
  Nothing

ASSUME NothingAssumption == Nothing \notin Surfaces \cup Streams

VARIABLES
  valid,         \* the valid Surface of the SurfaceView
  dying,         \* the main thread is in surfaceDestroyed()
  view,          \* renderer.surfaceView is set
  surfaceReady,  \* the session's flag
  screenTaken,   \* screenTakenByHeadUnit
  stopped,       \* stop() of the session was called
  decoder,       \* renderer.codec, which exists exactly while running is set
  cache,         \* ParameterSetCache.parameterSets, by stream
  params,        \* the copy onSurfaceReady() took
  stream,        \* the stream the dongle sends
  spsSent,       \* its parameter sets went out
  keyWanted,     \* a keyframe was asked for
  pc,            \* where the main and the Binder thread are
  read,          \* where the read thread is in onVideoFrame()
  frame,         \* the message it has
  behind,        \* history: the decoder lacks parameter sets for a known reason
  fedTaken       \* history: frames decoded since the screen was taken

surface == <<valid, dying, view>>
flags == <<surfaceReady, screenTaken, stopped>>
dongle == <<stream, spsSent, keyWanted>>
vars == <<surface, flags, decoder, cache, params, dongle, pc, read, frame, behind,
          fedTaken>>

Threads == {"main", "binder"}
MainPc == {"idle", "ready", "start", "cache", "inject", "keyframe", "clear", "unready",
           "joined", "handback"}
ReadPc == {"idle", "surface", "screen", "running", "start", "feed"}
Frames == {"sps", "key", "slice"}
Decoder == [surface : Surfaces, by : {"main", "read"},
            params : Streams \cup {Nothing}, picture : BOOLEAN]

ASSUME DecoderAssumption == Nothing \notin Decoder \cup Frames

Goto(t, place) == pc' = [pc EXCEPT ![t] = place]
Running == decoder # Nothing

----------------------------------------------------------------------------
Init ==
  /\ valid = Nothing /\ dying = FALSE /\ view = FALSE
  /\ surfaceReady = FALSE /\ screenTaken = FALSE /\ stopped = FALSE
  /\ decoder = Nothing /\ cache = Nothing /\ params = Nothing
  /\ stream = Nothing /\ spsSent = FALSE /\ keyWanted = FALSE
  /\ pc = [t \in Threads |-> "idle"]
  /\ read = "idle" /\ frame = Nothing
  /\ behind = FALSE /\ fedTaken = 0

(***************************************************************************)
(* CarlinkitVideoRenderer.                                                 *)
(***************************************************************************)

\* start(): nothing to do when it runs, nothing without a valid Surface, and
\* the native init() may fail
VideoStart(by) ==
  \/ Running /\ UNCHANGED decoder
  \/ /\ ~Running /\ view /\ valid # Nothing
     /\ decoder' = [surface |-> valid, by |-> by, params |-> Nothing, picture |-> FALSE]
  \/ ~Running /\ UNCHANGED decoder

\* fault: the decoder is only paused
VideoStopFault == UNCHANGED <<decoder, behind>>

VideoStop == decoder' = Nothing /\ behind' = FALSE

\* what a frame does to a running decoder: a keyframe needs the right sets
Decoded ==
  CASE frame = "sps" -> [decoder EXCEPT !.params = stream, !.picture = TRUE]
    [] frame = "key" -> [decoder EXCEPT !.picture = (decoder.params = stream)]
    [] OTHER -> decoder

(***************************************************************************)
(* The main thread.                                                        *)
(***************************************************************************)
MainIdle == pc["main"] = "idle"

\* the system made a new Surface; surfaceChanged() is still to come
SurfaceCreated ==
  /\ MainIdle /\ valid = Nothing
  /\ \E s \in Surfaces :
       /\ Running => s # decoder.surface
       /\ valid' = s
  /\ UNCHANGED <<dying, view, flags, decoder, params, keyWanted, pc, behind, fedTaken>>

\* attachSurface(): surfaceChanged(), openDevice() and onServiceConnected() do
\* it before onSurfaceReady()
Attach ==
  /\ MainIdle /\ valid # Nothing /\ ~stopped
  /\ view' = TRUE
  /\ Goto("main", "ready")
  /\ UNCHANGED <<valid, dying, flags, decoder, params, keyWanted, behind, fedTaken>>

SurfaceReady ==
  /\ pc["main"] = "ready"
  /\ surfaceReady' = TRUE
  /\ Goto("main", "start")
  /\ UNCHANGED <<surface, screenTaken, stopped, decoder, params, keyWanted, behind,
                 fedTaken>>

MainStart ==
  /\ pc["main"] = "start"
  /\ VideoStart("main")
  /\ Goto("main", IF decoder' = Nothing THEN "idle" ELSE "cache")
  /\ UNCHANGED <<surface, flags, params, keyWanted, behind, fedTaken>>

ReadCache ==
  /\ pc["main"] = "cache"
  /\ params' = cache
  /\ Goto("main", IF cache = Nothing THEN "keyframe" ELSE "inject")
  /\ UNCHANGED <<surface, flags, decoder, keyWanted, behind, fedTaken>>

\* fault: only a decoder that shows a picture is taken for a running one
InjectFault ==
  /\ pc["main"] = "inject"
  /\ decoder' = IF decoder.picture THEN [decoder EXCEPT !.params = params] ELSE decoder
  /\ params' = Nothing
  /\ Goto("main", "keyframe")
  /\ UNCHANGED <<surface, flags, keyWanted, behind, fedTaken>>

\* reinjectParameterSets(): the copy may be of a stream that ended meanwhile
Inject ==
  /\ pc["main"] = "inject"
  /\ decoder' = [decoder EXCEPT !.params = params,
                                !.picture = @ /\ decoder.params = params]
  /\ behind' = (params # cache)
  /\ params' = Nothing
  /\ Goto("main", "keyframe")
  /\ UNCHANGED <<surface, flags, keyWanted, fedTaken>>

\* fault: the dongle is not asked, the next keyframe is waited for
AskKeyframeFault ==
  /\ pc["main"] = "keyframe"
  /\ Goto("main", "idle")
  /\ UNCHANGED <<surface, flags, decoder, params, keyWanted, behind, fedTaken>>

\* requestKeyFrame(); that send() may refuse it, when commands fill its queue, is
\* outside the model: the session does not look at the result
AskKeyframe ==
  /\ pc["main"] = "keyframe"
  /\ keyWanted' = TRUE
  /\ Goto("main", "idle")
  /\ UNCHANGED <<surface, flags, decoder, params, behind, fedTaken>>

\* detachSurface(), of surfaceDestroyed() or of releaseSurface(), where the
\* Surface stays valid; video.stop() comes first
Detach ==
  /\ MainIdle /\ ~stopped
  /\ dying' \in {FALSE, valid # Nothing}
  /\ VideoStop
  /\ Goto("main", "clear")
  /\ UNCHANGED <<valid, view, flags, params, keyWanted, fedTaken>>

ClearView ==
  /\ pc["main"] = "clear"
  /\ view' = FALSE
  /\ Goto("main", "unready")
  /\ UNCHANGED <<valid, dying, flags, decoder, params, keyWanted, behind, fedTaken>>

\* the end of detachSurface() and of stop(); a dying Surface is invalid as
\* soon as the callback returns
Unready ==
  /\ pc["main"] = "unready"
  /\ surfaceReady' = FALSE
  /\ valid' = IF dying THEN Nothing ELSE valid
  /\ dying' = FALSE
  /\ Goto("main", "idle")
  /\ UNCHANGED <<view, screenTaken, stopped, decoder, params, keyWanted, behind, fedTaken>>

\* stop() of the session: driver.stop() first, whose join may expire
StopSession ==
  /\ MainIdle /\ ~stopped
  /\ stopped' = TRUE
  /\ Goto("main", "joined")
  /\ UNCHANGED <<surface, surfaceReady, screenTaken, decoder, params, keyWanted, behind,
                 fedTaken>>

StopVideo ==
  /\ pc["main"] = "joined"
  /\ VideoStop
  /\ Goto("main", "unready")
  /\ UNCHANGED <<surface, flags, params, keyWanted, fedTaken>>

(***************************************************************************)
(* onScreenTakenByHeadUnit(): window focus on the main thread, the         *)
(* projection listener on a Binder thread.                                 *)
(***************************************************************************)
TakeScreen(t) ==
  /\ pc[t] = "idle" /\ ~screenTaken /\ ~stopped
  /\ screenTaken' = TRUE
  /\ fedTaken' = 0
  /\ UNCHANGED <<surface, surfaceReady, stopped, decoder, params, keyWanted, pc, behind>>

HandBackScreen(t) ==
  /\ pc[t] = "idle" /\ screenTaken /\ ~stopped
  /\ screenTaken' = FALSE
  /\ fedTaken' = 0
  /\ Goto(t, "handback")
  /\ UNCHANGED <<surface, surfaceReady, stopped, decoder, params, keyWanted, behind>>

\* the three reads of the condition are one step: each only gates the request
HandedBack(t) ==
  /\ pc[t] = "handback"
  /\ keyWanted' = (keyWanted \/ (surfaceReady /\ Running /\ ~stopped))
  /\ Goto(t, "idle")
  /\ UNCHANGED <<surface, flags, decoder, params, behind, fedTaken>>

(***************************************************************************)
(* The read thread: dispatch() of a video message, and onVideoFrame().     *)
(***************************************************************************)
Receives == read = "idle" /\ ~stopped

Handle(f) == frame' = f /\ read' = "surface"

\* the next step of onVideoFrame(), which forgets the message when it returns
Step(place) ==
  /\ read' = place
  /\ frame' = IF place = "idle" THEN Nothing ELSE frame

\* offer() comes before the listener
ReceiveSps ==
  /\ Receives
  /\ stream # Nothing /\ ~spsSent
  /\ cache' = stream
  /\ spsSent' = TRUE
  /\ Handle("sps")
  /\ UNCHANGED <<stream, keyWanted, decoder, behind, fedTaken>>

ReceiveKey ==
  /\ Receives
  /\ spsSent /\ keyWanted
  /\ keyWanted' = FALSE
  /\ Handle("key")
  /\ UNCHANGED <<stream, spsSent, cache, decoder, behind, fedTaken>>

\* fault: a slice is handled without a stream
ReceiveSliceFault ==
  /\ Receives
  /\ Handle("p-slice")
  /\ UNCHANGED <<dongle, cache, decoder, behind, fedTaken>>

ReceiveSlice ==
  /\ Receives
  /\ spsSent
  /\ Handle("slice")
  /\ UNCHANGED <<dongle, cache, decoder, behind, fedTaken>>

Plugged ==
  /\ Receives
  /\ stream = Nothing
  /\ \E s \in Streams : stream' = s
  /\ UNCHANGED <<spsSent, keyWanted, cache, read, frame, decoder, behind, fedTaken>>

\* UNPLUGGED: the cache is cleared
Unplugged ==
  /\ Receives
  /\ stream # Nothing
  /\ stream' = Nothing
  /\ spsSent' = FALSE
  /\ cache' = Nothing
  /\ UNCHANGED <<keyWanted, read, frame, decoder, behind, fedTaken>>

CheckSurface ==
  /\ read = "surface"
  /\ Step(IF surfaceReady THEN "screen" ELSE "idle")
  /\ UNCHANGED <<dongle, cache, decoder, behind, fedTaken>>

\* fault: the screen is not looked at
CheckScreenFault ==
  /\ read = "screen"
  /\ Step("running")
  /\ UNCHANGED <<dongle, cache, decoder, behind, fedTaken>>

\* parameter sets dropped here are never injected: handing back the screen
\* only asks for a keyframe
CheckScreen ==
  /\ read = "screen"
  /\ Step(IF screenTaken THEN "idle" ELSE "running")
  /\ behind' = (behind \/ (screenTaken /\ frame = "sps" /\ Running))
  /\ UNCHANGED <<dongle, cache, decoder, fedTaken>>

CheckRunning ==
  /\ read = "running"
  /\ Step(IF Running THEN "feed" ELSE "start")
  /\ UNCHANGED <<dongle, cache, decoder, behind, fedTaken>>

\* the read thread starts the decoder itself, and injects nothing
ReadStart ==
  /\ read = "start"
  /\ VideoStart("read")
  /\ behind' = (behind \/ (~Running /\ decoder' # Nothing))
  /\ Step("feed")
  /\ UNCHANGED <<dongle, cache, fedTaken>>

\* onFrame()
Feed ==
  /\ read = "feed"
  /\ decoder' = IF Running THEN Decoded ELSE decoder
  /\ behind' = (behind /\ frame # "sps")
  /\ fedTaken' = IF Running /\ screenTaken THEN fedTaken + 1 ELSE fedTaken
  /\ Step("idle")
  /\ UNCHANGED <<dongle, cache>>

----------------------------------------------------------------------------
OnSurfaceReady == SurfaceReady \/ MainStart \/ ReadCache \/ Inject \/ AskKeyframe
Teardown == ClearView \/ Unready \/ StopVideo

MainGoesOn ==
  /\ OnSurfaceReady \/ Teardown \/ HandedBack("main")
  /\ UNCHANGED <<cache, stream, spsSent, read, frame>>

BinderGoesOn == HandedBack("binder") /\ UNCHANGED <<cache, stream, spsSent, read, frame>>

Events ==
  /\ \/ SurfaceCreated
     \/ Attach
     \/ Detach
     \/ StopSession
     \/ \E t \in Threads : TakeScreen(t) \/ HandBackScreen(t)
  /\ UNCHANGED <<cache, stream, spsSent, read, frame>>

Messages == ReceiveSps \/ ReceiveKey \/ ReceiveSlice \/ Plugged \/ Unplugged
OnVideoFrame == CheckSurface \/ CheckScreen \/ CheckRunning \/ ReadStart \/ Feed

Reader == (Messages \/ OnVideoFrame) /\ UNCHANGED <<surface, flags, params, pc>>

Next == MainGoesOn \/ BinderGoesOn \/ Events \/ Reader

Spec == Init /\ [][Next]_vars

\* every thread is scheduled; a dongle that streams sends the parameter sets
\* first and answers a request for a keyframe among its other messages
FairSpec ==
  /\ Spec
  /\ WF_vars(MainGoesOn)
  /\ WF_vars(BinderGoesOn)
  /\ WF_vars(OnVideoFrame /\ UNCHANGED <<surface, flags, params, pc>>)
  /\ SF_vars(ReceiveKey /\ UNCHANGED <<surface, flags, params, pc>>)

(***************************************************************************)
(* Properties.                                                             *)
(***************************************************************************)

\* Every variable keeps its type.
TypeOK ==
  /\ valid \in Surfaces \cup {Nothing} /\ dying \in BOOLEAN /\ view \in BOOLEAN
  /\ surfaceReady \in BOOLEAN /\ screenTaken \in BOOLEAN /\ stopped \in BOOLEAN
  /\ decoder \in Decoder \cup {Nothing}
  /\ cache \in Streams \cup {Nothing} /\ params \in Streams \cup {Nothing}
  /\ stream \in Streams \cup {Nothing} /\ spsSent \in BOOLEAN /\ keyWanted \in BOOLEAN
  /\ pc \in [Threads -> MainPc]
  /\ read \in ReadPc /\ frame \in Frames \cup {Nothing}
  /\ behind \in BOOLEAN /\ fedTaken \in Nat

\* After detachSurface() or stop() returned no decoder runs: "On exit, the
\* video stops".  The read thread, which still sees surfaceReady, starts it
\* again between video.stop() and setSurfaceView(null).
DetachedIsStopped == MainIdle /\ ~view => ~Running

\* A decoder the main thread made never outlives its Surface, its view or its
\* session: the restart by the read thread is the only way one does.
OutlivesOnlyByRestart ==
  MainIdle /\ Running /\ (decoder.surface # valid \/ ~view \/ stopped)
    => decoder.by = "read"

\* The parameter sets are offered to the cache before surfaceReady is looked
\* at, and surfaceReady is set before the cache is read: so a running decoder
\* of a ready surface has the sets of the stream, unless it was restarted by the
\* read thread, the head unit had the screen when they came, or the phone
\* reconnected while older ones were being injected.
DecoderKnowsStream ==
  MainIdle /\ read = "idle" /\ Running /\ surfaceReady /\ cache # Nothing
    => decoder.params = cache \/ behind

\* Of the frames that come after the head unit took the screen at most one is
\* decoded, the one that was past the check: it is dropped for all others,
\* whichever thread reported it.
OneFrameAfterTaken == screenTaken => fedTaken <= 1

\* A decoder that has the parameter sets of the stream and shows no picture is
\* not forgotten: while the surface is ready and the screen is ours, a keyframe
\* is asked for, is in hand, or somebody is about to ask (requestKeyframe() in
\* onSurfaceReady() and after the screen was handed back).
KeyframeIsComing ==
  /\ surfaceReady /\ ~screenTaken /\ ~stopped
  /\ Running /\ cache # Nothing /\ decoder.params = cache /\ ~decoder.picture
  => \/ keyWanted
     \/ frame \in {"key", "sps"}
     \/ pc["main"] \in {"start", "cache", "inject", "keyframe"}
     \/ \E t \in Threads : pc[t] = "handback"

\* Once onSurfaceReady() has injected the parameter sets a picture comes,
\* unless the decoder is stopped, the screen is taken, or the phone goes.
ReadyGetsPicture ==
  (pc["main"] = "keyframe" /\ cache # Nothing /\ Running /\ decoder.params = cache)
    ~> (~Running \/ decoder.picture \/ screenTaken \/ cache = Nothing \/ stopped)
=============================================================================
