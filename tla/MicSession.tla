----------------------------- MODULE MicSession -----------------------------
(***************************************************************************)
(* The microphone of a call or of the voice assistant: CarlinkitMicrophone *)
(* and the audio commands CarlinkitSession drives it with.  Three kinds of *)
(* threads meet in it: the driver's read thread runs the commands, each    *)
(* capture has a thread of its own that alone may close the AudioRecord    *)
(* while it lives, and session.stop() comes from the service.  A block     *)
(* synchronized on the microphone never waits inside, so it is one step.   *)
(*                                                                         *)
(* decodeType, sampleRate and chunkSamples change together: decodeType     *)
(* stands for the three.  A chunk is silent or not; any silent chunk may   *)
(* be the one that completes the second of silence that makes the capture  *)
(* switch its source.                                                      *)
(***************************************************************************)
EXTENDS Naturals

CONSTANTS
  Captures,      \* capture threads: bounds how many are alive at once
  Formats,       \* the usable decodeTypes, the mono ones
  Unusable,      \* decodeTypes without a mono format
  CallFormat,    \* decodeType 3, assumed for a call
  VoiceFormat,   \* decodeType 5, assumed for the assistant and at first
  Sources,       \* how many AudioSources there are to try
  Nothing        \* no capture thread, no AudioRecord

ASSUME FormatsAssumption ==
  /\ {CallFormat, VoiceFormat} \subseteq Formats
  /\ Formats \cap Unusable = {}
ASSUME NothingAssumption == Nothing \notin Captures \cup Formats
ASSUME SourcesAssumption == Sources \in Nat \ {0}

VARIABLES
  \* CarlinkitMicrophone
  decodeType, running,
  owner,         \* captureThread: who owns the device
  record,        \* the AudioRecord, as the format it was opened with
  source,        \* position in SOURCES of the source tried last
  heard,         \* peakAll: this capture has read a sound
  capture,       \* where each capture thread is
  \* CarlinkitSession
  micGone,       \* the mic field is null
  inputConfigSeen, phoneCallActive,
  callback,      \* the Activity has set it: a session may start without it
  asked,         \* the last onMicRequested() of the session asked for the mic
  skipped,       \* history: startMic() found no callback and went on
  reader,        \* where the read thread is
  job,           \* what it calls the microphone for
  want,          \* the decodeType it hands to setDecodeType()
  previous,      \* the capture thread start() waits for
  stopping       \* how far session.stop() is

device == <<owner, record, source, heard>>
micVars == <<decodeType, running, device>>
requests == <<callback, asked, skipped>>
session == <<micGone, inputConfigSeen, phoneCallActive, requests>>
call == <<reader, job, want, previous>>
vars == <<micVars, capture, session, call, stopping>>

Alive(t) == capture[t] # "dead"

Move(t, l) == capture' = [capture EXCEPT ![t] = l]

----------------------------------------------------------------------------
\* session.start() made the microphone; nothing has been captured.  A session of
\* the Activity has its callback, one of the USB receiver has none yet
Init ==
  /\ decodeType = VoiceFormat /\ running = FALSE
  /\ owner = Nothing /\ record = Nothing /\ source = 1 /\ heard = FALSE
  /\ capture = [t \in Captures |-> "dead"]
  /\ micGone = FALSE /\ inputConfigSeen = FALSE /\ phoneCallActive = FALSE
  /\ callback \in BOOLEAN /\ asked = FALSE /\ skipped = FALSE
  /\ reader = "idle" /\ job = "none" /\ want = Nothing /\ previous = Nothing
  /\ stopping = "no"

----------------------------------------------------------------------------
(* CarlinkitMicrophone.captureLoop(), the capture thread *)

\* fault: the loop does not look at running
CaptureLoopFault(t) ==
  /\ capture[t] = "loop"
  /\ Move(t, "read")
  /\ UNCHANGED micVars

CaptureLoop(t) ==
  /\ capture[t] = "loop"
  /\ Move(t, IF running THEN "read" ELSE "finally")
  /\ UNCHANGED micVars

\* record.read() returns: an error ends the capture, an empty read is retried,
\* a second of silence switches a source that never gave anything else, the
\* rest is sent
Read(t) ==
  /\ capture[t] = "read"
  /\ \/ Move(t, "finally") /\ UNCHANGED heard
     \/ Move(t, "loop") /\ heard' \in {heard, TRUE}
     \/ ~heard /\ source < Sources /\ Move(t, "switch") /\ UNCHANGED heard
  /\ UNCHANGED <<decodeType, running, owner, record, source>>

\* switchToNextSource()
Switch(t) ==
  /\ capture[t] = "switch"
  /\ Move(t, IF running THEN "open" ELSE "finally")
  /\ UNCHANGED micVars

\* openSource() of the next source, or of the one behind it when that fails
OpenNext(t) ==
  /\ capture[t] = "open"
  /\ source' = source + 1
  /\ \/ source < Sources /\ record' = decodeType /\ Move(t, "loop")
     \/ source < Sources /\ record' = Nothing /\ UNCHANGED capture
     \/ source = Sources /\ Move(t, "finally") /\ UNCHANGED record
  /\ UNCHANGED <<decodeType, running, owner, heard>>

\* the finally block: only the owner clears running and closes the device
Finally(t) ==
  /\ capture[t] = "finally"
  /\ Move(t, "verdict")
  /\ IF owner = t
       THEN running' = FALSE /\ owner' = Nothing /\ record' = Nothing
       ELSE UNCHANGED <<running, owner, record>>
  /\ UNCHANGED <<decodeType, source, heard>>

\* the log line, and the thread is gone
Verdict(t) ==
  /\ capture[t] = "verdict"
  /\ Move(t, "dead")
  /\ UNCHANGED micVars

Capture(t) ==
  /\ CaptureLoop(t) \/ Read(t) \/ Switch(t) \/ OpenNext(t) \/ Finally(t) \/ Verdict(t)
  /\ UNCHANGED <<session, call, stopping>>

----------------------------------------------------------------------------
(* CarlinkitMicrophone, called by the read thread *)

\* fault: stop() closes the device the capture thread reads from
MicStopFault ==
  running' = FALSE /\ record' = Nothing /\ UNCHANGED <<decodeType, owner, source, heard>>

\* stop() only signals
MicStop == running' = FALSE /\ UNCHANGED <<decodeType, device>>

\* the read thread goes on at l; a call that is over leaves nothing behind
Goto(l) ==
  /\ reader' = l
  /\ job' = IF l = "idle" THEN "none" ELSE job
  /\ UNCHANGED inputConfigSeen

\* The microphone returns to the session; ok says whether it captures, and only
\* startMic() looks at that.
Finish(ok) ==
  \/ job = "config" /\ inputConfigSeen' = TRUE /\ reader' = "idle" /\ job' = "none"
  \/ job = "guess" /\ job' = "start" /\ reader' = "check" /\ UNCHANGED inputConfigSeen
  \/ job = "start" /\ Goto(IF ok THEN "idle" ELSE "handBack")

\* fault: any decodeType will do
UsableFault(f) == f \in Formats \cup Unusable

Usable(f) == f \in Formats

\* fault: the new format is for the next capture
SetDecodeTypeFault ==
  /\ reader = "setType" /\ ~micGone
  /\ decodeType' = IF Usable(want) THEN want ELSE decodeType
  /\ Finish(TRUE)
  /\ want' = Nothing
  /\ UNCHANGED <<running, device, capture, previous>>

\* setDecodeType(): a new format restarts a running capture
SetDecodeType ==
  /\ reader = "setType" /\ ~micGone
  /\ decodeType' = IF Usable(want) THEN want ELSE decodeType
  /\ IF decodeType' # decodeType /\ running THEN Goto("restart") ELSE Finish(TRUE)
  /\ want' = Nothing
  /\ UNCHANGED <<running, device, capture, previous>>

Restart ==
  /\ reader = "restart"
  /\ MicStop
  /\ Goto("start")
  /\ UNCHANGED <<capture, want, previous>>

\* start(): nothing to do, or remembers the thread of the capture before
StartCall ==
  /\ reader = "start" \/ (reader = "mic.start" /\ ~micGone)
  /\ \/ running /\ Finish(TRUE) /\ UNCHANGED previous
     \/ ~running /\ previous' = owner /\ Goto("join")
  /\ UNCHANGED <<micVars, capture, want>>

\* the thread of the capture before is still there
Waiting == previous \in Captures /\ Alive(previous)

\* fault: what became of the join() is not looked at
JoinFault ==
  /\ reader = "join"
  /\ Goto("open")
  /\ previous' = Nothing
  /\ UNCHANGED <<micVars, capture, want>>

\* previous.join(400): start() refuses when the thread is still there
Join ==
  /\ reader = "join"
  /\ \/ ~Waiting /\ Goto("open")
     \/ Waiting /\ Finish(FALSE)
  /\ previous' = Nothing
  /\ UNCHANGED <<micVars, capture, want>>

\* startLocked(): walks the sources and hands the device to a new thread
Opened(t) ==
  /\ ~Alive(t)
  /\ source' \in 1..Sources /\ heard' = FALSE
  /\ record' = decodeType /\ owner' = t /\ running' = TRUE
  /\ Move(t, "loop")
  /\ Finish(TRUE)

\* no source opens, or the new thread does not start
NotOpened ==
  /\ \/ source' = Sources + 1 /\ UNCHANGED <<owner, heard>>
     \/ source' \in 1..Sources /\ owner' = Nothing /\ heard' = FALSE
  /\ record' = Nothing
  /\ Finish(FALSE)
  /\ UNCHANGED <<running, capture>>

StartLocked ==
  /\ reader = "open" /\ ~running
  /\ (\E t \in Captures : Opened(t)) \/ NotOpened
  /\ UNCHANGED <<decodeType, want, previous>>

Microphone ==
  /\ SetDecodeType \/ Restart \/ StartCall \/ Join \/ StartLocked
  /\ UNCHANGED <<micGone, phoneCallActive, requests, stopping>>

----------------------------------------------------------------------------
(* CarlinkitSession.handleMicCommand() and what it calls *)

\* the read thread takes a message while the driver runs
Dispatch == reader = "idle" /\ stopping # "driver"

Prepare(kind, f) == job' = kind /\ want' = f /\ reader' = "setType"

InputConfig(f) ==
  /\ ~micGone
  /\ Prepare("config", f)
  /\ UNCHANGED phoneCallActive

\* PHONECALL_START and SIRI_START: without InputConfig the format is a guess
StartCommand(f) ==
  IF inputConfigSeen \/ micGone
    THEN job' = "start" /\ reader' = "check" /\ UNCHANGED want
    ELSE Prepare("guess", f)

PhonecallStart == phoneCallActive' = TRUE /\ StartCommand(CallFormat)
SiriStart == StartCommand(VoiceFormat) /\ UNCHANGED phoneCallActive

\* PHONECALL_STOP, and MEDIA_START in the media format, which stands in for it
PhonecallStop == phoneCallActive' = FALSE /\ reader' = "stop" /\ UNCHANGED <<job, want>>
MediaStart == ~micGone /\ running /\ PhonecallStop

\* SIRI_STOP leaves the microphone to a call
SiriStop ==
  /\ ~phoneCallActive
  /\ reader' = "stop"
  /\ UNCHANGED <<phoneCallActive, job, want>>

\* onPhoneDisconnected()
PhoneDisconnected == phoneCallActive' = FALSE /\ UNCHANGED <<reader, job, want>>

Command ==
  /\ Dispatch
  /\ \/ \E f \in Formats \cup Unusable : InputConfig(f)
     \/ PhonecallStart \/ SiriStart \/ PhonecallStop \/ MediaStart \/ SiriStop
     \/ PhoneDisconnected
  /\ UNCHANGED <<micVars, capture, micGone, inputConfigSeen, requests, previous, stopping>>

\* The mic field is null where the session uses it: it returns, or dispatch()
\* catches the NullPointerException.
MicIsGone ==
  /\ reader \in {"setType", "check", "mic.start", "stop"} /\ micGone
  /\ Goto("idle")
  /\ want' = Nothing
  /\ UNCHANGED <<micVars, capture, asked, skipped>>

\* startMic(): nothing to do while a capture runs
Check ==
  /\ reader = "check" /\ ~micGone
  /\ Goto(IF running THEN "idle" ELSE "ask")
  /\ UNCHANGED <<micVars, capture, want, asked, skipped>>

\* onMicRequested(true); without a callback the capture starts all the same
Ask ==
  /\ reader = "ask"
  /\ asked' = (asked \/ callback) /\ skipped' = ~callback
  /\ Goto("mic.start")
  /\ UNCHANGED <<micVars, capture, want>>

\* fault: the microphone is handed back while it still captures
StopFault ==
  /\ reader = "stop" /\ ~micGone
  /\ asked' = FALSE
  /\ Goto("restart")
  /\ UNCHANGED <<micVars, capture, want, skipped>>

\* stopMic(): first the capture is told to end
Stop ==
  /\ reader = "stop" /\ ~micGone
  /\ MicStop
  /\ Goto("handBack")
  /\ UNCHANGED <<capture, want, asked, skipped>>

\* onMicRequested(false), when there is a callback
HandBack ==
  /\ reader = "handBack"
  /\ asked' = (asked /\ ~callback) /\ skipped' = FALSE
  /\ Goto("idle")
  /\ UNCHANGED <<micVars, capture, want>>

StartOrStop ==
  /\ MicIsGone \/ Check \/ Ask \/ Stop \/ HandBack
  /\ UNCHANGED <<previous, micGone, phoneCallActive, callback, stopping>>

ReaderEnds ==
  /\ reader = "idle" /\ stopping = "driver"
  /\ reader' = "ended"
  /\ UNCHANGED <<micVars, capture, session, job, want, previous, stopping>>

----------------------------------------------------------------------------
(* CarlinkitSession.setCallback() and stop(), on the main thread *)

\* the Activity binds to a service that has this session, at any moment of the
\* read thread; nobody takes the callback back
SetCallback ==
  /\ ~callback /\ stopping = "no"
  /\ callback' = TRUE
  /\ UNCHANGED <<micVars, capture, micGone, inputConfigSeen, phoneCallActive, asked, skipped,
                 call, stopping>>

Stopping(from, to) == stopping = from /\ stopping' = to /\ UNCHANGED <<capture, call>>

StopMicrophone == Stopping("no", "mic") /\ MicStop /\ UNCHANGED session

ForgetMicrophone ==
  /\ Stopping("mic", "null")
  /\ micGone' = TRUE
  /\ UNCHANGED <<micVars, inputConfigSeen, phoneCallActive, requests>>

StopDriver == Stopping("null", "driver") /\ UNCHANGED <<micVars, session>>

SessionStop == StopMicrophone \/ ForgetMicrophone \/ StopDriver

----------------------------------------------------------------------------
Next ==
  \/ \E t \in Captures : Capture(t)
  \/ Microphone \/ Command \/ StartOrStop \/ ReaderEnds \/ SetCallback \/ SessionStop

\* Every thread is scheduled, record.read() and openSource() return, join() has
\* a timeout and so has the callback.  No command has to come.  A stop() that
\* has begun goes on.
Fairness ==
  /\ \A t \in Captures : WF_vars(Capture(t))
  /\ WF_vars(Microphone) /\ WF_vars(StartOrStop) /\ WF_vars(ReaderEnds)
  /\ WF_vars(ForgetMicrophone \/ StopDriver)

Spec == Init /\ [][Next]_vars /\ Fairness

----------------------------------------------------------------------------
CapturePcs == {"dead", "loop", "read", "switch", "open", "finally", "verdict"}
ReaderPcs == {"idle", "setType", "restart", "start", "join", "open", "check", "ask",
              "mic.start", "stop", "handBack", "ended"}

TypeOK ==
  /\ decodeType \in Formats /\ running \in BOOLEAN
  /\ owner \in Captures \cup {Nothing} /\ record \in Formats \cup {Nothing}
  /\ source \in 1..(Sources + 1) /\ heard \in BOOLEAN
  /\ capture \in [Captures -> CapturePcs]
  /\ micGone \in BOOLEAN /\ inputConfigSeen \in BOOLEAN /\ phoneCallActive \in BOOLEAN
  /\ callback \in BOOLEAN /\ asked \in BOOLEAN /\ skipped \in BOOLEAN
  /\ reader \in ReaderPcs /\ job \in {"none", "config", "guess", "start"}
  /\ want \in Formats \cup Unusable \cup {Nothing} /\ previous \in Captures \cup {Nothing}
  /\ stopping \in {"no", "mic", "null", "driver"}

\* the capture thread may still touch the device
Capturing(t) == capture[t] \notin {"dead", "verdict"}

\* The thread in the capture loop is the owner of the device, so there is never
\* a second one; an open AudioRecord has an owner that will close it, and
\* isRunning() never says yes for a capture that is over (captureThread).
OwnerCaptures ==
  /\ \A t \in Captures : Capturing(t) <=> owner = t
  /\ running \/ record # Nothing => owner # Nothing

\* The AudioRecord a thread is reading from is not closed or replaced under it,
\* neither by stop() nor by a start() that follows ("use-after-free in native
\* code", stop; "releases the AudioRecord the old thread still reads", start).
ReadIsSafe ==
  [][\A t \in Captures : capture[t] = "read" /\ capture'[t] = "read" => record' = record]_vars

\* A session with a callback captures nothing it did not ask the head unit for:
\* startMic() asks first, stopMic() hands back last, and a restart keeps what was
\* asked.  The one capture without a request is that of a startMic() that found no
\* callback, and it stays the only one: what such a session does hold, it asked for
\* after it got its callback.
CaptureIsAsked ==
  /\ running => asked \/ skipped
  /\ asked => callback /\ ~skipped

\* The steps a capture that was told to end still has before its finally block:
\* it looks at running again after the read, after a switch and after each source
\* it opens.
StepsLeft(t) ==
  CASE capture[t] \in {"loop", "switch"} -> 1
    [] capture[t] = "read" -> 2
    [] capture[t] = "open" -> 3 + Sources - source
    [] OTHER -> 0

\* A capture that was told to end is never brought back to life, neither by a
\* restart nor by a start() that is waiting for it, and each of its own steps
\* brings it nearer to its end; nobody else's takes it further away.
StopIsFinal ==
  [][\A t \in Captures : owner = t /\ ~running /\ owner' = t =>
       /\ ~running'
       /\ \/ capture'[t] = capture[t] /\ source' = source
          \/ StepsLeft(t)' < StepsLeft(t)]_vars

\* A capture that was told to end gives the device back (stop, captureLoop).
StoppedCaptureEnds ==
  \A t \in Captures : (owner = t /\ ~running) ~> (owner # t)

\* A capture is in the format asked for, unless the read thread is about to end
\* it, or it has no AudioRecord just now: the one it opens is in that format.
FormatIsHonoured ==
  running /\ record # decodeType =>
    \/ reader = "restart"
    \/ record = Nothing /\ capture[owner] \in {"open", "finally"}

\* A capture does not go on in a format that is not the one asked for by then
\* (setDecodeType: "Restarts an ongoing capture when the format changes").
FormatSettles == (running /\ record # decodeType) ~> (~running \/ record = decodeType)

\* When the session was stopped and the read thread is gone, nothing captures
\* any more: "a record left in RECORDING holds the head unit's EcNc session
\* open" (captureLoop).
CaptureEndsWithSession == (reader = "ended") ~> (record = Nothing)

\* the read thread is past the last look at the session's mic field, in a call
\* that may open the device
InsideStart == reader \in {"restart", "start", "join", "open"}

\* Only such a call can outlive the session: once the microphone was forgotten,
\* told to stop, and the read thread is not inside setDecodeType() or start(), no
\* message, no capture and no late end of one gets it to capture again.
ForgottenStaysQuiet ==
  [][micGone /\ ~running /\ ~InsideStart => ~running' /\ ~InsideStart']_vars
=============================================================================
