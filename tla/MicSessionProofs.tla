-------------------------- MODULE MicSessionProofs --------------------------
(***************************************************************************)
(* Proofs about MicSession for any set of capture threads, any formats and *)
(* any number of audio sources.                                            *)
(***************************************************************************)
EXTENDS MicSession, TLAPS

\* How far start() got: the capture before is told to end when it waits for it,
\* and over when it opens the device; nothing captures when the microphone is
\* handed back.
CallInv ==
  /\ reader = "join" => ~running /\ owner \in {previous, Nothing}
  /\ reader = "open" => ~running /\ owner = Nothing
  /\ reader = "handBack" => ~running

\* every way to a new capture starts with startMic(), or with a capture
AskedInv ==
  reader \in {"restart", "start", "join", "open", "mic.start"} => asked \/ skipped

IInv == TypeOK /\ OwnerCaptures /\ CallInv /\ CaptureIsAsked /\ AskedInv

\* the prover sees every tuple of unchanged variables
USE FormatsAssumption, NothingAssumption, SourcesAssumption
    DEF vars, micVars, device, session, requests, call, Move

----------------------------------------------------------------------------
\* A session that just started captures nothing and asked for nothing.
LEMMA InitInv == Init => IInv
<1> SUFFICES ASSUME Init PROVE IInv
  OBVIOUS
<1>1. TypeOK
  <2>1. capture \in [Captures -> CapturePcs] /\ reader \in ReaderPcs
    BY DEF Init, CapturePcs, ReaderPcs
  <2>2. source \in 1..(Sources + 1) /\ decodeType \in Formats
    BY DEF Init
  <2> QED
    BY <2>1, <2>2 DEF Init, TypeOK
<1>2. OwnerCaptures
  BY DEF Init, OwnerCaptures, Capturing
<1> QED
  BY <1>1, <1>2 DEF Init, IInv, CallInv, CaptureIsAsked, AskedInv

\* What a step of a capture thread does to the device: it is the owner's.
LEMMA CaptureDevice ==
  ASSUME IInv, NEW t \in Captures, Capture(t)
  PROVE  /\ \A u \in Captures \ {t} : capture'[u] = capture[u]
         /\ capture' \in [Captures -> CapturePcs]
         /\ \/ /\ Capturing(t) /\ owner = t
               /\ Capturing(t)' /\ UNCHANGED <<running, owner>>
            \/ /\ Capturing(t) /\ owner = t
               /\ ~Capturing(t)' /\ running' = FALSE /\ owner' = Nothing /\ record' = Nothing
            \/ ~Capturing(t) /\ ~Capturing(t)' /\ UNCHANGED <<running, owner, record>>
         /\ decodeType' = decodeType /\ heard' \in BOOLEAN
         /\ source' \in 1..(Sources + 1) /\ record' \in Formats \cup {Nothing}
<1> USE DEF IInv, TypeOK, OwnerCaptures, Capturing, CapturePcs
<1>1. CASE CaptureLoop(t)
  BY <1>1 DEF CaptureLoop
<1>2. CASE Read(t)
  BY <1>2 DEF Read
<1>3. CASE Switch(t)
  BY <1>3 DEF Switch
<1>4. CASE OpenNext(t)
  BY <1>4 DEF OpenNext
<1>5. CASE Finally(t)
  BY <1>5 DEF Finally
<1>6. CASE Verdict(t)
  BY <1>6 DEF Verdict
<1> QED
  BY <1>1, <1>2, <1>3, <1>4, <1>5, <1>6 DEF Capture

\* A step of a capture thread: it may end what it owns, nothing else.
LEMMA CaptureKeeps ==
  ASSUME IInv, NEW t \in Captures, Capture(t)
  PROVE  IInv'
<1>1. UNCHANGED <<session, call, stopping>>
  BY DEF Capture
<1>2. TypeOK'
  <2>1. /\ capture' \in [Captures -> CapturePcs]
        /\ running' \in BOOLEAN /\ owner' \in Captures \cup {Nothing}
        /\ decodeType' \in Formats /\ heard' \in BOOLEAN
        /\ source' \in 1..(Sources + 1) /\ record' \in Formats \cup {Nothing}
    <3>1. TypeOK
      BY DEF IInv
    <3> QED
      BY <3>1, CaptureDevice DEF TypeOK
  <2>2. TypeOK
    BY DEF IInv
  <2> QED
    BY ONLY <1>1, <2>1, <2>2 DEF TypeOK, session, requests, call
<1>3. OwnerCaptures'
  <2>1. ASSUME NEW u \in Captures PROVE (Capturing(u) <=> owner = u)'
    BY CaptureDevice DEF IInv, OwnerCaptures, Capturing
  <2>2. (running \/ record # Nothing => owner # Nothing)'
    BY CaptureDevice DEF IInv, OwnerCaptures
  <2> QED
    BY <2>1, <2>2 DEF OwnerCaptures
<1>4. CallInv'
  BY <1>1, CaptureDevice DEF IInv, CallInv, TypeOK
<1>5. CaptureIsAsked' /\ AskedInv'
  BY <1>1, CaptureDevice DEF IInv, CaptureIsAsked, AskedInv, TypeOK
<1> QED
  BY <1>2, <1>3, <1>4, <1>5 DEF IInv

----------------------------------------------------------------------------
Jobs == {"none", "config", "guess", "start"}

\* The microphone returns: only a start() that failed leads to the hand-back.
LEMMA FinishTo ==
  ASSUME TypeOK, NEW ok \in BOOLEAN, Finish(ok)
  PROVE  /\ reader' \in {"idle", "check"} \/ (~ok /\ reader' = "handBack")
         /\ reader' \in ReaderPcs
         /\ job' \in Jobs /\ inputConfigSeen' \in BOOLEAN
  BY DEF Finish, Goto, TypeOK, ReaderPcs, Jobs

\* The read thread goes on inside a call.
LEMMA GotoTo ==
  ASSUME TypeOK, NEW l \in ReaderPcs, Goto(l)
  PROVE  reader' = l /\ job' \in Jobs /\ inputConfigSeen' \in BOOLEAN
  BY DEF Goto, TypeOK, Jobs

\* A step that leaves the device to its owner, and ends a capture at most.
LEMMA DeviceLeft ==
  ASSUME OwnerCaptures, UNCHANGED <<capture, owner, record>>,
         running' = running \/ running' = FALSE
  PROVE  OwnerCaptures'
  BY DEF OwnerCaptures, Capturing

\* A new format, and whether it restarts the capture.
LEMMA SetDecodeTypeKeeps ==
  ASSUME IInv, SetDecodeType, UNCHANGED <<micGone, phoneCallActive, requests, stopping>>
  PROVE  IInv'
<1>1. TypeOK /\ OwnerCaptures /\ CallInv /\ CaptureIsAsked /\ AskedInv
  BY DEF IInv
<1>2. /\ \/ reader' \in {"idle", "check"}
         \/ reader' = "restart" /\ running
      /\ reader' \in ReaderPcs /\ job' \in Jobs /\ inputConfigSeen' \in BOOLEAN
  <2>1. Goto("restart") => reader' = "restart" /\ job' \in Jobs /\ inputConfigSeen' \in BOOLEAN
    BY <1>1, GotoTo DEF ReaderPcs
  <2>2. Finish(TRUE) => reader' \in {"idle", "check"} /\ job' \in Jobs /\ inputConfigSeen' \in BOOLEAN
    BY <1>1, FinishTo
  <2> QED
    BY <2>1, <2>2 DEF SetDecodeType, ReaderPcs
<1>3. /\ decodeType' \in Formats /\ want' = Nothing
      /\ UNCHANGED <<running, device, capture, previous>>
  BY <1>1 DEF SetDecodeType, Usable, TypeOK
<1>4. TypeOK'
  BY ONLY <1>1, <1>2, <1>3, UNCHANGED <<micGone, phoneCallActive, requests, stopping>>
     DEF TypeOK, device, Jobs
<1>5. OwnerCaptures'
  BY <1>1, <1>3, DeviceLeft
<1>6. CallInv' /\ CaptureIsAsked' /\ AskedInv'
  BY <1>1, <1>2, <1>3 DEF CallInv, CaptureIsAsked, AskedInv
<1> QED
  BY <1>4, <1>5, <1>6 DEF IInv

\* setDecodeType() tells the running capture to end.
LEMMA RestartKeeps ==
  ASSUME IInv, Restart, UNCHANGED <<micGone, phoneCallActive, requests, stopping>>
  PROVE  IInv'
<1>1. TypeOK /\ OwnerCaptures /\ CallInv /\ CaptureIsAsked /\ AskedInv
  BY DEF IInv
<1>2. /\ reader = "restart" /\ reader' = "start"
      /\ job' \in Jobs /\ inputConfigSeen' \in BOOLEAN
  BY <1>1, GotoTo DEF Restart, ReaderPcs
<1>3. running' = FALSE /\ UNCHANGED <<decodeType, device, capture, want, previous>>
  BY DEF Restart, MicStop
<1>4. TypeOK'
  <2>1. running' \in BOOLEAN /\ reader' \in ReaderPcs
    BY <1>2, <1>3 DEF ReaderPcs
  <2> QED
    BY ONLY <1>1, <1>2, <1>3, <2>1, UNCHANGED <<micGone, phoneCallActive, requests, stopping>>
       DEF TypeOK, device, Jobs
<1>5. OwnerCaptures'
  BY <1>1, <1>3, DeviceLeft
<1>6. CallInv' /\ CaptureIsAsked' /\ AskedInv'
  BY <1>1, <1>2, <1>3 DEF CallInv, CaptureIsAsked, AskedInv
<1> QED
  BY <1>4, <1>5, <1>6 DEF IInv

\* start() has nothing to do, or knows the thread to wait for.
LEMMA StartCallKeeps ==
  ASSUME IInv, StartCall, UNCHANGED <<micGone, phoneCallActive, requests, stopping>>
  PROVE  IInv'
<1>1. TypeOK /\ OwnerCaptures /\ CallInv /\ CaptureIsAsked /\ AskedInv
  BY DEF IInv
<1>2. /\ \/ reader' \in {"idle", "check"} /\ UNCHANGED previous
         \/ reader' = "join" /\ ~running /\ previous' = owner
      /\ reader' \in ReaderPcs /\ job' \in Jobs /\ inputConfigSeen' \in BOOLEAN
  <2>1. Goto("join") => reader' = "join" /\ job' \in Jobs /\ inputConfigSeen' \in BOOLEAN
    BY <1>1, GotoTo DEF ReaderPcs
  <2>2. Finish(TRUE) => reader' \in {"idle", "check"} /\ job' \in Jobs /\ inputConfigSeen' \in BOOLEAN
    BY <1>1, FinishTo
  <2> QED
    BY <2>1, <2>2 DEF StartCall, ReaderPcs
<1>3. reader \in {"start", "mic.start"} /\ UNCHANGED <<micVars, capture, want>>
  BY DEF StartCall
<1>4. TypeOK'
  BY ONLY <1>1, <1>2, <1>3, UNCHANGED <<micGone, phoneCallActive, requests, stopping>>
     DEF TypeOK, device, micVars, Jobs
<1>5. OwnerCaptures'
  BY <1>1, <1>3, DeviceLeft
<1>6. CallInv' /\ CaptureIsAsked' /\ AskedInv'
  BY <1>1, <1>2, <1>3 DEF CallInv, CaptureIsAsked, AskedInv
<1> QED
  BY <1>4, <1>5, <1>6 DEF IInv

\* The thread start() waited for is over, or start() gives up.
LEMMA JoinKeeps ==
  ASSUME IInv, Join, UNCHANGED <<micGone, phoneCallActive, requests, stopping>>
  PROVE  IInv'
<1>1. TypeOK /\ OwnerCaptures /\ CallInv /\ CaptureIsAsked /\ AskedInv
  BY DEF IInv
<1>2. /\ \/ reader' \in {"idle", "check", "handBack"}
         \/ reader' = "open" /\ ~Waiting
      /\ reader' \in ReaderPcs /\ job' \in Jobs /\ inputConfigSeen' \in BOOLEAN
  <2>1. Goto("open") => reader' = "open" /\ job' \in Jobs /\ inputConfigSeen' \in BOOLEAN
    BY <1>1, GotoTo DEF ReaderPcs
  <2>2. Finish(FALSE) => /\ reader' \in {"idle", "check", "handBack"}
                         /\ job' \in Jobs /\ inputConfigSeen' \in BOOLEAN
    BY <1>1, FinishTo
  <2> QED
    BY <2>1, <2>2 DEF Join, ReaderPcs
<1>3. /\ reader = "join" /\ previous' = Nothing
      /\ UNCHANGED <<micVars, capture, want>>
  BY DEF Join
<1>4. TypeOK'
  BY ONLY <1>1, <1>2, <1>3, UNCHANGED <<micGone, phoneCallActive, requests, stopping>>
     DEF TypeOK, device, micVars, Jobs
<1>5. OwnerCaptures'
  BY <1>1, <1>3, DeviceLeft
<1>6. ~running /\ (~Waiting => owner = Nothing)
  BY <1>1, <1>3 DEF CallInv, OwnerCaptures, Capturing, Waiting, Alive, TypeOK
<1>7. CallInv' /\ CaptureIsAsked' /\ AskedInv'
  BY <1>1, <1>2, <1>3, <1>6 DEF CallInv, CaptureIsAsked, AskedInv
<1> QED
  BY <1>4, <1>5, <1>7 DEF IInv

\* A source opened: the device goes to a thread that was not there before.
LEMMA OpenedKeeps ==
  ASSUME IInv, reader = "open", NEW t \in Captures, Opened(t),
         UNCHANGED <<micGone, phoneCallActive, requests, stopping, decodeType, want, previous>>
  PROVE  IInv'
<1>1. TypeOK /\ OwnerCaptures /\ CallInv /\ CaptureIsAsked /\ AskedInv
  BY DEF IInv
<1>2. reader' \in {"idle", "check"} /\ job' \in Jobs /\ inputConfigSeen' \in BOOLEAN
  BY <1>1, FinishTo DEF Opened
<1>3. /\ ~Alive(t) /\ source' \in 1..Sources /\ heard' = FALSE
      /\ record' = decodeType /\ owner' = t /\ running' = TRUE
      /\ capture' = [capture EXCEPT ![t] = "loop"]
  BY DEF Opened
<1>4. TypeOK'
  <2>1. capture' \in [Captures -> CapturePcs]
    BY <1>1, <1>3 DEF TypeOK, CapturePcs
  <2>2. source' \in 1..(Sources + 1) /\ running' \in BOOLEAN
    BY <1>3
  <2>3. heard' \in BOOLEAN /\ owner' \in Captures /\ record' \in Formats
    BY <1>1, <1>3 DEF TypeOK
  <2> QED
    BY ONLY <1>1, <1>2, <2>1, <2>2, <2>3,
            UNCHANGED <<micGone, phoneCallActive, requests, stopping, decodeType, want, previous>>
       DEF TypeOK, Jobs, ReaderPcs
<1>5. OwnerCaptures'
  <2>1. \A u \in Captures : ~Capturing(u)
    BY <1>1 DEF CallInv, OwnerCaptures
  <2>2. \A u \in Captures : capture'[u] = IF u = t THEN "loop" ELSE capture[u]
    BY <1>1, <1>3 DEF TypeOK
  <2> QED
    BY <1>3, <2>1, <2>2 DEF OwnerCaptures, Capturing
<1>6. CallInv' /\ CaptureIsAsked' /\ AskedInv'
  BY <1>1, <1>2, <1>3 DEF CallInv, CaptureIsAsked, AskedInv
<1> QED
  BY <1>4, <1>5, <1>6 DEF IInv

\* No source opened, or no thread: start() leaves the device closed.
LEMMA NotOpenedKeeps ==
  ASSUME IInv, reader = "open", NotOpened,
         UNCHANGED <<micGone, phoneCallActive, requests, stopping, decodeType, want, previous>>
  PROVE  IInv'
<1>1. TypeOK /\ OwnerCaptures /\ CallInv /\ CaptureIsAsked /\ AskedInv
  BY DEF IInv
<1>2. /\ reader' \in {"idle", "check", "handBack"}
      /\ job' \in Jobs /\ inputConfigSeen' \in BOOLEAN
  BY <1>1, FinishTo DEF NotOpened
<1>3. ~running /\ owner = Nothing
  BY <1>1 DEF CallInv
<1>4. /\ owner' = Nothing /\ record' = Nothing /\ UNCHANGED <<running, capture>>
      /\ source' \in 1..(Sources + 1) /\ heard' \in BOOLEAN
  <2>1. heard \in BOOLEAN
    BY <1>1 DEF TypeOK
  <2>2. Sources + 1 \in 1..(Sources + 1) /\ 1..Sources \subseteq 1..(Sources + 1)
    OBVIOUS
  <2>3. CASE source' = Sources + 1 /\ UNCHANGED <<owner, heard>>
    BY <1>3, <2>1, <2>2, <2>3 DEF NotOpened
  <2>4. CASE source' \in 1..Sources /\ owner' = Nothing /\ heard' = FALSE
    BY <2>2, <2>4 DEF NotOpened
  <2> QED
    BY <2>3, <2>4 DEF NotOpened
<1>5. TypeOK'
  BY ONLY <1>1, <1>2, <1>4,
          UNCHANGED <<micGone, phoneCallActive, requests, stopping, decodeType, want, previous>>
     DEF TypeOK, Jobs, ReaderPcs
<1>6. OwnerCaptures'
  BY <1>1, <1>3, <1>4 DEF OwnerCaptures, Capturing
<1>7. CallInv' /\ CaptureIsAsked' /\ AskedInv'
  BY <1>1, <1>2, <1>3, <1>4 DEF CallInv, CaptureIsAsked, AskedInv
<1> QED
  BY <1>5, <1>6, <1>7 DEF IInv

\* The read thread inside the microphone.
LEMMA MicrophoneKeeps == ASSUME IInv, Microphone PROVE IInv'
<1>1. UNCHANGED <<micGone, phoneCallActive, requests, stopping>>
  BY DEF Microphone
<1>2. CASE SetDecodeType
  BY <1>1, <1>2, SetDecodeTypeKeeps
<1>3. CASE Restart
  BY <1>1, <1>3, RestartKeeps
<1>4. CASE StartCall
  BY <1>1, <1>4, StartCallKeeps
<1>5. CASE Join
  BY <1>1, <1>5, JoinKeeps
<1>6. CASE StartLocked
  <2>1. reader = "open" /\ UNCHANGED <<decodeType, want, previous>>
    BY <1>6 DEF StartLocked
  <2>2. ASSUME NEW t \in Captures, Opened(t) PROVE IInv'
    BY <1>1, <2>1, <2>2, OpenedKeeps
  <2>3. CASE NotOpened
    BY <1>1, <2>1, <2>3, NotOpenedKeeps
  <2> QED
    BY <1>6, <2>2, <2>3 DEF StartLocked
<1> QED
  BY <1>2, <1>3, <1>4, <1>5, <1>6 DEF Microphone

----------------------------------------------------------------------------
\* A message of the phone: the read thread enters a call, the device stays.
LEMMA CommandKeeps == ASSUME IInv, Command PROVE IInv'
<1>1. TypeOK /\ OwnerCaptures /\ CallInv /\ CaptureIsAsked /\ AskedInv
  BY DEF IInv
<1>2. UNCHANGED <<micVars, capture, micGone, inputConfigSeen, requests, previous, stopping>>
  BY DEF Command
<1>3. /\ reader' \in {"idle", "setType", "check", "stop"} /\ job' \in Jobs
      /\ want' \in Formats \cup Unusable \cup {Nothing} /\ phoneCallActive' \in BOOLEAN
  <2>1. reader = "idle"
    BY DEF Command, Dispatch
  <2>2. ASSUME NEW f \in Formats \cup Unusable, InputConfig(f)
        PROVE  <1>3!:
    BY <1>1, <2>2 DEF InputConfig, Prepare, TypeOK, Jobs
  <2>3. ASSUME NEW f \in Formats, StartCommand(f)
        PROVE  /\ reader' \in {"setType", "check"} /\ job' \in Jobs
               /\ want' \in Formats \cup Unusable \cup {Nothing}
    BY <1>1, <2>3 DEF StartCommand, Prepare, TypeOK, Jobs
  <2>4. PhonecallStart \/ SiriStart => <1>3!:
    BY <1>1, <2>3 DEF PhonecallStart, SiriStart, TypeOK
  <2>5. PhonecallStop \/ MediaStart \/ SiriStop \/ PhoneDisconnected => <1>3!:
    BY <1>1, <2>1 DEF PhonecallStop, MediaStart, SiriStop, PhoneDisconnected, TypeOK, Jobs
  <2> QED
    BY <2>2, <2>4, <2>5 DEF Command
<1>4. TypeOK'
  BY ONLY <1>1, <1>2, <1>3 DEF TypeOK, micVars, device, Jobs, ReaderPcs
<1>5. OwnerCaptures'
  BY <1>1, <1>2, DeviceLeft
<1>6. CallInv' /\ CaptureIsAsked' /\ AskedInv'
  BY <1>1, <1>2, <1>3 DEF CallInv, CaptureIsAsked, AskedInv
<1> QED
  BY <1>4, <1>5, <1>6 DEF IInv

\* The session asks for the microphone, tells it to stop and hands it back.
LEMMA StartOrStopKeeps == ASSUME IInv, StartOrStop PROVE IInv'
<1>1. TypeOK /\ OwnerCaptures /\ CallInv /\ CaptureIsAsked /\ AskedInv
  BY DEF IInv
<1>2. UNCHANGED <<decodeType, device, capture, previous, micGone, phoneCallActive, stopping>>
  BY DEF StartOrStop, MicIsGone, Check, Ask, Stop, HandBack, MicStop
<1>3. want' \in Formats \cup Unusable \cup {Nothing}
  BY <1>1 DEF StartOrStop, MicIsGone, Check, Ask, Stop, HandBack, TypeOK
<1>4. /\ \/ reader' \in {"idle", "ask"} /\ UNCHANGED <<running, asked, skipped>>
         \/ reader' = "mic.start" /\ (asked' \/ skipped') /\ UNCHANGED running
         \/ reader' = "handBack" /\ running' = FALSE /\ UNCHANGED <<asked, skipped>>
         \/ reader' = "idle" /\ reader = "handBack" /\ UNCHANGED running
      /\ job' \in Jobs /\ inputConfigSeen' \in BOOLEAN
  <2>1. ASSUME NEW l \in {"idle", "ask", "mic.start", "handBack"}, Goto(l)
        PROVE  reader' = l /\ job' \in Jobs /\ inputConfigSeen' \in BOOLEAN
    BY <1>1, <2>1, GotoTo DEF ReaderPcs
  <2>2. CASE MicIsGone
    BY <2>1, <2>2 DEF MicIsGone
  <2>3. CASE Check
    BY <2>1, <2>3 DEF Check
  <2>4. CASE Ask
    <3>1. asked' \/ skipped'
      BY <2>4, Zenon DEF Ask
    <3> QED
      BY <2>1, <2>4, <3>1 DEF Ask
  <2>5. CASE Stop
    BY <2>1, <2>5 DEF Stop, MicStop
  <2>6. CASE HandBack
    BY <2>1, <2>6 DEF HandBack
  <2> QED
    BY <2>2, <2>3, <2>4, <2>5, <2>6 DEF StartOrStop
<1>5. /\ asked' \in BOOLEAN /\ skipped' \in BOOLEAN /\ callback' = callback
      /\ asked' => callback /\ ~skipped'
  <2>1. /\ asked \in BOOLEAN /\ skipped \in BOOLEAN /\ callback \in BOOLEAN
        /\ asked => callback /\ ~skipped
    BY <1>1 DEF TypeOK, CaptureIsAsked
  <2>2. callback' = callback
    BY DEF StartOrStop
  <2>3. CASE MicIsGone \/ Check \/ Stop
    BY <2>1, <2>2, <2>3 DEF MicIsGone, Check, Stop
  <2>4. CASE Ask
    BY <2>1, <2>2, <2>4, Zenon DEF Ask
  <2>5. CASE HandBack
    BY <2>1, <2>2, <2>5, Zenon DEF HandBack
  <2> QED
    BY <2>3, <2>4, <2>5 DEF StartOrStop
<1>6. TypeOK'
  <2>1. running' \in BOOLEAN
    BY <1>1, <1>4 DEF TypeOK
  <2>2. reader' \in ReaderPcs /\ job' \in Jobs /\ inputConfigSeen' \in BOOLEAN
    BY <1>4 DEF ReaderPcs
  <2> QED
    BY ONLY <1>1, <1>2, <1>3, <1>5, <2>1, <2>2 DEF TypeOK, device, Jobs
<1>7. OwnerCaptures'
  BY <1>1, <1>2, <1>4, DeviceLeft
<1>8. CallInv' /\ CaptureIsAsked' /\ AskedInv'
  BY <1>1, <1>2, <1>4, <1>5 DEF CallInv, CaptureIsAsked, AskedInv
<1> QED
  BY <1>6, <1>7, <1>8 DEF IInv

\* The session gets its callback: it may ask from now on.
LEMMA SetCallbackKeeps == ASSUME IInv, SetCallback PROVE IInv'
<1>1. TypeOK /\ OwnerCaptures /\ CallInv /\ CaptureIsAsked /\ AskedInv
  BY DEF IInv
<1>2. /\ callback' = TRUE
      /\ UNCHANGED <<micVars, capture, micGone, inputConfigSeen, phoneCallActive, asked,
                     skipped, call, stopping>>
  BY DEF SetCallback
<1>3. TypeOK'
  <2>1. callback' \in BOOLEAN
    BY <1>2
  <2> QED
    BY ONLY <1>1, <1>2, <2>1 DEF TypeOK, micVars, device, call
<1>4. OwnerCaptures'
  BY <1>1, <1>2, DeviceLeft
<1>5. CallInv' /\ CaptureIsAsked' /\ AskedInv'
  BY <1>1, <1>2 DEF CallInv, CaptureIsAsked, AskedInv
<1> QED
  BY <1>3, <1>4, <1>5 DEF IInv

\* session.stop() tells the capture to end and forgets the microphone.
LEMMA SessionStopKeeps == ASSUME IInv, SessionStop PROVE IInv'
<1>1. TypeOK /\ OwnerCaptures /\ CallInv /\ CaptureIsAsked /\ AskedInv
  BY DEF IInv
<1>2. /\ UNCHANGED <<decodeType, device, capture, call, inputConfigSeen, phoneCallActive, requests>>
      /\ running' = running \/ running' = FALSE
      /\ micGone' \in BOOLEAN /\ stopping' \in {"no", "mic", "null", "driver"}
  BY <1>1 DEF SetCallback, SessionStop, StopMicrophone, ForgetMicrophone, StopDriver, Stopping, MicStop,
              TypeOK
<1>3. TypeOK'
  <2>1. running' \in BOOLEAN
    BY <1>1, <1>2 DEF TypeOK
  <2> QED
    BY ONLY <1>1, <1>2, <2>1 DEF TypeOK, device, call
<1>4. OwnerCaptures'
  BY <1>1, <1>2, DeviceLeft
<1>5. CallInv' /\ CaptureIsAsked' /\ AskedInv'
  BY <1>1, <1>2 DEF CallInv, CaptureIsAsked, AskedInv
<1> QED
  BY <1>3, <1>4, <1>5 DEF IInv

\* The read thread ends between two messages.
LEMMA ReaderEndsKeeps == ASSUME IInv, ReaderEnds PROVE IInv'
<1>1. TypeOK /\ OwnerCaptures /\ CaptureIsAsked
  BY DEF IInv
<1>2. reader' = "ended" /\ UNCHANGED <<micVars, capture, session, job, want, previous, stopping>>
  BY DEF ReaderEnds
<1>3. TypeOK'
  BY ONLY <1>1, <1>2 DEF TypeOK, micVars, device, session, requests, ReaderPcs
<1>4. OwnerCaptures'
  BY <1>1, <1>2, DeviceLeft
<1>5. CallInv' /\ CaptureIsAsked' /\ AskedInv'
  BY <1>1, <1>2 DEF CallInv, CaptureIsAsked, AskedInv
<1> QED
  BY <1>3, <1>4, <1>5 DEF IInv

\* A step of anything else changes none of it.
LEMMA StutterKeeps == ASSUME IInv, UNCHANGED vars PROVE IInv'
<1>1. TypeOK /\ OwnerCaptures /\ CallInv /\ CaptureIsAsked /\ AskedInv
  BY DEF IInv
<1>2. TypeOK'
  BY ONLY <1>1, UNCHANGED vars DEF TypeOK, vars, micVars, device, session, requests, call
<1>3. OwnerCaptures'
  BY <1>1, DeviceLeft
<1>4. CallInv' /\ CaptureIsAsked' /\ AskedInv'
  BY <1>1 DEF CallInv, CaptureIsAsked, AskedInv
<1> QED
  BY <1>2, <1>3, <1>4 DEF IInv

\* Every step of the three kinds of threads keeps the invariant.
LEMMA NextKeeps == IInv /\ [Next]_vars => IInv'
<1> SUFFICES ASSUME IInv, [Next]_vars PROVE IInv'
  OBVIOUS
<1>1. CASE \E t \in Captures : Capture(t)
  BY <1>1, CaptureKeeps
<1>2. CASE Microphone \/ Command \/ StartOrStop \/ ReaderEnds \/ SetCallback \/ SessionStop
  BY <1>2, MicrophoneKeeps, CommandKeeps, StartOrStopKeeps, ReaderEndsKeeps,
     SetCallbackKeeps, SessionStopKeeps
<1>3. CASE UNCHANGED vars
  BY <1>3, StutterKeeps
<1> QED
  BY <1>1, <1>2, <1>3 DEF Next

----------------------------------------------------------------------------
\* The capture that owns the device, the progress of start() and what was asked of
\* the head unit always fit together: the invariant the theorems below rest on.
THEOREM Inductive == Spec => []IInv
  BY InitInv, NextKeeps, PTL DEF Spec

\* Every variable of the microphone and of the session keeps its type: only mono
\* formats are ever set or captured (setDecodeType).
THEOREM TypeCorrect == Spec => []TypeOK
<1>1. IInv => TypeOK
  BY DEF IInv
<1> QED
  BY <1>1, Inductive, PTL

\* One capture thread at most may touch the AudioRecord, it is the one the microphone
\* calls its owner, and an open AudioRecord is never without one (captureThread).
THEOREM OneOwner == Spec => []OwnerCaptures
<1>1. IInv => OwnerCaptures
  BY DEF IInv
<1> QED
  BY <1>1, Inductive, PTL

\* The microphone captures only while the session has it from the head unit (startMic,
\* stopMic), through restarts, failures and session.stop().
THEOREM AskedWhileCapturing == Spec => []CaptureIsAsked
<1>1. IInv => CaptureIsAsked
  BY DEF IInv
<1> QED
  BY <1>1, Inductive, PTL

\* A thread that is reading owns the device, so a step of another capture thread,
\* or of a start(), does not touch the AudioRecord.
LEMMA ReadKeepsRecord ==
  ASSUME IInv, Next, NEW t \in Captures, capture[t] = "read", capture'[t] = "read"
  PROVE  record' = record
<1>1. TypeOK /\ OwnerCaptures /\ CallInv
  BY DEF IInv
<1>2. owner = t
  BY <1>1 DEF OwnerCaptures, Capturing
<1>3. CASE \E u \in Captures : Capture(u)
  <2>1. PICK u \in Captures : Capture(u)
    BY <1>3
  <2>2. CASE u = t
    <3>1. Read(t)
      BY <2>1, <2>2 DEF Capture, CaptureLoop, Read, Switch, OpenNext, Finally, Verdict
    <3> QED
      BY <3>1 DEF Read
  <2>3. CASE u # t
    <3>1. ~Capturing(u)
      BY <1>1, <1>2, <2>3 DEF OwnerCaptures
    <3>2. ~OpenNext(u) /\ ~Finally(u)
      BY <3>1 DEF Capturing, OpenNext, Finally
    <3> QED
      BY <2>1, <3>2 DEF Capture, CaptureLoop, Read, Switch, Verdict
  <2> QED
    BY <2>2, <2>3
<1>4. CASE Microphone
  <2>1. ~StartLocked
    BY <1>1, <1>2, NothingAssumption DEF CallInv, StartLocked
  <2> QED
    BY <1>4, <2>1 DEF Microphone, SetDecodeType, Restart, MicStop, StartCall, Join
<1>5. CASE Command \/ StartOrStop \/ ReaderEnds \/ SetCallback \/ SessionStop
  BY <1>5 DEF Command, StartOrStop, MicIsGone, Check, Ask, Stop, HandBack, MicStop, ReaderEnds,
              SetCallback, SessionStop, StopMicrophone, ForgetMicrophone, StopDriver
<1> QED
  BY <1>3, <1>4, <1>5 DEF Next

\* The AudioRecord is never closed or replaced under the thread that reads from it,
\* although stop() does not wait for that thread and the join of start() may expire
\* (CarlinkitMicrophone.stop, start).
THEOREM SafeReads == Spec => ReadIsSafe
<1>1. IInv /\ [Next]_vars =>
        [\A t \in Captures :
           capture[t] = "read" /\ capture'[t] = "read" => record' = record]_vars
  BY ReadKeepsRecord
<1> QED
  BY <1>1, Inductive, PTL DEF Spec, ReadIsSafe

----------------------------------------------------------------------------
\* The loop leaves the format alone, and a source that is opened has it.
LEMMA CaptureHonours ==
  ASSUME IInv, FormatIsHonoured, NEW t \in Captures, Capture(t)
  PROVE  FormatIsHonoured'
<1> USE DEF FormatIsHonoured
<1>1. TypeOK /\ OwnerCaptures
  BY DEF IInv
<1>2. UNCHANGED <<reader, decodeType>>
  <2>1. UNCHANGED reader
    BY DEF Capture
  <2> QED
    BY <2>1, CaptureDevice
<1>3. CASE owner = t
  <2>1. capture' \in [Captures -> CapturePcs] /\ capture \in [Captures -> CapturePcs]
    BY <1>1, CaptureDevice DEF TypeOK
  <2>2. CASE CaptureLoop(t)
    BY <1>2, <1>3, <2>1, <2>2 DEF CaptureLoop
  <2>3. CASE Read(t)
    BY <1>2, <1>3, <2>1, <2>3 DEF Read
  <2>4. CASE Switch(t)
    BY <1>2, <1>3, <2>1, <2>4 DEF Switch
  <2>5. CASE OpenNext(t)
    BY <1>2, <1>3, <2>1, <2>5 DEF OpenNext
  <2>6. CASE Finally(t)
    BY <1>3, <2>6 DEF Finally
  <2>7. CASE Verdict(t)
    BY <1>1, <1>3, <2>7 DEF Verdict, OwnerCaptures, Capturing
  <2> QED
    BY <2>2, <2>3, <2>4, <2>5, <2>6, <2>7 DEF Capture
<1>4. CASE owner # t
  <2>1. ~Capturing(t)
    BY <1>1, <1>4 DEF OwnerCaptures
  <2>2. UNCHANGED <<running, owner, record>>
    BY <2>1, CaptureDevice
  <2>3. running => owner \in Captures
    BY <1>1 DEF TypeOK, OwnerCaptures
  <2>4. running => capture'[owner] = capture[owner]
    BY <1>4, <2>3, CaptureDevice
  <2> QED
    BY <1>2, <2>2, <2>4
<1> QED
  BY <1>3, <1>4

\* setDecodeType() restarts what runs in another format; start() opens in the one
\* that is set.
LEMMA MicrophoneHonours ==
  ASSUME IInv, FormatIsHonoured, Microphone
  PROVE  FormatIsHonoured'
<1> USE DEF FormatIsHonoured
<1>1. TypeOK /\ OwnerCaptures /\ CallInv
  BY DEF IInv
<1>2. CASE SetDecodeType
  <2>1. UNCHANGED <<running, record, owner, capture>> /\ reader = "setType"
    BY <1>2 DEF SetDecodeType
  <2>2. CASE decodeType' # decodeType /\ running
    BY <1>2, <2>2 DEF SetDecodeType, Goto
  <2>3. CASE ~(decodeType' # decodeType /\ running)
    BY <2>1, <2>3
  <2> QED
    BY <2>2, <2>3
<1>3. CASE Restart
  BY <1>3 DEF Restart, MicStop
<1>4. CASE StartCall
  BY <1>4 DEF StartCall
<1>5. CASE Join
  BY <1>5 DEF Join
<1>6. CASE StartLocked
  <2>1. ~running /\ decodeType' = decodeType
    BY <1>6 DEF StartLocked
  <2>2. ASSUME NEW t \in Captures, Opened(t) PROVE FormatIsHonoured'
    BY <2>1, <2>2 DEF Opened
  <2>3. ASSUME NotOpened PROVE FormatIsHonoured'
    BY <2>1, <2>3 DEF NotOpened
  <2> QED
    BY <1>6, <2>2, <2>3 DEF StartLocked
<1> QED
  BY <1>2, <1>3, <1>4, <1>5, <1>6 DEF Microphone

\* A capture never goes on in a format that is not the one asked for, but to its
\* end: the part of FormatSettles that asks nothing of the scheduler
\* (setDecodeType).
THEOREM FormatHonoured == Spec => []FormatIsHonoured
<1>1. Init => FormatIsHonoured
  BY DEF Init, FormatIsHonoured
<1>2. ASSUME IInv, FormatIsHonoured, [Next]_vars PROVE FormatIsHonoured'
  <2>1. CASE \E t \in Captures : Capture(t)
    BY <1>2, <2>1, CaptureHonours
  <2>2. CASE Microphone
    BY <1>2, <2>2, MicrophoneHonours
  <2>3. CASE Command \/ StartOrStop \/ ReaderEnds \/ SetCallback \/ SessionStop \/ UNCHANGED vars
    <3>1. /\ UNCHANGED <<decodeType, record, owner, capture>>
          /\ running' = running \/ running' = FALSE
      BY <2>3 DEF Command, StartOrStop, MicIsGone, Check, Ask, Stop, HandBack, MicStop,
                  ReaderEnds, SetCallback, SessionStop, StopMicrophone, ForgetMicrophone, StopDriver,
                  Stopping
    <3>2. reader = "restart" => reader' = "restart"
      BY <2>3 DEF Command, Dispatch, StartOrStop, MicIsGone, Check, Ask, Stop, HandBack,
                  ReaderEnds, SetCallback, SessionStop, StopMicrophone, ForgetMicrophone, StopDriver,
                  Stopping
    <3> QED
      BY <1>2, <3>1, <3>2 DEF FormatIsHonoured
  <2> QED
    BY <1>2, <2>1, <2>2, <2>3 DEF Next
<1> QED
  BY <1>1, <1>2, Inductive, PTL DEF Spec

\* What a capture that was told to end has left is a number, so it is used up after
\* finitely many of its steps.
LEMMA StepsLeftIsNatural ==
  ASSUME TypeOK, NEW t \in Captures
  PROVE  StepsLeft(t) \in Nat
  BY DEF StepsLeft, TypeOK

\* Its own steps use that number up.
LEMMA OwnStepNears ==
  ASSUME IInv, NEW t \in Captures, Capture(t), owner = t, ~running, owner' = t
  PROVE  ~running' /\ StepsLeft(t)' < StepsLeft(t)
<1> USE DEF StepsLeft
<1>1. capture \in [Captures -> CapturePcs] /\ source \in Nat
  BY DEF IInv, TypeOK
<1>2. owner \in Captures /\ owner # Nothing
  OBVIOUS
<1>3. CASE CaptureLoop(t)
  BY <1>1, <1>3 DEF CaptureLoop
<1>4. CASE Read(t)
  <2>1. capture[t] = "read" /\ running' = running
    BY <1>4 DEF Read
  <2>2. capture'[t] \in {"finally", "loop", "switch"}
    BY <1>1, <1>4 DEF Read
  <2> QED
    BY <2>1, <2>2
<1>5. CASE Switch(t)
  BY <1>1, <1>5 DEF Switch
<1>6. CASE OpenNext(t)
  BY <1>1, <1>6 DEF OpenNext
<1>7. CASE Finally(t)
  BY <1>2, <1>7 DEF Finally
<1>8. CASE Verdict(t)
  BY <1>8 DEF Verdict, IInv, OwnerCaptures, Capturing
<1> QED
  BY <1>3, <1>4, <1>5, <1>6, <1>7, <1>8 DEF Capture

\* Nobody else's do anything to it.
LEMMA OthersLeaveIt ==
  ASSUME IInv, Next, NEW t \in Captures, ~Capture(t), owner = t, ~running
  PROVE  ~running' /\ capture'[t] = capture[t] /\ source' = source
<1>1. TypeOK /\ OwnerCaptures /\ CallInv
  BY DEF IInv
<1>2. ASSUME NEW u \in Captures, u # t, Capture(u)
      PROVE  ~running' /\ capture'[t] = capture[t] /\ source' = source
  <2>1. ~Capturing(u)
    BY <1>1, <1>2 DEF OwnerCaptures
  <2>2. Verdict(u)
    BY <1>2, <2>1 DEF Capture, Capturing, CaptureLoop, Read, Switch, OpenNext, Finally
  <2> QED
    BY <1>1, <1>2, <2>2 DEF Verdict, TypeOK
<1>3. CASE Microphone
  <2>1. ~StartLocked
    BY <1>1 DEF CallInv, StartLocked
  <2>2. CASE SetDecodeType
    BY <2>2 DEF SetDecodeType
  <2>3. CASE Restart
    BY <2>3 DEF Restart, MicStop
  <2>4. CASE StartCall
    BY <2>4 DEF StartCall
  <2>5. CASE Join
    BY <2>5 DEF Join
  <2> QED
    BY <1>3, <2>1, <2>2, <2>3, <2>4, <2>5 DEF Microphone
<1>4. CASE Command \/ StartOrStop \/ ReaderEnds \/ SetCallback \/ SessionStop
  BY <1>4 DEF Command, StartOrStop, MicIsGone, Check, Ask, Stop, HandBack, MicStop, ReaderEnds,
              SetCallback, SessionStop, StopMicrophone, ForgetMicrophone, StopDriver, Stopping
<1> QED
  BY <1>2, <1>3, <1>4 DEF Next

\* A capture that was told to end stays so and comes nearer to its end with each of
\* its steps, through restarts, expired joins and new starts: the part of
\* StoppedCaptureEnds that asks nothing of the scheduler (stop, captureLoop).
THEOREM StoppedStaysStopped == Spec => StopIsFinal
<1> DEFINE A == \A t \in Captures : owner = t /\ ~running /\ owner' = t =>
                  /\ ~running'
                  /\ \/ capture'[t] = capture[t] /\ source' = source
                     \/ StepsLeft(t)' < StepsLeft(t)
<1>1. IInv /\ Next => A
  BY OwnStepNears, OthersLeaveIt
<1> HIDE DEF A
<1>2. IInv /\ [Next]_vars => [A]_vars
  BY <1>1
<1>3. Spec => [][A]_vars
  BY <1>2, Inductive, PTL DEF Spec
<1> QED
  BY <1>3 DEF StopIsFinal, A

\* After session.stop() forgot the microphone a capture begins only inside a call
\* that was under way then: the window of CaptureEndsWithSession, and the only one,
\* for any capture threads, formats and sources.
THEOREM OnlyStartUnderWay == Spec => ForgottenStaysQuiet
<1> DEFINE A == micGone /\ ~running /\ ~InsideStart => ~running' /\ ~InsideStart'
<1>1. ASSUME Next, micGone, ~running, ~InsideStart PROVE ~running' /\ ~InsideStart'
  <2> USE DEF InsideStart, micVars, device, session, requests, call
  <2>1. ASSUME NEW t \in Captures, Capture(t) PROVE ~running' /\ ~InsideStart'
    <3>1. reader' = reader
      BY <2>1 DEF Capture
    <3>2. ~running'
      BY <1>1, <2>1 DEF Capture, CaptureLoop, Read, Switch, OpenNext, Finally, Verdict
    <3> QED
      BY <1>1, <3>1, <3>2
  <2>2. ~Microphone
    BY <1>1 DEF Microphone, SetDecodeType, Restart, StartCall, Join, StartLocked
  <2>3. CASE Command
    BY <1>1, <2>3 DEF Command, InputConfig, PhonecallStart, SiriStart, StartCommand, Prepare,
       PhonecallStop, MediaStart, SiriStop, PhoneDisconnected
  <2>4. CASE StartOrStop
    BY <1>1, <2>4 DEF StartOrStop, MicIsGone, Check, Ask, Stop, HandBack, Goto, MicStop
  <2>5. CASE ReaderEnds
    BY <1>1, <2>5 DEF ReaderEnds
  <2>6. CASE SetCallback
    BY <1>1, <2>6 DEF SetCallback
  <2>7. CASE SessionStop
    <3>1. reader' = reader
      BY <2>7 DEF SessionStop, StopMicrophone, ForgetMicrophone, StopDriver, Stopping
    <3>2. ~running'
      BY <1>1, <2>7 DEF SessionStop, StopMicrophone, ForgetMicrophone, StopDriver, MicStop
    <3> QED
      BY <1>1, <3>1, <3>2
  <2> QED
    BY <1>1, <2>1, <2>2, <2>3, <2>4, <2>5, <2>6, <2>7 DEF Next
<1>2. Next => A
  BY <1>1
<1> HIDE DEF A
<1>3. [Next]_vars => [A]_vars
  BY <1>2
<1>4. Spec => [][A]_vars
  BY <1>3, PTL DEF Spec
<1> QED
  BY <1>4 DEF ForgottenStaysQuiet, A
=============================================================================
