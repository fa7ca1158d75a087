# Carlinkit for Honda Connect: a TLA+ verification project

The repository is an Android application for the Honda Connect head unit that
drives a Carlinkit USB dongle (Android Auto / CarPlay). This directory holds TLA+
modules of its core, TLC configurations that model-check them on small instances,
and theorems that TLAPS proves for every value of the constants. `PROJECT.json`
lists components, runs, mutants, the definition-to-source map, findings, hazards
and theorems; this file says what they mean. Paths below are relative to
`src/android/`; `carlinkit/…` is the driver library, `app/…` the application.

## 1. The system

```
 Activity (UI thread) ──binds──> Service ──owns──> Session ──owns──> Driver ──USB──> dongle
      │                                              ├─ AudioPlayer (worker thread)
      │ head unit callbacks (Binder threads)         ├─ VideoRenderer ──> OMX decoder
      └── HondaConnectManager                        └─ Microphone (capture threads)
```

The dongle speaks framed messages over two bulk endpoints. `CarlinkitDriver` has
four threads (write, read, heartbeat, connect). The read thread calls the session
inline, and the session calls the player, the renderer and the microphone from
there; UI and Binder threads send into the driver at the same time; the service
tears a session down while all of that goes on, on every re-enumeration of the
dongle. The hard parts are the races between those threads, transfers and joins
that time out, and calls that arrive in an order nobody chose.

### Inventory

| Component | State | Operations | Talks to | What is hard | What makes it correct |
|---|---|---|---|---|---|
| Send queue (`CarlinkitDriver.send`, `WriteLoop`) | bounded queue, drop counter | `send`, `dropOldestAudio`, `poll` | every sender; USB writer | lock-free drop and re-offer against other senders and the writer | FIFO, only oldest audio is lost, losses counted, accepted commands go out |
| USB writes and shutdown (`sendNow`, `start`, `stop`, loops) | running/stopped, writeLock, thread handles, heartbeat failures | `start`, `stop`, `sendNow`, four loops | the interface, `Listener` | two transfers per message, three kinds of writers, joins that expire | writes atomic, closing order, one release under no transfer, termination |
| Read stream (`ReadLoop`, `readFully`, `MessageHeader`) | position in the byte stream, reused buffer | read header, read payload, dispatch | session callbacks | short transfers, resynchronisation, trusted lengths | a message is dispatched whole or not at all; the loop finds the stream again |
| `CarlinkitMicrophone` | AudioRecord, owner thread, format, source | `setDecodeType`, `start`, `stop`, capture loop | driver, session | restart during a call, threads that end late, source switch against stop | one owner; never closed under a read; ends when told; obeys the format |
| `CarlinkitSession` | mic, call flag, InputConfig seen, surface flags | driver callbacks, surface callbacks, `start`, `stop` | all parts | callbacks on the read thread against stop on the service's | microphone asked for exactly while needed; nothing outlives the session |
| `CarlinkitAudioPlayer` | queue, buffer pool, tracks, mute, worker | `onAudio`, `setMuted`, `start`, `stop`, worker | read thread, UI thread | pooled buffers, trimming, mute against queued PCM | a buffer is in one place; newest control wins; mute settles |
| `CarlinkitVideoRenderer`, `ParameterSetCache` | decoder, surface, cached SPS/PPS | `start`, `stop`, `onFrame`, reinject | read thread, UI thread, OMX | surface life cycle against frames, one SPS per stream | the decoder sees SPS/PPS first, never a dead surface |
| `CarlinkitService`, `CarlinkitUsbReceiver` | session, connection, started | `ensureStarted`, `stopSession`, intents, restart | Activity, receiver | re-enumeration, kill and restart, stale sessions | at most one session; it belongs to the present dongle |
| `CarlinkitActivity` | permission, search and reconnect counters, pending device, buttons | life cycle, USB broadcasts, keys, watchdogs | service, head unit | unordered surface, service and permission; delayed posts | the dongle is opened once, and again after a loss, within limits |
| `HondaConnectManager` | bindings, audio focus, EcNc session | bind, register, focus, microphone session | head unit services | service death at any time | focus and EcNc session are given back; no double binding |
| OMX decoder (`OMXVideoCodec`, `OMXSource`, `OMXDecoder`, C++) | a thread per codec, queue of buffers, flags, window references | `init`, `queueBuffer`, `shutdown`, decoder loop | renderer, the platform's OMXCodec | manual memory across threads, failed starts, shutdown in a frame | one owner per buffer, no deletion under the thread, frames in order, calls return |
| Wire formats, settings, logging, day/night sensor, tools | – | parsing, preferences, output | – | boundaries of the parsers | see section 7 |

## 2. Plan

| # | Module | About | Status |
|---|---|---|---|
| 1 | `SendQueue` (implements `AudioLossyChannel`), `SendQueueProofs` | send queue and write thread | done, proved |
| 2 | `DriverLink` (implements `AtomicWire`), `DriverLinkProofs` | threads, USB writes, `stop()` | done, proved |
| 3 | `MicSession`, `MicSessionProofs` | microphone, session commands, session stop | done, proved |
| 4 | `AudioPlayer` (implements `StaleFirstQueue`), `AudioPlayerProofs` | queue trimming, buffer pool, mute, worker | done, proved |
| 5 | `VideoPath`, `VideoPathProofs` | surface, decoder, parameter cache, screen taken by the head unit | done, proved |
| 6 | `DongleRecovery`, `DongleRecoveryProofs` | service, activity and receiver: permission, search, reconnection, session reuse, kills | done, proved |
| 7 | `OmxCodec` (implements `FrameFeed`), `OmxCodecProofs` | the native decoder and its thread | done, proved |
| – | read stream, head unit | framing and resynchronisation; Honda services, audio focus, EcNc | not modelled, section 7 |

`AudioLossyChannel`, `AtomicWire`, `StaleFirstQueue` and `FrameFeed` are the abstract
specifications: what the driver's callers, the dongle, the listener and the renderer
may rely on. None of the modules declares a RECURSIVE operator. What would come next is
a composition of `VideoPath` with `OmxCodec`.

## 3. Modules

**`SendQueue`** — `CarlinkitDriver.send()`, `dropOldestAudio()`, `WriteLoop`, and
what `start()`/`stop()` do to them. `ArrayBlockingQueue` operations are atomic;
each gap between two is a step, so `send()` is `Send` (first offer), `Scan` (the
iteration finds its next audio chunk or ends), `Remove` (`remove(o)`, which may
come too late) and `Reoffer`. The iteration is the weakly consistent one of the
library; a step of it is placed where it fetches its next element, so after a failed
`remove(o)` it may be at its end although audio was queued meanwhile. `remove(o)`
goes by object identity, so messages carry an identity that is recycled when no
thread and no queue slot holds the object. Payload contents are abstracted to
"audio or not". `Init` starts before `start()`; the twelve init messages are
`InitLength` steps, during which nobody else has the driver (`ensureStarted()`
holds the service's monitor until the session has started).

**`AudioLossyChannel`** — accept at the end, emit from the front, or lose the
oldest audio. `SendQueue` implements it with `pending <- queue`, `out <- taken`.

**`DriverLink`** — the four threads and any number of callers of `stop()`, with
one program counter each. `sendNow()` is `Acquire` (writeLock), `Header`,
`Payload`; `stop()` takes the lock once for both closing messages (Java monitors
are re-entrant). A transfer succeeds, is short, or throws; after a failure that
wrote some bytes `torn` is set, since nothing in the code resynchronises the OUT
stream. The dongle's side is `due` (the header whose payload it waits for) and
`last`. `join(1500)` returns when the thread has ended or, for threads that write
or sleep, at any moment (one write blocks up to 2 × 2000 ms). The join of the read
thread expires only during a callback: each of its transfers lasts 500 ms at most
and it looks at `running` after each one. The queue's contents are abstracted: the
write thread polls any message.

**`AtomicWire`** — messages written whole, one at a time, `CLOSE_DONGLE` right
behind `RELEASE_VIDEO_FOCUS`, the interface given up once.

**`MicSession`** — `CarlinkitMicrophone` with the audio commands of
`CarlinkitSession.handleMicCommand()` and `CarlinkitSession.stop()`. Three kinds of threads:
the read thread (`reader`, one call at a time, `job` says what for), capture threads
(`capture[t]`), and the service's `stop()` (`stopping`). A block synchronized on the
microphone waits for nothing inside, so it is one step; `setDecodeType()`, `start()` and
`startMic()` are several. `decodeType` stands for `sampleRate` and `chunkSamples`, which
change with it. `record` is the format the open AudioRecord was opened with. Any silent
chunk may be the fiftieth, so a source may be switched whenever nothing was heard. `asked`
is the argument of the last `onMicRequested()`. A session of the Activity has its `callback`
from the start; one that the receiver's broadcast started has none until an Activity binds
(`SetCallback`, on the main thread, at any moment), and until then nothing is asked for and
the capture starts all the same: `skipped` is a history variable that says so. The plain
field `mic` of the session is taken as sequentially consistent: a weaker memory model would
only delay what the read thread sees of `stop()`.

**`AudioPlayer`** — `CarlinkitAudioPlayer`. Two producers with one program counter
each: the read thread (`onAudio`: PCM and commands) and the UI thread (`setMuted`).
Both run the same `offer…`/`dropOldestPcm` steps; `goal` says what a chunk is dropped
for (to trim, to purge for a mute, to make room). Workers are threads with an
identity, so that nothing in the model keeps two from being alive. `service` calls
`start()` and `stop()`; while it clears the queue it holds `lifecycleLock`, which the
worker's last block needs (`LockFree`). `start()` comes before `driver.start()` and
`stop()` after `driver.stop()` joined the read thread, so neither meets a call of
`onAudio` (`CarlinkitSession.start`, `stop`). A PCM work is known by its array; a work
that left the queue can no longer be removed, whatever its array is used for next
(`Forget`). The pool is a set: an array could be in it twice only after it was in two
places, which `BufferExclusive` excludes. Which pooled array is long enough is any
choice, and so is a new one. `tracks` has the play state per format; the current
track is a pointer into it and adds nothing. AudioTrack calls succeed, except that a
new track may not open. `muteLost` is a history variable: a clear took a mute out of
the queue, or found no room for one, since the last `setMuted()`.

**`StaleFirstQueue`** — accept at the end, serve the front to one consumer, lose the
oldest sound or the front. `AudioPlayer` implements it with `pending <- audioQueue`
and `done` the works the workers hold.

**`VideoPath`** — from a `VIDEO_DATA` message to the decoder: `ParameterSetCache`, the
video side of `CarlinkitSession` and `CarlinkitVideoRenderer`. Three threads: main
(`attachSurface`, `onSurfaceReady`, `detachSurface`, `stop`), the driver's read thread
(`dispatch`, `onVideoFrame`) and a Binder thread (`onScreenTakenByHeadUnit`). The
synchronized methods of renderer and cache are one step each; the session takes no lock,
so every gap is a step and every check of a flag is apart from what follows it. The codec
is abstracted to what decides whether a picture appears: which parameter sets it has. A
stream (one connection of the phone) sends its sets once. Two history variables say why a
decoder may lack the sets (`behind`) and how many frames slipped in (`fedTaken`).

**`OmxCodec`** — the C++ decoder under JNI. One caller at a time, since the renderer holds
its monitor around every call; one thread per codec object. A section under a mutex, or
one that touches nothing another thread sees, is a step; both condition variables are
there with their lost-notification window (`pc = "waiting"`, `thread = "waiting"`).
`wait_until` may expire at any moment. OMXCodec of the platform is the environment:
`read()` reads its source any number of times (clearing its output pointer first), gives
inputs back when it likes, returns a picture or an error. Memory is explicit: `live`
codec objects, `heap` buffers, `window` references. `init()` of the decoder succeeds,
gets no client, is refused, or finds no codec (`NullCodec`: the null result of
`OMXCodec::Create()` is started and the process crashes). `setSps()` and the metadata of the
format are left out.

**`FrameFeed`** — open, put, decode in order, close; the next feed opens when every frame
of the last was given back. `OmxCodec` implements it with `waiting <- pbuffers[cur]` and
`decoding` the buffers lent to OMXCodec.

**`DongleRecovery`** — `CarlinkitActivity`, `CarlinkitService` and `CarlinkitUsbReceiver`
around one dongle. All of them run on the main thread, so a handler with everything it
calls is one step: an operator from the state `app` it finds to the states it may leave
(`OpenDevice`, `FindAndOpen`, `Reconnect`, `OnResume`, …). What interleaves is the
environment: USB broadcasts, the manifest receiver, permission dialogs and their answers,
posted Runnables, Surface, service connection, the user, the dongle and the kill of the
process. Every restart of the dongle is a new device instance, and a dead one lingers in
the device list. `ReceiverCalled` says whether the head unit delivers the attach broadcast
to the manifest receiver; the source reports that this one does not. `told` says that a
hunt ended with a final status. `user` is what is known of the user having left: `left` in
the process, `stored` what the preferences file may hold, since `persistUserLeft()` uses
`apply()` and the write comes later (`PreferencesWritten`); a kill before it loses the
value, or not. `said` and `lost` are the history of that. `serving` says that the service
was started and is to be restarted after a kill; the intent of the manifest receiver may
bring it up in place of the null one, and nothing is relaunched then (`preempted`, a history
variable). The process may be killed again while the relaunch is posted. Bound of the model:
of all events only the kill, which alone makes the file matter, falls into the milliseconds
of a write. Assumed of the environment: an instance leaves the device list within the
eight seconds of the reconnection and before the next enumeration; one USB broadcast is on
its way at a time; two dialogs are not answered at once; whether the window of 120 s is
over is not known; the service is never disconnected in-process; a service that is killed
is restarted (START_STICKY).

**`MC…` modules** only name model values and small sets; `…Fault` operators are
plausible bugs, each defined before the definition it would replace and used by
no specification.

## 4. Runs

| Run | Instance | Shows |
|---|---|---|
| `send_queue` | one command sender, one microphone, 2 slots, 2 init messages, 1 counted drop | `TypeOK` with the queue in its bound; `DropsAccounted`; `AudioLossyFifo` (refinement); `AcceptedGoesOut` |
| `send_queue_audio` | same | violated: `CommandOutranksAudio` |
| `driver_link` | 2 callers of `stop()`, a queue message with payload and one without, 3 tolerated failures | `ReleasedAtMostOnce`, `WritesAreAtomic` (refinement), `ReleaseIsExclusive`, `StopCompletes`, `ThreadsEnd` |
| `mic_session` | 2 capture threads alive at once, 2 mono formats and a stereo one, 2 sources | `OwnerCaptures`, `CaptureIsAsked`, `ReadIsSafe`, `StoppedCaptureEnds`, `FormatSettles` |
| `mic_session_stop` | same | violated: `CaptureEndsWithSession` |
| `audio_player` | 4 arrays, 2 worker threads, queue of 3 trimmed from 2 to 1, one format; symmetric in arrays and workers | `BufferExclusive`, `OneConsumer`, `MuteHolds`, `StaleGoesFirst` (refinement) |
| `audio_player_live` | 2 arrays, 1 worker thread at a time, queue of 2 trimmed from 1 to 0 | `MuteSettles`, `WorkerEnds` |
| `omx_codec` | 2 codec objects, 3 buffers | `BuffersOwned`, `TeardownIsOrdered`, `OnlyFailedInitOrphans`, `FeedsInOrder` (refinement), `CallsReturn` |
| `video_path` | 2 Surfaces, 2 streams | `OutlivesOnlyByRestart`, `DecoderKnowsStream`, `OneFrameAfterTaken`, `ReadyGetsPicture` |
| `video_path_detach` | same | violated: `DetachedIsStopped` |
| `dongle_recovery` | 2 instances of the dongle, limits 2 / 1 / 1, one Runnable posted per kind before the user or another attach adds one; with the receiver's broadcast | `NeverStuck`, `ReadyWhenShown`, `KilledComesBack`, `HuntEnds`, `HuntSpends` |
| `dongle_recovery_reuse` | same, without the broadcast | violated: `PicksNewInstance` |

Why the bounds are enough. Two slots are the smallest queue with an "oldest" and
a tail, and two senders of different kinds meet in every way `send()` distinguishes;
six identities cover every message that can be held at once (two slots, one at
the writer, two calls with a message each). `MaxDropped` stops new calls once that
many drops are counted; calls under way finish. The driver needs two stoppers for
the idempotence of `stop()` and one message of each shape; three is the code's own
`HEARTBEAT_MAX_FAILURES`. Two capture threads are one too many for the code, which
is the point of `OwnerCaptures`; two sources are one switch.

Three slots keep the order `target < watermark < capacity`
of the code with a sound chunk left after a trim; four arrays are one more than the
pool keeps and as many as can be held at once; the second worker is the one that must
not exist. Symmetry is used in `audio_player` only, whose properties are all safety;
the liveness run has smaller sets instead.

`OmxCodec` needs the codec that was left behind by a failed `init()` beside the one that
works, and a buffer in each place one can be: with the caller, in the queue, with OMXCodec
(11,659 states). `VideoPath` needs the Surface that goes and the one that comes, the stream
that ended and the one that began (188,200 states). `DongleRecovery` needs one restart; the
limits are parameters (3, 10 and 5 in the code) and the small ones are reached on every
path, which is what `HuntEnds` and `HuntSpends` are about (735,712 states). `MaxPosted`
bounds only the actions nobody owes: coming back, a flash drive, a dialog. `asked` and the
number of dialogs of a device saturate, since only "limit reached" and "more than one" are
told apart. Bounds on the user: the app is opened, relaunched or returned to when no dialog
is open, and not opened while a relaunch is due; the tap that stops the service is one step
with `finish()`.

Deadlock is not checked: every one of these programs stops for good after `stop()`
and an idle session may wait for ever.

## 5. Fairness

* `SendQueue`: weak fairness of the write loop as a whole and of the init sequence.
  The write thread is an ordinary runnable thread, `poll` has a timeout and
  `bulkTransfer` has one. Nobody has to send or to stop, and a sender may be
  suspended in the middle of `send()`.
* `DriverLink`: weak fairness per thread. The read thread's transfers end, since
  each has a timeout, but a payload may go on as long as the driver runs
  (`readFully` loops while `running`). Callers of `stop()` go on once they began;
  nobody has to begin. Monitors are granted eventually: after `running` is cleared
  each rival of the lock wants it at most once more, so weak fairness suffices.
* `MicSession`: weak fairness per capture thread (`read()` returns: it blocks for
  one 20 ms chunk), of the read thread inside a call (`join(400)`, callbacks
  return), and of a `stop()` that has begun. Commands never have to arrive.

* `AudioPlayer`: weak fairness of each producer inside a call, of each worker and of
  the service inside `start()` or `stop()`; every wait there has a timeout. Strong
  fairness of the worker's last step: a monitor held for some polls is granted in the
  end, however often `stop()` takes it. A clear of the queue need not come to its end
  while commands arrive faster than it polls, and `MuteSettles` says so.
* `OmxCodec`: weak fairness of the caller inside a call and of each decoder thread:
  OMXCodec returns, the window takes pictures. Nothing makes the renderer begin a call.
  An `init()` that hears nothing would wait for ever, which is what `CallsReturn` excludes.
* `VideoPath`: weak fairness of each thread inside a call; strong fairness of the
  keyframe, since a dongle that streams answers a request among its other messages. The
  request itself is taken as sent: `requestKeyFrame()` returns false when the send queue is
  full of commands, and the session does not look (`CarlinkitSession.java:275`, `:311`).
* `DongleRecovery`: weak fairness of the Surface of an Activity in the foreground, and
  weak fairness of one step or another among those a hunt waits for: the settling of the
  device list, the user's answer to a dialog, its broadcast, a Runnable, the write of the
  preferences. Nothing more is needed: broadcasts, the service connection, the relaunch, the
  user, the dongle and the head unit owe nothing, and no restart of the dongle and no return
  of the user is ever assumed.

## 6. Proofs

`DriverLinkProofs` proves, for any set of stoppers, any queue messages and any
`MaxFailures`:

* `Inductive`: `Spec => []IInv`;
* `TypeCorrect` (`TypeOK`), `OneRelease` (`ReleasedAtMostOnce`);
* `ReleaseExclusive` (`ReleaseIsExclusive`);
* `AtomicWrites` (`WritesAreAtomic`): `DriverLink` implements `AtomicWire`.

Assumptions: the named ones of `DriverLink` (threads and messages are distinct,
`Bare` holds the messages without payload, `MaxFailures` is positive), which TLC
evaluates in `driver_link`.

Why the invariant is what it is. "Never inside another message" is not inductive:
it needs that a thread is transferring exactly when it owns the lock (`LockInv`),
that the dongle waits for a payload exactly while its writer is at the second
transfer, unless the stream is torn (`FramingInv`), and what each thread passes
to `sendNow()` (`MessageInv`). The closing order needs that a stopper about to send
`CLOSE_DONGLE` still holds the lock it wrote `RELEASE_VIDEO_FOCUS` under
(`ClosingInv`). A single release needs that one stopper at most is past the
synchronized block (`StopInv`), and safety of the release under IN transfers that
the reader cannot begin one after `joinRead` (`ReaderInv`, which rests on
`running` being clear). One lemma per action; `Header` and `Payload` share
`ResultKeeps`, since both end `sendNow()`.

`MicSessionProofs` proves, for any capture threads, formats and sources:

* `Inductive`: `Spec => []IInv`;
* `TypeCorrect` (`TypeOK`), `OneOwner` (`OwnerCaptures`);
* `AskedWhileCapturing` (`CaptureIsAsked`);
* `SafeReads` (`ReadIsSafe`): the device is not closed under a read.

Assumptions: `FormatsAssumption`, `NothingAssumption` and `SourcesAssumption` of
`MicSession`, evaluated in `mic_session`.

Why the invariant is what it is. That a capture thread is the owner exactly while it
captures is not inductive: a new capture takes the device over, so nobody may own it when
`startLocked()` opens it. `CallInv` follows the read thread there: when `start()` waits for
the capture before, that one is told to end and is the owner, or nobody is; when the wait is
over and the thread gone, nobody is; and nothing runs when the microphone is handed back.
`CaptureIsAsked` needs that every point from which a capture can still begin lies behind
`onMicRequested(true)`, a restart included, or behind a start that found no callback to ask
through (`AskedInv`). `ReadIsSafe` follows from ownership: the only steps that replace the
AudioRecord are the owner's own and `startLocked()`, which finds none.

`SendQueueProofs` proves, for any senders, any capacity and any init sequence:

* `Inductive`: the step lemma of the invariant;
* `TypeCorrect` (`TypeOK`), `DropsCounted` (`DropsAccounted`);
* `ImplementsFifo` (`AudioLossyFifo`): `SendQueue` implements `AudioLossyChannel`.

Assumptions: `CapacityAssumption`, `InitAssumption`, `SendersAssumption`,
`BoundAssumption` and `NothingAssumption` of `SendQueue`, evaluated in `send_queue`.

Why the invariant is what it is. That `remove(o)` takes the oldest audio is the heart of
the refinement, and it is not obvious: the chunk was found some steps ago. `CandInv` says
that it is still the oldest if it is queued at all. Others can only append behind it, take
the front or remove a chunk, and none of these puts an older one before it. This holds for
objects, not for values: it needs that a message is queued once (`Distinct`) and that a new
one is none that a call still holds (`FreshInv`, `CallInv`), because a recycled identity
could be found again at the tail. `DropsAccounted` is inductive beside these, with the
calls that have lost a message and not counted it as the slack.

`OmxCodecProofs` proves, for any codecs and buffers:

* `TypeCorrect` (`TypeOK`), `BuffersSafe` (`BuffersOwned`);
* `TeardownSafe` (`TeardownIsOrdered`), `OrphansAreFailed` (`OnlyFailedInitOrphans`);
* `ImplementsFeed` (`FeedsInOrder`): `OmxCodec` implements `FrameFeed`.

Assumptions: `NoCodecAssumption` and `NoBufferAssumption`, evaluated in `omx_codec`.

Why the invariant is what it is. A buffer is freed by three parties (the source that stops,
OMXCodec that gives inputs back, the decoder that stops); it is freed once because it is in
one place (`BuffersOwned`, with `DistinctInv` inside one queue), and only the codec the
renderer holds has any (`IdleInv`). That nothing is left at `nativeDelete()` needs how far
the call got (`CallInv`: the flags are raised in the order thread, source; behind the join
the thread has ended) and what an ended thread gave back (`StageInv`). The crash inside
`init()` is the end of every behaviour that has it, so the null result of
`OMXCodec::Create()` disturbs none of this.

`AudioPlayerProofs` proves, for any formats, arrays, worker threads and queue sizes:

* `TypeCorrect` (`TypeOK`), `BuffersExclusive` (`BufferExclusive`);
* `OneConsumerProved` (`OneConsumer`), `MuteHeld` (`MuteHolds`);
* `ImplementsQueue` (`StaleGoesFirst`): `AudioPlayer` implements `StaleFirstQueue`.

Assumptions: `SizesAssumption`, `SetsAssumption` and `NothingAssumption` of
`AudioPlayer`, evaluated in `audio_player`.

Why the invariant is what it is. That one thread consumes is not inductive: `stop()` gives
up its join, so a worker may outlive it. `ConsumerInv` says that at most one worker is
alive and that it is `audioThread`, `ServiceInv` that `start()` gets to its clear and to a
new thread only when none is. `BufferInv` counts the places of an array: pool, queue, the
read thread's hand, the worker's. It needs that queued works are distinct, and `CandInv`:
a chunk chosen to be dropped is still the oldest sound if it is queued at all, and everyone
who takes a work out makes the others forget it, so no array is released twice.
`MuteInv` ties what was asked for to what is on its way: the last mute in the queue is the
one asked for; when none is queued or in hand, it was applied; a clear that takes one
sets `muteLost`; a start begins from an empty queue and released tracks.

`VideoPathProofs` proves, for any Surfaces and connections of the phone:

* `TypeCorrect` (`TypeOK`), `OnlyRestartOutlives` (`OutlivesOnlyByRestart`);
* `SetsKnown` (`DecoderKnowsStream`), `OneFrameSlips` (`OneFrameAfterTaken`).

Assumptions: `NothingAssumption` and `DecoderAssumption` of `VideoPath`, evaluated in
`video_path`.

Why the invariant is what it is. The properties speak of the moments when the main thread
and the read thread are outside their calls. `LifeInv` carries the first one through
`detachSurface()` and `stop()`: a decoder the main thread made has the Surface that is
there until the main thread itself stops it. `KnowInv` carries the second one: parameter
sets the decoder lacks are either in the read thread's hand or `onSurfaceReady()` has yet
to copy or inject them; that the hand holds the sets of the cache is `ReadInv`. `TakenInv`
needs that no frame was decoded since the screen was taken while one is past the check.

`DongleRecoveryProofs` proves, for any number of restarts of the dongle and any limits:

* `TypeCorrect` (`TypeOK`), `HuntNeverStuck` (`NeverStuck`);
* `ShownIsReady` (`ReadyWhenShown`), `RelaunchIsDue` (`KilledComesBack`).

Assumptions: `BoundsAssumption` and `LimitsAssumption` of `DongleRecovery`, evaluated in
`dongle_recovery`.

Why the invariant is what it is. It is a predicate of the application's state and of the
answers on their way, so that each handler has one lemma, whoever calls it: a handler that
finds `Fine` leaves `Good`. `NeverStuck` needs that a request that is waited for is open
or answered (`Core`), that the user is not in front of what he left, or a Runnable would
end the hunt without a word, and that an Activity that is gone has no Runnable or service
left (`Place`). `ReadyWhenShown` needs that a started session exists, unless the receiver
took it away, which is what `replaced` records. `KilledComesBack` needs that a service is to
be restarted as long as there is an Activity (`serving`), that nothing is on the way back
while there is one (`Away`), and that the process knows what the user did last unless a kill
came before the write (`Remembers`). `Written` says that a kill finds one value in the file,
and that window is `lost`.

### What the liveness properties rest on

Liveness needs fairness and ENABLED, which are out of the prover's reach, so TLC checks
it on small instances only. The argument behind each property, though, is mostly safety:
somebody is there to take the next step, each of those steps brings the end nearer on a
well-founded scale, and nobody else's step takes that back. These parts are stated as
invariants and action properties and proved for every value of the constants; all but
`HuntSpends` are in no configuration, because a run of theirs would ask nothing the liveness
run does not.

| Liveness (TLC) | Safety core (theorem) | What it says |
|---|---|---|
| `AcceptedGoesOut` | `WriterServes` (`WriterStays`), `CommandGetsNearer` (`CommandsGetNearer`) | the write thread is there while the driver runs; a queued command never moves back, and each step of that thread brings it nearer |
| `StopCompletes`, `ThreadsEnd` | `LockIsInUse` (`LockInUse`), `WindsDown` (`ThreadsWindDown`), `ReleaseIsComing` (`ReleaseComes`) | the lock's owner is in a transfer; after `stop()` began no thread goes round again; somebody is on his way to the release |
| `FormatSettles` | `FormatIsHonoured` (`FormatHonoured`) | a capture in another format is one the read thread is about to end, or one without a record yet |
| `StoppedCaptureEnds` | `StopIsFinal` (`StoppedStaysStopped`) | a capture that was told to end is not taken back, and has fewer steps left with each it takes |
| `WorkerEnds` | `StoppedWorkerEnds` (`WorkersGetDone`) | the same of a worker of the player, which takes one work more at the most |
| `MuteSettles` | `PurgeGetsThrough` (`PurgeEnds`), `MuteHolds` (`MuteHeld`) | while muted the sound to come only gets less; an applied mute holds |
| `ReadyGetsPicture` | `KeyframeIsComing` (`KeyframeComes`) | a decoder with its sets and without a picture has a keyframe asked for, in hand or about to be asked for |
| `CallsReturn` | `NoLostWakeup` (`SleepersAreWoken`), `ThreadNears` (`ThreadsGetNearer`) | whoever sleeps will be notified; the thread that is waited for never goes round again; lemma: what it still gives back is finite |
| `HuntEnds` | `HuntSpends` (`HuntOnlySpends`), `BudgetIsNatural`, `NeverStuck` | see below |

The scales are `Due`, `ToGo`, `StepsLeft`, `Distance` and `Budget`, numbers or tuples of
numbers; that the lexicographic order of six numbers has no infinite descent, and that the
buffers a codec holds are finitely many, are lemmas (`BudgetsRunOut`, `LentIsFinite`). What
is left to TLC is that the scheduler takes the steps. Some parts of the liveness properties
are outside these cores: that the clear of a player's queue ends (it may not, and
`MuteSettles` says so), and that the dongle gets and answers a keyframe request.

The budget of the hunt has six parts, the most precious first: what is due to begin
it again (broadcasts, a service connection), a request whose dialog is open though nobody
waits for it, what is posted, open or answered, the requests left, how far the last one
is, the searches left. A search that finds the device resets the search counter and pays
with a request; a reconnection resets it too and pays with the broadcast that caused it; an
answer pays with itself. `Overlap` is excepted, as in `HuntEnds`: with two requests at
once the answer to one gives the counters of the other back. `Settles` are the steps that
neither spend nor fill up. The remaining steps are those of the user, the dongle and the
head unit, which may begin a hunt whenever they like. Since the limits are constants,
the theorem holds for the 3, 10 and 5 of the code.

Only model-checked: the ten liveness properties of the table's first column, because of
fairness and ENABLED. Every safety property that a passing run checks is proved.

## 7. Findings and limits

* `send_queue_audio`: between `dropOldestAudio()` and the second `offer()` another
  sender can take the slot, so a command is refused while audio is queued. The
  comment in `send()` says commands matter more.
* `mic_session_stop`: `CarlinkitSession.stop()` stops the microphone before the
  read thread. If that thread is inside `mic.start()`, a capture begins after the
  stop and nothing stops it any more. `driver.stop()` first would close the window.
  It is the only window: `OnlyStartUnderWay` proves that a microphone that was forgotten
  while it did not capture, and while the read thread was in no such call, stays quiet
  (`ForgottenStaysQuiet`), for any formats and sources.
* `video_path_detach`: `detachSurface()` stops the decoder before it clears the view
  and `surfaceReady`. A frame that is past its check restarts the decoder, which then runs
  without a screen. Clearing the flags first would close the window.
  `OutlivesOnlyByRestart` shows that this restart is the only way.
* `dongle_recovery_reuse`: the Activity waits for the new instance to be listed, then
  takes up the service's session, which is still the one with the dead instance: only the
  manifest receiver's broadcast replaces it. The dead session's `hasReceivedData()` also
  clears the reconnection ceiling (`CarlinkitActivity.muteDongleCheck`).

Observed while modelling, in the conditions of the properties or outside them:

* `HuntEnds` excepts `Overlap`: after a drop under an open permission dialog a second
  dialog opens, the answer to the first clears `awaitingUsbPermission`, and the `onResume()`
  of the second then resets the counters, against the comment at
  `CarlinkitActivity.java:301` ("makes the limit real").
* `ReadyWhenShown` excepts `swallowed` (`surfaceChanged()` hands a leftover `pendingDevice`
  to `openDevice()`, which returns at once, and the session is not told of the Surface) and
  `replaced` (the receiver changes the session under a shown Activity).
* `DecoderKnowsStream` excepts `behind`: parameter sets that come while the head unit has
  the screen are cached and never injected when it is handed back; a restart by the
  read thread injects none.
* `OnlyFailedInitOrphans` says what is left behind: the codec and thread of every failed
  `init()`, which `CarlinkitVideoRenderer` forgets without `nativeDelete()` and retries with
  the next frame. Two null pointers are followed: `decoder_` after a failed `connect()`, by
  the loop, and the result of an `OMXCodec::Create()` that found no decoder, inside `init()`.
* `CaptureIsAsked` excepts `skipped`: a call that begins in a session the receiver started,
  before an Activity binds, captures without asking the head unit for the microphone
  (`CarlinkitSession.java:526`, `CarlinkitService.java:107`), and nothing asks later.
* `KilledComesBack` excepts `lost`: killed between `apply()` and the write, the app may skip
  the relaunch of a user who was there, or come up over what he left it for. It excepts
  `preempted` too: the receiver's intent restarts the service instead of the null one, and
  only the null one relaunches (`CarlinkitService.java:85`).
* A denied permission's retry looks neither at `userLeft` nor at `sessionStarted` (the
  callee looks at the latter), and the relaunch after a kill is not re-checked when
  its five seconds are over.
* `OMXVideoCodec.java:48` passes `height_, width_` where the native side reads width,
  height.
* `fillFrames()` in `CarlinkitAudioPlayer` takes the written count, not the head, as the
  side that wrapped: between the two wraps the level is lost or 2^32 off. Only the log
  shows it.

Not modelled, and why:

* the bytes of the read stream: after a lost byte the loop promises nothing but to go on,
  so there is nothing to check against; `DriverLink` has the thread's life cycle and
  `VideoPath` what it does with a message;
* `HondaConnectManager`: its state follows the answers of Honda services of which only
  the interfaces are here; a model would check its own assumptions about them. The calls
  to it and from it are in `MicSession` and `VideoPath`;
* wire formats: pure functions of one buffer;
* settings, settings screens, logging: no concurrency or protocol of their own,
  nothing reads the log back;
* day/night sensor: a timer and floating point;
* in the Activity: wheel buttons and their dedupe (a matter of 600 ms), status texts,
  `sessionHeartbeat` and `checkVideoStall`, Runnables of an Activity that was destroyed;
* Android's audio and video stack: platform code, modelled by what its callers see;
* USB descriptors in `CarlinkitDriver.open()`; message contents beyond what the
  properties distinguish;
* exceptions from `Thread.interrupt()` in the driver: no code interrupts its threads;
* counters, timings and levels that only the log reads.

Most of the repository's C and C++ is vendored: some 60,000 lines of Android headers
under `ext-libs/` that declare the platform and have no behaviour. The application is
Java, with one small native library; the modules cover that library and the Java core,
so a share of the C and C++ lines says little about what is modelled.

Hazards that no property covers are listed in `PROJECT.json` with a note that says why.
