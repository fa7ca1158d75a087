--------------------------- MODULE DongleRecovery ---------------------------
(***************************************************************************)
(* CarlinkitActivity, CarlinkitService and CarlinkitUsbReceiver: finding   *)
(* the dongle, asking for the USB permission, keeping the session while    *)
(* the screen comes and goes, and recovering when the dongle restarts or   *)
(* the head unit kills the process.                                        *)
(*                                                                         *)
(* All of it runs on the main thread, so a handler is one step, with every *)
(* handler it calls: an operator takes the state `app` a handler finds and *)
(* gives the set of the states it may leave.  What interleaves are the     *)
(* events: broadcasts, delayed Runnables, the permission dialog, the       *)
(* Surface, the service connection, the user, the dongle, the kill.        *)
(*                                                                         *)
(* Each restart of the dongle is a new device instance, 1, 2, ...; 0 is    *)
(* none.                                                                   *)
(***************************************************************************)
EXTENDS Naturals, Sequences

CONSTANTS
  ReceiverCalled, \* the head unit delivers the broadcast to the manifest receiver
  MaxInstances,   \* bound of the model on the instances
  MaxPosted,      \* bound of the model: the user comes back below it
  MaxAsks,        \* MAX_USB_PERMISSION_ATTEMPTS, 3 in the code
  MaxSearches,    \* MAX_DONGLE_SEARCH_ATTEMPTS, 10 in the code
  MaxReconnects   \* MAX_DONGLE_RECONNECT_ATTEMPTS, 5 in the code

ASSUME BoundsAssumption ==
  MaxInstances \in Nat /\ MaxPosted \in Nat
ASSUME ReceiverAssumption == ReceiverCalled \in BOOLEAN
ASSUME LimitsAssumption ==
  MaxAsks \in Nat /\ MaxSearches \in Nat /\ MaxReconnects \in Nat

VARIABLES
  app,          \* the Activity, the Service and the dialogs, see App
  alive,        \* the instance of the dongle that works
  last,         \* the last one there was
  listed,       \* getDeviceList(): a dead one lingers in it
  permitted,    \* hasPermission()
  answers,      \* ACTION_USB_PERMISSION broadcasts on their way
  broadcasts,   \* USB_DEVICE_ATTACHED or DETACHED on its way to the Activity
  handover,     \* the instance the manifest receiver passes to the service
  relaunch      \* on the way back from a kill

usb == <<alive, last, listed, permitted>>
wires == <<answers, broadcasts, handover>>
vars == <<app, usb, wires, relaunch>>

Instances == 1..MaxInstances
Timers == {"retry", "search", "reconnect"}
NoTimers == [t \in Timers |-> 0]
NoDialogs == [d \in Instances |-> 0]

UserLeft ==
  [left : BOOLEAN,                       \* userLeft, and user_left as the process has it
   stored : SUBSET BOOLEAN,              \* user_left as the preferences file may have it
   said : BOOLEAN,                       \* history: what it was last set to
   lost : BOOLEAN]                       \* history: killed since, before it was written

App ==
  [screen : {"none", "front", "back"},   \* the Activity: gone, resumed, paused
   surface : BOOLEAN,                    \* surfaceReady()
   bound : {"no", "binding", "yes"},     \* service
   started : BOOLEAN,                    \* sessionStarted
   awaiting : BOOLEAN,                   \* awaitingUsbPermission
   asked : 0..MaxAsks,                   \* usbPermissionAttempts, up to its limit
   searches : 0..MaxSearches,            \* dongleSearchAttempts
   drops : 0..MaxReconnects,             \* dongleReconnectAttempts
   pending : 0..MaxInstances,            \* pendingDevice
   told : BOOLEAN,                       \* the hunt ended with a final status
   posted : [Timers -> Nat],             \* delayed Runnables, by kind
   mute : BOOLEAN,                       \* muteDongleCheck is posted
   dialogs : [Instances -> 0..2],        \* permission dialogs open, 2 for more
   session : 0..MaxInstances,            \* what the service's session has open
   ready : BOOLEAN,                      \* surfaceReady of that session
   serving : BOOLEAN,                    \* the service was started, START_STICKY
   user : UserLeft,                      \* whether the user left the app
   swallowed : BOOLEAN,                  \* history: surfaceChanged() opened, not shown
   replaced : BOOLEAN,                   \* history: the receiver changed the session
   killed : BOOLEAN,                     \* history: how the last Activity ended
   preempted : BOOLEAN]                  \* history: restarted for the receiver instead

NoActivity(a) ==
  [a EXCEPT !.screen = "none", !.surface = FALSE, !.bound = "no", !.started = FALSE,
            !.awaiting = FALSE, !.asked = 0, !.searches = 0,
            !.drops = 0, !.pending = 0, !.told = FALSE, !.posted = NoTimers,
            !.mute = FALSE, !.swallowed = FALSE, !.replaced = FALSE, !.killed = FALSE,
            !.preempted = FALSE]

NoSession(a) == [a EXCEPT !.session = 0, !.ready = FALSE]

Never == [left |-> FALSE, stored |-> {FALSE}, said |-> FALSE, lost |-> FALSE]

Nowhere ==
  [screen |-> "none", surface |-> FALSE, bound |-> "no", started |-> FALSE,
   awaiting |-> FALSE, asked |-> 0, searches |-> 0, drops |-> 0,
   pending |-> 0, told |-> FALSE, posted |-> NoTimers, mute |-> FALSE, dialogs |-> NoDialogs,
   session |-> 0, ready |-> FALSE, serving |-> FALSE, user |-> Never, swallowed |-> FALSE,
   replaced |-> FALSE, killed |-> FALSE, preempted |-> FALSE]

Init ==
  /\ app = Nowhere
  /\ alive = 0 /\ last = 0 /\ listed = {} /\ permitted = {}
  /\ answers = {} /\ broadcasts = <<>> /\ handover = 0
  /\ relaunch = "no"

(***************************************************************************)
(* Handlers.                                                               *)
(***************************************************************************)
Post(a, t) == [a EXCEPT !.posted[t] = @ + 1, !.told = FALSE]

Tell(a) == [a EXCEPT !.told = TRUE]

Bound(a) == a.bound = "yes"

\* onSurfaceReady() of the session
ShowSession(a) ==
  IF a.session = 0 THEN a
  ELSE [a EXCEPT !.ready = TRUE, !.swallowed = FALSE, !.replaced = FALSE]

\* detachSurface() of the service
HideSession(a) == IF Bound(a) THEN [a EXCEPT !.ready = FALSE] ELSE a

\* releaseSurface()
ReleaseSurface(a) ==
  HideSession([a EXCEPT !.started = FALSE, !.mute = FALSE,
                        !.swallowed = FALSE, !.replaced = FALSE])

\* ensureStarted(): a session that is there is taken, whatever device it has
\* open; a dead instance opens as long as it is listed
EnsureStarted(a, d) ==
  IF a.session # 0 THEN {a}
  ELSE {a} \cup {[a EXCEPT !.session = i] : i \in {d} \cap listed}

\* openDevice(); the check it posts only matters when there are attempts to forget
OpenDevice(a, d) ==
  IF a.started THEN {a}
  ELSE IF ~a.surface \/ ~Bound(a) THEN {[a EXCEPT !.pending = d, !.told = FALSE]}
  ELSE {IF s.session = 0 THEN Tell(s)
        ELSE ShowSession([s EXCEPT !.started = TRUE, !.mute = (s.drops > 0), !.told = FALSE])
        : s \in EnsureStarted([a EXCEPT !.pending = 0], d)}

\* only whether the limit is reached matters
Ask(a, d) ==
  [a EXCEPT !.awaiting = TRUE, !.asked = IF @ < MaxAsks THEN @ + 1 ELSE @,
            !.dialogs[d] = IF @ < 2 THEN @ + 1 ELSE @, !.told = FALSE]

\* fault: a search is repeated without being counted
FindAndOpenFault(a) ==
  IF a.started \/ a.awaiting THEN {a}
  ELSE IF listed # {}
  THEN UNION {IF d \in permitted THEN OpenDevice(a, d) ELSE {Ask(a, d)} : d \in listed}
  ELSE {Post(a, "search")}

\* findAndOpenDongle(): the first supported device of a HashMap is any of them
FindAndOpen(a) ==
  IF a.started \/ a.awaiting THEN {a}
  ELSE IF listed # {}
  THEN LET b == [a EXCEPT !.searches = 0] IN
       UNION {IF d \in permitted THEN OpenDevice(b, d) ELSE {Ask(b, d)} : d \in listed}
  ELSE IF a.searches < MaxSearches
  THEN {Post([a EXCEPT !.searches = @ + 1], "search")}
  ELSE {Tell(a)}

\* fault: scheduleDongleReconnect() without its ceiling
ReconnectFault(a) ==
  {Post([a EXCEPT !.drops = @ + 1, !.awaiting = FALSE, !.searches = 0], "reconnect")}

\* scheduleDongleReconnect(): whether the window of 120 s is over is not known
Reconnect(a) ==
  IF a.user.left THEN {a}
  ELSE {IF n >= MaxReconnects THEN Tell([a EXCEPT !.drops = n])
        ELSE Post([a EXCEPT !.drops = n + 1, !.awaiting = FALSE, !.searches = 0],
                  "reconnect")
        : n \in {a.drops, 0}}

ResetCounters(a) == [a EXCEPT !.asked = 0, !.searches = 0, !.drops = 0]

\* persistUserLeft(): apply() returns before the file is written
PersistUserLeft(a, v) ==
  [a EXCEPT !.user =
     [left |-> v, stored |-> @.stored \cup {v}, said |-> v, lost |-> FALSE]]

\* fault: the counters are reset although a request is pending
OnResumeFault(a) ==
  FindAndOpen(PersistUserLeft([ResetCounters(a) EXCEPT !.screen = "front"], FALSE))

\* onResume(): of the user, and of a dialog that closes
OnResume(a) ==
  LET b == IF a.awaiting THEN a ELSE ResetCounters(a) IN
  FindAndOpen(PersistUserLeft([b EXCEPT !.screen = "front"], FALSE))

\* onCreate() and onResume()
Launched(a) == OnResume([NoActivity(a) EXCEPT !.bound = "binding", !.serving = TRUE])

\* fault: a denial is taken for the last word, without a status
PermissionAnsweredFault(a, d, granted) ==
  LET b == [a EXCEPT !.awaiting = FALSE] IN
  IF granted THEN OpenDevice([b EXCEPT !.asked = 0], d) ELSE {b}

\* ACTION_USB_PERMISSION
PermissionAnswered(a, d, granted) ==
  LET b == [a EXCEPT !.awaiting = FALSE] IN
  IF granted THEN OpenDevice([b EXCEPT !.asked = 0], d)
  ELSE IF a.asked < MaxAsks THEN {Post(b, "retry")}
  ELSE {Tell(b)}

\* USB_DEVICE_DETACHED, USB_DEVICE_ATTACHED
Detached(a) == Reconnect(ReleaseSurface(a))
Attached(a) == IF a.user.left THEN {a} ELSE FindAndOpen(a)

\* the Runnables; that of a denied permission looks at nothing
TimerFired(a, t) ==
  LET b == [a EXCEPT !.posted[t] = @ - 1] IN
  IF t = "retry" \/ (~a.started /\ ~a.user.left) THEN FindAndOpen(b) ELSE {b}

\* muteDongleCheck; a session may have received data, of an instance that is
\* gone too
MuteChecked(a) ==
  LET b == [a EXCEPT !.mute = FALSE] IN
  IF ~a.started \/ a.user.left THEN {b}
  ELSE {b} \cup (IF a.session # 0 THEN {[b EXCEPT !.drops = 0]} ELSE {})

\* fault: the screen is attached, the session is not told
ServiceConnectedFault(a) ==
  LET b == [a EXCEPT !.bound = "yes"] IN
  IF b.session # 0 THEN {[b EXCEPT !.started = TRUE, !.told = FALSE]}
  ELSE IF b.pending # 0 THEN OpenDevice([b EXCEPT !.pending = 0], b.pending)
  ELSE FindAndOpen(b)

\* onServiceConnected(): a session that is there leaves pendingDevice as it is
ServiceConnected(a) ==
  LET b == [a EXCEPT !.bound = "yes"] IN
  IF b.session # 0
  THEN LET c == [b EXCEPT !.started = TRUE, !.told = FALSE] IN
       {IF c.surface THEN ShowSession(c) ELSE c}
  ELSE IF b.pending # 0 THEN OpenDevice([b EXCEPT !.pending = 0], b.pending)
  ELSE FindAndOpen(b)

\* surfaceChanged(): a pending device is opened, or swallowed when a session is
\* started already
SurfaceChanged(a) ==
  IF a.pending # 0
  THEN OpenDevice([a EXCEPT !.pending = 0, !.swallowed = a.started], a.pending)
  ELSE {IF Bound(a) THEN ShowSession(a) ELSE a}

\* ACTION_DEVICE_ATTACHED: the old session goes before the device is opened
DeviceHandedOver(a, d) ==
  LET b == [a EXCEPT !.serving = TRUE] IN
  IF d \notin permitted THEN {b}
  ELSE EnsureStarted(NoSession([b EXCEPT !.replaced = b.started]), d)

Calm == \A t \in Timers : app.posted[t] < MaxPosted

(***************************************************************************)
(* The dongle and the system.                                              *)
(***************************************************************************)

Written == app.user.stored = {app.user.left}

\* bound of the model: a restart takes longer than a broadcast
Delivered == broadcasts = <<>> /\ handover = 0

\* the instance goes; its entry in the device list stays for a while
DongleDrops ==
  /\ alive # 0 /\ Delivered
  /\ alive' = 0
  /\ permitted' = permitted \ {alive}
  /\ broadcasts' = Append(broadcasts, "detached")
  /\ UNCHANGED <<app, last, listed, answers, handover, relaunch>>

DeviceListSettles ==
  /\ listed \ {alive} # {}
  /\ listed' = listed \cap {alive}
  /\ UNCHANGED <<app, alive, last, permitted, wires, relaunch>>

\* a restart takes longer than the dead instance lingers in the list; with the
\* broadcast to the manifest receiver comes a permission, but this head unit was
\* only seen not to deliver it
DongleEnumerates ==
  /\ alive = 0 /\ last < MaxInstances /\ listed = {} /\ Delivered
  /\ last' = last + 1
  /\ alive' = last'
  /\ listed' = {last'}
  /\ broadcasts' = Append(broadcasts, "attached")
  /\ \/ /\ ReceiverCalled
        /\ handover' = last' /\ permitted' = permitted \cup {last'}
     \/ UNCHANGED <<handover, permitted>>
  /\ UNCHANGED <<app, answers, relaunch>>

\* the Activity takes any device for the dongle
FlashDriveAttached ==
  /\ app.screen # "none" /\ Calm
  /\ app' \in Attached(app)
  /\ UNCHANGED <<usb, wires, relaunch>>

\* a broadcast nobody is registered for is lost
BroadcastArrives ==
  /\ broadcasts # <<>>
  /\ broadcasts' = Tail(broadcasts)
  /\ IF app.screen = "none" THEN UNCHANGED app
     ELSE app' \in IF Head(broadcasts) = "detached" THEN Detached(app)
                   ELSE Attached(app)
  /\ UNCHANGED <<usb, answers, handover, relaunch>>

\* startService(); the intent of a service that is down after a kill may take the
\* place of the null one it would be restarted with
HandedOver ==
  /\ handover # 0
  /\ handover' = 0
  /\ \/ app' \in DeviceHandedOver(app, handover) /\ UNCHANGED relaunch
     \/ /\ relaunch = "killed"
        /\ app' \in DeviceHandedOver([app EXCEPT !.preempted = TRUE], handover)
        /\ relaunch' = "no"
  /\ UNCHANGED <<usb, answers, broadcasts>>

\* the dialog closes, and onResume() runs before the broadcast arrives; the
\* user does not close two at once
DialogClosed(d, granted) ==
  /\ app.dialogs[d] > 0 /\ answers = {} /\ Calm
  /\ granted => d \in listed
  /\ answers' = answers \cup {<<d, granted>>}
  /\ permitted' = IF granted /\ d = alive THEN permitted \cup {d} ELSE permitted
  /\ LET a == [app EXCEPT !.dialogs[d] = @ - 1] IN
     app' \in IF a.screen = "front" THEN OnResume(a) ELSE {a}
  /\ UNCHANGED <<alive, last, listed, broadcasts, handover, relaunch>>

AnswerArrives ==
  \E r \in answers :
    /\ answers' = answers \ {r}
    /\ app' \in IF app.screen = "none" THEN {app}
                ELSE PermissionAnswered(app, r[1], r[2])
    /\ UNCHANGED <<usb, broadcasts, handover, relaunch>>

\* eight seconds are enough for the device list to settle
TimerFires(t) ==
  /\ app.posted[t] > 0
  /\ t = "reconnect" => listed \subseteq {alive}
  /\ app' \in TimerFired(app, t)
  /\ UNCHANGED <<usb, wires, relaunch>>

MuteDongleCheck ==
  /\ app.mute
  /\ app' \in MuteChecked(app)
  /\ UNCHANGED <<usb, wires, relaunch>>

ServiceConnects ==
  /\ app.bound = "binding"
  /\ app' \in ServiceConnected(app)
  /\ UNCHANGED <<usb, wires, relaunch>>

SurfaceComes ==
  /\ app.screen = "front" /\ ~app.surface
  /\ app' \in SurfaceChanged([app EXCEPT !.surface = TRUE])
  /\ UNCHANGED <<usb, wires, relaunch>>

SurfaceGoes ==
  /\ app.screen = "back" /\ app.surface
  /\ app' = HideSession([app EXCEPT !.surface = FALSE, !.swallowed = FALSE])
  /\ UNCHANGED <<usb, wires, relaunch>>

(***************************************************************************)
(* The user, and the head unit that kills the process.                     *)
(***************************************************************************)
\* bounds of the model: the user does not open the app while a relaunch is due;
\* it is opened, relaunched or returned to when the dialogs are answered
Launch ==
  /\ app.screen = "none" /\ app.dialogs = NoDialogs
  /\ relaunch = "no"
  /\ app' \in Launched(app)
  /\ UNCHANGED <<usb, wires, relaunch>>

\* HOME; a leave behind a dialog, or that our own command caused, is not one
Leave ==
  /\ app.screen = "front"
  /\ LET a == [app EXCEPT !.screen = "back"] IN
     app' = a \/ (~app.awaiting /\ app' = PersistUserLeft(a, TRUE))
  /\ UNCHANGED <<usb, wires, relaunch>>

Return ==
  /\ app.screen = "back" /\ app.dialogs = NoDialogs /\ Calm
  /\ app' \in OnResume(app)
  /\ UNCHANGED <<usb, wires, relaunch>>

\* BACK, confirmed: the Activity ends, the session stays; a dialog has the focus
Back ==
  /\ app.screen = "front" /\ app.dialogs = NoDialogs
  /\ app' = NoActivity(ReleaseSurface(PersistUserLeft(app, TRUE)))
  /\ UNCHANGED <<usb, wires, relaunch>>

\* the system needs the memory of a paused Activity
Destroyed ==
  /\ app.screen = "back"
  /\ app' = NoActivity(ReleaseSurface(app))
  /\ UNCHANGED <<usb, wires, relaunch>>

\* a tap on the status: ACTION_STOP, and finish()
StopService ==
  /\ app.screen = "front" /\ app.dialogs = NoDialogs
  /\ app' = [NoActivity(NoSession(app)) EXCEPT !.serving = FALSE]
  /\ UNCHANGED <<usb, wires, relaunch>>

\* the write that apply() put off is done
PreferencesWritten ==
  /\ ~Written
  /\ app' = [app EXCEPT !.user.stored = {app.user.left}]
  /\ UNCHANGED <<usb, wires, relaunch>>

\* no onDestroy(): what is not in the preferences file is gone.  A service that was
\* started is restarted, in a process that reads the file; the receiver may have
\* brought the process up before that.
Killed ==
  /\ relaunch = "killed" => app.session # 0
  /\ \E left \in app.user.stored :
       app' = [NoActivity(NoSession(app)) EXCEPT
                 !.user = [left |-> left, stored |-> {left}, said |-> @.said,
                           lost |-> @.lost \/ ~Written],
                 !.killed = app.killed \/ app.screen # "none"]
  /\ relaunch' = IF app.serving THEN "killed" ELSE "no"
  /\ UNCHANGED <<usb, wires>>

\* fault: the flag is only in memory, and FALSE in the new process
RestartedFault ==
  /\ relaunch = "killed"
  /\ relaunch' = "posted"
  /\ UNCHANGED <<app, usb, wires>>

\* onStartCommand(null)
Restarted ==
  /\ relaunch = "killed"
  /\ relaunch' = IF app.user.left THEN "no" ELSE "posted"
  /\ UNCHANGED <<app, usb, wires>>

\* startActivity() after five seconds
Relaunch ==
  /\ relaunch = "posted" /\ app.dialogs = NoDialogs
  /\ app' \in Launched(app)
  /\ relaunch' = "no"
  /\ UNCHANGED <<usb, wires>>

----------------------------------------------------------------------------
Dongle == DongleDrops \/ DongleEnumerates \/ FlashDriveAttached
User == Launch \/ Leave \/ Return \/ Back \/ StopService

Delivery ==
  \/ DeviceListSettles
  \/ BroadcastArrives
  \/ HandedOver
  \/ AnswerArrives
  \/ MuteDongleCheck
  \/ ServiceConnects
  \/ SurfaceComes
  \/ SurfaceGoes
  \/ Restarted
  \/ Relaunch

Answering == \E d \in Instances, granted \in BOOLEAN : DialogClosed(d, granted)

Events ==
  \/ Dongle
  \/ User
  \/ Destroyed
  \/ Delivery
  \/ Answering
  \/ \E t \in Timers : TimerFires(t)

\* bound of the model: a write of the preferences takes some milliseconds, and of
\* all that can happen only the kill, which alone looks at the file, falls into it
Next ==
  \/ Written /\ Events
  \/ PreferencesWritten
  \/ Killed

Spec == Init /\ [][Next]_vars

\* the Surface of an Activity in the foreground comes, and a hunt that waits for
\* the device list, a Runnable, an answer of the user, its broadcast or a write gets
\* one of them after the other; the user, the dongle and the head unit owe nothing
\* else
FairSpec ==
  /\ Spec
  /\ WF_vars(SurfaceComes)
  /\ WF_vars(\/ DeviceListSettles \/ Answering \/ AnswerArrives \/ PreferencesWritten
             \/ \E t \in Timers : TimerFires(t))

(***************************************************************************)
(* Properties.                                                             *)
(***************************************************************************)

\* Every variable keeps its type; in particular no sequence of drops, windows
\* and healthy spells takes the attempts past their limits.
TypeOK ==
  /\ \A f \in DOMAIN Nowhere : f \in DOMAIN app
  /\ app \in App
  /\ alive \in 0..last /\ last \in 0..MaxInstances
  /\ listed \subseteq Instances /\ permitted \subseteq Instances
  /\ answers \subseteq Instances \X BOOLEAN
  /\ broadcasts \in Seq({"attached", "detached"})
  /\ handover \in 0..MaxInstances
  /\ relaunch \in {"no", "killed", "posted"}

Hunting == app.screen = "front" /\ Bound(app) /\ ~app.started

\* An Activity in the foreground without a session is never stuck: a Runnable
\* is posted, a dialog or its answer is out, the device waits for the Surface,
\* or the hunt ended with a final status on the screen.
NeverStuck ==
  Hunting =>
    \/ app.told
    \/ \E t \in Timers : app.posted[t] > 0
    \/ app.awaiting /\ (app.dialogs # NoDialogs \/ answers # {})
    \/ app.pending # 0 /\ ~app.surface

\* A session behind a valid Surface has been told of it, so its frames are not
\* dropped.  There are two ways past it: a device found before the Surface was
\* there, which surfaceChanged() swallows when the service connected to an old
\* session meanwhile, and a session the receiver replaced.
ReadyWhenShown ==
  app.screen = "front" /\ Bound(app) /\ app.surface /\ app.started
    => app.ready \/ app.swallowed \/ app.replaced

\* Waiting for the dead instance to leave the device list means that the new one
\* is picked up instead: a session the Activity takes up while the working
\* instance is the only one listed, or asked about, is a session with it.
PicksNewInstance ==
  [][~app.started /\ app'.started /\ alive # 0 /\ listed = {alive}
     /\ (\A r \in answers : r[1] = alive)
     => app'.session = alive]_vars

\* two requests at once
Overlap ==
  \/ app.dialogs # NoDialogs /\ answers # {}
  \/ \E d \in Instances : app.dialogs[d] > 1
  \/ \E d, e \in Instances : d # e /\ app.dialogs[d] > 0 /\ app.dialogs[e] > 0

\* A hunt ends, with a session or with a final status and no dialog left open,
\* although every dialog is denied: the limits are real.  Only requests that
\* overlap, after a drop under an open dialog, take it past them, because the
\* answer to one clears the flag that guards the counters of the other.
HuntEnds ==
  Hunting ~> (~Hunting \/ (app.told /\ app.dialogs = NoDialogs) \/ Overlap)

\* what the hunt can spend, the most precious first: what is due to begin it
\* again; a request nobody waits for; what is posted, open or on its way; the
\* requests left; how far the last one is; the searches left
Count(condition) == IF condition THEN 1 ELSE 0

Due == Len(broadcasts) + Count(app.bound = "binding")
Open(a) == Count(a.dialogs # NoDialogs)
Stale(a) == Count(a.dialogs # NoDialogs /\ ~a.awaiting)
Posted(a) == a.posted["retry"] + a.posted["search"] + a.posted["reconnect"]
Requests(a) ==
  IF a.asked = MaxAsks THEN Count(~a.awaiting)
  ELSE 2 * (MaxAsks - a.asked) + Count(a.awaiting)

Budget ==
  <<Due, Stale(app), Posted(app) + Open(app) + Count(answers # {}), Requests(app),
    2 * Open(app) + Count(answers # {}), MaxSearches - app.searches>>

Lower(s, t) == \E i \in 1..6 : s[i] < t[i] /\ \A j \in 1..(i - 1) : s[j] = t[j]

\* the steps that hunt, and all that nobody but the program takes
Hunts ==
  \/ BroadcastArrives \/ ServiceConnects \/ AnswerArrives \/ Answering
  \/ \E t \in Timers : TimerFires(t)
Settles ==
  DeviceListSettles \/ HandedOver \/ MuteDongleCheck \/ SurfaceComes \/ SurfaceGoes
  \/ PreferencesWritten \/ Restarted

\* The hunt cannot go round in circles: whatever the answers and in whatever
\* order Runnables, broadcasts and answers come, each of its steps spends from
\* a budget that no other step of the program fills up again; only the user,
\* the dongle and the head unit do, or requests that overlap.
HuntSpends ==
  [][\A old \in {Budget}, new \in {Budget'} :
       /\ Lower(new, old) \/ Overlap \/ ~Hunts
       /\ new # old => ~Settles]_vars

\* An Activity the head unit killed is on its way back, through any number of
\* further kills, until it is there, unless the user had left it; and one the user
\* had left is never brought up over what he is using.  There is one window: a kill
\* between what the user did and the write of it to the preferences file.  And the
\* receiver's intent may restart the service in place of the null one.
KilledComesBack ==
  ~app.user.lost =>
    /\ app.killed /\ ~app.user.said /\ ~app.preempted => relaunch # "no"
    /\ relaunch = "posted" => ~app.user.said
=============================================================================
