------------------------ MODULE DongleRecoveryProofs ------------------------
(***************************************************************************)
(* Proofs about DongleRecovery for any number of restarts of the dongle    *)
(* and any limits of the attempts.                                         *)
(***************************************************************************)
EXTENDS DongleRecovery, TLAPS, WellFoundedInduction

(***************************************************************************)
(* The invariant, of a state a of the application and the answers ans that *)
(* are on their way.                                                       *)
(***************************************************************************)

\* A session is started behind a service, and there unless the receiver took it
\* away; a request that is waited for is open or answered.
Core(a, ans) ==
  /\ a \in App
  /\ a.started => a.bound = "yes" /\ (a.session # 0 \/ a.replaced)
  /\ a.awaiting => a.dialogs # NoDialogs \/ ans # {}

\* The flag is what it was last set to, unless a kill was faster than the write.
Remembers(u) == ~u.lost => u.said = u.left

\* Without an Activity nothing of it is left; the user sees what he did not leave; a
\* killed Activity is not there; the service of one is started.
Place(a) ==
  /\ a.screen = "none" =>
       /\ a.bound = "no" /\ a.posted = NoTimers
       /\ ~a.mute /\ ~a.surface /\ ~a.awaiting /\ ~a.started
  /\ a.screen = "front" => ~a.user.left
  /\ a.killed => a.screen = "none"
  /\ a.screen # "none" \/ a.killed => a.serving
  /\ Remembers(a.user)

\* A session behind a Surface knows, with the two ways past it.
Shown(a) ==
  Bound(a) /\ a.surface /\ a.started => a.ready \/ a.swallowed \/ a.replaced

\* The hunt for the dongle goes on, or ended with a final status.
Alright(a) ==
  a.screen = "front" /\ Bound(a) /\ ~a.started =>
    \/ a.told \/ a.awaiting
    \/ \E t \in Timers : a.posted[t] > 0
    \/ a.pending # 0 /\ ~a.surface

Fine(a, ans) == Core(a, ans) /\ Place(a) /\ Shown(a)
Good(a, ans) == Fine(a, ans) /\ Alright(a)

\* What TypeOK says of all but the application.
World ==
  /\ alive \in 0..last /\ last \in 0..MaxInstances
  /\ listed \subseteq Instances /\ permitted \subseteq Instances
  /\ answers \subseteq Instances \X BOOLEAN
  /\ broadcasts \in Seq({"attached", "detached"})
  /\ handover \in 0..MaxInstances
  /\ relaunch \in {"no", "killed", "posted"}

\* What is on the way back is not there.
Away == relaunch # "no" => app.screen = "none"

IInv == World /\ Good(app, answers) /\ KilledComesBack /\ Away

\* The Activity is where it was, and all is well again.
Handled(a, b, ans) == Good(b, ans) /\ b.screen = a.screen

USE BoundsAssumption, LimitsAssumption

(***************************************************************************)
(* What the handlers are made of.                                          *)
(***************************************************************************)

\* A Runnable that is posted keeps the hunt going.
LEMMA PostHandles ==
  ASSUME NEW a, NEW ans, NEW t \in Timers, Fine(a, ans), a.screen # "none"
  PROVE  Handled(a, Post(a, t), ans)
<1> DEFINE b == Post(a, t)
<1>1. a \in App /\ a.posted \in [Timers -> Nat] /\ a.posted[t] \in Nat
  BY DEF Fine, Core, App
<1>2. b = [a EXCEPT !.posted = [a.posted EXCEPT ![t] = @ + 1], !.told = FALSE]
  BY DEF Post
<1>3. [a.posted EXCEPT ![t] = @ + 1] \in [Timers -> Nat]
  BY <1>1
<1>4. b \in App
  <2> DEFINE p == [a.posted EXCEPT ![t] = @ + 1]
             c == [a EXCEPT !.posted = p]
  <2> HIDE DEF p
  <2>1. c \in App
    BY <1>1, <1>3 DEF App, p
  <2>2. b = [c EXCEPT !.told = FALSE]
    BY <1>2 DEF p
  <2> HIDE DEF b, c
  <2> QED
    BY <2>1, <2>2 DEF App
<1>5. b.posted[t] > 0
  BY <1>1, <1>2 DEF App
<1> HIDE DEF b
<1>6. Fine(b, ans) /\ b.screen = a.screen
  BY <1>1, <1>2, <1>4 DEF Fine, Core, Place, Shown, Bound, App
<1>7. Alright(b)
  BY <1>5 DEF Alright
<1> QED
  BY <1>6, <1>7 DEF Handled, Good, b

\* A final status ends it.
LEMMA TellHandles ==
  ASSUME NEW a, NEW ans, Fine(a, ans), a.screen # "none"
  PROVE  Handled(a, Tell(a), ans)
<1>1. a \in App /\ Tell(a) \in App
  BY DEF Fine, Core, App, Tell
<1>2. Fine(Tell(a), ans) /\ Tell(a).screen = a.screen
  BY <1>1 DEF Fine, Core, Place, Shown, Bound, App, Tell
<1>3. Alright(Tell(a))
  BY <1>1 DEF Alright, Tell, App
<1> QED
  BY <1>2, <1>3 DEF Handled, Good

\* So does a dialog.
LEMMA AskHandles ==
  ASSUME NEW a, NEW ans, NEW d \in Instances, Fine(a, ans), a.screen # "none"
  PROVE  Handled(a, Ask(a, d), ans)
<1> DEFINE b == Ask(a, d)
<1>1. a \in App
  BY DEF Fine, Core
<1>2. b \in App /\ b.dialogs[d] > 0
  <2> DEFINE v == IF a.asked < MaxAsks THEN a.asked + 1 ELSE a.asked
             n == [a.dialogs EXCEPT ![d] = IF @ < 2 THEN @ + 1 ELSE @]
  <2>1. a.asked \in 0..MaxAsks /\ a.dialogs \in [Instances -> 0..2]
    BY <1>1 DEF App
  <2>2. v \in 0..MaxAsks
    BY <2>1
  <2>3. n \in [Instances -> 0..2] /\ n[d] > 0
    BY <2>1
  <2>4. b = [a EXCEPT !.awaiting = TRUE, !.asked = v, !.dialogs = n, !.told = FALSE]
    BY DEF Ask
  <2> HIDE DEF v, n, b
  <2>5. b \in App
    BY <1>1, <2>2, <2>3, <2>4 DEF App
  <2>6. b.dialogs = n
    BY <1>1, <2>4 DEF App
  <2> QED
    BY <1>1, <2>3, <2>5, <2>6
<1>3. b.dialogs # NoDialogs
  BY <1>2 DEF NoDialogs
<1>4. Fine(b, ans) /\ b.screen = a.screen
  BY <1>2, <1>3 DEF Fine, Core, Place, Shown, Bound, App, Ask
<1>5. Alright(b)
  BY <1>2 DEF Alright, Ask, App
<1> QED
  BY <1>4, <1>5 DEF Handled, Good

\* What the session learns when it is shown.
LEMMA ShowFine ==
  ASSUME NEW a, NEW ans, Core(a, ans), Place(a)
  PROVE  /\ Fine(ShowSession(a), ans)
         /\ ShowSession(a).screen = a.screen
         /\ ShowSession(a).started = a.started
         /\ Alright(a) => Alright(ShowSession(a))
<1> DEFINE b == ShowSession(a)
<1>1. CASE a.session = 0
  BY <1>1 DEF ShowSession, Fine, Core, Shown
<1>2. CASE a.session # 0
  <2>1. a \in App /\ b = [a EXCEPT !.ready = TRUE, !.swallowed = FALSE, !.replaced = FALSE]
    BY <1>2 DEF ShowSession, Core
  <2>2. b \in App
    <3> DEFINE c == [a EXCEPT !.ready = TRUE]
    <3>1. c \in App
      BY <2>1 DEF App
    <3>2. b = [c EXCEPT !.swallowed = FALSE, !.replaced = FALSE]
      BY <2>1
    <3> HIDE DEF b, c
    <3> QED
      BY <3>1, <3>2 DEF App
  <2> HIDE DEF b
  <2>3. Core(b, ans) /\ Place(b) /\ b.screen = a.screen /\ b.started = a.started
    BY <1>2, <2>1, <2>2 DEF Core, Place, App
  <2>4. Shown(b) /\ (Alright(a) => Alright(b))
    BY <2>1, <2>2 DEF Shown, Alright, Bound, App
  <2> QED
    BY <2>3, <2>4 DEF Fine, b
<1> QED
  BY <1>1, <1>2

\* The Surface is released: nothing is started.
LEMMA ReleaseFine ==
  ASSUME NEW a, NEW ans, Core(a, ans), Place(a)
  PROVE  /\ Fine(ReleaseSurface(a), ans)
         /\ ReleaseSurface(a).screen = a.screen
         /\ ~ReleaseSurface(a).started
<1> DEFINE b == [a EXCEPT !.started = FALSE, !.mute = FALSE, !.swallowed = FALSE,
                          !.replaced = FALSE]
<1>1. a \in App /\ b \in App
  BY DEF Core, App
<1>2. Core(b, ans) /\ Place(b) /\ b.screen = a.screen /\ ~b.started
  BY <1>1 DEF Core, Place, App
<1>3. ReleaseSurface(a) = IF Bound(b) THEN [b EXCEPT !.ready = FALSE] ELSE b
  BY DEF ReleaseSurface, HideSession
<1> HIDE DEF b
<1>4. ReleaseSurface(a) \in App
  <2>1. [b EXCEPT !.ready = FALSE] \in App
    BY <1>1 DEF App
  <2> QED
    BY <1>1, <1>3, <2>1
<1>5. /\ Core(ReleaseSurface(a), ans) /\ Place(ReleaseSurface(a))
      /\ ReleaseSurface(a).screen = b.screen /\ ~ReleaseSurface(a).started
  BY <1>1, <1>2, <1>3, <1>4 DEF Core, Place, App
<1> QED
  BY <1>2, <1>5 DEF Fine, Shown

(***************************************************************************)
(* The handlers.                                                           *)
(***************************************************************************)

\* openDevice(): the device waits, or is opened and shown, or could not be.
LEMMA OpenDeviceHandles ==
  ASSUME NEW a, NEW ans, NEW d \in Instances, Fine(a, ans), a.screen # "none",
         NEW c \in OpenDevice(a, d)
  PROVE  Handled(a, c, ans)
<1>1. a \in App
  BY DEF Fine, Core
<1>2. Instances \subseteq 0..MaxInstances /\ 0 \in 0..MaxInstances /\ d # 0
  BY DEF Instances
<1>3. CASE a.started
  BY <1>3 DEF OpenDevice, Handled, Good, Alright
<1>4. CASE ~a.started /\ (~a.surface \/ ~Bound(a))
  <2>1. c = [a EXCEPT !.pending = d, !.told = FALSE]
    BY <1>4 DEF OpenDevice
  <2>2. c \in App
    BY <1>1, <1>2, <2>1 DEF App
  <2>3. Fine(c, ans) /\ c.screen = a.screen
    BY <1>1, <2>1, <2>2 DEF Fine, Core, Place, Shown, Bound, App
  <2>4. Alright(c)
    BY <1>1, <1>2, <1>4, <2>1 DEF Alright, Bound, App
  <2> QED
    BY <2>3, <2>4 DEF Handled, Good
<1>5. CASE ~a.started /\ a.surface /\ Bound(a)
  <2> DEFINE b == [a EXCEPT !.pending = 0]
  <2>1. PICK s \in EnsureStarted(b, d) :
          c = IF s.session = 0 THEN Tell(s)
              ELSE ShowSession([s EXCEPT !.started = TRUE, !.mute = (s.drops > 0),
                                         !.told = FALSE])
    BY <1>5 DEF OpenDevice
  <2>2. b \in App
    BY <1>1, <1>2 DEF App
  <2>3. Fine(b, ans) /\ b.screen = a.screen
    BY <1>1, <2>2 DEF Fine, Core, Place, Shown, Bound, App
  <2>4. b.started = a.started /\ b.bound = a.bound
    BY <1>1 DEF App
  <2> HIDE DEF b
  <2>5. s = b \/ \E i \in 0..MaxInstances : s = [b EXCEPT !.session = i]
    BY <1>2, <2>1 DEF EnsureStarted
  <2>6. s \in App
    BY <2>2, <2>5 DEF App
  <2>7. ~s.started
    BY <1>5, <2>2, <2>4, <2>5 DEF App
  <2>8. Fine(s, ans) /\ s.screen = a.screen
    BY <1>5, <2>2, <2>3, <2>4, <2>5, <2>6, <2>7 DEF Fine, Core, Place, Shown, Bound, App
  <2>9. s.bound = "yes"
    BY <1>1, <1>5, <2>2, <2>4, <2>5 DEF App, Bound
  <2>10. CASE s.session = 0
    BY <2>1, <2>8, <2>10, TellHandles DEF Handled
  <2>11. CASE s.session # 0
    <3> DEFINE t == [s EXCEPT !.started = TRUE, !.mute = (s.drops > 0), !.told = FALSE]
    <3>1. (s.drops > 0) \in BOOLEAN
      OBVIOUS
    <3>2. t \in App
      BY <2>6, <3>1 DEF App
    <3>3. Core(t, ans) /\ Place(t) /\ t.screen = a.screen /\ t.started
      BY <2>6, <2>8, <2>9, <2>11, <3>2 DEF Fine, Core, Place, App
    <3>4. c = ShowSession(t)
      BY <2>1, <2>11
    <3> HIDE DEF t
    <3> QED
      BY <3>3, <3>4, ShowFine DEF Handled, Good, Alright
  <2> QED
    BY <2>10, <2>11
<1> QED
  BY <1>3, <1>4, <1>5

\* findAndOpenDongle(): it is opened, asked about, looked for again, or given up.
LEMMA FindAndOpenHandles ==
  ASSUME NEW a, NEW ans, Fine(a, ans), a.screen # "none", listed \subseteq Instances,
         NEW c \in FindAndOpen(a)
  PROVE  Handled(a, c, ans)
<1>1. a \in App
  BY DEF Fine, Core
<1>2. CASE a.started \/ a.awaiting
  BY <1>2 DEF FindAndOpen, Handled, Good, Alright
<1>3. CASE ~a.started /\ ~a.awaiting /\ listed # {}
  <2> DEFINE b == [a EXCEPT !.searches = 0]
  <2>1. PICK d \in listed :
          c \in IF d \in permitted THEN OpenDevice(b, d) ELSE {Ask(b, d)}
    BY <1>3 DEF FindAndOpen
  <2>2. b \in App
    BY <1>1 DEF App
  <2>3. Fine(b, ans) /\ b.screen = a.screen
    BY <1>1, <2>2 DEF Fine, Core, Place, Shown, Bound, App
  <2> HIDE DEF b
  <2>4. d \in Instances
    OBVIOUS
  <2>5. CASE d \in permitted
    BY <2>1, <2>3, <2>4, <2>5, OpenDeviceHandles DEF Handled
  <2>6. CASE d \notin permitted
    BY <2>1, <2>3, <2>4, <2>6, AskHandles DEF Handled
  <2> QED
    BY <2>5, <2>6
<1>4. CASE ~a.started /\ ~a.awaiting /\ listed = {} /\ a.searches < MaxSearches
  <2> DEFINE b == [a EXCEPT !.searches = @ + 1]
  <2>1. c = Post(b, "search")
    BY <1>4 DEF FindAndOpen
  <2>2. b \in App
    BY <1>1, <1>4 DEF App
  <2>3. Fine(b, ans) /\ b.screen = a.screen
    BY <1>1, <2>2 DEF Fine, Core, Place, Shown, Bound, App
  <2> HIDE DEF b
  <2>4. "search" \in Timers
    BY DEF Timers
  <2> QED
    BY <2>1, <2>3, <2>4, PostHandles DEF Handled
<1>5. CASE ~a.started /\ ~a.awaiting /\ listed = {} /\ ~(a.searches < MaxSearches)
  <2>1. c = Tell(a)
    BY <1>5 DEF FindAndOpen
  <2> QED
    BY <2>1, TellHandles
<1> QED
  BY <1>2, <1>3, <1>4, <1>5

\* scheduleDongleReconnect(): a Runnable, or the limit.
LEMMA ReconnectHandles ==
  ASSUME NEW a, NEW ans, Fine(a, ans), a.screen # "none", NEW c \in Reconnect(a)
  PROVE  Handled(a, c, ans)
<1>1. a \in App
  BY DEF Fine, Core
<1>2. CASE a.user.left
  BY <1>2 DEF Reconnect, Handled, Good, Alright, Fine, Place
<1>3. CASE ~a.user.left
  <2>1. PICK n \in {a.drops, 0} :
          c = IF n >= MaxReconnects THEN Tell([a EXCEPT !.drops = n])
              ELSE Post([a EXCEPT !.drops = n + 1, !.awaiting = FALSE, !.searches = 0],
                        "reconnect")
    BY <1>3 DEF Reconnect
  <2>2. n \in 0..MaxReconnects
    BY <1>1 DEF App
  <2>3. CASE n >= MaxReconnects
    <3> DEFINE b == [a EXCEPT !.drops = n]
    <3>1. b \in App
      BY <1>1, <2>2 DEF App
    <3>2. Fine(b, ans) /\ b.screen = a.screen
      BY <1>1, <3>1 DEF Fine, Core, Place, Shown, Bound, App
    <3>3. c = Tell(b)
      BY <2>1, <2>3
    <3> HIDE DEF b
    <3> QED
      BY <3>2, <3>3, TellHandles DEF Handled
  <2>4. CASE ~(n >= MaxReconnects)
    <3> DEFINE b == [a EXCEPT !.drops = n + 1, !.awaiting = FALSE, !.searches = 0]
    <3>1. n + 1 \in 0..MaxReconnects /\ 0 \in 0..MaxSearches
      BY <2>2, <2>4
    <3>2. b \in App
      BY <1>1, <3>1 DEF App
    <3>3. Fine(b, ans) /\ b.screen = a.screen
      BY <1>1, <3>2 DEF Fine, Core, Place, Shown, Bound, App
    <3>4. c = Post(b, "reconnect")
      BY <2>1, <2>4
    <3>5. "reconnect" \in Timers
      BY DEF Timers
    <3> HIDE DEF b
    <3> QED
      BY <3>3, <3>4, <3>5, PostHandles DEF Handled
  <2> QED
    BY <2>3, <2>4
<1> QED
  BY <1>2, <1>3

\* persistUserLeft() looks after the flag alone.
LEMMA PersistedUser ==
  ASSUME NEW a \in App, NEW v \in BOOLEAN
  PROVE  \E u \in UserLeft :
           /\ PersistUserLeft(a, v) = [a EXCEPT !.user = u]
           /\ Remembers(u) /\ u.left = v
<1> DEFINE u == [left |-> v, stored |-> a.user.stored \cup {v}, said |-> v, lost |-> FALSE]
<1>1. a.user \in UserLeft
  BY DEF App
<1>2. u \in UserLeft
  BY <1>1 DEF UserLeft
<1>3. Remembers(u) /\ u.left = v
  BY DEF Remembers
<1>4. PersistUserLeft(a, v) = [a EXCEPT !.user = u]
  BY DEF PersistUserLeft
<1> HIDE DEF u
<1> QED
  BY <1>2, <1>3, <1>4

\* onResume(): a pending request keeps its counters.
LEMMA OnResumeHandles ==
  ASSUME NEW a, NEW ans, Core(a, ans), Shown(a), ~a.killed, a.serving,
         listed \subseteq Instances, NEW c \in OnResume(a)
  PROVE  Good(c, ans) /\ c.screen = "front"
<1> DEFINE r == ResetCounters(a)
           b == IF a.awaiting THEN a ELSE r
           f == [b EXCEPT !.screen = "front"]
           e == PersistUserLeft(f, FALSE)
<1>1. a \in App /\ 0 \in 0..MaxAsks /\ 0 \in 0..MaxSearches /\ 0 \in 0..MaxReconnects
  BY DEF Core
<1>2. r \in App
  BY <1>1 DEF App, ResetCounters
<1>3. Core(r, ans) /\ Shown(r) /\ ~r.killed /\ r.serving
  BY <1>1, <1>2 DEF Core, Shown, Bound, App, ResetCounters
<1> HIDE DEF r
<1>4. Core(b, ans) /\ Shown(b) /\ ~b.killed /\ b.serving
  BY <1>3
<1>5. c \in FindAndOpen(e)
  BY DEF OnResume, r
<1> HIDE DEF b
<1>6. f \in App
  BY <1>4 DEF Core, App
<1>7. Core(f, ans) /\ Shown(f) /\ ~f.killed /\ f.serving /\ f.screen = "front"
  BY <1>4, <1>6 DEF Core, Shown, Bound, App
<1> HIDE DEF f
<1>8. PICK u \in UserLeft : e = [f EXCEPT !.user = u] /\ Remembers(u) /\ ~u.left
  BY <1>6, PersistedUser
<1> HIDE DEF e
<1>9. e \in App
  BY <1>6, <1>8 DEF App
<1>10. Fine(e, ans) /\ e.screen = "front"
  BY <1>6, <1>7, <1>8, <1>9 DEF Fine, Core, Place, Shown, Bound, App
<1> QED
  BY <1>5, <1>10, FindAndOpenHandles DEF Handled

\* The Activity is gone, with all that is kept in it.
LEMMA NoActivityGood ==
  ASSUME NEW a \in App, NEW ans, Remembers(a.user)
  PROVE  /\ Good(NoActivity(a), ans)
         /\ NoActivity(a).screen = "none" /\ ~NoActivity(a).killed
         /\ NoActivity(a).user = a.user /\ NoActivity(a).serving = a.serving
         /\ ~NoActivity(a).preempted
<1> DEFINE b == NoActivity(a)
<1>1. 0 \in 0..MaxAsks /\ 0 \in 0..MaxSearches /\ 0 \in 0..MaxReconnects
      /\ 0 \in 0..MaxInstances /\ NoTimers \in [Timers -> Nat]
  BY DEF NoTimers
<1>2. b \in App
  <2> DEFINE g == [a EXCEPT !.screen = "none", !.surface = FALSE, !.bound = "no",
                            !.started = FALSE, !.awaiting = FALSE, !.asked = 0]
             h == [g EXCEPT !.searches = 0, !.drops = 0, !.pending = 0, !.told = FALSE,
                            !.posted = NoTimers]
             i == [h EXCEPT !.mute = FALSE, !.swallowed = FALSE]
  <2>1. g \in App
    BY <1>1 DEF App
  <2>2. b = [i EXCEPT !.replaced = FALSE, !.killed = FALSE, !.preempted = FALSE]
    BY DEF NoActivity
  <2> HIDE DEF g
  <2>3. h \in App
    BY <1>1, <2>1 DEF App
  <2> HIDE DEF h
  <2>4. i \in App
    BY <2>3 DEF App
  <2> HIDE DEF i
  <2>5. [i EXCEPT !.replaced = FALSE, !.killed = FALSE, !.preempted = FALSE] \in App
    BY <2>4 DEF App
  <2> QED
    BY <2>2, <2>5
<1>3. /\ b.screen = "none" /\ b.bound = "no" /\ b.posted = NoTimers
      /\ ~b.mute /\ ~b.surface /\ ~b.awaiting /\ ~b.started /\ ~b.killed
      /\ b.user = a.user /\ b.serving = a.serving /\ ~b.preempted
  BY DEF App, NoActivity
<1> HIDE DEF b
<1> QED
  BY <1>2, <1>3 DEF Good, Fine, Core, Place, Shown, Alright, Bound, b

\* onCreate() and onResume().
LEMMA LaunchedGood ==
  ASSUME NEW a \in App, NEW ans, Remembers(a.user), listed \subseteq Instances,
         NEW c \in Launched(a)
  PROVE  Good(c, ans) /\ c.screen = "front"
<1> DEFINE n == NoActivity(a)
           b == [n EXCEPT !.bound = "binding", !.serving = TRUE]
<1>1. Good(n, ans) /\ n.screen = "none" /\ ~n.killed
  BY NoActivityGood
<1>2. c \in OnResume(b)
  BY DEF Launched
<1> HIDE DEF n
<1>3. n \in App
  BY <1>1 DEF Good, Fine, Core
<1>4. b \in App
  BY <1>3 DEF App
<1>5. Core(b, ans) /\ Shown(b) /\ ~b.killed /\ b.serving
  BY <1>1, <1>3, <1>4 DEF Good, Fine, Core, Place, Shown, Bound, App
<1> HIDE DEF b
<1> QED
  BY <1>2, <1>5, OnResumeHandles

\* An answer opens the device, asks again, or ends the hunt.
LEMMA PermissionAnsweredHandles ==
  ASSUME NEW a, NEW before, Fine(a, before), a.screen # "none", NEW ans,
         NEW d \in Instances, NEW granted \in BOOLEAN,
         NEW c \in PermissionAnswered(a, d, granted)
  PROVE  Handled(a, c, ans)
<1> DEFINE b == [a EXCEPT !.awaiting = FALSE]
           e == [b EXCEPT !.asked = 0]
<1>1. a \in App /\ 0 \in 0..MaxAsks
  BY DEF Fine, Core
<1>2. b \in App
  BY <1>1 DEF App
<1>3. Fine(b, ans) /\ b.screen = a.screen
  BY <1>1, <1>2 DEF Fine, Core, Place, Shown, Bound, App
<1>4. CASE granted
  <2>1. c \in OpenDevice(e, d)
    BY <1>4 DEF PermissionAnswered
  <2> HIDE DEF b
  <2>2. e \in App
    BY <1>1, <1>2 DEF App
  <2>3. Fine(e, ans) /\ e.screen = a.screen
    BY <1>2, <1>3, <2>2 DEF Fine, Core, Place, Shown, Bound, App
  <2> HIDE DEF e
  <2> QED
    BY <1>3, <2>1, <2>3, OpenDeviceHandles DEF Handled
<1>5. CASE ~granted
  <2>1. c \in {Post(b, "retry"), Tell(b)}
    BY <1>5 DEF PermissionAnswered
  <2>2. "retry" \in Timers
    BY DEF Timers
  <2> HIDE DEF b
  <2> QED
    BY <1>3, <2>1, <2>2, PostHandles, TellHandles DEF Handled
<1> QED
  BY <1>4, <1>5

\* USB_DEVICE_DETACHED: the Surface is released, then the dongle awaited.
LEMMA DetachedHandles ==
  ASSUME NEW a, NEW ans, Fine(a, ans), a.screen # "none", NEW c \in Detached(a)
  PROVE  Handled(a, c, ans)
<1>1. Fine(ReleaseSurface(a), ans) /\ ReleaseSurface(a).screen = a.screen
  BY ReleaseFine DEF Fine
<1> QED
  BY <1>1, ReconnectHandles DEF Detached, Handled

\* USB_DEVICE_ATTACHED.
LEMMA AttachedHandles ==
  ASSUME NEW a, NEW ans, Good(a, ans), a.screen # "none", listed \subseteq Instances,
         NEW c \in Attached(a)
  PROVE  Handled(a, c, ans)
<1> QED
  BY FindAndOpenHandles DEF Attached, Handled, Good

\* A Runnable looks for the dongle; it does nothing for who left, or has a session.
LEMMA TimerFiredHandles ==
  ASSUME NEW a, NEW ans, NEW t \in Timers, Good(a, ans), a.posted[t] > 0,
         listed \subseteq Instances, NEW c \in TimerFired(a, t)
  PROVE  Handled(a, c, ans)
<1> DEFINE b == [a EXCEPT !.posted[t] = @ - 1]
<1>1. a \in App /\ a.posted \in [Timers -> Nat] /\ a.posted[t] \in Nat
  BY DEF Good, Fine, Core, App
<1>2. a.screen # "none"
  BY <1>1 DEF Good, Fine, Place, NoTimers
<1>3. b = [a EXCEPT !.posted = [a.posted EXCEPT ![t] = @ - 1]]
  OBVIOUS
<1>4. [a.posted EXCEPT ![t] = @ - 1] \in [Timers -> Nat]
  BY <1>1
<1>5. b \in App
  BY <1>1, <1>3, <1>4 DEF App
<1>6. Fine(b, ans) /\ b.screen = a.screen /\ b.started = a.started
  BY <1>1, <1>2, <1>3, <1>5 DEF Good, Fine, Core, Place, Shown, Bound, App
<1>7. c \in FindAndOpen(b) \/ (c = b /\ (a.started \/ a.user.left))
  BY DEF TimerFired
<1> HIDE DEF b
<1>8. CASE c = b /\ (a.started \/ a.user.left)
  BY <1>6, <1>8 DEF Handled, Good, Fine, Place, Alright
<1>9. CASE c \in FindAndOpen(b)
  BY <1>2, <1>6, <1>9, FindAndOpenHandles DEF Handled
<1> QED
  BY <1>7, <1>8, <1>9

\* muteDongleCheck.
LEMMA MuteCheckedHandles ==
  ASSUME NEW a, NEW ans, Good(a, ans), NEW c \in MuteChecked(a)
  PROVE  Handled(a, c, ans)
<1> DEFINE b == [a EXCEPT !.mute = FALSE]
<1>1. a \in App /\ 0 \in 0..MaxReconnects
  BY DEF Good, Fine, Core
<1>2. c = b \/ c = [b EXCEPT !.drops = 0]
  BY DEF MuteChecked
<1>3. b \in App
  BY <1>1 DEF App
<1>4. Good(b, ans) /\ b.screen = a.screen
  BY <1>1, <1>3 DEF Good, Fine, Core, Place, Shown, Alright, Bound, App
<1> HIDE DEF b
<1>5. [b EXCEPT !.drops = 0] \in App
  BY <1>1, <1>3 DEF App
<1>6. Good([b EXCEPT !.drops = 0], ans) /\ [b EXCEPT !.drops = 0].screen = b.screen
  BY <1>3, <1>4, <1>5 DEF Good, Fine, Core, Place, Shown, Alright, Bound, App
<1> QED
  BY <1>2, <1>4, <1>6 DEF Handled

\* onServiceConnected(): a session that is there is shown, or the hunt begins.
LEMMA ServiceConnectedHandles ==
  ASSUME NEW a, NEW ans, Good(a, ans), a.bound = "binding", listed \subseteq Instances,
         NEW c \in ServiceConnected(a)
  PROVE  Handled(a, c, ans)
<1> DEFINE b == [a EXCEPT !.bound = "yes"]
<1>1. a \in App /\ 0 \in 0..MaxInstances
  BY DEF Good, Fine, Core
<1>2. b \in App
  BY <1>1 DEF App
<1>3. a.screen # "none"
  BY DEF Good, Fine, Place
<1>4. Core(b, ans) /\ Place(b) /\ b.screen = a.screen
  BY <1>1, <1>2, <1>3 DEF Good, Fine, Core, Place, App
<1>5. CASE b.session # 0
  <2> DEFINE e == [b EXCEPT !.started = TRUE, !.told = FALSE]
  <2>1. c = IF e.surface THEN ShowSession(e) ELSE e
    BY <1>5 DEF ServiceConnected
  <2>2. b.bound = "yes"
    BY <1>1 DEF App
  <2> HIDE DEF b
  <2>3. e \in App
    BY <1>2 DEF App
  <2>4. Core(e, ans) /\ Place(e) /\ e.screen = a.screen /\ e.started
    BY <1>2, <1>3, <1>4, <1>5, <2>2, <2>3 DEF Core, Place, App
  <2> HIDE DEF e
  <2> QED
    BY <2>1, <2>4, ShowFine DEF Handled, Good, Fine, Shown, Alright
<1>6. CASE b.session = 0 /\ ~a.started
  <2>1. Fine(b, ans)
    BY <1>1, <1>2, <1>4, <1>6 DEF Fine, Shown, App
  <2>2. CASE b.pending # 0
    <3> DEFINE e == [b EXCEPT !.pending = 0]
    <3>1. c \in OpenDevice(e, b.pending)
      BY <1>6, <2>2 DEF ServiceConnected
    <3> HIDE DEF b
    <3>2. b.pending \in Instances
      BY <1>2, <2>2 DEF App, Instances
    <3>3. e \in App
      BY <1>1, <1>2 DEF App
    <3>4. Fine(e, ans) /\ e.screen = a.screen
      BY <1>2, <1>4, <2>1, <3>3 DEF Fine, Core, Place, Shown, Bound, App
    <3> HIDE DEF e
    <3> QED
      BY <1>3, <3>1, <3>2, <3>4, OpenDeviceHandles DEF Handled
  <2>3. CASE b.pending = 0
    <3>1. c \in FindAndOpen(b)
      BY <1>6, <2>3 DEF ServiceConnected
    <3> HIDE DEF b
    <3> QED
      BY <1>3, <1>4, <2>1, <3>1, FindAndOpenHandles DEF Handled
  <2> QED
    BY <2>2, <2>3
<1>7. ~a.started
  BY DEF Good, Fine, Core
<1> QED
  BY <1>5, <1>6, <1>7

\* surfaceChanged(): a device that waited is opened or swallowed.
LEMMA SurfaceChangedHandles ==
  ASSUME NEW a, NEW ans, Core(a, ans), Place(a), a.screen # "none",
         a.pending = 0 => Alright(a),
         NEW c \in SurfaceChanged(a)
  PROVE  Handled(a, c, ans)
<1>1. a \in App /\ 0 \in 0..MaxInstances
  BY DEF Core
<1>2. CASE a.pending # 0
  <2> DEFINE e == [a EXCEPT !.pending = 0, !.swallowed = a.started]
  <2>1. c \in OpenDevice(e, a.pending)
    BY <1>2 DEF SurfaceChanged
  <2>2. a.pending \in Instances /\ a.started \in BOOLEAN
    BY <1>1, <1>2 DEF App, Instances
  <2>3. e \in App
    BY <1>1, <2>2 DEF App
  <2>4. Fine(e, ans) /\ e.screen = a.screen
    BY <1>1, <2>2, <2>3 DEF Fine, Core, Place, Shown, Bound, App
  <2> HIDE DEF e
  <2> QED
    BY <2>1, <2>2, <2>4, OpenDeviceHandles DEF Handled
<1>3. CASE a.pending = 0
  <2>1. c = IF Bound(a) THEN ShowSession(a) ELSE a
    BY <1>3 DEF SurfaceChanged
  <2> QED
    BY <1>3, <2>1, ShowFine DEF Handled, Good, Fine, Shown
<1> QED
  BY <1>2, <1>3

\* The receiver's broadcast: another session, or none.
LEMMA HandedOverHandles ==
  ASSUME NEW a, NEW ans, Good(a, ans), NEW d \in Instances, NEW c \in DeviceHandedOver(a, d)
  PROVE  /\ Handled(a, c, ans)
         /\ c.killed = a.killed /\ c.user = a.user /\ c.preempted = a.preempted
<1> DEFINE e == [a EXCEPT !.serving = TRUE]
           b == [e EXCEPT !.replaced = e.started]
           n == [b EXCEPT !.session = 0, !.ready = FALSE]
           Keeps(x) == /\ x.screen = a.screen /\ x.killed = a.killed
                       /\ x.user = a.user /\ x.preempted = a.preempted
<1>1. a \in App /\ 0 \in 0..MaxInstances /\ d \in 0..MaxInstances
  BY DEF Good, Fine, Core, Instances
<1>2. e \in App
  BY <1>1 DEF App
<1>3. Good(e, ans) /\ Keeps(e)
  BY <1>1, <1>2 DEF Good, Fine, Core, Place, Shown, Alright, Bound, App
<1>4. c = e \/ c \in EnsureStarted(n, d)
  BY DEF DeviceHandedOver, NoSession
<1> HIDE DEF e
<1>5. b \in App
  BY <1>2 DEF App
<1>6. n \in App
  <2> HIDE DEF b
  <2> QED
    BY <1>1, <1>5 DEF App
<1>7. /\ Good(n, ans) /\ Keeps(n)
      /\ n.started = e.started /\ n.replaced = e.started /\ n.session = 0
  BY <1>2, <1>3, <1>6 DEF Good, Fine, Core, Place, Shown, Alright, Bound, App
<1> HIDE DEF n
<1>8. c = e \/ c = n \/ c = [n EXCEPT !.session = d]
  BY <1>4, <1>7 DEF EnsureStarted
<1>9. [n EXCEPT !.session = d] \in App
  BY <1>1, <1>6 DEF App
<1>10. CASE c = [n EXCEPT !.session = d]
  BY <1>6, <1>7, <1>9, <1>10
  DEF Handled, Good, Fine, Core, Place, Shown, Alright, Bound, App
<1> QED
  BY <1>3, <1>7, <1>8, <1>10 DEF Handled

(***************************************************************************)
(* The actions.                                                            *)
(***************************************************************************)

\* A handler of an Activity that is there leaves none that was killed.
LEMMA HandlerKeeps ==
  ASSUME Handled(app, app', answers'), app.screen # "none", Away, UNCHANGED relaunch
  PROVE  Good(app', answers') /\ KilledComesBack' /\ Away'
<1> QED
  BY DEF Handled, Good, Fine, Place, KilledComesBack, Away

\* The instance of the dongle goes.
LEMMA DongleDropsKeeps == ASSUME IInv, DongleDrops PROVE IInv'
<1>1. World'
  <2>1. 0 \in 0..last
    BY DEF IInv, World
  <2> QED
    BY <2>1 DEF IInv, World, DongleDrops
<1> QED
  BY <1>1 DEF IInv, DongleDrops, KilledComesBack, Away

\* A dead instance leaves the list.
LEMMA DeviceListSettlesKeeps == ASSUME IInv, DeviceListSettles PROVE IInv'
<1> QED
  BY DEF IInv, World, DeviceListSettles, usb, wires, KilledComesBack, Away

\* The next instance enumerates.
LEMMA DongleEnumeratesKeeps == ASSUME IInv, DongleEnumerates PROVE IInv'
<1>1. last' \in Instances /\ last' \in 0..MaxInstances /\ last' \in 0..last'
  BY DEF IInv, World, DongleEnumerates, Instances
<1>2. broadcasts' \in Seq({"attached", "detached"})
  BY DEF IInv, World, DongleEnumerates
<1>3. handover' \in 0..MaxInstances /\ permitted' \subseteq Instances
  BY <1>1 DEF IInv, World, DongleEnumerates
<1>4. World'
  BY <1>1, <1>2, <1>3 DEF IInv, World, DongleEnumerates
<1> QED
  BY <1>4 DEF IInv, DongleEnumerates, KilledComesBack, Away

\* A device that is none of ours is looked for as if it were.
LEMMA FlashDriveAttachedKeeps == ASSUME IInv, FlashDriveAttached PROVE IInv'
<1>1. Handled(app, app', answers')
  BY AttachedHandles DEF IInv, World, FlashDriveAttached, wires
<1> QED
  BY <1>1, HandlerKeeps DEF IInv, World, FlashDriveAttached, usb, wires

\* A broadcast arrives, or is lost without an Activity.
LEMMA BroadcastArrivesKeeps == ASSUME IInv, BroadcastArrives PROVE IInv'
<1>1. World'
  BY DEF IInv, World, BroadcastArrives, usb
<1>2. CASE app.screen = "none"
  BY <1>1, <1>2 DEF IInv, BroadcastArrives, KilledComesBack, Away
<1>3. CASE app.screen # "none"
  <2>1. app' \in Detached(app) \/ app' \in Attached(app)
    BY <1>3 DEF BroadcastArrives
  <2>2. Handled(app, app', answers')
    BY <1>3, <2>1, DetachedHandles, AttachedHandles
    DEF IInv, World, Good, BroadcastArrives
  <2> QED
    BY <1>1, <1>3, <2>2, HandlerKeeps DEF IInv, BroadcastArrives
<1> QED
  BY <1>2, <1>3

\* The receiver hands a device to the service, with or without an Activity.
LEMMA HandedOverKeeps == ASSUME IInv, HandedOver PROVE IInv'
<1> DEFINE p == [app EXCEPT !.preempted = TRUE]
<1>1. handover \in Instances
  BY DEF IInv, World, HandedOver, Instances
<1>2. World'
  <2>1. 0 \in 0..MaxInstances
    OBVIOUS
  <2> QED
    BY <2>1 DEF IInv, World, HandedOver, usb
<1>3. app \in App
  BY DEF IInv, Good, Fine, Core
<1>4. CASE app' \in DeviceHandedOver(app, handover) /\ UNCHANGED relaunch
  <2>1. /\ Handled(app, app', answers')
        /\ app'.killed = app.killed /\ app'.user = app.user
        /\ app'.preempted = app.preempted
    BY <1>1, <1>4, HandedOverHandles DEF IInv, HandedOver
  <2> QED
    BY <1>2, <1>4, <2>1 DEF IInv, Handled, KilledComesBack, Away
<1>5. CASE app' \in DeviceHandedOver(p, handover) /\ relaunch' = "no"
  <2>1. p \in App
    BY <1>3 DEF App
  <2>2. Good(p, answers) /\ p.preempted
    BY <1>3, <2>1 DEF IInv, Good, Fine, Core, Place, Shown, Alright, Bound, App
  <2> HIDE DEF p
  <2>3. Handled(p, app', answers') /\ app'.preempted
    BY <1>1, <1>5, <2>2, HandedOverHandles DEF HandedOver
  <2> QED
    BY <1>2, <1>5, <2>3 DEF IInv, Handled, KilledComesBack, Away
<1> QED
  BY <1>4, <1>5 DEF HandedOver

\* A dialog closes: its answer is on the way, and the Activity resumes.
LEMMA DialogClosedKeeps ==
  ASSUME IInv, NEW d \in Instances, NEW granted \in BOOLEAN, DialogClosed(d, granted)
  PROVE  IInv'
<1> DEFINE a == [app EXCEPT !.dialogs[d] = @ - 1]
<1>1. World'
  BY DEF IInv, World, DialogClosed
<1>2. answers' # {}
  BY DEF DialogClosed
<1>3. app \in App /\ app.dialogs \in [Instances -> 0..2] /\ app.dialogs[d] > 0
  BY DEF IInv, Good, Fine, Core, App, DialogClosed
<1>4. [app.dialogs EXCEPT ![d] = @ - 1] \in [Instances -> 0..2]
  BY <1>3
<1>5. a = [app EXCEPT !.dialogs = [app.dialogs EXCEPT ![d] = @ - 1]]
  OBVIOUS
<1>6. app' \in IF a.screen = "front" THEN OnResume(a) ELSE {a}
  BY DEF DialogClosed
<1> HIDE DEF a
<1>7. a \in App
  BY <1>3, <1>4, <1>5 DEF App
<1>8. Good(a, answers') /\ a.screen = app.screen /\ a.killed = app.killed
      /\ a.user = app.user /\ a.preempted = app.preempted
  BY <1>2, <1>3, <1>5, <1>7 DEF IInv, Good, Fine, Core, Place, Shown, Alright, Bound, App
<1>9. CASE a.screen = "front"
  <2>1. app' \in OnResume(a) /\ ~a.killed /\ a.serving
    BY <1>6, <1>8, <1>9 DEF Good, Fine, Place
  <2>2. Good(app', answers') /\ app'.screen = "front"
    BY <1>8, <2>1, OnResumeHandles DEF IInv, World, Good, Fine
  <2> QED
    BY <1>1, <1>8, <1>9, <2>2
    DEF IInv, Good, Fine, Place, KilledComesBack, Away, DialogClosed
<1>10. CASE a.screen # "front"
  BY <1>1, <1>6, <1>8, <1>10 DEF IInv, KilledComesBack, Away, DialogClosed
<1> QED
  BY <1>9, <1>10

\* An answer arrives, or is lost without an Activity.
LEMMA AnswerArrivesKeeps == ASSUME IInv, AnswerArrives PROVE IInv'
<1>1. PICK r \in answers :
        /\ answers' = answers \ {r}
        /\ app' \in IF app.screen = "none" THEN {app}
                    ELSE PermissionAnswered(app, r[1], r[2])
        /\ UNCHANGED <<usb, broadcasts, handover, relaunch>>
  BY DEF AnswerArrives
<1>2. r[1] \in Instances /\ r[2] \in BOOLEAN
  BY DEF IInv, World
<1>3. World'
  BY <1>1 DEF IInv, World, usb
<1>4. CASE app.screen = "none"
  BY <1>1, <1>3, <1>4
  DEF IInv, Good, Fine, Core, Place, Shown, Alright, KilledComesBack, Away
<1>5. CASE app.screen # "none"
  <2>1. Handled(app, app', answers')
    BY <1>1, <1>2, <1>5, PermissionAnsweredHandles DEF IInv, Good
  <2> QED
    BY <1>1, <1>3, <1>5, <2>1, HandlerKeeps DEF IInv
<1> QED
  BY <1>4, <1>5

\* A Runnable runs.
LEMMA TimerFiresKeeps ==
  ASSUME IInv, NEW t \in Timers, TimerFires(t)
  PROVE  IInv'
<1>1. World' /\ UNCHANGED <<answers, relaunch>>
  BY DEF IInv, World, TimerFires, usb, wires
<1>2. Handled(app, app', answers')
  BY <1>1, TimerFiredHandles DEF IInv, World, TimerFires
<1>3. app.screen # "none"
  BY DEF IInv, Good, Fine, Place, NoTimers, TimerFires
<1> QED
  BY <1>1, <1>2, <1>3, HandlerKeeps DEF IInv

\* The check of a session that has run for a while.
LEMMA MuteDongleCheckKeeps == ASSUME IInv, MuteDongleCheck PROVE IInv'
<1>1. World' /\ UNCHANGED <<answers, relaunch>>
  BY DEF IInv, World, MuteDongleCheck, usb, wires
<1>2. Handled(app, app', answers')
  BY <1>1, MuteCheckedHandles DEF IInv, MuteDongleCheck
<1>3. app.screen # "none"
  BY DEF IInv, Good, Fine, Place, MuteDongleCheck
<1> QED
  BY <1>1, <1>2, <1>3, HandlerKeeps DEF IInv

\* The service connects.
LEMMA ServiceConnectsKeeps == ASSUME IInv, ServiceConnects PROVE IInv'
<1>1. World' /\ UNCHANGED <<answers, relaunch>>
  BY DEF IInv, World, ServiceConnects, usb, wires
<1>2. Handled(app, app', answers')
  BY <1>1, ServiceConnectedHandles DEF IInv, World, ServiceConnects
<1>3. app.screen # "none"
  BY DEF IInv, Good, Fine, Place, ServiceConnects
<1> QED
  BY <1>1, <1>2, <1>3, HandlerKeeps DEF IInv

\* The Surface comes.
LEMMA SurfaceComesKeeps == ASSUME IInv, SurfaceComes PROVE IInv'
<1> DEFINE a == [app EXCEPT !.surface = TRUE]
<1>1. World' /\ UNCHANGED <<answers, relaunch>>
  BY DEF IInv, World, SurfaceComes, usb, wires
<1>2. app \in App /\ app.screen = "front"
  BY DEF IInv, Good, Fine, Core, SurfaceComes
<1>3. a \in App
  BY <1>2 DEF App
<1>4. app' \in SurfaceChanged(a)
  BY DEF SurfaceComes
<1>5. Core(a, answers) /\ Place(a) /\ a.screen = "front" /\ (a.pending = 0 => Alright(a))
  BY <1>2, <1>3 DEF IInv, Good, Fine, Core, Place, Alright, Bound, App
<1> HIDE DEF a
<1>6. Handled(app, app', answers')
  BY <1>1, <1>2, <1>4, <1>5, SurfaceChangedHandles DEF Handled
<1> QED
  BY <1>1, <1>2, <1>6, HandlerKeeps DEF IInv

\* The Surface goes.
LEMMA SurfaceGoesKeeps == ASSUME IInv, SurfaceGoes PROVE IInv'
<1> DEFINE a == [app EXCEPT !.surface = FALSE, !.swallowed = FALSE]
<1>1. World' /\ UNCHANGED <<answers, relaunch>>
  BY DEF IInv, World, SurfaceGoes, usb, wires
<1>2. app \in App /\ app.screen = "back"
  BY DEF IInv, Good, Fine, Core, SurfaceGoes
<1>3. a \in App
  BY <1>2 DEF App
<1>4. Good(a, answers) /\ a.screen = "back" /\ ~a.surface
  BY <1>2, <1>3 DEF IInv, Good, Fine, Core, Place, Shown, Alright, Bound, App
<1>5. app' = IF Bound(a) THEN [a EXCEPT !.ready = FALSE] ELSE a
  BY DEF SurfaceGoes, HideSession
<1> HIDE DEF a
<1>6. [a EXCEPT !.ready = FALSE] \in App
  BY <1>3 DEF App
<1>7. Handled(app, app', answers')
  BY <1>1, <1>2, <1>3, <1>4, <1>5, <1>6
  DEF Handled, Good, Fine, Core, Place, Shown, Alright, App
<1> QED
  BY <1>1, <1>2, <1>7, HandlerKeeps DEF IInv

\* The Activity is launched, by the user or after a kill.
LEMMA LaunchKeeps == ASSUME IInv, Launch \/ Relaunch PROVE IInv'
<1>1. World' /\ UNCHANGED answers /\ relaunch' = "no"
  BY DEF IInv, World, Launch, Relaunch, usb, wires
<1>2. app \in App /\ Remembers(app.user) /\ app' \in Launched(app)
  BY DEF IInv, Good, Fine, Core, Place, Launch, Relaunch
<1>3. Good(app', answers') /\ app'.screen = "front"
  BY <1>2, LaunchedGood DEF IInv, World
<1> QED
  BY <1>1, <1>3 DEF IInv, Good, Fine, Place, KilledComesBack, Away

\* The user leaves with HOME.
LEMMA LeaveKeeps == ASSUME IInv, Leave PROVE IInv'
<1> DEFINE a == [app EXCEPT !.screen = "back"]
<1>1. World' /\ UNCHANGED <<answers, relaunch>>
  BY DEF IInv, World, Leave, usb, wires
<1>2. app \in App /\ app.screen = "front"
  BY DEF IInv, Good, Fine, Core, Leave
<1>3. a \in App
  BY <1>2 DEF App
<1>4. Good(a, answers) /\ a.screen = "back"
  BY <1>2, <1>3 DEF IInv, Good, Fine, Core, Place, Shown, Alright, Bound, App
<1>5. app' = a \/ app' = PersistUserLeft(a, TRUE)
  BY DEF Leave
<1> HIDE DEF a
<1> DEFINE p == PersistUserLeft(a, TRUE)
<1>6. PICK u \in UserLeft : p = [a EXCEPT !.user = u] /\ Remembers(u)
  BY <1>3, PersistedUser
<1> HIDE DEF p
<1>7. p \in App
  BY <1>3, <1>6 DEF App
<1>8. Good(p, answers) /\ p.screen = "back"
  BY <1>3, <1>4, <1>6, <1>7 DEF Good, Fine, Core, Place, Shown, Alright, Bound, App
<1>9. Good(app', answers') /\ app'.screen = "back"
  BY <1>1, <1>4, <1>5, <1>8 DEF p
<1> QED
  BY <1>1, <1>2, <1>9 DEF IInv, Good, Fine, Place, KilledComesBack, Away

\* The user returns.
LEMMA ReturnKeeps == ASSUME IInv, Return PROVE IInv'
<1>1. World' /\ UNCHANGED <<answers, relaunch>>
  BY DEF IInv, World, Return, usb, wires
<1>2. ~app.killed /\ app.serving /\ relaunch = "no"
  BY DEF IInv, Good, Fine, Place, Return, Away
<1>3. Good(app', answers') /\ app'.screen = "front"
  BY <1>1, <1>2, OnResumeHandles DEF IInv, World, Good, Fine, Return
<1> QED
  BY <1>1, <1>2, <1>3 DEF IInv, Good, Fine, Place, KilledComesBack, Away

\* The Activity ends, with or without the session.
LEMMA EndKeeps == ASSUME IInv, Back \/ Destroyed \/ StopService PROVE IInv'
<1> DEFINE b == PersistUserLeft(app, TRUE)
           n == [app EXCEPT !.session = 0, !.ready = FALSE]
           Sound(x) == x \in App /\ Remembers(x.user)
<1>1. World' /\ UNCHANGED <<answers, relaunch>>
  BY DEF IInv, World, Back, Destroyed, StopService, usb, wires
<1>2. app \in App /\ 0 \in 0..MaxInstances /\ app.screen # "none" /\ relaunch = "no"
  <2>1. app.screen = "front" \/ app.screen = "back"
    BY DEF Back, Destroyed, StopService
  <2> QED
    BY <2>1 DEF IInv, Good, Fine, Core, Away
<1>3. Sound(app) /\ Sound(b) /\ Sound(n)
  <2>1. Sound(app)
    BY <1>2 DEF IInv, Good, Fine, Place
  <2>2. PICK u \in UserLeft : b = [app EXCEPT !.user = u] /\ Remembers(u)
    BY <1>2, PersistedUser
  <2> HIDE DEF b
  <2>3. Sound(b)
    BY <1>2, <2>2 DEF App
  <2>4. Sound(n)
    BY <1>2, <2>1 DEF App
  <2> QED
    BY <2>1, <2>3, <2>4
<1>4. PICK a : /\ a \in {ReleaseSurface(b), ReleaseSurface(app), n}
               /\ app' = NoActivity(a) \/ app' = [NoActivity(a) EXCEPT !.serving = FALSE]
  BY DEF Back, Destroyed, StopService, NoSession
<1> HIDE DEF b, n
<1>5. \A x : Sound(x) => Sound(ReleaseSurface(x))
  <2> SUFFICES ASSUME NEW x, Sound(x) PROVE Sound(ReleaseSurface(x))
    OBVIOUS
  <2> DEFINE y == [x EXCEPT !.started = FALSE, !.mute = FALSE, !.swallowed = FALSE,
                            !.replaced = FALSE]
  <2>1. Sound(y)
    BY DEF App
  <2>2. ReleaseSurface(x) = IF Bound(y) THEN [y EXCEPT !.ready = FALSE] ELSE y
    BY DEF ReleaseSurface, HideSession
  <2> HIDE DEF y
  <2>3. Sound([y EXCEPT !.ready = FALSE])
    BY <2>1 DEF App
  <2> HIDE DEF Sound
  <2> QED
    BY <2>1, <2>2, <2>3
<1>6. Sound(a)
  <2> HIDE DEF Sound
  <2> QED
    BY <1>3, <1>4, <1>5
<1> DEFINE m == NoActivity(a)
<1>7. Good(m, answers) /\ m.screen = "none" /\ ~m.killed /\ m \in App
  BY <1>6, NoActivityGood DEF Good, Fine, Core
<1> DEFINE s == [m EXCEPT !.serving = FALSE]
<1>8. app' = m \/ app' = s
  BY <1>4
<1> HIDE DEF m
<1>9. s \in App
  BY <1>7 DEF App
<1>10. Good(s, answers) /\ s.screen = "none" /\ ~s.killed
  BY <1>7, <1>9 DEF Good, Fine, Core, Place, Shown, Alright, Bound, App
<1> HIDE DEF s
<1>11. Good(app', answers') /\ ~app'.killed
  BY <1>1, <1>7, <1>8, <1>10
<1> QED
  BY <1>1, <1>2, <1>11 DEF IInv, KilledComesBack, Away

\* The process is killed, and is to come back: what is started is restarted, and knows
\* what the user did last, unless the kill came before the write.
LEMMA KilledKeeps == ASSUME IInv, Killed PROVE IInv'
<1> DEFINE n == [app EXCEPT !.session = 0, !.ready = FALSE]
           m == NoActivity(n)
           k == app.killed \/ app.screen # "none"
<1>1. World' /\ UNCHANGED answers /\ relaunch' = IF app.serving THEN "killed" ELSE "no"
  BY DEF IInv, World, Killed, usb, wires
<1>2. app \in App /\ 0 \in 0..MaxInstances /\ Remembers(app.user) /\ (k => app.serving)
  BY DEF IInv, Good, Fine, Core, Place
<1>3. n \in App /\ k \in BOOLEAN /\ n.user = app.user /\ n.serving = app.serving
  BY <1>2 DEF App
<1>4. m.user = app.user
  BY <1>2, <1>3, NoActivityGood
<1>5. PICK u \in UserLeft : /\ app' = [m EXCEPT !.user = u, !.killed = k]
                            /\ Remembers(u) /\ u.said = app.user.said
                            /\ ~u.lost => ~app.user.lost
  <2>1. PICK left \in app.user.stored :
          app' = [m EXCEPT !.user = [left |-> left, stored |-> {left}, said |-> @.said,
                                     lost |-> @.lost \/ ~Written],
                           !.killed = k]
    BY DEF Killed, NoSession
  <2> DEFINE u == [left |-> left, stored |-> {left}, said |-> app.user.said,
                   lost |-> app.user.lost \/ ~Written]
  <2>2. app' = [m EXCEPT !.user = u, !.killed = k]
    BY <1>4, <2>1
  <2>3. app.user \in UserLeft
    BY <1>2 DEF App
  <2>4. u \in UserLeft
    BY <2>3 DEF UserLeft
  <2>5. Remembers(u) /\ u.said = app.user.said /\ (~u.lost => ~app.user.lost)
    BY <1>2, <2>1 DEF Remembers, Written
  <2> HIDE DEF u, k, m
  <2> QED
    BY <2>2, <2>4, <2>5
<1> HIDE DEF n, k
<1>6. Good(m, answers) /\ m.screen = "none" /\ m \in App
      /\ m.serving = app.serving /\ ~m.preempted
  BY <1>2, <1>3, NoActivityGood DEF Good, Fine, Core
<1> HIDE DEF m
<1>7. app' \in App
  BY <1>3, <1>5, <1>6 DEF App
<1>8. /\ app'.screen = "none" /\ app'.user = u /\ app'.serving = app.serving
      /\ app'.killed = k
  BY <1>5, <1>6, <1>7 DEF App
<1>9. Good(app', answers')
  BY <1>1, <1>2, <1>5, <1>6, <1>7
  DEF Good, Fine, Core, Place, Shown, Alright, Bound, App
<1> QED
  BY <1>1, <1>2, <1>5, <1>8, <1>9 DEF IInv, KilledComesBack, Away, k

\* The service is restarted, and posts the relaunch if the user had not left.
LEMMA RestartedKeeps == ASSUME IInv, Restarted PROVE IInv'
<1>1. World' /\ UNCHANGED <<app, answers>>
  BY DEF IInv, World, Restarted, usb, wires
<1>2. Remembers(app.user)
  BY DEF IInv, Good, Fine, Place
<1> QED
  BY <1>1, <1>2 DEF IInv, Restarted, KilledComesBack, Away, Remembers

\* The write that apply() put off is done.
LEMMA PreferencesWrittenKeeps == ASSUME IInv, PreferencesWritten PROVE IInv'
<1> DEFINE u == [app.user EXCEPT !.stored = {app.user.left}]
<1>1. World' /\ UNCHANGED <<answers, relaunch>>
  BY DEF IInv, World, PreferencesWritten, usb, wires
<1>2. app \in App /\ app.user \in UserLeft /\ Remembers(app.user)
  BY DEF IInv, Good, Fine, Core, Place, App
<1>3. u \in UserLeft /\ u.left = app.user.left /\ u.said = app.user.said
      /\ u.lost = app.user.lost
  BY <1>2 DEF UserLeft
<1>4. Remembers(u)
  BY <1>2, <1>3 DEF Remembers
<1>5. app' = [app EXCEPT !.user = u]
  BY DEF PreferencesWritten
<1> HIDE DEF u
<1>6. app' \in App
  BY <1>2, <1>3, <1>5 DEF App
<1>7. Good(app', answers') /\ app'.screen = app.screen /\ app'.user = u
  BY <1>1, <1>2, <1>3, <1>4, <1>5, <1>6
  DEF IInv, Good, Fine, Core, Place, Shown, Alright, Bound, App
<1>8. app'.killed = app.killed /\ app'.preempted = app.preempted
  BY <1>2, <1>5 DEF App
<1> QED
  BY <1>1, <1>3, <1>7, <1>8 DEF IInv, KilledComesBack, Away

(***************************************************************************)
(* The invariant.                                                          *)
(***************************************************************************)

\* At first nothing is there.
LEMMA InitInv == Init => IInv
<1> SUFFICES ASSUME Init PROVE IInv
  OBVIOUS
<1>1. 0 \in 0..MaxAsks /\ 0 \in 0..MaxSearches /\ 0 \in 0..MaxReconnects
      /\ 0 \in 0..MaxInstances /\ NoTimers \in [Timers -> Nat]
      /\ NoDialogs \in [Instances -> 0..2]
  BY DEF NoTimers, NoDialogs
<1>2. Never \in UserLeft /\ Remembers(Never) /\ ~Never.left
  BY DEF Never, UserLeft, Remembers
<1>3. app \in App
  BY <1>1, <1>2 DEF Init, Nowhere, App
<1>4. Good(app, answers)
  BY <1>2, <1>3 DEF Init, Nowhere, Good, Fine, Core, Place, Shown, Alright, Bound
<1>5. World
  BY <1>1 DEF Init, World
<1> QED
  BY <1>4, <1>5 DEF IInv, KilledComesBack, Away, Init, Nowhere

\* The invariant is inductive.
LEMMA Inductive == IInv /\ [Next]_vars => IInv'
<1> SUFFICES ASSUME IInv, [Next]_vars PROVE IInv'
  OBVIOUS
<1>1. CASE Dongle
  BY <1>1, DongleDropsKeeps, DongleEnumeratesKeeps, FlashDriveAttachedKeeps DEF Dongle
<1>2. CASE User
  BY <1>2, LaunchKeeps, LeaveKeeps, ReturnKeeps, EndKeeps DEF User
<1>3. CASE Destroyed \/ PreferencesWritten \/ Killed
  BY <1>3, EndKeeps, PreferencesWrittenKeeps, KilledKeeps
<1>4. CASE Delivery
  BY <1>4, DeviceListSettlesKeeps, BroadcastArrivesKeeps, HandedOverKeeps,
     AnswerArrivesKeeps, MuteDongleCheckKeeps, ServiceConnectsKeeps, SurfaceComesKeeps,
     SurfaceGoesKeeps, RestartedKeeps, LaunchKeeps
  DEF Delivery
<1>5. CASE Answering
  BY <1>5, DialogClosedKeeps DEF Answering
<1>6. CASE \E t \in Timers : TimerFires(t)
  BY <1>6, TimerFiresKeeps
<1>7. CASE UNCHANGED vars
  BY <1>7 DEF vars, usb, wires, IInv, World, KilledComesBack, Away
<1> QED
  BY <1>1, <1>2, <1>3, <1>4, <1>5, <1>6, <1>7 DEF Next, Events

\* The invariant holds throughout.
LEMMA AlwaysIInv == Spec => []IInv
<1> QED
  BY InitInv, Inductive, PTL DEF Spec

(***************************************************************************)
(* Theorems.                                                               *)
(***************************************************************************)

\* Every variable keeps its type: no sequence of drops, denials and healthy spells
\* takes the attempts past their limits.
THEOREM TypeCorrect == Spec => []TypeOK
<1>1. ASSUME IInv PROVE TypeOK
  <2>1. app \in App
    BY <1>1 DEF IInv, Good, Fine, Core
  <2>2. DOMAIN app = DOMAIN Nowhere
    BY <2>1 DEF App, Nowhere
  <2> QED
    BY <1>1, <2>1, <2>2 DEF IInv, World, TypeOK
<1> QED
  BY AlwaysIInv, <1>1, PTL

\* However restarts of the dongle, answers, Runnables and the life cycle interleave,
\* an Activity in front without a session waits for something, or says it gave up.
THEOREM HuntNeverStuck == Spec => []NeverStuck
<1>1. ASSUME IInv PROVE NeverStuck
  BY <1>1 DEF IInv, Good, Fine, Core, Alright, NeverStuck, Hunting
<1> QED
  BY AlwaysIInv, <1>1, PTL

\* Whichever of Surface, service and device comes first, the session learns of the
\* Surface, with the two ways past it (onSurfaceReady, surfaceChanged).
THEOREM ShownIsReady == Spec => []ReadyWhenShown
<1>1. ASSUME IInv PROVE ReadyWhenShown
  BY <1>1 DEF IInv, Good, Fine, Shown, ReadyWhenShown
<1> QED
  BY AlwaysIInv, <1>1, PTL

\* A killed Activity comes back through any number of kills, unless the user left, and
\* only then (persistUserLeft, onStartCommand); but for a kill between what the user
\* did and the write of it, and for the receiver's intent.
THEOREM RelaunchIsDue == Spec => []KilledComesBack
<1>1. IInv => KilledComesBack
  BY DEF IInv
<1> QED
  BY AlwaysIInv, <1>1, PTL

(***************************************************************************)
(* The budget of the hunt.                                                 *)
(***************************************************************************)

\* The order of the budgets, level by level.
LEMMA LowerByLevel ==
  ASSUME NEW s, NEW t,
         \/ s[1] < t[1]
         \/ s[1] = t[1] /\
            \/ s[2] < t[2]
            \/ s[2] = t[2] /\
               \/ s[3] < t[3]
               \/ s[3] = t[3] /\
                  \/ s[4] < t[4]
                  \/ s[4] = t[4] /\ (s[5] < t[5] \/ (s[5] = t[5] /\ s[6] < t[6]))
  PROVE  Lower(s, t)
<1>1. CASE s[1] < t[1]
  <2> SUFFICES \E i \in 1..6 : s[i] < t[i] /\ \A j \in 1..(i - 1) : s[j] = t[j]
    BY DEF Lower
  <2> WITNESS 1 \in 1..6
  <2> QED
    BY <1>1
<1>2. CASE s[1] = t[1] /\ s[2] < t[2]
  <2> SUFFICES \E i \in 1..6 : s[i] < t[i] /\ \A j \in 1..(i - 1) : s[j] = t[j]
    BY DEF Lower
  <2> WITNESS 2 \in 1..6
  <2> QED
    BY <1>2
<1>3. CASE s[1] = t[1] /\ s[2] = t[2] /\ s[3] < t[3]
  <2> SUFFICES \E i \in 1..6 : s[i] < t[i] /\ \A j \in 1..(i - 1) : s[j] = t[j]
    BY DEF Lower
  <2> WITNESS 3 \in 1..6
  <2> QED
    BY <1>3
<1>4. CASE s[1] = t[1] /\ s[2] = t[2] /\ s[3] = t[3] /\ s[4] < t[4]
  <2> SUFFICES \E i \in 1..6 : s[i] < t[i] /\ \A j \in 1..(i - 1) : s[j] = t[j]
    BY DEF Lower
  <2> WITNESS 4 \in 1..6
  <2> QED
    BY <1>4
<1>5. CASE s[1] = t[1] /\ s[2] = t[2] /\ s[3] = t[3] /\ s[4] = t[4] /\ s[5] < t[5]
  <2> SUFFICES \E i \in 1..6 : s[i] < t[i] /\ \A j \in 1..(i - 1) : s[j] = t[j]
    BY DEF Lower
  <2> WITNESS 5 \in 1..6
  <2> QED
    BY <1>5
<1>6. CASE /\ s[1] = t[1] /\ s[2] = t[2] /\ s[3] = t[3] /\ s[4] = t[4] /\ s[5] = t[5]
           /\ s[6] < t[6]
  <2> SUFFICES \E i \in 1..6 : s[i] < t[i] /\ \A j \in 1..(i - 1) : s[j] = t[j]
    BY DEF Lower
  <2> WITNESS 6 \in 1..6
  <2> QED
    BY <1>6
<1> QED
  BY <1>1, <1>2, <1>3, <1>4, <1>5, <1>6

\* There is no infinite row of budgets, each lower than the one before.
LEMMA BudgetsRunOut ==
  ~ \E row \in [Nat -> [1..6 -> Nat]] : \A n \in Nat : Lower(row[n + 1], row[n])
<1> DEFINE Less == OpToRel(<, Nat)
           Lex == LexProductOrdering(Less, Nat, 6)
<1>1. IsWellFoundedOn(Lex, [1..6 -> Nat])
  <2>1. IsWellFoundedOn(Less, Nat)
    BY NatLessThanWellFounded
  <2> HIDE DEF Less
  <2>2. 6 \in Nat
    OBVIOUS
  <2> QED
    BY <2>1, <2>2, WFLexProductOrdering
<1>2. ASSUME NEW s \in [1..6 -> Nat], NEW t \in [1..6 -> Nat], Lower(s, t)
      PROVE  <<s, t>> \in Lex
  <2>1. PICK i \in 1..6 : s[i] < t[i] /\ \A j \in 1..(i - 1) : s[j] = t[j]
    BY <1>2 DEF Lower
  <2>2. <<s[i], t[i]>> \in Less
    BY <2>1 DEF OpToRel
  <2> HIDE DEF Less
  <2> QED
    BY <2>1, <2>2 DEF LexProductOrdering
<1> HIDE DEF Lex, Less
<1>3. ASSUME NEW row \in [Nat -> [1..6 -> Nat]],
             \A n \in Nat : Lower(row[n + 1], row[n])
      PROVE  FALSE
  <2> DEFINE budgets == [1..6 -> Nat]
  <2>1. row \in [Nat -> budgets] /\ IsWellFoundedOn(Lex, budgets)
    BY <1>1, <1>3
  <2>2. ASSUME NEW s \in budgets, NEW t \in budgets, Lower(s, t)
        PROVE  <<s, t>> \in Lex
    BY <1>2, <2>2
  <2> HIDE DEF budgets
  <2>3. \A n \in Nat : <<row[n + 1], row[n]>> \in Lex
    <3> TAKE n \in Nat
    <3>1. row[n] \in budgets /\ row[n + 1] \in budgets
      BY <2>1
    <3> QED
      BY <1>3, <2>2, <3>1
  <2> QED
    BY <2>1, <2>3 DEF IsWellFoundedOn
<1> QED
  BY <1>3

\* Nothing of the hunt changes but the searches, which begin anew.
Same(a, b) ==
  /\ b.posted = a.posted /\ b.dialogs = a.dialogs /\ b.awaiting = a.awaiting
  /\ b.asked = a.asked /\ b.bound = a.bound

\* A request goes out.
Asks(a, b) ==
  /\ ~a.awaiting /\ b.awaiting
  /\ b.asked = IF a.asked < MaxAsks THEN a.asked + 1 ELSE a.asked
  /\ b.dialogs # NoDialogs /\ b.posted = a.posted /\ b.bound = a.bound

\* A search is posted.
Searches(a, b) ==
  /\ a.searches < MaxSearches /\ b.searches = a.searches + 1
  /\ b.posted = [a.posted EXCEPT !["search"] = @ + 1]
  /\ b.dialogs = a.dialogs /\ b.awaiting = a.awaiting
  /\ b.asked = a.asked /\ b.bound = a.bound

\* The levels of the budget are natural numbers.
LEMMA LevelsAreNat ==
  ASSUME NEW a \in App
  PROVE  /\ Open(a) \in 0..1 /\ Stale(a) \in 0..1
         /\ Posted(a) \in Nat /\ Requests(a) \in Nat /\ MaxSearches - a.searches \in Nat
         /\ a.posted["retry"] \in Nat /\ a.posted["search"] \in Nat
         /\ a.posted["reconnect"] \in Nat
<1>1. /\ a.posted \in [Timers -> Nat]
      /\ a.asked \in 0..MaxAsks /\ a.searches \in 0..MaxSearches
  BY DEF App
<1>2. a.posted["retry"] \in Nat /\ a.posted["search"] \in Nat
      /\ a.posted["reconnect"] \in Nat
  BY <1>1 DEF Timers
<1>3. Open(a) \in 0..1 /\ Stale(a) \in 0..1
  BY DEF Open, Stale, Count
<1>4. Requests(a) \in Nat
  BY <1>1 DEF Requests, Count
<1> QED
  BY <1>1, <1>2, <1>3, <1>4 DEF Posted

\* Equal levels.
LEMMA SameLevels ==
  ASSUME NEW a, NEW b, Same(a, b)
  PROVE  /\ Open(b) = Open(a) /\ Stale(b) = Stale(a)
         /\ Posted(b) = Posted(a) /\ Requests(b) = Requests(a)
<1> QED
  BY DEF Same, Open, Stale, Posted, Requests

\* A device that is opened costs nothing.
LEMMA OpenDeviceSame ==
  ASSUME NEW a \in App, NEW d, NEW b \in OpenDevice(a, d)
  PROVE  Same(a, b) /\ b.searches = a.searches
<1> DEFINE f == [a EXCEPT !.pending = 0]
<1>1. CASE a.started
  BY <1>1 DEF OpenDevice, Same
<1>2. CASE ~a.started /\ (~a.surface \/ ~Bound(a))
  BY <1>2 DEF OpenDevice, Same, App
<1>3. CASE ~a.started /\ ~(~a.surface \/ ~Bound(a))
  <2>1. PICK e \in EnsureStarted(f, d) :
          b = IF e.session = 0 THEN Tell(e)
              ELSE ShowSession([e EXCEPT !.started = TRUE, !.mute = (e.drops > 0),
                                         !.told = FALSE])
    BY <1>3 DEF OpenDevice
  <2>2. Same(a, f) /\ f.searches = a.searches /\ f \in App
    <3>1. 0 \in 0..MaxInstances
      OBVIOUS
    <3> QED
      BY <3>1 DEF Same, App
  <2> HIDE DEF f
  <2>3. e = f \/ \E i : e = [f EXCEPT !.session = i]
    BY <2>1 DEF EnsureStarted
  <2>4. Same(a, e) /\ e.searches = a.searches
    BY <2>2, <2>3 DEF Same, App
  <2>5. b.posted = e.posted /\ b.dialogs = e.dialogs /\ b.awaiting = e.awaiting
        /\ b.asked = e.asked /\ b.bound = e.bound /\ b.searches = e.searches
    BY <2>1 DEF Tell, ShowSession
  <2> QED
    BY <2>4, <2>5 DEF Same
<1> QED
  BY <1>1, <1>2, <1>3

\* findAndOpenDongle(): nothing, a request, or a search.
LEMMA FindAndOpenOutcome ==
  ASSUME NEW a \in App, NEW b \in FindAndOpen(a), listed \subseteq Instances
  PROVE  Same(a, b) \/ Asks(a, b) \/ Searches(a, b)
<1>1. CASE a.started \/ a.awaiting
  BY <1>1 DEF FindAndOpen, Same
<1>2. CASE ~a.started /\ ~a.awaiting /\ listed # {}
  <2> DEFINE e == [a EXCEPT !.searches = 0]
  <2>1. PICK d \in listed :
          b \in IF d \in permitted THEN OpenDevice(e, d) ELSE {Ask(e, d)}
    BY <1>2 DEF FindAndOpen
  <2>2. e \in App /\ Same(a, e)
    <3>1. 0 \in 0..MaxSearches
      OBVIOUS
    <3> QED
      BY <3>1 DEF App, Same
  <2> HIDE DEF e
  <2>3. CASE d \in permitted
    BY <2>1, <2>2, <2>3, OpenDeviceSame DEF Same
  <2>4. CASE d \notin permitted
    <3> DEFINE n == [e.dialogs EXCEPT ![d] = IF @ < 2 THEN @ + 1 ELSE @]
               v == IF e.asked < MaxAsks THEN e.asked + 1 ELSE e.asked
    <3>1. b = [e EXCEPT !.awaiting = TRUE, !.asked = v, !.dialogs = n, !.told = FALSE]
      BY <2>1, <2>4 DEF Ask
    <3>2. n[d] > 0 /\ d \in Instances
      BY <2>2 DEF App
    <3> HIDE DEF n
    <3>3. n # NoDialogs
      BY <3>2 DEF NoDialogs
    <3>4. b.awaiting /\ b.asked = v /\ b.dialogs = n /\ b.posted = e.posted
          /\ b.bound = e.bound
      BY <2>2, <3>1 DEF App
    <3> QED
      BY <1>2, <2>2, <3>3, <3>4 DEF Same, Asks
  <2> QED
    BY <2>3, <2>4
<1>3. CASE ~a.started /\ ~a.awaiting /\ listed = {} /\ a.searches < MaxSearches
  <2>1. b = Post([a EXCEPT !.searches = @ + 1], "search")
    BY <1>3 DEF FindAndOpen
  <2> QED
    BY <1>3, <2>1 DEF Post, Searches, App
<1>4. CASE ~a.started /\ ~a.awaiting /\ listed = {} /\ ~(a.searches < MaxSearches)
  BY <1>4 DEF FindAndOpen, Tell, Same, App
<1> QED
  BY <1>1, <1>2, <1>3, <1>4

\* What is on its way counts once.
Out(ans) == Count(ans # {})

\* A step that spends on some level and on none before it.
LEMMA BudgetSinks ==
  ASSUME IInv, IInv',
         \/ Due' < Due
         \/ Due' = Due /\
            \/ Stale(app') < Stale(app)
            \/ Stale(app') = Stale(app) /\
               \/ Posted(app') + Open(app') + Out(answers')
                    < Posted(app) + Open(app) + Out(answers)
               \/ /\ Posted(app') + Open(app') + Out(answers')
                       = Posted(app) + Open(app) + Out(answers)
                  /\ \/ Requests(app') < Requests(app)
                     \/ Requests(app') = Requests(app) /\
                        \/ 2 * Open(app') + Out(answers') < 2 * Open(app) + Out(answers)
                        \/ /\ 2 * Open(app') + Out(answers') = 2 * Open(app) + Out(answers)
                           /\ MaxSearches - app'.searches < MaxSearches - app.searches
  PROVE  Lower(Budget', Budget)
<1>1. app \in App /\ app' \in App /\ Len(broadcasts) \in Nat /\ Len(broadcasts') \in Nat
  BY DEF IInv, World, Good, Fine, Core
<1>2. Due \in Int /\ Due' \in Int /\ Out(answers) \in Int /\ Out(answers') \in Int
  BY <1>1 DEF Due, Out, Count
<1>3. /\ Open(app) \in Int /\ Stale(app) \in Int /\ Posted(app) \in Int
      /\ Requests(app) \in Int /\ MaxSearches - app.searches \in Int
  BY <1>1, LevelsAreNat
<1>4. /\ Open(app') \in Int /\ Stale(app') \in Int /\ Posted(app') \in Int
      /\ Requests(app') \in Int /\ MaxSearches - app'.searches \in Int
  BY <1>1, LevelsAreNat
<1> DEFINE tokens == Posted(app) + Open(app) + Out(answers)
           tokens1 == Posted(app') + Open(app') + Out(answers')
           phase == 2 * Open(app) + Out(answers)
           phase1 == 2 * Open(app') + Out(answers')
           left == MaxSearches - app.searches
           left1 == MaxSearches - app'.searches
<1>5. tokens \in Int /\ tokens1 \in Int /\ phase \in Int /\ phase1 \in Int
  BY <1>2, <1>3, <1>4
<1>6. /\ Budget = <<Due, Stale(app), tokens, Requests(app), phase, left>>
      /\ Budget' = <<Due', Stale(app'), tokens1, Requests(app'), phase1, left1>>
  BY DEF Budget, Out
<1>7. left \in Int /\ left1 \in Int
  BY <1>3, <1>4
<1>8. \/ Due' < Due
      \/ Due' = Due /\
         \/ Stale(app') < Stale(app)
         \/ Stale(app') = Stale(app) /\
            \/ tokens1 < tokens
            \/ tokens1 = tokens /\
               \/ Requests(app') < Requests(app)
               \/ Requests(app') = Requests(app) /\ phase1 < phase
               \/ Requests(app') = Requests(app) /\ phase1 = phase /\ left1 < left
  OBVIOUS
<1> HIDE DEF tokens, tokens1, phase, phase1, left, left1
<1>9. /\ Budget[1] = Due /\ Budget[2] = Stale(app) /\ Budget[3] = tokens
      /\ Budget[4] = Requests(app) /\ Budget[5] = phase /\ Budget[6] = left
  BY <1>6
<1>10. /\ Budget'[1] = Due' /\ Budget'[2] = Stale(app') /\ Budget'[3] = tokens1
       /\ Budget'[4] = Requests(app') /\ Budget'[5] = phase1 /\ Budget'[6] = left1
  BY <1>6
<1> QED
  BY <1>8, <1>9, <1>10, LowerByLevel

\* Whatever findAndOpenDongle() does after a Runnable fired, it cost one.
LEMMA TimerFiresSpends ==
  ASSUME IInv, NEW t \in Timers, TimerFires(t)
  PROVE  Lower(Budget', Budget)
<1> DEFINE e == [app EXCEPT !.posted[t] = @ - 1]
<1>1. IInv' /\ app \in App /\ listed \subseteq Instances
  BY TimerFiresKeeps DEF IInv, World, Good, Fine, Core
<1>2. UNCHANGED <<answers, broadcasts>> /\ app.posted[t] > 0
  BY DEF TimerFires, wires
<1>3. app' = e \/ app' \in FindAndOpen(e)
  BY DEF TimerFires, TimerFired
<1>4. e \in App /\ Open(e) = Open(app) /\ Stale(e) = Stale(app)
      /\ Requests(e) = Requests(app) /\ e.bound = app.bound /\ e.searches = app.searches
      /\ e.posted = [app.posted EXCEPT ![t] = @ - 1] /\ e.awaiting = app.awaiting
      /\ e.asked = app.asked /\ e.dialogs = app.dialogs
  <2>1. app.posted \in [Timers -> Nat]
    BY <1>1 DEF App
  <2>2. [app.posted EXCEPT ![t] = @ - 1] \in [Timers -> Nat]
    BY <1>2, <2>1
  <2>3. e = [app EXCEPT !.posted = [app.posted EXCEPT ![t] = @ - 1]]
    OBVIOUS
  <2>4. e \in App
    BY <1>1, <2>2, <2>3 DEF App
  <2> QED
    BY <1>1, <2>3, <2>4 DEF Open, Stale, Requests, App
<1>5. Posted(e) = Posted(app) - 1
  BY <1>1, <1>4, LevelsAreNat DEF Posted, Timers, App
<1> HIDE DEF e
<1>6. Out(answers') = Out(answers)
  BY <1>2
<1>7. CASE Same(e, app')
  <2>1. Due' = Due
    BY <1>2, <1>4, <1>7 DEF Due, Same
  <2>2. Stale(app') = Stale(app) /\ Open(app') = Open(app) /\ Posted(app') = Posted(app) - 1
    BY <1>4, <1>5, <1>7, SameLevels
  <2>3. Out(answers) \in Nat
    BY DEF Out, Count
  <2> QED
    BY <1>1, <1>6, <2>1, <2>2, <2>3, LevelsAreNat, BudgetSinks
<1>8. CASE Asks(e, app')
  <2>1. Due' = Due /\ Stale(app') = 0 /\ Open(app') = 1
    BY <1>2, <1>4, <1>8 DEF Due, Asks, Stale, Open, Count
  <2>2. CASE app.dialogs # NoDialogs
    <3>1. Stale(app) = 1
      BY <1>4, <1>8, <2>2 DEF Asks, Stale, Count
    <3> QED
      BY <1>1, <2>1, <3>1, BudgetSinks
  <2>3. CASE app.dialogs = NoDialogs
    <3>1. Stale(app) = 0 /\ Open(app) = 0
      BY <2>3 DEF Stale, Open, Count
    <3>2. Posted(app') = Posted(app) - 1
      BY <1>5, <1>8 DEF Asks, Posted
    <3>3. Requests(app') < Requests(app)
      <4>1. app.asked \in 0..MaxAsks /\ ~app.awaiting /\ app'.awaiting
            /\ app'.asked = IF app.asked < MaxAsks THEN app.asked + 1 ELSE app.asked
        BY <1>1, <1>4, <1>8 DEF Asks, App
      <4> QED
        BY <4>1 DEF Requests, Count
    <3>4. Out(answers) \in Nat
      BY DEF Out, Count
    <3> QED
      BY <1>1, <1>6, <2>1, <3>1, <3>2, <3>3, <3>4, LevelsAreNat, BudgetSinks
  <2> QED
    BY <2>2, <2>3
<1>9. CASE Searches(e, app')
  <2>1. Due' = Due /\ Stale(app') = Stale(app) /\ Open(app') = Open(app)
        /\ Requests(app') = Requests(app)
    BY <1>2, <1>4, <1>9 DEF Due, Searches, Stale, Open, Requests
  <2>2. Posted(app') = Posted(e) + 1
    BY <1>4, <1>9, LevelsAreNat DEF Searches, Posted, App, Timers
  <2>3. MaxSearches - app'.searches < MaxSearches - app.searches
    BY <1>1, <1>4, <1>9, LevelsAreNat DEF Searches, App
  <2>4. Out(answers) \in Nat
    BY DEF Out, Count
  <2> QED
    BY <1>1, <1>5, <1>6, <2>1, <2>2, <2>3, <2>4, LevelsAreNat, BudgetSinks
<1>10. app' = e => Same(e, app')
  BY DEF Same
<1> QED
  BY <1>1, <1>3, <1>4, <1>7, <1>8, <1>9, <1>10, FindAndOpenOutcome

\* The system delivers one answer before the user gives the next.
OneAnswer == \A r, s \in answers : r = s

LEMMA AlwaysOneAnswer == Spec => []OneAnswer
<1>1. Init => OneAnswer
  BY DEF Init, OneAnswer
<1>2. OneAnswer /\ [Next]_vars => OneAnswer'
  <2> SUFFICES ASSUME OneAnswer, [Next]_vars PROVE OneAnswer'
    OBVIOUS
  <2>1. CASE UNCHANGED answers
    BY <2>1 DEF OneAnswer
  <2>2. CASE \E d \in Instances, granted \in BOOLEAN : DialogClosed(d, granted)
    BY <2>2 DEF DialogClosed, OneAnswer
  <2>3. CASE AnswerArrives
    BY <2>3 DEF AnswerArrives, OneAnswer
  <2> QED
    BY <2>1, <2>2, <2>3
    DEF Next, Events, Dongle, User, Delivery, Answering, vars, wires, DongleDrops,
        DongleEnumerates, FlashDriveAttached, Launch, Leave, Return, Back, StopService,
        Destroyed, Killed, DeviceListSettles, BroadcastArrives, HandedOver,
        MuteDongleCheck, ServiceConnects, SurfaceComes, SurfaceGoes, Restarted, Relaunch,
        PreferencesWritten, TimerFires
<1> QED
  BY <1>1, <1>2, PTL DEF Spec

\* An answer that arrives is spent, and a denial at most buys a Runnable with it.
LEMMA AnswerArrivesSpends ==
  ASSUME IInv, OneAnswer, ~Overlap, AnswerArrives
  PROVE  Lower(Budget', Budget)
<1>1. IInv' /\ app \in App
  BY AnswerArrivesKeeps DEF IInv, Good, Fine, Core
<1>2. PICK r \in answers :
        /\ answers' = answers \ {r}
        /\ app' \in IF app.screen = "none" THEN {app}
                    ELSE PermissionAnswered(app, r[1], r[2])
        /\ broadcasts' = broadcasts
  BY DEF AnswerArrives
<1>3. Out(answers) = 1 /\ Out(answers') = 0
  BY <1>2 DEF Out, Count, OneAnswer
<1>4. app.dialogs = NoDialogs
  BY <1>2 DEF Overlap
<1>5. Stale(app) = 0 /\ Open(app) = 0
  BY <1>4 DEF Stale, Open, Count
<1>6. CASE app' = app
  BY <1>1, <1>2, <1>3, <1>6, LevelsAreNat, BudgetSinks DEF Due
<1>7. CASE app' \in PermissionAnswered(app, r[1], r[2])
  <2> DEFINE b == [app EXCEPT !.awaiting = FALSE]
             g == [b EXCEPT !.asked = 0]
  <2>1. 0 \in 0..MaxAsks
    OBVIOUS
  <2>2. b \in App /\ b.dialogs = app.dialogs /\ b.posted = app.posted /\ ~b.awaiting
        /\ b.bound = app.bound /\ b.asked = app.asked /\ b.searches = app.searches
    BY <1>1 DEF App
  <2>3. CASE r[2]
    <3>1. app' \in OpenDevice(g, r[1])
      BY <1>7, <2>3 DEF PermissionAnswered
    <3> HIDE DEF b
    <3>2. g \in App /\ g.dialogs = app.dialogs /\ g.posted = app.posted
          /\ g.bound = app.bound
      BY <2>1, <2>2 DEF App
    <3> HIDE DEF g
    <3>3. app'.dialogs = app.dialogs /\ app'.posted = app.posted
          /\ app'.bound = app.bound
      BY <3>1, <3>2, OpenDeviceSame DEF Same
    <3>4. Due' = Due /\ Stale(app') = 0 /\ Open(app') = 0 /\ Posted(app') = Posted(app)
      BY <1>2, <1>4, <3>3 DEF Due, Stale, Open, Posted, Count
    <3> QED
      BY <1>1, <1>3, <1>5, <3>4, LevelsAreNat, BudgetSinks
  <2>4. CASE ~r[2] /\ app.asked < MaxAsks
    <3>1. app' = Post(b, "retry")
      BY <1>7, <2>2, <2>4 DEF PermissionAnswered
    <3> HIDE DEF b
    <3>2. /\ app'.dialogs = app.dialogs /\ app'.bound = app.bound
          /\ app'.asked = app.asked /\ ~app'.awaiting
          /\ app'.posted = [app.posted EXCEPT !["retry"] = @ + 1]
      BY <2>2, <3>1 DEF Post, App
    <3>3. Due' = Due /\ Stale(app') = 0 /\ Open(app') = 0
      BY <1>2, <1>4, <3>2 DEF Due, Stale, Open, Count
    <3>4. Posted(app') = Posted(app) + 1
      BY <1>1, <3>2, LevelsAreNat DEF Posted, App, Timers
    <3>5. Requests(app') <= Requests(app)
      BY <1>1, <2>4, <3>2 DEF Requests, Count, App
    <3> QED
      BY <1>1, <1>3, <1>5, <3>3, <3>4, <3>5, LevelsAreNat, BudgetSinks
         DEF IInv, Good, Fine, Core
  <2>5. CASE ~r[2] /\ ~(app.asked < MaxAsks)
    <3>1. app' = Tell(b)
      BY <1>7, <2>2, <2>5 DEF PermissionAnswered
    <3> HIDE DEF b
    <3>2. /\ app'.dialogs = app.dialogs /\ app'.bound = app.bound
          /\ app'.posted = app.posted
      BY <2>2, <3>1 DEF Tell, App
    <3>3. Due' = Due /\ Stale(app') = 0 /\ Open(app') = 0 /\ Posted(app') = Posted(app)
      BY <1>2, <1>4, <3>2 DEF Due, Stale, Open, Posted, Count
    <3> QED
      BY <1>1, <1>3, <1>5, <3>3, LevelsAreNat, BudgetSinks
  <2> QED
    BY <2>3, <2>4, <2>5
<1> QED
  BY <1>2, <1>6, <1>7

\* A dialog that closes turns into an answer; one that nobody waited for is gone.
LEMMA DialogClosedSpends ==
  ASSUME IInv, ~Overlap, NEW d \in Instances, NEW granted \in BOOLEAN,
         DialogClosed(d, granted)
  PROVE  Lower(Budget', Budget)
<1> DEFINE n == [app.dialogs EXCEPT ![d] = @ - 1]
           a == [app EXCEPT !.dialogs = n]
<1>1. IInv' /\ app \in App /\ listed \subseteq Instances /\ broadcasts' = broadcasts
  BY DialogClosedKeeps DEF IInv, World, Good, Fine, Core, DialogClosed
<1>2. Out(answers) = 0 /\ Out(answers') = 1
  BY DEF DialogClosed, Out, Count
<1>3. app.dialogs \in [Instances -> 0..2] /\ app.dialogs[d] > 0
  BY <1>1 DEF App, DialogClosed
<1>4. app.dialogs # NoDialogs
  BY <1>3 DEF NoDialogs
<1>5. n = NoDialogs
  <2>1. app.dialogs[d] = 1 /\ \A e \in Instances : e # d => app.dialogs[e] = 0
    BY <1>3 DEF Overlap
  <2> QED
    BY <1>3, <2>1 DEF NoDialogs
<1>6. app' \in IF a.screen = "front" THEN OnResume(a) ELSE {a}
  BY DEF DialogClosed
<1>7. n \in [Instances -> 0..2]
  <2>1. NoDialogs \in [Instances -> 0..2]
    BY DEF NoDialogs
  <2> HIDE DEF n
  <2> QED
    BY <1>5, <2>1
<1> HIDE DEF n
<1>8. a \in App /\ a.dialogs = NoDialogs /\ a.posted = app.posted
      /\ a.awaiting = app.awaiting /\ a.asked = app.asked /\ a.bound = app.bound
  BY <1>1, <1>5, <1>7 DEF App
<1> HIDE DEF a
<1>9. Open(app) = 1
  BY <1>4 DEF Open, Count
<1>10. CASE app.awaiting
  <2> DEFINE f == [a EXCEPT !.screen = "front"]
             e == PersistUserLeft(f, FALSE)
  <2>1. e.awaiting = app.awaiting /\ Same(a, e)
    <3>1. f \in App /\ f.awaiting = app.awaiting /\ Same(a, f)
      BY <1>8 DEF Same, App
    <3> HIDE DEF f
    <3>2. PICK u \in UserLeft : e = [f EXCEPT !.user = u]
      BY <3>1, PersistedUser
    <3> HIDE DEF e
    <3> QED
      BY <3>1, <3>2 DEF Same, App
  <2>2. Same(a, app')
    <3>1. app' = a \/ app' \in FindAndOpen(e)
      BY <1>6, <1>8, <1>10 DEF OnResume
    <3> HIDE DEF e
    <3> QED
      BY <1>10, <2>1, <3>1 DEF FindAndOpen, Same
  <2>3. /\ Due' = Due /\ Stale(app') = Stale(app) /\ Posted(app') = Posted(app)
        /\ Open(app') = 0 /\ Requests(app') = Requests(app)
    BY <1>1, <1>8, <1>10, <2>2
    DEF Same, Due, Stale, Posted, Open, Requests, Count
  <2> QED
    BY <1>1, <1>2, <1>9, <2>3, LevelsAreNat, BudgetSinks
<1>11. CASE ~app.awaiting
  <2>1. Stale(app) = 1
    BY <1>4, <1>11 DEF Stale, Count
  <2>2. Stale(app') = 0 /\ app'.bound = app.bound
    <3>1. CASE app' = a
      BY <1>8, <3>1 DEF Stale, Count
    <3>2. CASE app' \in OnResume(a)
      <4> DEFINE r == ResetCounters(a)
                 f == [r EXCEPT !.screen = "front"]
                 e == PersistUserLeft(f, FALSE)
      <4>1. app' \in FindAndOpen(e)
        BY <1>8, <1>11, <3>2 DEF OnResume
      <4>2. 0 \in 0..MaxAsks /\ 0 \in 0..MaxSearches /\ 0 \in 0..MaxReconnects
        OBVIOUS
      <4>3. r \in App /\ r.dialogs = NoDialogs /\ r.bound = app.bound
        BY <1>8, <4>2 DEF ResetCounters, App
      <4> HIDE DEF r
      <4>4. f \in App /\ f.dialogs = NoDialogs /\ f.bound = app.bound
        BY <4>3 DEF App
      <4> HIDE DEF f
      <4>5. e \in App /\ e.dialogs = NoDialogs /\ e.bound = app.bound
        <5>1. PICK u \in UserLeft : e = [f EXCEPT !.user = u]
          BY <4>4, PersistedUser
        <5> HIDE DEF e
        <5> QED
          BY <4>4, <5>1 DEF App
      <4> HIDE DEF e
      <4>6. Same(e, app') \/ Asks(e, app') \/ Searches(e, app')
        BY <1>1, <4>1, <4>5, FindAndOpenOutcome
      <4> QED
        BY <4>5, <4>6 DEF Same, Asks, Searches, Stale, Count
    <3> QED
      BY <1>6, <3>1, <3>2
  <2>3. Due' = Due
    BY <1>1, <2>2 DEF Due
  <2> QED
    BY <1>1, <2>1, <2>2, <2>3, BudgetSinks
<1> QED
  BY <1>10, <1>11

\* The service connects once.
LEMMA ServiceConnectsSpends ==
  ASSUME IInv, ServiceConnects
  PROVE  Lower(Budget', Budget)
<1> DEFINE b == [app EXCEPT !.bound = "yes"]
           e == [b EXCEPT !.started = TRUE, !.told = FALSE]
           p == [b EXCEPT !.pending = 0]
<1>1. IInv' /\ app \in App /\ listed \subseteq Instances /\ broadcasts' = broadcasts
  BY ServiceConnectsKeeps DEF IInv, World, Good, Fine, Core, ServiceConnects, wires
<1>2. app.bound = "binding" /\ app' \in ServiceConnected(app)
  BY DEF ServiceConnects
<1>3. b \in App /\ b.bound = "yes"
  BY <1>1 DEF App
<1>4. \/ app' \in {ShowSession(e), e}
      \/ app' \in OpenDevice(p, b.pending)
      \/ app' \in FindAndOpen(b)
  BY <1>2 DEF ServiceConnected
<1> HIDE DEF b
<1>5. e \in App /\ e.bound = "yes"
  BY <1>3 DEF App
<1>6. p \in App /\ p.bound = "yes"
  <2>1. 0 \in 0..MaxInstances
    OBVIOUS
  <2> QED
    BY <1>3, <2>1 DEF App
<1> HIDE DEF e, p
<1>7. app'.bound = "yes"
  <2>1. CASE app' \in {ShowSession(e), e}
    BY <1>5, <2>1 DEF ShowSession, App
  <2>2. CASE app' \in OpenDevice(p, b.pending)
    BY <1>6, <2>2, OpenDeviceSame DEF Same
  <2>3. CASE app' \in FindAndOpen(b)
    BY <1>1, <1>3, <2>3, FindAndOpenOutcome DEF Same, Asks, Searches
  <2> QED
    BY <1>4, <2>1, <2>2, <2>3
<1>8. Due' < Due
  BY <1>1, <1>2, <1>7 DEF Due, Count, IInv, World
<1> QED
  BY <1>1, <1>8, BudgetSinks

\* A broadcast arrives once.
LEMMA BroadcastArrivesSpends ==
  ASSUME IInv, BroadcastArrives
  PROVE  Lower(Budget', Budget)
<1>1. IInv' /\ app \in App /\ listed \subseteq Instances
  BY BroadcastArrivesKeeps DEF IInv, World, Good, Fine, Core
<1>2. Len(broadcasts') = Len(broadcasts) - 1 /\ Len(broadcasts) \in Nat
  BY DEF BroadcastArrives, IInv, World
<1>3. app' = app \/ app' \in Detached(app) \/ app' \in Attached(app)
  BY DEF BroadcastArrives
<1>4. app'.bound = app.bound
  <2>1. CASE app' \in Detached(app)
    <3> DEFINE e == [app EXCEPT !.started = FALSE, !.mute = FALSE,
                                !.swallowed = FALSE, !.replaced = FALSE]
               v == ReleaseSurface(app)
    <3>1. e \in App /\ e.bound = app.bound
      BY <1>1 DEF App
    <3> HIDE DEF e
    <3> DEFINE hidden == [e EXCEPT !.ready = FALSE]
    <3>3. hidden \in App /\ hidden.bound = app.bound
      BY <3>1 DEF App
    <3> HIDE DEF hidden
    <3>4. v \in {e, hidden}
      BY DEF ReleaseSurface, HideSession, e, hidden
    <3>5. v \in App /\ v.bound = app.bound /\ app' \in Reconnect(v)
      BY <2>1, <3>1, <3>3, <3>4 DEF Detached
    <3> HIDE DEF v
    <3>6. \/ app' = v
          \/ \E k : app' = Tell([v EXCEPT !.drops = k])
          \/ \E k : app' = Post([v EXCEPT !.drops = k, !.awaiting = FALSE,
                                           !.searches = 0], "reconnect")
      BY <3>5 DEF Reconnect
    <3> QED
      BY <3>5, <3>6 DEF Post, Tell, App
  <2>2. CASE app' \in Attached(app)
    BY <1>1, <2>2, FindAndOpenOutcome DEF Attached, Same, Asks, Searches
  <2> QED
    BY <1>3, <2>1, <2>2
<1>5. Due' < Due
  BY <1>2, <1>4 DEF Due, Count
<1> QED
  BY <1>1, <1>5, BudgetSinks

\* What the others do has no price and gives nothing back.
LEMMA SettlingIsFree ==
  ASSUME IInv, Settles
  PROVE  Budget' = Budget
<1>1. app \in App /\ UNCHANGED <<answers, broadcasts>>
  BY DEF IInv, Good, Fine, Core, Settles, DeviceListSettles, HandedOver, MuteDongleCheck,
         SurfaceComes, SurfaceGoes, PreferencesWritten, Restarted, wires
<1>2. Same(app, app') /\ app'.searches = app.searches
  <2>1. CASE DeviceListSettles \/ Restarted
    BY <2>1 DEF DeviceListSettles, Restarted, Same
  <2>2. CASE HandedOver
    <3> DEFINE p == [app EXCEPT !.preempted = TRUE]
    <3>1. p \in App /\ Same(app, p) /\ p.searches = app.searches
      BY <1>1 DEF Same, App
    <3>2. PICK a \in {app, p} : app' \in DeviceHandedOver(a, handover)
      BY <2>2 DEF HandedOver
    <3> HIDE DEF p
    <3>3. a \in App /\ Same(app, a) /\ a.searches = app.searches
      BY <1>1, <3>1, <3>2 DEF Same
    <3> DEFINE b == [a EXCEPT !.serving = TRUE]
               n == [b EXCEPT !.replaced = b.started, !.session = 0, !.ready = FALSE]
    <3>4. app' = b \/ app' = n \/ \E i : app' = [n EXCEPT !.session = i]
      BY <3>2, <3>3 DEF DeviceHandedOver, NoSession, EnsureStarted, App
    <3>5. b \in App /\ Same(app, b) /\ b.searches = app.searches
      BY <3>3 DEF Same, App
    <3> HIDE DEF b
    <3>6. Same(app, n) /\ n.searches = app.searches /\ n \in App
      <4>1. b.started \in BOOLEAN /\ 0 \in 0..MaxInstances
        BY <3>5 DEF App
      <4> QED
        BY <3>5, <4>1 DEF Same, App
    <3> HIDE DEF n
    <3> QED
      BY <3>4, <3>5, <3>6 DEF Same, App
  <2>3. CASE MuteDongleCheck
    <3> DEFINE b == [app EXCEPT !.mute = FALSE]
    <3>1. app' = b \/ app' = [b EXCEPT !.drops = 0]
      BY <2>3 DEF MuteDongleCheck, MuteChecked
    <3>2. b \in App /\ Same(app, b) /\ b.searches = app.searches
      BY <1>1 DEF Same, App
    <3> HIDE DEF b
    <3> QED
      BY <3>1, <3>2 DEF Same, App
  <2>4. CASE SurfaceComes
    <3> DEFINE a == [app EXCEPT !.surface = TRUE]
               e == [a EXCEPT !.pending = 0, !.swallowed = a.started]
    <3>1. app' \in SurfaceChanged(a)
      BY <2>4 DEF SurfaceComes
    <3>2. a \in App /\ Same(app, a) /\ a.searches = app.searches
      BY <1>1 DEF App, Same
    <3>3. app' \in OpenDevice(e, a.pending) \/ app' = ShowSession(a) \/ app' = a
      BY <3>1 DEF SurfaceChanged
    <3> HIDE DEF a
    <3>4. e \in App /\ Same(app, e) /\ e.searches = app.searches
      <4>1. 0 \in 0..MaxInstances /\ a.started \in BOOLEAN
        BY <3>2 DEF App
      <4> QED
        BY <3>2, <4>1 DEF App, Same
    <3> HIDE DEF e
    <3> QED
      <4>1. CASE app' \in OpenDevice(e, a.pending)
        BY <3>4, <4>1, OpenDeviceSame DEF Same
      <4>2. CASE app' = ShowSession(a) \/ app' = a
        BY <3>2, <4>2 DEF Same, ShowSession, App
      <4> QED
        BY <3>3, <4>1, <4>2
  <2>5. CASE SurfaceGoes
    BY <1>1, <2>5 DEF SurfaceGoes, HideSession, Bound, Same, App
  <2>6. CASE PreferencesWritten
    BY <1>1, <2>6 DEF PreferencesWritten, Same, App
  <2> QED
    BY <2>1, <2>2, <2>3, <2>4, <2>5, <2>6 DEF Settles
<1> QED
  BY <1>1, <1>2, SameLevels DEF Budget, Due, Same

\* The hunt spends: whatever the answers and the limits, no order of Runnables,
\* broadcasts, answers and life cycle lets it go round for ever (findAndOpenDongle,
\* onUsbPermissionResult, scheduleDongleReconnect).
THEOREM HuntOnlySpends == Spec => HuntSpends
<1> DEFINE A == \A old \in {Budget}, new \in {Budget'} :
                  /\ Lower(new, old) \/ Overlap \/ ~Hunts
                  /\ new # old => ~Settles
<1>1. ASSUME IInv, OneAnswer PROVE A
  <2>1. ASSUME Hunts, ~Overlap PROVE Lower(Budget', Budget)
    BY <1>1, <2>1, TimerFiresSpends, AnswerArrivesSpends, DialogClosedSpends,
       ServiceConnectsSpends, BroadcastArrivesSpends
    DEF Hunts, Answering
  <2> QED
    BY <1>1, <2>1, SettlingIsFree
<1> HIDE DEF A
<1>2. IInv /\ OneAnswer => [A]_vars
  BY <1>1
<1>3. Spec => [][A]_vars
  BY AlwaysIInv, AlwaysOneAnswer, <1>2, PTL
<1> QED
  BY <1>3 DEF HuntSpends, A

\* What the hunt has left is a row of natural numbers, as BudgetsRunOut asks.
THEOREM BudgetIsNatural == Spec => [](Budget \in [1..6 -> Nat])
<1>1. ASSUME IInv PROVE Budget \in [1..6 -> Nat]
  <2>1. app \in App /\ Len(broadcasts) \in Nat
    BY <1>1 DEF IInv, World, Good, Fine, Core
  <2>2. Due \in Nat /\ Count(answers # {}) \in Nat
    BY <2>1 DEF Due, Count
  <2> DEFINE tokens == Posted(app) + Open(app) + Count(answers # {})
             phase == 2 * Open(app) + Count(answers # {})
             left == MaxSearches - app.searches
  <2>3. tokens \in Nat /\ phase \in Nat /\ left \in Nat /\ Stale(app) \in Nat
        /\ Requests(app) \in Nat
    BY <2>1, <2>2, LevelsAreNat
  <2>4. Budget = <<Due, Stale(app), tokens, Requests(app), phase, left>>
    BY DEF Budget
  <2> HIDE DEF tokens, phase, left
  <2> QED
    BY <2>2, <2>3, <2>4
<1> QED
  BY AlwaysIInv, <1>1, PTL
=============================================================================
