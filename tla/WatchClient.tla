---------------------------- MODULE WatchClient ----------------------------
(***************************************************************************)
(* watch-app/TaphapticModel.swift: the watch app's pairing, polling and    *)
(* alerting, and the relays it talks to.                                   *)
(*                                                                         *)
(* The model runs on the main actor, so its code is atomic between two     *)
(* awaits and anything may happen at an await.  A poll is a slot that goes *)
(* from "ready" (its task has not run yet) over "sent" and "answered" (the *)
(* await of fetchEvents) back to "free", or to "asleep" between the rounds *)
(* of the polling loop.  Cancelling a task only makes its await fail, some *)
(* time later, unless it had already been answered.                        *)
(*                                                                         *)
(* A relay is what the watch sees of it: the session token it honours and  *)
(* the IDs of the channel's events, 1 to last.  Sessions are numbers that  *)
(* are drawn once.                                                         *)
(*                                                                         *)
(* An operator that is named after another with an underscore              *)
(* (TimerFires_AnyEvent) is a wrong variant of it, kept to show which      *)
(* property notices the difference.                                        *)
(***************************************************************************)
EXTENDS Integers, FiniteSets

CONSTANTS
    Relay,       \* URLs of relays
    Https,       \* those polled once per activation instead of in a loop
    Configured,  \* the URL the build was given (TaphapticAPIBaseURL), or None
    Slot,        \* model bound: polls that exist at the same time
    MaxID,       \* model bound: events per relay
    MaxSession,  \* model bound: sessions drawn
    None

ASSUME HttpsAssumption == Https \subseteq Relay
ASSUME ConfiguredAssumption == Configured \in Relay \union {None}
ASSUME NoneAssumption == None \notin Relay \union Slot
ASSUME BoundsAssumption == MaxID \in Nat /\ MaxSession \in Nat

VARIABLES
    \* Kept over a restart (Keychain, UserDefaults).
    session,    \* watchSessionToken, or 0
    cursor,     \* lastWatchEventID
    base,       \* cloudBaseURL
    \* The running app.
    active,     \* isActive
    state,      \* pairingState
    pollTask,   \* the slot of pollTask, or None
    polls,      \* the polls in progress
    claim,      \* the submission of a pairing code in progress
    reported,   \* emittedURLs: what discovery has reported since it started
    probe,      \* the URL discoveryProbeTask is probing, or None
    late,       \* URLs whose probe was cancelled when its answer was there
    shown,      \* activeTransientEventID: the alert on display, or 0
    lapsed,     \* activeTransientExpiresAt has passed
    pendingReset,   \* the timer pendingResetTask names, or None
    timers,     \* the timers that were not cancelled in their sleep
    \* The relays.
    issuer,     \* per session drawn so far, the relay that issued it
    honoured,   \* per relay, the session it accepts, or 0
    last,       \* per relay, the ID of its latest event, or 0
    \* History.
    unhealthy,  \* the reported URLs that were not healthy when last asked
    displaced,  \* those whose probe, or place as the base, another URL's cut short
    alerts,     \* per event, how often the last session alerted it, up to 2
    applied     \* the events that were applied, as new or as stale

kept    == <<session, cursor, base>>
polling == <<polls, pollTask>>
display == <<shown, lapsed, pendingReset, timers>>
relays  == <<issuer, honoured, last>>
asked   == <<unhealthy, displaced>>
finding == <<reported, probe, late, asked>>
history == <<alerts, applied>>
vars    == <<kept, active, state, polling, claim, finding, display, relays, history>>

ID      == 1..MaxID
Session == 1..MaxSession
Drawn   == DOMAIN issuer
Timer   == Drawn \X ID   \* a pendingResetTask, by the session and the event it is for

Poll ==
    [at : {"free", "ready", "sent", "answered", "asleep"},
     kind : {"none", "once", "loop", "remote"}, cancelled : BOOLEAN,
     session : 0..MaxSession, base : Relay \union {None}, since : 0..MaxID,
     reply : {"none", "events", "unauthorized", "error"}, upTo : 0..MaxID]

Submission == [at : {"none", "health", "claim", "reply"},
               base : Relay \union {None}, session : 0..MaxSession]

NoPoll  == [at |-> "free", kind |-> "none", cancelled |-> FALSE, session |-> 0,
            base |-> None, since |-> 0, reply |-> "none", upTo |-> 0]
NoClaim == [at |-> "none", base |-> None, session |-> 0]

TypeOK ==
    /\ session \in {0} \union Drawn /\ cursor \in 0..MaxID
    /\ base \in Relay \union {None}
    /\ active \in BOOLEAN
    /\ state \in {"notPaired", "pairing", "connected", "failed"}
    /\ pollTask \in Slot \union {None}
    /\ polls \in [Slot -> Poll] /\ claim \in Submission
    /\ (state = "pairing") = (claim.at # "none")
    /\ state = "connected" => session # 0
    /\ probe \in Relay \union {None} /\ late \subseteq Relay /\ reported \subseteq Relay
    /\ unhealthy \subseteq reported /\ displaced \subseteq reported
    /\ shown \in 0..MaxID /\ lapsed \in BOOLEAN
    /\ timers \subseteq Timer /\ pendingReset \in Timer \union {None}
    /\ issuer \in [Drawn -> Relay] /\ Drawn \subseteq Session
    /\ honoured \in [Relay -> {0} \union Drawn] /\ last \in [Relay -> 0..MaxID]
    /\ alerts \in [ID -> 0..2]
    /\ applied \subseteq Relay \X ID

Init ==
    /\ session = 0 /\ cursor = 0 /\ base = Configured
    /\ active = FALSE /\ state = "notPaired"
    /\ pollTask = None /\ polls = [p \in Slot |-> NoPoll]
    /\ claim = NoClaim /\ probe = None /\ late = {} /\ reported = {}
    /\ unhealthy = {} /\ displaced = {}
    /\ shown = 0 /\ lapsed = FALSE /\ pendingReset = None /\ timers = {}
    /\ issuer = <<>> /\ honoured = [r \in Relay |-> 0] /\ last = [r \in Relay |-> 0]
    /\ alerts = [e \in ID |-> 0] /\ applied = {}
-----------------------------------------------------------------------------
(***************************************************************************)
(* Helpers of several actions.                                             *)
(***************************************************************************)
\* startPollingIfPossible: a loop over HTTP, a single poll over HTTPS.
StartPolling(isActive, s, b) ==
    IF isActive /\ s # 0 /\ b # None /\ pollTask = None
    THEN \E p \in Slot :
           /\ polls[p] = NoPoll
           /\ pollTask' = p
           /\ polls' = [polls EXCEPT ![p].at = "ready",
                          ![p].kind = IF b \in Https THEN "once" ELSE "loop"]
    ELSE UNCHANGED polling

\* stopPolling
CancelTask(ps) == IF pollTask = None THEN ps
                  ELSE [ps EXCEPT ![pollTask].cancelled = TRUE]
StopPolling == polls' = CancelTask(polls) /\ pollTask' = None

\* What a task does when its pollCloudStatusOnce returned: the single poll
\* clears pollTask and ends, the loop goes to sleep.
Over(ps, p) ==
    [ps EXCEPT ![p] = IF ps[p].kind = "loop"
                      THEN [NoPoll EXCEPT !.kind = "loop", !.at = "asleep",
                                          !.cancelled = ps[p].cancelled]
                      ELSE NoPoll]
TaskAfter(p) == IF polls[p].kind = "once" THEN None ELSE pollTask

TransientActive == shown # 0 /\ ~lapsed

\* pendingResetTask?.cancel() reaches only the timer that pendingResetTask names,
\* which is the alert's own, and only in its sleep, which ends when the alert lapses.
AfterCancel == {timers \ {pendingReset}} \union (IF lapsed THEN {timers} ELSE {})

\* showPendingStatus, and applyEvent with schedulePendingReset.
ShowPending ==
    /\ shown' = 0 /\ lapsed' = FALSE /\ pendingReset' = None
    /\ timers' \in AfterCancel

ShowEvent(e) ==
    /\ shown' = e /\ lapsed' = FALSE /\ pendingReset' = <<session, e>>
    /\ \E ts \in AfterCancel : timers' = ts \union {<<session, e>>}

\* discoveryProbeTask?.cancel(): the request fails, unless its answer was there.
CancelProbe == late' \in {late, late \union ({probe} \ {None})}

\* Stopping the browser and finding nothing clear emittedURLs.
ForgetReported == reported' = {} /\ unhealthy' = {} /\ displaced' = {}

\* A probe's healthy answer: cloudBaseURL, and polling.
UseRelay(r) ==
    /\ base' = r
    /\ StartPolling(active, session, r)
    /\ unhealthy' = unhealthy \ {r}
    /\ displaced' = (displaced \union ({base} \intersect reported)) \ {r}
-----------------------------------------------------------------------------
(***************************************************************************)
(* The app's lifecycle.                                                    *)
(***************************************************************************)
\* setActive(true)
Activate ==
    /\ active' = TRUE
    /\ StartPolling(TRUE, session, base)
    /\ UNCHANGED <<kept, state, claim, finding, display, relays, history>>

Deactivate_KeepsPolling ==
    /\ active /\ active' = FALSE
    /\ ForgetReported /\ CancelProbe /\ probe' = None
    /\ UNCHANGED <<kept, state, polling, claim, display, relays, history>>

Deactivate_KeepsReported ==
    /\ active /\ active' = FALSE
    /\ StopPolling
    /\ CancelProbe /\ probe' = None
    /\ UNCHANGED <<kept, state, claim, display, reported, asked, relays, history>>

\* setActive(false)
Deactivate ==
    /\ active /\ active' = FALSE
    /\ StopPolling
    /\ ForgetReported /\ CancelProbe /\ probe' = None
    /\ UNCHANGED <<kept, state, claim, display, relays, history>>

\* The app is ended and started again (init, refreshConfiguration).
Restart ==
    /\ active' = FALSE
    /\ base' = IF Configured # None THEN Configured ELSE base
    /\ state' = IF session # 0 THEN "connected" ELSE "notPaired"
    /\ pollTask' = None /\ polls' = [p \in Slot |-> NoPoll]
    /\ claim' = NoClaim /\ ForgetReported /\ probe' = None /\ late' = {}
    /\ shown' = 0 /\ lapsed' = FALSE
    /\ pendingReset' = None /\ timers' = {}
    /\ UNCHANGED <<session, cursor, relays, history>>

\* handleResults and considerResolvedURL: a URL is reported once, and probed
\* if it is not the base; the probe of another is cancelled.  (A report that is
\* queued when the browser stops is left out.)
Discover(r) ==
    /\ active /\ r \notin reported /\ r \notin Https
    /\ reported' = reported \union {r}
    /\ IF base = r
       THEN UNCHANGED <<probe, late, displaced>>
       ELSE /\ CancelProbe /\ probe' = r
            /\ displaced' = displaced \union ({probe} \intersect reported)
    /\ UNCHANGED <<kept, active, state, polling, claim, unhealthy, display, relays, history>>

\* No relay is on the local network any more.
ResultsEmpty ==
    /\ reported # {}
    /\ ForgetReported
    /\ UNCHANGED <<kept, active, state, polling, claim, probe, late, display, relays, history>>

ProbeAnswered(healthy) ==
    /\ probe # None
    /\ probe' = None
    /\ IF healthy
       THEN UseRelay(probe)
       ELSE /\ unhealthy' = unhealthy \union ({probe} \intersect reported)
            /\ UNCHANGED <<base, polling, displaced>>
    /\ UNCHANGED <<session, cursor, active, state, claim, reported, late, display, relays, history>>

\* A probe that was cancelled after its healthy answer goes on.
LateAnswer(r) ==
    /\ r \in late
    /\ late' = late \ {r}
    /\ UseRelay(r)
    /\ UNCHANGED <<session, cursor, active, state, claim, reported, probe, display, relays, history>>
-----------------------------------------------------------------------------
(***************************************************************************)
(* submitPairingCode and resetPairing.  The keypad is on screen while the  *)
(* watch is not paired, the reset button while it is.                      *)
(***************************************************************************)
SubmitCode ==
    /\ session = 0 /\ base # None /\ state # "pairing"
    /\ state' = "pairing"
    /\ claim' = [NoClaim EXCEPT !.at = "health", !.base = base]
    /\ UNCHANGED <<kept, active, polling, finding, display, relays, history>>

\* clearPairingFailureStateForInput: the next digit clears the failure.
ClearFailure ==
    /\ session = 0 /\ state = "failed"
    /\ state' = "notPaired"
    /\ UNCHANGED <<kept, active, polling, claim, finding, display, relays, history>>

\* The relay that was asked is not healthy: whatever the base is, it is dropped.
DropRelay ==
    /\ base' = None
    /\ unhealthy' = unhealthy \union ({claim.base} \intersect reported)
    /\ displaced' = displaced \union (({base} \intersect reported) \ {claim.base})

HealthAnswered_StaysPairing(healthy) ==
    /\ claim.at = "health"
    /\ IF healthy
       THEN claim' = [claim EXCEPT !.at = "claim"] /\ UNCHANGED <<base, asked>>
       ELSE claim' = NoClaim /\ DropRelay
    /\ UNCHANGED <<session, cursor, active, state, polling, reported, probe, late,
                   display, relays, history>>

HealthAnswered(healthy) ==
    /\ claim.at = "health"
    /\ IF healthy
       THEN claim' = [claim EXCEPT !.at = "claim"] /\ UNCHANGED <<base, state, asked>>
       ELSE claim' = NoClaim /\ state' = "failed" /\ DropRelay
    /\ UNCHANGED <<session, cursor, active, polling, reported, probe, late,
                   display, relays, history>>

\* The relay grants the claim: a new session replaces the one it honoured.
ClaimGranted ==
    /\ claim.at = "claim"
    /\ Cardinality(Drawn) < MaxSession
    /\ LET s == Cardinality(Drawn) + 1
       IN  /\ claim' = [claim EXCEPT !.at = "reply", !.session = s]
           /\ issuer' = [t \in Drawn \union {s} |-> IF t = s THEN claim.base ELSE issuer[t]]
           /\ honoured' = [honoured EXCEPT ![claim.base] = s]
    /\ UNCHANGED <<kept, active, state, polling, finding, display, last, history>>

\* The token arrives and is stored.
ClaimStored ==
    /\ claim.at = "reply"
    /\ session' = claim.session
    /\ claim' = NoClaim /\ state' = "connected"
    /\ ShowPending
    /\ StartPolling(active, claim.session, base)
    /\ alerts' = [e \in ID |-> 0]
    /\ UNCHANGED <<cursor, base, active, finding, relays, applied>>

\* The claim is refused, its answer is lost, or the Keychain refuses it.
ClaimFails ==
    /\ claim.at \in {"claim", "reply"}
    /\ claim' = NoClaim /\ state' = "failed"
    /\ UNCHANGED <<kept, active, polling, finding, display, relays, history>>

\* resetPairing; the registration is withdrawn on the side (see Relay).
ResetPairing ==
    /\ session # 0 /\ state # "pairing"
    /\ StopPolling
    /\ session' = 0 /\ cursor' = 0 /\ state' = "notPaired"
    /\ ShowPending
    /\ UNCHANGED <<base, active, claim, finding, relays, history>>
-----------------------------------------------------------------------------
(***************************************************************************)
(* pollCloudStatusOnce.                                                    *)
(***************************************************************************)
\* A push was presented or opened, or arrived in the background.
RemoteEvent(p) ==
    /\ polls[p] = NoPoll
    /\ polls' = [polls EXCEPT ![p].at = "ready", ![p].kind = "remote"]
    /\ UNCHANGED <<kept, active, state, pollTask, claim, finding, display, relays, history>>

\* A task that was not cancelled, with a session and a relay, asks for what
\* is above the cursor.
PollSend(p) ==
    /\ polls[p].at = "ready" /\ ~polls[p].cancelled
    /\ session # 0 /\ base # None
    /\ polls' = [polls EXCEPT ![p].at = "sent", ![p].session = session,
                              ![p].base = base, ![p].since = cursor]
    /\ UNCHANGED <<kept, active, state, pollTask, claim, finding, display, relays, history>>

\* Without them it returns at once.
PollSkip(p) ==
    /\ polls[p].at = "ready"
    /\ polls[p].cancelled \/ session = 0 \/ base = None
    /\ polls' = IF polls[p].cancelled THEN [polls EXCEPT ![p] = NoPoll] ELSE Over(polls, p)
    /\ pollTask' = TaskAfter(p)
    /\ UNCHANGED <<kept, active, state, claim, finding, display, relays, history>>

\* The relay answers (Relay's handleEvents, EventStore's SinceForChannel).
PollAnswered(p) ==
    /\ polls[p].at = "sent"
    /\ LET r == polls[p].base
       IN  polls' = IF honoured[r] = polls[p].session
                    THEN [polls EXCEPT ![p].at = "answered", ![p].reply = "events",
                                       ![p].upTo = last[r]]
                    ELSE [polls EXCEPT ![p].at = "answered", ![p].reply = "unauthorized"]
    /\ UNCHANGED <<kept, active, state, pollTask, claim, finding, display, relays, history>>

\* The request fails, times out, or was cancelled.
PollFails(p) ==
    /\ polls[p].at = "sent"
    /\ polls' = [polls EXCEPT ![p].at = "answered", ![p].reply = "error"]
    /\ UNCHANGED <<kept, active, state, pollTask, claim, finding, display, relays, history>>

\* applyEvent for each event of a response, oldest first.  The events that
\* are too old to be alerted (staleEventMaxAge) are a prefix: up to stale.
ApplyEvents_NoCursor(r, since, upTo, stale) ==
    LET fresh == {e \in ID : e > since /\ e <= upTo /\ e > stale}
    IN  /\ cursor' = IF upTo > cursor THEN upTo ELSE cursor
        /\ applied' = applied \union ({r} \X {e \in ID : e > since /\ e <= upTo})
        /\ alerts' = [e \in ID |-> IF e \in fresh /\ alerts[e] < 2
                                 THEN alerts[e] + 1 ELSE alerts[e]]
        /\ IF fresh # {} THEN ShowEvent(upTo) ELSE UNCHANGED display

ApplyEvents_NewestFirst(r, since, upTo, stale) ==
    LET fresh == {e \in {upTo} : e > cursor /\ e > stale}
    IN  /\ cursor' = IF upTo > cursor THEN upTo ELSE cursor
        /\ applied' = applied \union ({r} \X {e \in {upTo} : e > cursor})
        /\ alerts' = [e \in ID |-> IF e \in fresh /\ alerts[e] < 2
                                 THEN alerts[e] + 1 ELSE alerts[e]]
        /\ IF fresh # {} THEN ShowEvent(upTo) ELSE UNCHANGED display

ApplyEvents(r, since, upTo, stale) ==
    LET new   == {e \in ID : e > since /\ e <= upTo /\ e > cursor}
        fresh == {e \in new : e > stale}
    IN  /\ cursor' = IF new # {} THEN upTo ELSE cursor
        /\ applied' = applied \union ({r} \X new)
        /\ alerts' = [e \in ID |-> IF e \in fresh /\ alerts[e] < 2
                                 THEN alerts[e] + 1 ELSE alerts[e]]
        /\ IF fresh # {}
           THEN ShowEvent(upTo)
           ELSE IF (upTo > since /\ new = {}) \/ TransientActive
                THEN UNCHANGED display
                ELSE ShowPending

\* The poll goes on with events; a response to another session is dropped
\* (TaphapticSessionPollGuard).
PollApplies(p) ==
    /\ polls[p].at = "answered" /\ polls[p].reply = "events"
    /\ polls' = Over(polls, p) /\ pollTask' = TaskAfter(p)
    /\ IF session = polls[p].session
       THEN /\ state' = "connected"
            /\ \E stale \in 0..MaxID :
                 ApplyEvents(polls[p].base, polls[p].since, polls[p].upTo, stale)
       ELSE UNCHANGED <<cursor, state, display, history>>
    /\ UNCHANGED <<session, base, active, claim, finding, relays>>

\* The poll goes on with a 401: the session is over, unless it is not the one
\* the poll was sent with.
PollUnauthorized_NoGuard(p) ==
    /\ polls[p].at = "answered" /\ polls[p].reply = "unauthorized"
    /\ polls' = Over(CancelTask(polls), p) /\ pollTask' = None
    /\ session' = 0 /\ state' = IF state = "pairing" THEN state ELSE "failed"
    /\ ShowPending
    /\ UNCHANGED <<cursor, base, active, claim, finding, relays, history>>

PollUnauthorized(p) ==
    /\ polls[p].at = "answered" /\ polls[p].reply = "unauthorized"
    /\ IF session = polls[p].session
       THEN /\ polls' = Over(CancelTask(polls), p) /\ pollTask' = None
            /\ session' = 0 /\ state' = "failed"
            /\ ShowPending
       ELSE /\ polls' = Over(polls, p) /\ pollTask' = TaskAfter(p)
            /\ UNCHANGED <<session, state, display>>
    /\ UNCHANGED <<cursor, base, active, claim, finding, relays, history>>

PollRetries_EndsLoop(p) ==
    /\ polls[p].at = "answered" /\ polls[p].reply = "error"
    /\ polls' = [polls EXCEPT ![p] = NoPoll] /\ pollTask' = TaskAfter(p)
    /\ UNCHANGED <<kept, active, state, claim, finding, display, relays, history>>

\* The poll goes on with another error, which only changes a text.
PollRetries(p) ==
    /\ polls[p].at = "answered" /\ polls[p].reply = "error"
    /\ polls' = Over(polls, p) /\ pollTask' = TaskAfter(p)
    /\ UNCHANGED <<kept, active, state, claim, finding, display, relays, history>>

\* The loop's Task.sleep is over; a cancelled loop ends.
LoopWakes(p) ==
    /\ polls[p].at = "asleep"
    /\ polls' = [polls EXCEPT ![p] = IF @.cancelled THEN NoPoll ELSE [@ EXCEPT !.at = "ready"]]
    /\ UNCHANGED <<kept, active, state, pollTask, claim, finding, display, relays, history>>
-----------------------------------------------------------------------------
(***************************************************************************)
(* The display's timer (schedulePendingReset), and the relays.             *)
(***************************************************************************)
Lapse ==
    /\ TransientActive
    /\ lapsed' = TRUE
    /\ UNCHANGED <<kept, active, state, polling, claim, finding, shown, pendingReset,
                   timers, relays, history>>

TimerFires_AnyEvent(t) ==
    /\ t \in timers /\ (t = <<session, shown>> => lapsed)
    /\ shown' = 0 /\ lapsed' = FALSE /\ pendingReset' = None
    /\ \E ts \in AfterCancel : timers' = ts \ {t}
    /\ UNCHANGED <<kept, active, state, polling, claim, finding, relays, history>>

\* A timer's sleep is over, for the alert's own when the alert has lapsed.  One
\* that finds another event only clears pendingResetTask, whatever that names.
TimerFires(t) ==
    /\ t \in timers /\ (t = <<session, shown>> => lapsed)
    /\ IF t[2] = shown
       THEN shown' = 0 /\ lapsed' = FALSE /\ \E ts \in AfterCancel : timers' = ts \ {t}
       ELSE timers' = timers \ {t} /\ UNCHANGED <<shown, lapsed>>
    /\ pendingReset' = None
    /\ UNCHANGED <<kept, active, state, polling, claim, finding, relays, history>>

\* A hook's event is stored.
Emit(r) ==
    /\ last[r] < MaxID
    /\ last' = [last EXCEPT ![r] = @ + 1]
    /\ UNCHANGED <<kept, active, state, polling, claim, finding, display,
                   issuer, honoured, history>>

\* The installation is deleted, or another watch claims its next code.
Revoke(r) ==
    /\ honoured[r] # 0
    /\ honoured' = [honoured EXCEPT ![r] = 0]
    /\ UNCHANGED <<kept, active, state, polling, claim, finding, display,
                   issuer, last, history>>

PollStep(p) ==
    \/ PollSend(p) \/ PollSkip(p) \/ PollAnswered(p) \/ PollFails(p)
    \/ PollApplies(p) \/ PollUnauthorized(p) \/ PollRetries(p) \/ LoopWakes(p)

Next ==
    \/ Activate \/ Deactivate \/ Restart
    \/ ResultsEmpty
    \/ \E r \in Relay : Discover(r) \/ LateAnswer(r) \/ Emit(r) \/ Revoke(r)
    \/ \E healthy \in BOOLEAN : ProbeAnswered(healthy) \/ HealthAnswered(healthy)
    \/ SubmitCode \/ ClearFailure \/ ClaimGranted \/ ClaimStored \/ ClaimFails \/ ResetPairing
    \/ \E p \in Slot : RemoteEvent(p) \/ PollStep(p)
    \/ Lapse \/ \E t \in Timer : TimerFires(t)

\* The main actor runs a task that is ready, a sleep and a request end, and a
\* relay that is asked again and again answers at last.
Fairness ==
    \A p \in Slot :
        /\ WF_vars(PollSend(p) \/ PollSkip(p) \/ PollApplies(p)
                      \/ PollUnauthorized(p) \/ PollRetries(p) \/ LoopWakes(p))
        /\ WF_vars(PollAnswered(p) \/ PollFails(p))
        /\ SF_vars(PollAnswered(p))

Spec     == Init /\ [][Next]_vars
FairSpec == Spec /\ Fairness
-----------------------------------------------------------------------------
(***************************************************************************)
(* Properties.                                                             *)
(***************************************************************************)
\* Polls may overlap (the loop, pushes, a new activation) and their responses
\* may arrive in any order, but a session alerts an event once (applyEvent's
\* comparison with the cursor, read after the await).
AlertedOnce == \A e \in ID : alerts[e] <= 1

\* What the cursor has passed was applied: polling by "above the cursor" with
\* overlapping responses and lost sessions hides no event of the relay.
NothingIsHidden ==
    session # 0 => \A e \in 1..cursor : <<issuer[session], e>> \in applied

\* A session is dropped by the user or because its relay stopped honouring
\* it; a late 401 to an earlier session drops nothing (TaphapticSessionPollGuard).
SessionIsKept ==
    [][session # 0 /\ session' = 0 =>
          ResetPairing \/ honoured[issuer[session]] # session]_vars

\* An alert stays on display for its time unless a newer one replaces it or the
\* pairing ends: a timer that wakes too late to be cancelled compares the event
\* (schedulePendingReset).  It compares nothing else, so the timer of a session
\* that was dropped can still end the alert that another session gives the same
\* event; no other timer can.
ShownToTheEnd ==
    [][TransientActive /\ shown' = 0 =>
          \/ session' # session \/ Restart
          \/ \E s \in Drawn \ {session} : <<s, shown>> \in timers \ timers']_vars

\* The polling loop asks only while the app is active ("polls only while the
\* watch app is active"): setActive(false) reaches every loop that runs.
PollsOnlyWhileActive ==
    [][\A p \in Slot : polls[p].at = "ready" /\ polls'[p].at = "sent" =>
          active \/ polls[p].kind # "loop"]_vars

\* Discovery reports a URL once, so one that nobody asks any more is lost until
\* the app is closed or the network is empty.  Whatever closes and opens the app,
\* cancels a probe or pairs the watch: a URL that was reported is the base or is
\* being asked, was not healthy when last asked, or another URL cut short its
\* probe (considerResolvedURL) or took its place (a later probe's answer, or
\* submitPairingCode, which resets whatever URL is there when its own fails).
RelayIsFound ==
    \A r \in reported : r \in {base, probe} \union unhealthy \union displaced

InUse    == active /\ session # 0 /\ base = issuer[session] /\ honoured[base] = session
CaughtUp == session # 0 /\ cursor = last[issuer[session]]

\* A watch that stays open on a local relay that honours its session catches
\* up with the relay's events, whatever happened before: no order of
\* activations, pushes, failures and re-pairings leaves it without a poll.
WatchCatchesUp == <>[]InUse => <>[]CaughtUp
=============================================================================
