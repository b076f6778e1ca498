-------------------------- MODULE WatchClientProofs --------------------------
(***************************************************************************)
(* Theorems about WatchClient, for any number of polls, sessions, events   *)
(* and relays, unless a theorem assumes one relay or no hosted one.        *)
(***************************************************************************)
EXTENDS WatchClient, FiniteSetTheorems, TLAPS

Asking(p) == polls[p].at \in {"sent", "answered"}

\* Sessions are drawn in order.  The one a claim brings is not in use yet: a
\* watch that has a session submits no code, and no poll was sent with it.
SessionsAreFresh ==
    /\ Cardinality(Drawn) \in Nat /\ Drawn = 1..Cardinality(Drawn)
    /\ claim.at # "none" => session = 0 /\ claim.base \in Relay
    /\ claim.session \in {0} \union Drawn
    /\ (claim.at = "reply") = (claim.session # 0)
    /\ \A p \in Slot : Asking(p) =>
         /\ polls[p].session \in Drawn /\ polls[p].session # claim.session
         /\ polls[p].base \in Relay

\* What was alerted, was alerted once, and the session in use has passed it.
AlertsArePassed ==
    \A e \in ID : alerts[e] # 0 => alerts[e] = 1 /\ (session # 0 => e <= cursor)

IInv ==
    /\ TypeOK
    /\ SessionsAreFresh
    /\ AlertsArePassed
    /\ RelayIsFound

\* With one relay: the cursor, which a lost session leaves where it was, has
\* passed only what was applied, and a poll of the session starts at or below it.
CursorIsApplied ==
    /\ \A r \in Relay, e \in ID : e <= cursor => <<r, e>> \in applied
    /\ \A p \in Slot : Asking(p) /\ polls[p].session = session => polls[p].since <= cursor

\* ... and a session that was refused is refused for ever.
RefusedForGood ==
    \A p \in Slot, r \in Relay :
        polls[p].at = "answered" /\ polls[p].reply = "unauthorized" =>
            honoured[r] # polls[p].session

\* Without hosted relays: a loop that was not cancelled is the one that closing the
\* app cancels, and a closed app has none.
LoopIsHeld ==
    /\ pollTask # None => active /\ polls[pollTask].kind = "loop" /\ ~polls[pollTask].cancelled
    /\ \A p \in Slot :
         /\ polls[p].kind # "once"
         /\ polls[p].kind = "loop" /\ ~polls[p].cancelled => pollTask = p
-----------------------------------------------------------------------------
(***************************************************************************)
(* What the actions make of the polls.                                     *)
(***************************************************************************)
\* The request of p goes on.
Continues(p) ==
    /\ Asking(p)
    /\ polls'[p].session = polls[p].session /\ polls'[p].base = polls[p].base
    /\ polls'[p].since = polls[p].since
    /\ \/ polls'[p].at = polls[p].at /\ polls'[p].reply = polls[p].reply
       \/ polls'[p].reply # "unauthorized"
       \/ honoured[polls[p].base] # polls[p].session /\ UNCHANGED honoured

PollTypes == polls \in [Slot -> Poll] /\ pollTask \in Slot \union {None}

LEMMA NoPollType == NoPoll \in Poll
BY BoundsAssumption DEF NoPoll, Poll

LEMMA NewPollType ==
  ASSUME NEW k \in {"once", "loop"}
  PROVE  [at |-> "ready", kind |-> k, cancelled |-> FALSE, session |-> 0, base |-> None,
          since |-> 0, reply |-> "none", upTo |-> 0] \in Poll
BY BoundsAssumption DEF Poll

\* A loop between two rounds.
LEMMA AsleepType ==
  ASSUME NEW r \in Poll, NEW c \in BOOLEAN
  PROVE  \E q \in Poll :
           /\ q = [r EXCEPT !.kind = "loop", !.at = "asleep", !.cancelled = c]
           /\ q.at = "asleep" /\ q.kind = "loop" /\ q.cancelled = c
<1> DEFINE q == [r EXCEPT !.kind = "loop", !.at = "asleep", !.cancelled = c]
<1>1. q \in Poll
  BY DEF Poll
<1>2. q.at = "asleep" /\ q.kind = "loop" /\ q.cancelled = c
  BY DEF Poll
<1>. QED BY <1>1, <1>2, Zenon

\* A request, and its answer.
LEMMA SentType ==
  ASSUME NEW r \in Poll, NEW s \in 0..MaxSession, NEW b \in Relay \union {None}, NEW c \in 0..MaxID,
         NEW q, q = [r EXCEPT !.at = "sent", !.session = s, !.base = b, !.since = c]
  PROVE  q \in Poll
BY DEF Poll

LEMMA AnsweredType ==
  ASSUME NEW r \in Poll, NEW e \in 0..MaxID, NEW q,
         \/ q = [r EXCEPT !.at = "answered", !.reply = "events", !.upTo = e]
         \/ q = [r EXCEPT !.at = "answered", !.reply = "unauthorized"]
  PROVE  q \in Poll
<1>1. CASE q = [r EXCEPT !.at = "answered", !.reply = "events", !.upTo = e]
  BY <1>1 DEF Poll
<1>2. CASE q = [r EXCEPT !.at = "answered", !.reply = "unauthorized"]
  BY <1>2 DEF Poll
<1>. QED BY <1>1, <1>2

SameButCancelled(q, r) ==
    /\ q.at = r.at /\ q.kind = r.kind /\ q.session = r.session /\ q.base = r.base
    /\ q.since = r.since /\ q.reply = r.reply

LEMMA CancelledType ==
  ASSUME NEW r \in Poll, NEW q, q = [r EXCEPT !.cancelled = TRUE]
  PROVE  q \in Poll /\ q.cancelled /\ SameButCancelled(q, r)
BY DEF Poll, SameButCancelled

LEMMA ReadyType ==
  ASSUME NEW r \in Poll, NEW q, q = [r EXCEPT !.at = "ready", !.kind = "remote"]
  PROVE  q \in Poll /\ q.at = "ready" /\ q.kind = "remote"
BY DEF Poll

LEMMA FailedType ==
  ASSUME NEW r \in Poll, NEW q, q = [r EXCEPT !.at = "answered", !.reply = "error"]
  PROVE  q \in Poll
BY DEF Poll

\* A polling task that is started asks nothing yet.
LEMMA StartPollingPolls ==
  ASSUME PollTypes, NEW a, NEW s, NEW b, StartPolling(a, s, b)
  PROVE  /\ PollTypes'
         /\ \A p \in Slot : Asking(p)' => polls'[p] = polls[p]
<1>1. CASE UNCHANGED polling
  BY <1>1 DEF polling, PollTypes, Asking
<1>2. CASE ~UNCHANGED polling
  <2>1. PICK p \in Slot :
          /\ polls[p] = NoPoll
          /\ pollTask' = p
          /\ polls' = [polls EXCEPT ![p].at = "ready",
                          ![p].kind = IF b \in Https THEN "once" ELSE "loop"]
    BY <1>2 DEF StartPolling
  <2> DEFINE k == IF b \in Https THEN "once" ELSE "loop"
  <2>2. polls' = [polls EXCEPT ![p] = [at |-> "ready", kind |-> k, cancelled |-> FALSE,
           session |-> 0, base |-> None, since |-> 0, reply |-> "none", upTo |-> 0]]
    BY <2>1 DEF PollTypes, Poll, NoPoll
  <2>3. k \in {"once", "loop"}
    OBVIOUS
  <2> HIDE DEF k
  <2>4. polls' \in [Slot -> Poll]
    BY <2>2, <2>3, NewPollType DEF PollTypes
  <2>5. polls'[p].at = "ready" /\ \A q \in Slot \ {p} : polls'[q] = polls[q]
    BY <2>2 DEF PollTypes
  <2>. QED BY <2>1, <2>4, <2>5 DEF PollTypes, Asking
<1>. QED BY <1>1, <1>2

\* A poll that is over asks nothing.
LEMMA OverPolls ==
  ASSUME NEW ps \in [Slot -> Poll], NEW p \in Slot
  PROVE  /\ Over(ps, p) \in [Slot -> Poll]
         /\ \A q \in Slot \ {p} : Over(ps, p)[q] = ps[q]
         /\ Over(ps, p)[p].at \in {"free", "asleep"}
         /\ Over(ps, p)[p].kind = "loop" =>
              ps[p].kind = "loop" /\ Over(ps, p)[p].cancelled = ps[p].cancelled
         /\ ps[p].kind = "loop" => Over(ps, p)[p].kind = "loop"
<1>1. CASE ps[p].kind = "loop"
  <2> DEFINE c == ps[p].cancelled
  <2>1. c \in BOOLEAN
    BY DEF Poll
  <2>2. PICK r \in Poll : r = NoPoll
    BY NoPollType
  <2>3. PICK new \in Poll :
          /\ new = [r EXCEPT !.kind = "loop", !.at = "asleep", !.cancelled = c]
          /\ new.at = "asleep" /\ new.kind = "loop" /\ new.cancelled = c
    BY <2>1, AsleepType, Zenon
  <2>4. Over(ps, p) = [ps EXCEPT ![p] = new]
    BY <1>1, <2>2, <2>3, Zenon DEF Over
  <2>. QED BY <1>1, <2>3, <2>4
<1>2. CASE ps[p].kind # "loop"
  <2>1. Over(ps, p) = [ps EXCEPT ![p] = NoPoll]
    BY <1>2 DEF Over
  <2>2. NoPoll \in Poll /\ NoPoll.at = "free" /\ NoPoll.kind = "none"
    BY NoPollType DEF NoPoll
  <2>. QED BY <1>2, <2>1, <2>2
<1>. QED BY <1>1, <1>2

LEMMA OverKind ==
  ASSUME NEW ps \in [Slot -> Poll], NEW p \in Slot
  PROVE  Over(ps, p)[p].kind \in {"none", "loop"}
<1>1. CASE ps[p].kind = "loop"
  BY <1>1, OverPolls
<1>2. CASE ps[p].kind # "loop"
  BY <1>2 DEF Over, NoPoll
<1>. QED BY <1>1, <1>2

\* Cancelling changes nothing else.
LEMMA CancelTaskPolls ==
  ASSUME PollTypes
  PROVE  /\ CancelTask(polls) \in [Slot -> Poll]
         /\ \A p \in Slot : LET q == CancelTask(polls)[p] IN
              /\ q.at = polls[p].at /\ q.kind = polls[p].kind
              /\ q.session = polls[p].session /\ q.base = polls[p].base
              /\ q.since = polls[p].since /\ q.reply = polls[p].reply
              /\ q.cancelled = (polls[p].cancelled \/ p = pollTask)
<1>1. CASE pollTask = None
  BY <1>1, NoneAssumption DEF CancelTask, PollTypes, Poll
<1>2. CASE pollTask # None
  <2> DEFINE ps == CancelTask(polls)
  <2>1. pollTask \in Slot /\ ps = [polls EXCEPT ![pollTask].cancelled = TRUE]
    BY <1>2 DEF CancelTask, PollTypes
  <2>2. /\ ps[pollTask] = [polls[pollTask] EXCEPT !.cancelled = TRUE]
        /\ \A q \in Slot \ {pollTask} : ps[q] = polls[q]
    BY <2>1 DEF PollTypes
  <2>3. polls[pollTask] \in Poll
    BY <2>1 DEF PollTypes
  <2> HIDE DEF ps
  <2>4. /\ ps[pollTask] \in Poll /\ ps[pollTask].cancelled
        /\ SameButCancelled(ps[pollTask], polls[pollTask])
    BY <2>2, <2>3, CancelledType, Zenon
  <2>5. ps \in [Slot -> Poll]
    BY <2>1, <2>4 DEF PollTypes, ps
  <2>6. \A q \in Slot : SameButCancelled(ps[q], polls[q])
    BY <2>2, <2>4 DEF SameButCancelled
  <2>7. \A q \in Slot : ps[q].cancelled = (polls[q].cancelled \/ q = pollTask)
    <3>1. polls[pollTask].cancelled \in BOOLEAN /\ \A q \in Slot : polls[q].cancelled \in BOOLEAN
      BY <2>1 DEF PollTypes, Poll
    <3>2. ps[pollTask].cancelled = TRUE
      BY <2>4, <2>5, <2>1 DEF Poll
    <3> SUFFICES ASSUME NEW q \in Slot PROVE ps[q].cancelled = (polls[q].cancelled \/ q = pollTask)
      OBVIOUS
    <3>3. CASE q = pollTask
      BY <3>2, <3>3, Zenon
    <3>4. CASE q # pollTask
      BY <2>2, <3>1, <3>4, Zenon
    <3>. QED BY <3>3, <3>4
  <2>. QED BY <2>5, <2>6, <2>7, Zenon DEF SameButCancelled, ps
<1>. QED BY <1>1, <1>2

\* A step of a poll, and what it makes of the others.
LEMMA PollStepPolls ==
  ASSUME PollTypes, session \in 0..MaxSession, base \in Relay \union {None},
         cursor \in 0..MaxID, last \in [Relay -> 0..MaxID],
         NEW p \in Slot, Asking(p) => polls[p].base \in Relay,
         PollStep(p)
  PROVE  /\ PollTypes'
         /\ \A q \in Slot : Asking(q)' =>
              \/ Continues(q)
              \/ /\ PollSend(q)
                 /\ polls'[q].session = session /\ polls'[q].base = base
                 /\ polls'[q].since = cursor
<1>1. CASE PollSend(p)
  <2>1. \A q \in Slot \ {p} : polls'[q] = polls[q]
    BY <1>1 DEF PollSend, PollTypes
  <2>2. /\ polls'[p].at = "sent" /\ polls'[p].session = session
        /\ polls'[p].base = base /\ polls'[p].since = cursor
    BY <1>1 DEF PollSend, PollTypes, Poll
  <2>3. polls'[p] \in Poll
    <3>1. polls'[p] = [polls[p] EXCEPT !.at = "sent", !.session = session, !.base = base,
                                       !.since = cursor]
      BY <1>1 DEF PollSend, PollTypes
    <3>2. polls[p] \in Poll
      BY DEF PollTypes
    <3>. QED BY <3>1, <3>2, SentType, ZenonT(60)
  <2>4. polls' \in [Slot -> Poll] /\ pollTask' = pollTask
    BY <1>1, <2>3 DEF PollSend, PollTypes
  <2>. QED BY <1>1, <2>1, <2>2, <2>4 DEF PollTypes, Asking, Continues
<1>2. CASE PollSkip(p)
  <2>1. polls' = [polls EXCEPT ![p] = NoPoll] \/ polls' = Over(polls, p)
    BY <1>2 DEF PollSkip
  <2>2. NoPoll \in Poll /\ NoPoll.at = "free"
    BY NoPollType DEF NoPoll
  <2>3. pollTask' \in Slot \union {None}
    BY <1>2 DEF PollSkip, TaskAfter, PollTypes
  <2>4. polls' \in [Slot -> Poll] /\ ~Asking(p)' /\ \A q \in Slot \ {p} : polls'[q] = polls[q]
    BY <2>1, <2>2, OverPolls DEF PollTypes, Asking
  <2>. QED BY <2>3, <2>4 DEF PollTypes, Asking, Continues
<1>3. CASE PollAnswered(p)
  <2>1. \A q \in Slot \ {p} : polls'[q] = polls[q]
    BY <1>3 DEF PollAnswered, PollTypes
  <2>2. /\ polls[p].at = "sent" /\ polls'[p].session = polls[p].session
        /\ polls'[p].base = polls[p].base /\ polls'[p].since = polls[p].since
    BY <1>3 DEF PollAnswered, PollTypes, Poll
  <2>3. last[polls[p].base] \in 0..MaxID
    BY <2>2 DEF Asking
  <2>6. polls'[p].reply # "unauthorized" \/ honoured[polls[p].base] # polls[p].session
    BY <1>3 DEF PollAnswered, PollTypes, Poll
  <2>7. UNCHANGED honoured
    BY <1>3 DEF PollAnswered, relays
  <2>4. polls'[p] \in Poll
    <3> DEFINE e == last[polls[p].base]
    <3>1. \/ polls'[p] = [polls[p] EXCEPT !.at = "answered", !.reply = "events", !.upTo = e]
          \/ polls'[p] = [polls[p] EXCEPT !.at = "answered", !.reply = "unauthorized"]
      BY <1>3 DEF PollAnswered, PollTypes
    <3>2. polls[p] \in Poll
      BY DEF PollTypes
    <3> HIDE DEF e
    <3>. QED BY <2>3, <3>1, <3>2, AnsweredType, Zenon DEF e
  <2>5. polls' \in [Slot -> Poll] /\ pollTask' = pollTask
    BY <1>3, <2>4 DEF PollAnswered, PollTypes
  <2>. QED BY <2>1, <2>2, <2>5, <2>6, <2>7 DEF PollTypes, Asking, Continues
<1>4. CASE PollFails(p)
  <2>1. \A q \in Slot \ {p} : polls'[q] = polls[q]
    BY <1>4 DEF PollFails, PollTypes
  <2>2. /\ polls[p].at = "sent" /\ polls'[p].session = polls[p].session
        /\ polls'[p].base = polls[p].base /\ polls'[p].since = polls[p].since
        /\ polls'[p].reply # "unauthorized"
    BY <1>4 DEF PollFails, PollTypes, Poll
  <2>3. polls'[p] \in Poll
    <3>1. polls'[p] = [polls[p] EXCEPT !.at = "answered", !.reply = "error"]
      BY <1>4 DEF PollFails, PollTypes
    <3>2. polls[p] \in Poll
      BY DEF PollTypes
    <3>. QED BY <3>1, <3>2, FailedType, Zenon
  <2>4. polls' \in [Slot -> Poll] /\ pollTask' = pollTask
    BY <1>4, <2>3 DEF PollFails, PollTypes
  <2>. QED BY <2>1, <2>2, <2>4 DEF PollTypes, Asking, Continues
<1>5. CASE PollApplies(p) \/ PollRetries(p)
  <2>1. polls' = Over(polls, p) /\ pollTask' = TaskAfter(p)
    BY <1>5 DEF PollApplies, PollRetries
  <2>2. /\ polls' \in [Slot -> Poll] /\ polls'[p].at \in {"free", "asleep"}
       /\ \A q \in Slot \ {p} : polls'[q] = polls[q]
    BY <2>1, OverPolls, Zenon DEF PollTypes
  <2>. QED BY <2>1, <2>2 DEF PollTypes, TaskAfter, Asking, Continues
<1>6. CASE PollUnauthorized(p)
  <2>1. CASE session = polls[p].session
    <3>1. polls' = Over(CancelTask(polls), p) /\ pollTask' = None
      BY <1>6, <2>1 DEF PollUnauthorized
    <3> DEFINE ps == CancelTask(polls)
    <3>2. ps \in [Slot -> Poll]
      BY CancelTaskPolls
    <3>3. \A q \in Slot : ps[q].at = polls[q].at /\ ps[q].session = polls[q].session
            /\ ps[q].reply = polls[q].reply /\ ps[q].base = polls[q].base /\ ps[q].since = polls[q].since
      BY CancelTaskPolls
    <3>4. /\ polls' \in [Slot -> Poll] /\ polls'[p].at \in {"free", "asleep"}
          /\ \A q \in Slot \ {p} : polls'[q] = ps[q]
      BY <3>1, <3>2, OverPolls, Zenon
    <3> HIDE DEF ps
    <3>. QED BY <3>1, <3>3, <3>4 DEF PollTypes, Asking, Continues
  <2>2. CASE session # polls[p].session
    <3>1. polls' = Over(polls, p) /\ pollTask' = TaskAfter(p)
      BY <1>6, <2>2 DEF PollUnauthorized
    <3>2. /\ polls' \in [Slot -> Poll] /\ polls'[p].at \in {"free", "asleep"}
         /\ \A q \in Slot \ {p} : polls'[q] = polls[q]
      BY <3>1, OverPolls, Zenon DEF PollTypes
    <3>. QED BY <3>1, <3>2 DEF PollTypes, TaskAfter, Asking, Continues
  <2>. QED BY <2>1, <2>2
<1>7. CASE LoopWakes(p)
  <2>1. NoPoll \in Poll /\ NoPoll.at = "free"
    BY NoPollType DEF NoPoll
  <2>2. CASE polls[p].cancelled
    BY <1>7, <2>1, <2>2 DEF LoopWakes, PollTypes, Asking, Continues, polling
  <2>3. CASE ~polls[p].cancelled
    BY <1>7, <2>3 DEF LoopWakes, PollTypes, Poll, Asking, Continues, polling
  <2>. QED BY <2>2, <2>3
<1>. QED BY <1>1, <1>2, <1>3, <1>4, <1>5, <1>6, <1>7 DEF PollStep

\* The same of every step: only PollSend makes a poll ask, with the session, the
\* relay and the cursor of that moment.
LEMMA NextPolls ==
  ASSUME TypeOK, SessionsAreFresh, Next
  PROVE  /\ PollTypes'
         /\ \A q \in Slot : Asking(q)' =>
              \/ Continues(q)
              \/ /\ PollSend(q)
                 /\ polls'[q].session = session /\ polls'[q].base = base
                 /\ polls'[q].since = cursor
<1>0. PollTypes
  BY DEF TypeOK, PollTypes
<1>1. CASE UNCHANGED polling
  BY <1>0, <1>1 DEF polling, PollTypes, Asking, Continues
<1>2. ASSUME NEW a, NEW t, NEW b, StartPolling(a, t, b)
      PROVE  PollTypes' /\ \A q \in Slot : Asking(q)' => Continues(q)
  <2>1. PollTypes' /\ \A q \in Slot : Asking(q)' => polls'[q] = polls[q]
    BY <1>0, <1>2, StartPollingPolls, Zenon
  <2>. QED BY <2>1 DEF Asking, Continues
<1>3. ASSUME StopPolling
      PROVE  PollTypes' /\ \A q \in Slot : Asking(q)' => Continues(q)
  <2>1. polls' = CancelTask(polls) /\ pollTask' = None
    BY <1>3 DEF StopPolling
  <2> DEFINE ps == CancelTask(polls)
  <2>2. ps \in [Slot -> Poll]
    BY <1>0, CancelTaskPolls
  <2>3. \A q \in Slot : ps[q].at = polls[q].at /\ ps[q].session = polls[q].session
          /\ ps[q].reply = polls[q].reply /\ ps[q].base = polls[q].base /\ ps[q].since = polls[q].since
    BY <1>0, CancelTaskPolls
  <2> HIDE DEF ps
  <2>. QED BY <2>1, <2>2, <2>3 DEF PollTypes, Asking, Continues, ps
<1>4. CASE Activate
  BY <1>2, <1>4 DEF Activate
<1>5. CASE Deactivate \/ ResetPairing
  BY <1>3, <1>5 DEF Deactivate, ResetPairing
<1>6. CASE Restart
  <2>1. NoPoll \in Poll /\ NoPoll.at = "free"
    BY NoPollType DEF NoPoll
  <2>. QED BY <1>6, <2>1 DEF Restart, PollTypes, Asking
<1>7. CASE \E healthy \in BOOLEAN : ProbeAnswered(healthy)
  <2>1. UNCHANGED polling \/ StartPolling(active, session, probe)
    BY <1>7 DEF ProbeAnswered, UseRelay, polling
  <2>. QED BY <1>1, <1>2, <2>1
<1>12. CASE \E r \in Relay : LateAnswer(r)
  BY <1>2, <1>12 DEF LateAnswer, UseRelay
<1>8. CASE ClaimStored
  BY <1>2, <1>8 DEF ClaimStored
<1>9. ASSUME NEW p \in Slot, RemoteEvent(p)
      PROVE  PollTypes' /\ \A q \in Slot : Asking(q)' => Continues(q)
  <2>1. \A q \in Slot \ {p} : polls'[q] = polls[q]
    BY <1>0, <1>9 DEF RemoteEvent, PollTypes
  <2>2. polls'[p] \in Poll /\ polls'[p].at = "ready"
    <3>1. polls[p] \in Poll /\ polls'[p] = [polls[p] EXCEPT !.at = "ready", !.kind = "remote"]
      BY <1>0, <1>9 DEF RemoteEvent, PollTypes
    <3>. QED BY <3>1, ReadyType, Zenon
  <2>3. polls' \in [Slot -> Poll] /\ pollTask' = pollTask
    BY <1>0, <1>9, <2>2 DEF RemoteEvent, PollTypes
  <2>. QED BY <1>0, <2>1, <2>2, <2>3 DEF PollTypes, Asking, Continues
<1>10. ASSUME NEW p \in Slot, PollStep(p)
       PROVE  /\ PollTypes'
              /\ \A q \in Slot : Asking(q)' =>
                   \/ Continues(q)
                   \/ /\ PollSend(q)
                      /\ polls'[q].session = session /\ polls'[q].base = base
                      /\ polls'[q].since = cursor
  <2>1. /\ session \in 0..MaxSession /\ base \in Relay \union {None}
        /\ cursor \in 0..MaxID /\ last \in [Relay -> 0..MaxID]
    BY BoundsAssumption DEF TypeOK, Session
  <2>2. Asking(p) => polls[p].base \in Relay
    BY DEF SessionsAreFresh
  <2>. QED BY <1>0, <1>10, <2>1, <2>2, PollStepPolls, Zenon
<1>11. CASE \/ ResultsEmpty \/ SubmitCode \/ ClearFailure \/ ClaimGranted \/ ClaimFails \/ Lapse
            \/ \E t \in Timer : TimerFires(t)
            \/ \E r \in Relay : Discover(r) \/ Emit(r) \/ Revoke(r)
            \/ \E healthy \in BOOLEAN : HealthAnswered(healthy)
  <2>1. UNCHANGED polling
    BY <1>11 DEF ResultsEmpty, SubmitCode, ClearFailure, ClaimGranted, ClaimFails, Lapse,
         TimerFires, Discover, Emit, Revoke, HealthAnswered
  <2>. QED BY <1>1, <2>1
<1>. QED
  BY <1>4, <1>5, <1>6, <1>7, <1>8, <1>9, <1>10, <1>11, <1>12 DEF Next
-----------------------------------------------------------------------------
(***************************************************************************)
(* Sessions, and types.                                                    *)
(***************************************************************************)
LEMMA NoClaimType == NoClaim \in Submission /\ NoClaim.at = "none" /\ NoClaim.session = 0
BY BoundsAssumption DEF NoClaim, Submission

\* The session of a claim is drawn when the relay grants it.
LEMMA NextClaims ==
  ASSUME TypeOK, SessionsAreFresh, Next
  PROVE  /\ claim' \in Submission
         /\ claim'.at # "none" => session' = 0 /\ claim'.base \in Relay
         /\ (claim'.at = "reply") = (claim'.session # 0)
         /\ issuer' \in [Drawn' -> Relay] /\ Drawn' \subseteq Session
         /\ Cardinality(Drawn') \in Nat /\ Drawn' = 1..Cardinality(Drawn')
         /\ \/ UNCHANGED issuer /\ claim'.session \in {0, claim.session}
            \/ /\ claim'.session \notin Drawn /\ Drawn' = Drawn \union {claim'.session}
               /\ UNCHANGED session
<1>0. /\ claim \in Submission /\ issuer \in [Drawn -> Relay] /\ Drawn \subseteq Session
      /\ session \in {0} \union Drawn /\ base \in Relay \union {None}
      /\ Cardinality(Drawn) \in Nat /\ Drawn = 1..Cardinality(Drawn)
      /\ claim.at # "none" => session = 0 /\ claim.base \in Relay
      /\ (claim.at = "reply") = (claim.session # 0)
  BY DEF TypeOK, SessionsAreFresh
<1>1. ASSUME UNCHANGED issuer
      PROVE  /\ issuer' \in [Drawn' -> Relay] /\ Drawn' \subseteq Session
             /\ Cardinality(Drawn') \in Nat /\ Drawn' = 1..Cardinality(Drawn')
  BY <1>0, <1>1 DEF Drawn, Session
<1>2. CASE UNCHANGED <<claim, issuer>> /\ session' \in {session, 0}
  BY <1>0, <1>1, <1>2
<1>3. CASE UNCHANGED issuer /\ claim' = NoClaim
  BY <1>1, <1>3, NoClaimType
<1>4. CASE SubmitCode
  <2>1. PICK r \in Submission : r = NoClaim
    BY NoClaimType
  <2>2. claim' = [r EXCEPT !.at = "health", !.base = base] /\ UNCHANGED <<issuer, session>>
        /\ session = 0 /\ base \in Relay
    BY <1>0, <1>4, <2>1 DEF SubmitCode, kept, relays
  <2>3. claim' \in Submission /\ claim'.at = "health" /\ claim'.session = 0
        /\ claim'.base = base
    BY <2>1, <2>2, NoClaimType DEF Submission
  <2>. QED BY <1>1, <2>2, <2>3
<1>5. CASE \E healthy \in BOOLEAN : HealthAnswered(healthy)
  <2>1. CASE claim' = NoClaim
    BY <1>1, <1>5, <2>1, NoClaimType DEF HealthAnswered, relays
  <2>2. CASE claim' # NoClaim
    <3>1. /\ claim.at = "health" /\ claim' = [claim EXCEPT !.at = "claim"]
          /\ UNCHANGED <<issuer, session>>
      BY <1>5, <2>2 DEF HealthAnswered, relays
    <3>2. /\ claim' \in Submission /\ claim'.at = "claim"
          /\ claim'.session = claim.session /\ claim'.base = claim.base
      BY <1>0, <3>1 DEF Submission
    <3>. QED BY <1>0, <1>1, <3>1, <3>2
  <2>. QED BY <2>1, <2>2
<1>6. CASE ClaimGranted
  <2> DEFINE n == Cardinality(Drawn)
             s == n + 1
  <2>1. /\ claim.at = "claim" /\ n < MaxSession /\ UNCHANGED session
        /\ claim' = [claim EXCEPT !.at = "reply", !.session = s]
        /\ issuer' = [t \in Drawn \union {s} |-> IF t = s THEN claim.base ELSE issuer[t]]
    BY <1>6 DEF ClaimGranted, kept
  <2>2. /\ s \in Session /\ s \notin Drawn /\ Drawn \union {s} = 1..s /\ s \in Nat
    BY <1>0, <2>1, BoundsAssumption DEF Session
  <2>3. Drawn' = 1..s
    <3>1. DOMAIN issuer' = Drawn \union {s}
      BY <2>1
    <3>. QED BY <2>2, <3>1 DEF Drawn
  <2>4. Cardinality(1..s) = s
    <3>1. Cardinality(1..s) = IF 1 > s THEN 0 ELSE s - 1 + 1
      BY <2>2, FS_Interval
    <3>. QED BY <1>0, <2>2, <3>1
  <2>5. issuer' \in [Drawn' -> Relay]
    BY <1>0, <2>1, <2>2, <2>3
  <2>6. /\ claim' \in Submission /\ claim'.at = "reply" /\ claim'.session = s
        /\ claim'.base = claim.base
    <3>1. PICK t \in 1..MaxSession : t = s
      BY <2>2 DEF Session
    <3>2. claim' = [claim EXCEPT !.at = "reply", !.session = t]
      BY <2>1, <3>1
    <3>3. claim \in Submission /\ t \in 0..MaxSession
      BY <1>0, BoundsAssumption
    <3>4. claim' \in Submission
      BY <3>2, <3>3 DEF Submission
    <3>5. claim'.at = "reply" /\ claim'.session = t /\ claim'.base = claim.base
      BY <3>2, <3>3 DEF Submission
    <3>. QED BY <3>1, <3>4, <3>5
  <2>7. Cardinality(Drawn') = s /\ s # 0 /\ Drawn' \subseteq Session
    BY <1>0, <2>1, <2>2, <2>3, <2>4 DEF Session
  <2> HIDE DEF n, s
  <2>. QED BY <1>0, <2>1, <2>2, <2>3, <2>5, <2>6, <2>7
<1>7. CASE \/ ClaimStored \/ ClaimFails \/ Restart
  <2>1. UNCHANGED issuer /\ claim' = NoClaim
    BY <1>7 DEF ClaimStored, ClaimFails, Restart, relays
  <2>. QED BY <1>3, <2>1
<1>8. CASE \/ Activate \/ Deactivate \/ ResultsEmpty \/ ClearFailure \/ ResetPairing \/ Lapse
           \/ \E r \in Relay : Discover(r) \/ LateAnswer(r) \/ Emit(r) \/ Revoke(r)
           \/ \E healthy \in BOOLEAN : ProbeAnswered(healthy)
           \/ \E p \in Slot : RemoteEvent(p) \/ PollStep(p)
           \/ \E t \in Timer : TimerFires(t)
  <2>1. UNCHANGED <<claim, issuer>> /\ session' \in {session, 0}
    BY <1>8 DEF Activate, Deactivate, ResultsEmpty, ClearFailure, ResetPairing, Lapse, Discover,
         LateAnswer, Emit, Revoke, ProbeAnswered, RemoteEvent, PollStep, PollSend, PollSkip, PollAnswered,
         PollFails, PollApplies, PollUnauthorized, PollRetries, LoopWakes, TimerFires, kept, relays
  <2>. QED BY <1>2, <2>1
<1>. QED
  BY <1>4, <1>5, <1>6, <1>7, <1>8 DEF Next

LEMMA SessionsStep ==
  ASSUME TypeOK, SessionsAreFresh, Next
  PROVE  SessionsAreFresh'
<1>1. claim'.session \in {0} \union Drawn' /\ Drawn \subseteq Drawn'
  BY NextClaims DEF SessionsAreFresh, Drawn
<1>2. ASSUME NEW p \in Slot, Asking(p)'
      PROVE  /\ polls'[p].session \in Drawn' /\ polls'[p].session # claim'.session
             /\ polls'[p].base \in Relay
  <2>1. CASE Continues(p)
    <3>1. /\ polls'[p].session \in Drawn /\ polls'[p].session # claim.session
          /\ polls'[p].base \in Relay /\ 0 \notin Drawn
      BY <2>1 DEF Continues, SessionsAreFresh
    <3>. QED BY <1>1, <3>1, NextClaims
  <2>2. CASE ~Continues(p)
    <3>1. /\ PollSend(p) /\ polls'[p].session = session /\ polls'[p].base = base
      BY <1>2, <2>2, NextPolls
    <3>2. session # 0 /\ base # None /\ UNCHANGED <<claim, issuer>>
      BY <3>1 DEF PollSend, relays
    <3>3. session \in Drawn /\ base \in Relay /\ claim.session = 0
      BY <3>2 DEF TypeOK, SessionsAreFresh
    <3>. QED BY <1>1, <3>1, <3>2, <3>3
  <2>. QED BY <2>1, <2>2
<1>. QED BY <1>1, <1>2, NextClaims DEF SessionsAreFresh, Asking

DisplayTypes ==
    /\ shown \in 0..MaxID /\ lapsed \in BOOLEAN
    /\ timers \subseteq Timer /\ pendingReset \in Timer \union {None}

LEMMA BlankTypes ==
  ASSUME shown' = 0, lapsed' = FALSE, timers' \subseteq timers, pendingReset' = None,
         timers \subseteq Timer, Drawn \subseteq Drawn'
  PROVE  DisplayTypes'
<1>1. shown' \in 0..MaxID
  BY BoundsAssumption
<1>2. timers' \subseteq Timer'
  BY DEF Timer, ID
<1>. QED BY <1>1, <1>2 DEF DisplayTypes

LEMMA SameDisplayTypes ==
  ASSUME DisplayTypes, UNCHANGED display, Drawn \subseteq Drawn'
  PROVE  DisplayTypes'
<1>1. Timer \subseteq Timer'
  BY DEF Timer, ID
<1>. QED BY <1>1 DEF DisplayTypes, display

LEMMA CancelKeeps == \A ts \in AfterCancel : ts \subseteq timers
BY DEF AfterCancel

LEMMA ShowTypes ==
  ASSUME DisplayTypes, Drawn \subseteq Drawn',
         ShowPending \/ \E e \in ID : session \in Drawn /\ ShowEvent(e)
  PROVE  DisplayTypes'
<1>1. CASE ShowPending
  BY <1>1, CancelKeeps, BlankTypes DEF ShowPending, DisplayTypes
<1>2. ASSUME NEW e \in ID, session \in Drawn, ShowEvent(e) PROVE DisplayTypes'
  <2>1. <<session, e>> \in Timer' /\ Timer \subseteq Timer'
    BY <1>2 DEF Timer, ID
  <2>2. PICK ts \in AfterCancel : timers' = ts \union {<<session, e>>}
    BY <1>2 DEF ShowEvent
  <2>3. timers' \subseteq Timer' /\ pendingReset' \in Timer'
    BY <1>2, <2>1, <2>2, CancelKeeps DEF ShowEvent, DisplayTypes
  <2>4. shown' \in 0..MaxID /\ lapsed' = FALSE
    BY <1>2, BoundsAssumption DEF ShowEvent, ID
  <2>. QED BY <2>3, <2>4 DEF DisplayTypes
<1>. QED BY <1>1, <1>2

\* What a response with events leaves on display, and where the cursor goes.
LEMMA ApplyTypes ==
  ASSUME NEW r \in Relay, NEW since \in 0..MaxID, NEW upTo \in 0..MaxID, NEW stale \in 0..MaxID,
         cursor \in 0..MaxID, applied \subseteq Relay \X ID, alerts \in [ID -> 0..2],
         DisplayTypes, session \in Drawn, UNCHANGED issuer, ApplyEvents(r, since, upTo, stale)
  PROVE  /\ cursor' \in 0..MaxID /\ cursor' >= cursor
         /\ applied' \subseteq Relay \X ID /\ alerts' \in [ID -> 0..2]
         /\ DisplayTypes'
<1>1. cursor' \in 0..MaxID /\ cursor' >= cursor
  BY BoundsAssumption DEF ApplyEvents, ID
<1>2. applied' \subseteq Relay \X ID
  BY DEF ApplyEvents
<1>3. alerts' \in [ID -> 0..2]
  <2> DEFINE fresh == {e \in {f \in ID : f > since /\ f <= upTo /\ f > cursor} : e > stale}
  <2>1. alerts' = [e \in ID |-> IF e \in fresh /\ alerts[e] < 2
                               THEN alerts[e] + 1 ELSE alerts[e]]
    BY DEF ApplyEvents
  <2>2. \A e \in ID : alerts[e] \in 0..2
    OBVIOUS
  <2> HIDE DEF fresh
  <2>. QED BY <2>1, <2>2
<1>4. DisplayTypes'
  <2> DEFINE fresh == {e \in {f \in ID : f > since /\ f <= upTo /\ f > cursor} : e > stale}
  <2>0. Drawn \subseteq Drawn'
    BY DEF Drawn
  <2>1. fresh # {} => upTo \in ID
    BY BoundsAssumption DEF ID
  <2>2. (fresh # {} /\ ShowEvent(upTo)) \/ UNCHANGED display \/ ShowPending
    BY DEF ApplyEvents
  <2> HIDE DEF fresh
  <2>3. CASE UNCHANGED display
    BY <2>0, <2>3, SameDisplayTypes
  <2>. QED BY <2>0, <2>1, <2>2, <2>3, ShowTypes
<1>. QED BY <1>1, <1>2, <1>3, <1>4

LEMMA DisplayStep ==
  ASSUME TypeOK, SessionsAreFresh, Next
  PROVE  DisplayTypes'
<1>0. DisplayTypes /\ Drawn \subseteq Drawn'
  BY NextClaims DEF TypeOK, DisplayTypes, Drawn
<1>1. CASE UNCHANGED display
  BY <1>0, <1>1, SameDisplayTypes
<1>2. CASE ShowPending
  BY <1>0, <1>2, ShowTypes
<1>3. CASE Restart
  <2>1. shown' = 0 /\ lapsed' = FALSE /\ timers' = {} /\ pendingReset' = None
    BY <1>3 DEF Restart
  <2>. QED BY <1>0, <2>1, BlankTypes DEF DisplayTypes
<1>4. CASE Lapse
  <2>1. Timer \subseteq Timer'
    BY <1>0 DEF Timer, ID
  <2>2. lapsed' = TRUE /\ UNCHANGED <<shown, pendingReset, timers>>
    BY <1>4 DEF Lapse
  <2>. QED BY <1>0, <2>1, <2>2 DEF DisplayTypes
<1>5. ASSUME NEW t \in Timer, TimerFires(t) PROVE DisplayTypes'
  <2>1. timers' \subseteq timers /\ pendingReset' = None
    BY <1>5, CancelKeeps DEF TimerFires
  <2>2. (shown' = 0 /\ lapsed' = FALSE) \/ UNCHANGED <<shown, lapsed>>
    BY <1>5 DEF TimerFires
  <2>3. CASE shown' = 0 /\ lapsed' = FALSE
    BY <1>0, <2>1, <2>3, BlankTypes DEF DisplayTypes
  <2>4. CASE UNCHANGED <<shown, lapsed>>
    <3>1. Timer \subseteq Timer'
      BY <1>0 DEF Timer, ID
    <3>. QED BY <1>0, <2>1, <2>4, <3>1 DEF DisplayTypes
  <2>. QED BY <2>2, <2>3, <2>4
<1>6. ASSUME NEW p \in Slot, PollApplies(p), session = polls[p].session PROVE DisplayTypes'
  <2>1. PICK stale \in 0..MaxID :
          ApplyEvents(polls[p].base, polls[p].since, polls[p].upTo, stale)
    BY <1>6 DEF PollApplies
  <2>2. /\ polls[p].base \in Relay /\ polls[p].since \in 0..MaxID
        /\ polls[p].upTo \in 0..MaxID /\ session \in Drawn
    BY <1>6 DEF PollApplies, SessionsAreFresh, Asking, TypeOK, Poll
  <2>3. /\ cursor \in 0..MaxID /\ applied \subseteq Relay \X ID /\ alerts \in [ID -> 0..2]
        /\ UNCHANGED issuer
    BY <1>6 DEF TypeOK, PollApplies, relays
  <2>. QED BY <1>0, <2>1, <2>2, <2>3, ApplyTypes, Zenon
<1>7. CASE \/ Activate \/ Deactivate \/ ResultsEmpty \/ SubmitCode \/ ClearFailure
           \/ ClaimGranted \/ ClaimFails
           \/ \E r \in Relay : Discover(r) \/ LateAnswer(r) \/ Emit(r) \/ Revoke(r)
           \/ \E healthy \in BOOLEAN : ProbeAnswered(healthy) \/ HealthAnswered(healthy)
  <2>1. UNCHANGED display
    BY <1>7 DEF Activate, Deactivate, ResultsEmpty, SubmitCode, ClearFailure, ClaimGranted,
       ClaimFails, Discover, LateAnswer, Emit, Revoke, ProbeAnswered, HealthAnswered
  <2>. QED BY <1>1, <2>1
<1>8. CASE ClaimStored \/ ResetPairing
  BY <1>2, <1>8 DEF ClaimStored, ResetPairing
<1>9. ASSUME NEW p \in Slot, RemoteEvent(p) \/ PollStep(p) PROVE DisplayTypes'
  <2>1. UNCHANGED display \/ ShowPending \/ (PollApplies(p) /\ session = polls[p].session)
    BY <1>9 DEF RemoteEvent, PollStep, PollSend, PollSkip, PollAnswered, PollFails, PollApplies,
       PollUnauthorized, PollRetries, LoopWakes
  <2>. QED BY <1>1, <1>2, <1>6, <1>9, <2>1
<1>. QED BY <1>3, <1>4, <1>5, <1>7, <1>8, <1>9 DEF Next

FindingTypes ==
    /\ base \in Relay \union {None} /\ probe \in Relay \union {None}
    /\ late \subseteq Relay /\ reported \subseteq Relay
    /\ unhealthy \subseteq reported /\ displaced \subseteq reported

\* Discovery: a URL that is reported is in use or probed at once, and whatever takes
\* it from there tells why.  It needs no other invariant.
LEMMA DiscoveryStep ==
  ASSUME FindingTypes, RelayIsFound, Next
  PROVE  FindingTypes' /\ RelayIsFound'
<1>0. None \notin Relay
  BY NoneAssumption
<1>1. CASE UNCHANGED <<base, finding>>
  BY <1>1 DEF finding, asked, FindingTypes, RelayIsFound
<1>2. ASSUME CancelProbe PROVE late' \subseteq Relay
  BY <1>2 DEF CancelProbe, FindingTypes
<1>3. CASE Deactivate \/ Restart \/ ResultsEmpty
  <2>1. reported' = {} /\ unhealthy' = {} /\ displaced' = {}
    BY <1>3 DEF Deactivate, Restart, ResultsEmpty, ForgetReported
  <2>2. base' \in Relay \union {None} /\ probe' \in Relay \union {None} /\ late' \subseteq Relay
    BY <1>2, <1>3, ConfiguredAssumption DEF Deactivate, Restart, ResultsEmpty, FindingTypes, kept
  <2>. QED BY <2>1, <2>2 DEF FindingTypes, RelayIsFound
<1>4. ASSUME NEW r \in Relay, Discover(r) PROVE FindingTypes' /\ RelayIsFound'
  <2>1. reported' = reported \union {r} /\ UNCHANGED <<base, unhealthy>>
    BY <1>4 DEF Discover, kept
  <2>2. CASE base = r
    <3>1. UNCHANGED <<probe, late, displaced>>
      BY <1>4, <2>2 DEF Discover
    <3>. QED BY <2>1, <2>2, <3>1 DEF FindingTypes, RelayIsFound
  <2>3. CASE base # r
    <3>1. CancelProbe /\ probe' = r /\ displaced' = displaced \union ({probe} \intersect reported)
      BY <1>4, <2>3 DEF Discover
    <3>. QED BY <1>2, <2>1, <3>1 DEF FindingTypes, RelayIsFound
  <2>. QED BY <2>2, <2>3
<1>5. ASSUME NEW r \in Relay, UseRelay(r), UNCHANGED reported, late' \subseteq late,
             probe' \in {probe, None}, probe' = probe \/ probe = r
      PROVE  FindingTypes' /\ RelayIsFound'
  <2>1. /\ base' = r /\ unhealthy' = unhealthy \ {r}
        /\ displaced' = (displaced \union ({base} \intersect reported)) \ {r}
    BY <1>5 DEF UseRelay
  <2>. QED BY <1>5, <2>1 DEF FindingTypes, RelayIsFound
<1>6. ASSUME NEW healthy \in BOOLEAN, ProbeAnswered(healthy) PROVE FindingTypes' /\ RelayIsFound'
  <2>1. probe \in Relay /\ probe' = None /\ UNCHANGED <<reported, late>>
    BY <1>6 DEF ProbeAnswered, FindingTypes
  <2>2. CASE UseRelay(probe)
    BY <1>5, <2>1, <2>2
  <2>3. CASE ~UseRelay(probe)
    <3>1. /\ unhealthy' = unhealthy \union ({probe} \intersect reported)
          /\ UNCHANGED <<base, displaced>>
      BY <1>6, <2>3 DEF ProbeAnswered
    <3>. QED BY <2>1, <3>1 DEF FindingTypes, RelayIsFound
  <2>. QED BY <2>2, <2>3
<1>7. ASSUME NEW r \in Relay, LateAnswer(r) PROVE FindingTypes' /\ RelayIsFound'
  BY <1>5, <1>7 DEF LateAnswer
<1>8. ASSUME NEW healthy \in BOOLEAN, HealthAnswered(healthy) PROVE FindingTypes' /\ RelayIsFound'
  <2>1. UNCHANGED <<reported, probe, late>> /\ (UNCHANGED <<base, asked>> \/ DropRelay)
    BY <1>8 DEF HealthAnswered
  <2>2. CASE DropRelay
    BY <2>1, <2>2 DEF DropRelay, FindingTypes, RelayIsFound
  <2>. QED BY <1>1, <2>1, <2>2 DEF finding
<1>9. CASE \/ Activate \/ SubmitCode \/ ClearFailure \/ ClaimGranted \/ ClaimStored \/ ClaimFails
           \/ ResetPairing \/ Lapse
           \/ \E r \in Relay : Emit(r) \/ Revoke(r)
           \/ \E p \in Slot : RemoteEvent(p) \/ PollStep(p)
           \/ \E t \in Timer : TimerFires(t)
  <2>1. UNCHANGED <<base, finding>>
    BY <1>9 DEF Activate, SubmitCode, ClearFailure, ClaimGranted, ClaimStored, ClaimFails, ResetPairing,
       Lapse, Emit, Revoke, RemoteEvent, PollStep, PollSend, PollSkip, PollAnswered, PollFails,
       PollApplies, PollUnauthorized, PollRetries, LoopWakes, TimerFires, kept
  <2>. QED BY <1>1, <2>1
<1>. QED
  BY <1>3, <1>4, <1>6, <1>7, <1>8, <1>9 DEF Next

\* Type correctness rests on the sessions: the session a claim stores is one that
\* was drawn, and a response is applied only with a session.
LEMMA TypeStep ==
  ASSUME TypeOK, SessionsAreFresh, RelayIsFound, Next
  PROVE  TypeOK'
<1> DEFINE Rest ==
      /\ session \in {0} \union Drawn /\ cursor \in 0..MaxID
      /\ active \in BOOLEAN
      /\ state \in {"notPaired", "pairing", "connected", "failed"}
      /\ (state = "pairing") = (claim.at # "none")
      /\ state = "connected" => session # 0
      /\ honoured \in [Relay -> {0} \union Drawn] /\ last \in [Relay -> 0..MaxID]
      /\ alerts \in [ID -> 0..2]
      /\ applied \subseteq Relay \X ID
<1>0. /\ Rest /\ 0 \notin Drawn /\ (state = "pairing" => session = 0)
      /\ (claim.at = "reply" => claim.session \in Drawn)
      /\ FindingTypes /\ DisplayTypes
  BY DEF TypeOK, SessionsAreFresh, FindingTypes, DisplayTypes
<1>1. Rest'
  <2>1. CASE Activate \/ Deactivate \/ ResultsEmpty
    BY <1>0, <2>1 DEF Activate, Deactivate, ResultsEmpty, kept, relays, history, Drawn
  <2>3. CASE Restart
    <3>1. session' = session /\ issuer' = issuer /\ honoured' = honoured
      BY <2>3 DEF Restart, relays
    <3>2. /\ active' \in BOOLEAN
          /\ claim'.at = "none" /\ state' \in {"notPaired", "connected"}
          /\ state' = "connected" => session' # 0
      BY <1>0, <2>3, NoClaimType DEF Restart
    <3>. QED BY <1>0, <2>3, <3>1, <3>2 DEF Restart, relays, history, Drawn
  <2>4. CASE \E r \in Relay : Discover(r) \/ LateAnswer(r)
    BY <1>0, <2>4 DEF Discover, LateAnswer, kept, relays, history, Drawn
  <2>5. CASE \E healthy \in BOOLEAN : ProbeAnswered(healthy)
    BY <1>0, <2>5 DEF ProbeAnswered, relays, history, Drawn
  <2>6. CASE SubmitCode \/ ClearFailure \/ ClaimFails
    BY <1>0, <2>6, NoClaimType DEF SubmitCode, ClearFailure, ClaimFails, NoClaim,
       kept, relays, history, Drawn
  <2>7. CASE \E healthy \in BOOLEAN : HealthAnswered(healthy)
    <3>1. claim.at = "health" /\ (state' = state \/ (state' = "failed" /\ claim' = NoClaim))
      BY <2>7 DEF HealthAnswered
    <3>2. (state' = "pairing") = (claim'.at # "none") /\ state' # "connected"
      BY <1>0, <2>7, <3>1, NoClaimType DEF HealthAnswered, TypeOK, Submission
    <3>. QED BY <1>0, <2>7, <3>1, <3>2 DEF HealthAnswered, relays, history, Drawn
  <2>8. CASE ClaimGranted
    BY <1>0, <2>8, NextClaims DEF ClaimGranted, Submission, kept, relays, history, Drawn
  <2>9. CASE ClaimStored
    <3>1. /\ session' \in Drawn /\ state' = "connected" /\ claim'.at = "none"
          /\ UNCHANGED <<cursor, active, issuer, honoured, last, applied>>
          /\ alerts' \in [ID -> 0..2]
      BY <1>0, <2>9, NoClaimType DEF ClaimStored, relays
    <3>. QED BY <1>0, <3>1 DEF Drawn
  <2>10. CASE ResetPairing
    BY <1>0, <2>10, BoundsAssumption DEF ResetPairing, relays, history, Drawn
  <2>11. CASE Lapse \/ \E t \in Timer : TimerFires(t)
    BY <1>0, <2>11 DEF Lapse, TimerFires, kept, relays, history, Drawn
  <2>12. CASE \E r \in Relay : Emit(r) \/ Revoke(r)
    BY <1>0, <2>12, BoundsAssumption DEF Emit, Revoke, kept, relays, history, Drawn
  <2>13. ASSUME NEW p \in Slot, RemoteEvent(p) \/ PollStep(p) PROVE Rest'
    <3>1. CASE RemoteEvent(p) \/ PollSend(p) \/ PollSkip(p) \/ PollAnswered(p) \/ PollFails(p)
               \/ PollRetries(p) \/ LoopWakes(p)
      BY <1>0, <3>1 DEF RemoteEvent, PollSend, PollSkip, PollAnswered, PollFails, PollRetries,
         LoopWakes, kept, relays, history, Drawn
    <3>2. CASE PollApplies(p)
      <4>1. CASE session = polls[p].session
        <5>1. PICK stale \in 0..MaxID :
                ApplyEvents(polls[p].base, polls[p].since, polls[p].upTo, stale)
          BY <3>2, <4>1 DEF PollApplies
        <5>2. /\ polls[p].base \in Relay /\ polls[p].since \in 0..MaxID
              /\ polls[p].upTo \in 0..MaxID /\ session \in Drawn /\ polls[p].session \in Drawn
              /\ UNCHANGED issuer
          BY <3>2, <4>1 DEF PollApplies, SessionsAreFresh, Asking, TypeOK, Poll, relays
        <5>3. /\ cursor' \in 0..MaxID /\ applied' \subseteq Relay \X ID /\ alerts' \in [ID -> 0..2]
          BY <1>0, <5>1, <5>2, ApplyTypes, Zenon
        <5>. QED BY <1>0, <3>2, <4>1, <5>2, <5>3 DEF PollApplies, relays, Drawn
      <4>2. CASE session # polls[p].session
        BY <1>0, <3>2, <4>2 DEF PollApplies, relays, history, Drawn
      <4>. QED BY <4>1, <4>2
    <3>3. CASE PollUnauthorized(p)
      <4>1. CASE session = polls[p].session
        <5>1. session # 0
          BY <1>0, <3>3, <4>1 DEF PollUnauthorized, SessionsAreFresh, Asking
        <5>. QED BY <1>0, <3>3, <4>1, <5>1 DEF PollUnauthorized, relays, history, Drawn
      <4>2. CASE session # polls[p].session
        BY <1>0, <3>3, <4>2 DEF PollUnauthorized, relays, history, Drawn
      <4>. QED BY <4>1, <4>2
    <3>. QED BY <2>13, <3>1, <3>2, <3>3 DEF PollStep
  <2>. QED
    BY <2>1, <2>3, <2>4, <2>5, <2>6, <2>7, <2>8, <2>9, <2>10, <2>11, <2>12, <2>13 DEF Next
<1>2. FindingTypes'
  BY <1>0, DiscoveryStep
<1>. QED
  BY <1>1, <1>2, NextPolls, NextClaims, DisplayStep DEF TypeOK, PollTypes, DisplayTypes, FindingTypes
-----------------------------------------------------------------------------
(***************************************************************************)
(* The invariants.                                                         *)
(***************************************************************************)
LEMMA StutterIInv == IInv /\ UNCHANGED vars => IInv'
BY DEF IInv, TypeOK, SessionsAreFresh, AlertsArePassed, RelayIsFound, Asking,
   vars, kept, polling, finding, asked, display, relays, history, Drawn, Timer

LEMMA InitIInv == Init => IInv
<1> SUFFICES ASSUME Init PROVE IInv
  OBVIOUS
<1>1. issuer \in [{} -> Relay] /\ Drawn = {}
  BY DEF Init, Drawn
<1>2. Cardinality({}) = 0 /\ 1..0 = {}
  BY FS_EmptySet
<1>3. TypeOK
  <2>1. polls \in [Slot -> Poll] /\ pollTask \in Slot \union {None}
    BY NoPollType DEF Init
  <2>2. claim \in Submission /\ claim.at = "none"
    BY NoClaimType DEF Init
  <2>3. DisplayTypes /\ cursor \in 0..MaxID /\ last \in [Relay -> 0..MaxID]
    <3>1. 0 \in 0..MaxID
      BY BoundsAssumption
    <3>. QED BY <3>1, Zenon DEF Init, DisplayTypes
  <2>4. alerts \in [ID -> 0..2]
    BY DEF Init
  <2>. QED BY <1>1, <2>1, <2>2, <2>3, <2>4, ConfiguredAssumption DEF Init, TypeOK, DisplayTypes
<1>4. SessionsAreFresh
  BY <1>1, <1>2, NoClaimType DEF Init, SessionsAreFresh, Asking, NoPoll
<1>5. AlertsArePassed
  BY DEF Init, AlertsArePassed
<1>. QED BY <1>3, <1>4, <1>5 DEF Init, IInv, RelayIsFound

\* Alerts: a new session has none, the cursor moves forward within a session, and
\* what a response applies is above it.
LEMMA AlertsStep ==
  ASSUME TypeOK, SessionsAreFresh, AlertsArePassed, Next
  PROVE  AlertsArePassed'
<1>0. cursor \in 0..MaxID
  BY DEF TypeOK
<1>1. ASSUME UNCHANGED <<alerts, cursor>>, session' \in {session, 0}
      PROVE  AlertsArePassed'
  BY <1>1 DEF AlertsArePassed
<1>2. CASE \/ Activate \/ Deactivate \/ Restart \/ ResultsEmpty \/ SubmitCode \/ ClearFailure
           \/ ClaimGranted \/ ClaimFails \/ ResetPairing \/ Lapse
           \/ \E r \in Relay : Discover(r) \/ LateAnswer(r) \/ Emit(r) \/ Revoke(r)
           \/ \E healthy \in BOOLEAN : ProbeAnswered(healthy) \/ HealthAnswered(healthy)
           \/ \E t \in Timer : TimerFires(t)
  <2>1. UNCHANGED alerts /\ (UNCHANGED <<session, cursor>> \/ session' = 0)
    BY <1>2 DEF Activate, Deactivate, Restart, ResultsEmpty, SubmitCode, ClearFailure, ClaimGranted,
       ClaimFails, ResetPairing, Lapse, Discover, LateAnswer, Emit, Revoke, ProbeAnswered, HealthAnswered,
       TimerFires, kept, history
  <2>. QED BY <2>1 DEF AlertsArePassed
<1>3. CASE ClaimStored
  BY <1>3 DEF ClaimStored, AlertsArePassed
<1>4. ASSUME NEW p \in Slot, RemoteEvent(p) \/ PollStep(p), ~PollApplies(p)
      PROVE  AlertsArePassed'
  <2>1. UNCHANGED <<alerts, cursor>> /\ session' \in {session, 0}
    BY <1>4 DEF RemoteEvent, PollStep, PollSend, PollSkip, PollAnswered, PollFails,
       PollUnauthorized, PollRetries, LoopWakes, kept, history
  <2>. QED BY <1>1, <2>1
<1>5. ASSUME NEW p \in Slot, PollApplies(p)
      PROVE  AlertsArePassed'
  <2>1. CASE session # polls[p].session
    <3>1. UNCHANGED <<alerts, cursor, session>>
      BY <1>5, <2>1 DEF PollApplies, history
    <3>. QED BY <1>1, <3>1
  <2>2. CASE session = polls[p].session
    <3> DEFINE upTo == polls[p].upTo
               since == polls[p].since
               new == {e \in ID : e > since /\ e <= upTo /\ e > cursor}
    <3>1. PICK stale \in 0..MaxID : ApplyEvents(polls[p].base, since, upTo, stale)
      BY <1>5, <2>2 DEF PollApplies
    <3>2. upTo \in 0..MaxID /\ session' = session /\ session # 0
      BY <1>5, <2>2 DEF PollApplies, SessionsAreFresh, Asking, TypeOK, Poll
    <3> HIDE DEF upTo, since
    <3>3. /\ cursor' = IF new # {} THEN upTo ELSE cursor
          /\ \A e \in ID : alerts'[e] = IF e \in {f \in new : f > stale} /\ alerts[e] < 2
                                       THEN alerts[e] + 1 ELSE alerts[e]
      BY <3>1 DEF ApplyEvents
    <3>4. \A e \in new : e <= upTo /\ e > cursor /\ e \in ID
      OBVIOUS
    <3> HIDE DEF new
    <3>5. cursor' >= cursor /\ \A e \in new : e <= cursor'
      BY <1>0, <3>2, <3>3, <3>4 DEF ID
    <3> SUFFICES ASSUME NEW e \in ID, alerts'[e] # 0
                 PROVE  alerts'[e] = 1 /\ e <= cursor'
      BY <3>2 DEF AlertsArePassed
    <3>6. alerts[e] # 0 => alerts[e] = 1 /\ e <= cursor
      BY <3>2 DEF AlertsArePassed
    <3>7. CASE alerts'[e] = alerts[e]
      BY <1>0, <3>2, <3>3, <3>5, <3>6, <3>7 DEF ID
    <3>8. CASE alerts'[e] # alerts[e]
      <4>1. e \in new /\ alerts'[e] = alerts[e] + 1
        BY <3>3, <3>8
      <4>2. alerts[e] = 0
        BY <1>0, <3>4, <3>6, <4>1 DEF ID
      <4>. QED BY <3>5, <4>1, <4>2
    <3>. QED BY <3>7, <3>8
  <2>. QED BY <2>1, <2>2
<1>. QED
  BY <1>2, <1>3, <1>4, <1>5 DEF Next

\* IInv holds in every state, of any number of relays and polls.
THEOREM IInvHolds == Spec => []IInv
<1>1. IInv /\ [Next]_vars => IInv'
  <2>1. IInv /\ Next => IInv'
    <3> SUFFICES ASSUME IInv, Next PROVE IInv'
      OBVIOUS
    <3>1. FindingTypes
      BY DEF IInv, TypeOK, FindingTypes
    <3>. QED BY <3>1, TypeStep, SessionsStep, AlertsStep, DiscoveryStep DEF IInv
  <2>. QED BY <2>1, StutterIInv
<1>. QED BY InitIInv, <1>1, PTL DEF Spec

\* The watch's state and that of its relays stay within their types, whatever
\* order responses, timers and restarts come in.
THEOREM TypeCorrect == Spec => []TypeOK
<1>1. IInv => TypeOK
  BY DEF IInv
<1>. QED BY <1>1, IInvHolds, PTL

\* However polls overlap and whichever response comes first, no session alerts
\* an event twice.
THEOREM NoEventIsAlertedTwice == Spec => []AlertedOnce
<1>1. IInv => AlertedOnce
  BY DEF IInv, AlertsArePassed, AlertedOnce
<1>. QED BY <1>1, IInvHolds, PTL

\* Of any number of relays, each that discovery reported is in use or being asked, was
\* not healthy when last asked, or another cut short its probe or took its place.
THEOREM ReportedRelayIsUsed == Spec => []RelayIsFound
<1>1. IInv => RelayIsFound
  BY DEF IInv
<1>. QED BY <1>1, IInvHolds, PTL

\* An alert that has not had its time disappears only with the session or the app, or
\* by the timer that an earlier session left for the same event: a response without
\* news, its own timer and those of other alerts leave it.
THEOREM AlertsAreShownToTheEnd == Spec => ShownToTheEnd
<1> DEFINE A == TransientActive /\ shown' = 0 =>
                  \/ session' # session \/ Restart
                  \/ \E s \in Drawn \ {session} : <<s, shown>> \in timers \ timers'
<1>1. IInv /\ Next => A
  <2> SUFFICES ASSUME IInv, Next, TransientActive, shown' = 0, ~Restart
               PROVE  \/ session' # session
                      \/ \E s \in Drawn \ {session} : <<s, shown>> \in timers \ timers'
    OBVIOUS
  <2>0. shown # 0 /\ ~lapsed
    BY DEF TransientActive
  <2>1. CASE ClaimStored
    BY <2>1 DEF ClaimStored, IInv, SessionsAreFresh
  <2>2. CASE ResetPairing
    BY <2>2 DEF ResetPairing
  <2>3. ASSUME NEW p \in Slot, PollUnauthorized(p) PROVE session' # session
    BY <2>0, <2>3 DEF PollUnauthorized, IInv, SessionsAreFresh, Asking, display
  <2>4. ASSUME NEW p \in Slot, PollApplies(p) PROVE FALSE
    <3>1. shown' = shown \/ \E stale \in 0..MaxID :
            ApplyEvents(polls[p].base, polls[p].since, polls[p].upTo, stale)
      BY <2>4 DEF PollApplies, display
    <3>2. PICK stale \in 0..MaxID :
            ApplyEvents(polls[p].base, polls[p].since, polls[p].upTo, stale)
      BY <2>0, <3>1
    <3> DEFINE upTo == polls[p].upTo
               since == polls[p].since
               fresh == {e \in {f \in ID : f > since /\ f <= upTo /\ f > cursor} : e > stale}
    <3>3. shown' = shown \/ (fresh # {} /\ shown' = upTo)
      BY <3>2 DEF ApplyEvents, ShowEvent, display, TransientActive
    <3>4. upTo \in 0..MaxID
      BY DEF IInv, TypeOK, Poll
    <3> HIDE DEF upTo, since
    <3>5. fresh # {} => upTo # 0
      BY <3>4 DEF ID
    <3> HIDE DEF fresh
    <3>. QED BY <2>0, <3>3, <3>5
  <2>5. ASSUME NEW t \in Timer, TimerFires(t)
        PROVE  \E s \in Drawn \ {session} : <<s, shown>> \in timers \ timers'
    <3>1. t \in timers \ timers' /\ t[2] = shown /\ t # <<session, shown>>
      BY <2>0, <2>5 DEF TimerFires
    <3>2. t = <<t[1], t[2]>> /\ t[1] \in Drawn
      BY DEF Timer
    <3>. QED BY <3>1, <3>2
  <2>6. ASSUME shown' = shown PROVE FALSE
    BY <2>0, <2>6
  <2>7. CASE \/ Activate \/ Deactivate \/ ResultsEmpty \/ SubmitCode \/ ClearFailure
             \/ ClaimGranted \/ ClaimFails \/ Lapse
             \/ \E r \in Relay : Discover(r) \/ LateAnswer(r) \/ Emit(r) \/ Revoke(r)
             \/ \E healthy \in BOOLEAN : ProbeAnswered(healthy) \/ HealthAnswered(healthy)
    BY <2>6, <2>7 DEF Activate, Deactivate, ResultsEmpty, SubmitCode, ClearFailure, ClaimGranted,
       ClaimFails, Lapse, Discover, LateAnswer, Emit, Revoke, ProbeAnswered, HealthAnswered, display
  <2>8. ASSUME NEW p \in Slot, RemoteEvent(p) \/ PollStep(p), ~PollApplies(p), ~PollUnauthorized(p)
        PROVE  FALSE
    BY <2>6, <2>8 DEF RemoteEvent, PollStep, PollSend, PollSkip, PollAnswered, PollFails,
       PollRetries, LoopWakes, display
  <2>. QED
    BY <2>1, <2>2, <2>3, <2>4, <2>5, <2>7, <2>8 DEF Next
<1>2. IInv /\ [Next]_vars => [A]_vars
  BY <1>1
<1>. QED BY <1>2, IInvHolds, PTL DEF Spec, ShownToTheEnd
-----------------------------------------------------------------------------
(***************************************************************************)
(* One relay.                                                              *)
(***************************************************************************)
OneRelay == \A q, r \in Relay : q = r

\* Then no other URL takes the place of the one that is there.
NothingIsDisplaced == displaced = {}

LoneRelayIsFound == \A r \in reported : r \in {base, probe} \union unhealthy

\* With one relay: what discovery reported is in use, being asked, or was not healthy
\* when last asked.
THEOREM LoneRelayIsUsed ==
  ASSUME OneRelay
  PROVE  Spec => []LoneRelayIsFound
<1>1. Init => NothingIsDisplaced
  BY DEF Init, NothingIsDisplaced
<1>2. IInv /\ NothingIsDisplaced /\ [Next]_vars => NothingIsDisplaced'
  <2> SUFFICES ASSUME IInv, displaced = {}, [Next]_vars PROVE displaced' = {}
    BY DEF NothingIsDisplaced
  <2>0. /\ base \in Relay \union {None} /\ probe \in Relay \union {None} /\ reported \subseteq Relay
        /\ None \notin Relay
    BY NoneAssumption DEF IInv, TypeOK
  <2>1. ASSUME NEW r \in Relay, UseRelay(r) PROVE displaced' = {}
    <3>1. {base} \intersect reported \subseteq {r}
      BY <2>0 DEF OneRelay
    <3>. QED BY <2>1, <3>1 DEF UseRelay
  <2>2. CASE UNCHANGED displaced
    BY <2>2
  <2>3. ASSUME NEW r \in Relay, Discover(r) PROVE displaced' = {}
    <3>1. {probe} \intersect reported = {}
      BY <2>0, <2>3 DEF OneRelay, Discover
    <3>. QED BY <2>3, <3>1 DEF Discover
  <2>4. ASSUME NEW healthy \in BOOLEAN, HealthAnswered(healthy) PROVE displaced' = {}
    <3>1. claim.base \in Relay
      BY <2>4 DEF HealthAnswered, IInv, SessionsAreFresh
    <3>2. ({base} \intersect reported) \ {claim.base} = {}
      BY <2>0, <3>1 DEF OneRelay
    <3>. QED BY <2>4, <3>2 DEF HealthAnswered, DropRelay, asked
  <2>5. ASSUME NEW healthy \in BOOLEAN, ProbeAnswered(healthy) PROVE displaced' = {}
    BY <2>0, <2>1, <2>5 DEF ProbeAnswered
  <2>6. ASSUME NEW r \in Relay, LateAnswer(r) PROVE displaced' = {}
    BY <2>1, <2>6 DEF LateAnswer
  <2>7. CASE Deactivate \/ Restart \/ ResultsEmpty
    BY <2>7 DEF Deactivate, Restart, ResultsEmpty, ForgetReported
  <2>8. CASE \/ Activate \/ SubmitCode \/ ClearFailure \/ ClaimGranted \/ ClaimStored \/ ClaimFails
             \/ ResetPairing \/ Lapse
             \/ \E r \in Relay : Emit(r) \/ Revoke(r)
             \/ \E p \in Slot : RemoteEvent(p) \/ PollStep(p)
             \/ \E t \in Timer : TimerFires(t)
    <3>1. UNCHANGED finding
      BY <2>8 DEF Activate, SubmitCode, ClearFailure, ClaimGranted, ClaimStored, ClaimFails, ResetPairing,
         Lapse, Emit, Revoke, RemoteEvent, PollStep, PollSend, PollSkip, PollAnswered, PollFails,
         PollApplies, PollUnauthorized, PollRetries, LoopWakes, TimerFires
    <3>. QED BY <2>2, <3>1 DEF finding, asked
  <2>9. CASE UNCHANGED vars
    BY <2>2, <2>9 DEF vars, finding, asked
  <2>. QED
    BY <2>3, <2>4, <2>5, <2>6, <2>7, <2>8, <2>9 DEF Next
<1>3. IInv /\ NothingIsDisplaced => LoneRelayIsFound
  BY DEF IInv, NothingIsDisplaced, RelayIsFound, LoneRelayIsFound
<1>. QED BY <1>1, <1>2, <1>3, IInvHolds, PTL DEF Spec

LEMMA RefusedStep ==
  ASSUME OneRelay, IInv, RefusedForGood, Next
  PROVE  RefusedForGood'
<1> SUFFICES ASSUME NEW p \in Slot, NEW r \in Relay,
                    polls'[p].at = "answered", polls'[p].reply = "unauthorized"
             PROVE  honoured'[r] # polls'[p].session
  BY DEF RefusedForGood
<1>0. /\ Asking(p)' /\ TypeOK /\ SessionsAreFresh
  BY DEF Asking, IInv
<1>1. CASE Continues(p)
  <2>1. polls'[p].session = polls[p].session /\ polls[p].session \in Drawn /\ polls[p].base = r
    BY <1>0, <1>1 DEF Continues, SessionsAreFresh, OneRelay
  <2>2. honoured[r] # polls[p].session
    BY <1>1, <2>1 DEF Continues, RefusedForGood
  <2>3. honoured'[r] \in {honoured[r], 0} \/ honoured'[r] \notin Drawn
    <3>1. CASE ClaimGranted
      <4>1. honoured'[r] = honoured[r] \/ honoured'[r] = Cardinality(Drawn) + 1
        BY <1>0, <3>1 DEF ClaimGranted, TypeOK
      <4>. QED BY <1>0, <4>1 DEF SessionsAreFresh
    <3>2. CASE \E q \in Relay : Revoke(q)
      BY <1>0, <3>2 DEF Revoke, TypeOK
    <3>3. CASE UNCHANGED honoured
      BY <3>3
    <3>. QED
      BY <3>1, <3>2, <3>3 DEF Next, Activate, Deactivate, Restart, ResultsEmpty, SubmitCode, ClearFailure,
         ClaimStored, ClaimFails, ResetPairing, Lapse, Discover, LateAnswer, Emit, ProbeAnswered, HealthAnswered,
         TimerFires, RemoteEvent, PollStep, PollSend, PollSkip, PollAnswered, PollFails, PollApplies,
         PollUnauthorized, PollRetries, LoopWakes, relays
  <2>. QED BY <1>0, <2>1, <2>2, <2>3 DEF SessionsAreFresh
<1>2. CASE ~Continues(p)
  <2>1. PollSend(p)
    BY <1>0, <1>2, NextPolls
  <2>. QED BY <2>1 DEF PollSend, IInv, TypeOK, Poll
<1>. QED BY <1>1, <1>2

LEMMA AppliedStep ==
  ASSUME OneRelay, IInv, CursorIsApplied, Next
  PROVE  CursorIsApplied'
<1>0. TypeOK /\ SessionsAreFresh /\ cursor \in 0..MaxID /\ cursor' \in 0..MaxID
  BY TypeStep DEF IInv, TypeOK
<1>1. ASSUME UNCHANGED <<cursor, applied, session>>
      PROVE  CursorIsApplied'
  <2> SUFFICES ASSUME NEW p \in Slot, Asking(p)', polls'[p].session = session
               PROVE  polls'[p].since <= cursor
    BY <1>1 DEF CursorIsApplied, Asking
  <2>1. CASE Continues(p)
    BY <2>1 DEF Continues, CursorIsApplied
  <2>2. CASE ~Continues(p)
    BY <1>0, <2>2, NextPolls
  <2>. QED BY <2>1, <2>2
<1>2. ASSUME UNCHANGED applied, session' \in {0, claim.session}, cursor' \in {0, cursor}, ~UNCHANGED session
      PROVE  CursorIsApplied'
  <2>1. ASSUME NEW p \in Slot, Asking(p)' PROVE polls'[p].session # session'
    <3>1. CASE Continues(p)
      BY <1>0, <1>2, <3>1 DEF Continues, SessionsAreFresh
    <3>2. CASE ~Continues(p)
      <4>1. PollSend(p)
        BY <1>0, <2>1, <3>2, NextPolls
      <4>. QED BY <1>2, <4>1 DEF PollSend, kept
    <3>. QED BY <3>1, <3>2
  <2>2. \A e \in ID : e <= cursor' => e <= cursor
    BY <1>0, <1>2 DEF ID
  <2>. QED BY <1>2, <2>1, <2>2 DEF CursorIsApplied, Asking
<1>3. CASE \/ Activate \/ Deactivate \/ Restart \/ ResultsEmpty \/ SubmitCode \/ ClearFailure
           \/ ClaimGranted \/ ClaimFails \/ Lapse
           \/ \E r \in Relay : Discover(r) \/ LateAnswer(r) \/ Emit(r) \/ Revoke(r)
           \/ \E healthy \in BOOLEAN : ProbeAnswered(healthy) \/ HealthAnswered(healthy)
           \/ \E t \in Timer : TimerFires(t)
  <2>1. UNCHANGED <<cursor, applied, session>>
    BY <1>3 DEF Activate, Deactivate, Restart, ResultsEmpty, SubmitCode, ClearFailure, ClaimGranted,
       ClaimFails, Lapse, Discover, LateAnswer, Emit, Revoke, ProbeAnswered, HealthAnswered, TimerFires,
       kept, history
  <2>. QED BY <1>1, <2>1
<1>4. CASE ClaimStored \/ ResetPairing
  BY <1>2, <1>4 DEF ClaimStored, ResetPairing, SessionsAreFresh, history, IInv
<1>5. ASSUME NEW p \in Slot, RemoteEvent(p) \/ PollStep(p), ~PollApplies(p)
      PROVE  CursorIsApplied'
  <2>1. UNCHANGED <<cursor, applied>> /\ session' \in {session, 0}
    BY <1>5 DEF RemoteEvent, PollStep, PollSend, PollSkip, PollAnswered, PollFails,
       PollUnauthorized, PollRetries, LoopWakes, kept, history
  <2>. QED BY <1>1, <1>2, <2>1
<1>6. ASSUME NEW p \in Slot, PollApplies(p)
      PROVE  CursorIsApplied'
  <2>1. CASE session # polls[p].session
    BY <1>1, <1>6, <2>1 DEF PollApplies, history
  <2>2. CASE session = polls[p].session
    <3> DEFINE upTo == polls[p].upTo
               since == polls[p].since
               new == {e \in ID : e > since /\ e <= upTo /\ e > cursor}
    <3>1. PICK stale \in 0..MaxID : ApplyEvents(polls[p].base, since, upTo, stale)
      BY <1>6, <2>2 DEF PollApplies
    <3>2. /\ polls[p].base \in Relay /\ upTo \in 0..MaxID /\ since \in 0..MaxID
          /\ since <= cursor /\ UNCHANGED session
      BY <1>0, <1>6, <2>2 DEF PollApplies, SessionsAreFresh, Asking, TypeOK, Poll, CursorIsApplied
    <3> HIDE DEF upTo, since
    <3>3. /\ cursor' = IF new # {} THEN upTo ELSE cursor
          /\ applied' = applied \union ({polls[p].base} \X new)
      BY <3>1 DEF ApplyEvents
    <3>4. cursor' >= cursor /\ \A e \in ID : e <= cursor' => e <= cursor \/ e \in new
      BY <1>0, <3>2, <3>3 DEF ID
    <3> HIDE DEF new
    <3>5. \A r \in Relay, e \in ID : e <= cursor' => <<r, e>> \in applied'
      BY <3>2, <3>3, <3>4 DEF CursorIsApplied, OneRelay
    <3>6. ASSUME NEW q \in Slot, Asking(q)', polls'[q].session = session
          PROVE  polls'[q].since <= cursor'
      <4>1. CASE Continues(q)
        <5>1. /\ polls[q].since \in 0..MaxID /\ polls[q].since <= cursor
              /\ polls'[q].since = polls[q].since
          BY <1>0, <3>6, <4>1 DEF Continues, CursorIsApplied, TypeOK, Poll
        <5>. QED BY <1>0, <3>4, <5>1
      <4>2. CASE ~Continues(q)
        <5>1. polls'[q].since = cursor
          BY <1>0, <3>6, <4>2, NextPolls
        <5>. QED BY <3>4, <5>1
      <4>. QED BY <4>1, <4>2
    <3>. QED BY <3>2, <3>5, <3>6 DEF CursorIsApplied, Asking
  <2>. QED BY <2>1, <2>2
<1>. QED
  BY <1>3, <1>4, <1>5, <1>6 DEF Next

LEMMA OneRelayHolds ==
  ASSUME OneRelay
  PROVE  Spec => [](IInv /\ RefusedForGood /\ CursorIsApplied)
<1>1. Init => RefusedForGood /\ CursorIsApplied
  BY BoundsAssumption DEF Init, RefusedForGood, CursorIsApplied, Asking, NoPoll, ID
<1>2. IInv /\ RefusedForGood /\ CursorIsApplied /\ UNCHANGED vars => (RefusedForGood /\ CursorIsApplied)'
  BY DEF RefusedForGood, CursorIsApplied, Asking, vars, kept, polling, relays, history
<1>3. IInv /\ RefusedForGood /\ CursorIsApplied /\ [Next]_vars => (RefusedForGood /\ CursorIsApplied)'
  BY <1>2, RefusedStep, AppliedStep
<1>. QED BY <1>1, <1>3, IInvHolds, PTL DEF Spec

\* With one relay: whatever responses overlap, fail or belong to a lost session,
\* the watch has applied every event its cursor has passed.  (With several, the
\* cursor of a session that ended with a 401 is taken to the next relay.)
THEOREM CursorHidesNothing ==
  ASSUME OneRelay
  PROVE  Spec => []NothingIsHidden
<1>1. IInv /\ CursorIsApplied => NothingIsHidden
  <2> SUFFICES ASSUME IInv, CursorIsApplied, session # 0, NEW e \in 1..cursor
               PROVE  <<issuer[session], e>> \in applied
    BY DEF NothingIsHidden
  <2>1. issuer[session] \in Relay /\ cursor \in 0..MaxID
    BY DEF IInv, TypeOK
  <2>2. e \in ID /\ e <= cursor
    BY <2>1, BoundsAssumption DEF ID
  <2>. QED BY <2>1, <2>2 DEF CursorIsApplied
<1>. QED BY <1>1, OneRelayHolds, PTL

\* With one relay: a session ends only by the user's hand or when the relay has
\* stopped honouring it.
THEOREM SessionsAreKept ==
  ASSUME OneRelay
  PROVE  Spec => SessionIsKept
<1> DEFINE A == session # 0 /\ session' = 0 => ResetPairing \/ honoured[issuer[session]] # session
<1>1. IInv /\ RefusedForGood /\ Next => A
  <2> SUFFICES ASSUME IInv, RefusedForGood, Next, session # 0, session' = 0, ~ResetPairing
               PROVE  honoured[issuer[session]] # session
    OBVIOUS
  <2>1. CASE ClaimStored
    BY <2>1 DEF ClaimStored, IInv, SessionsAreFresh
  <2>2. ASSUME NEW p \in Slot, PollUnauthorized(p) PROVE honoured[issuer[session]] # session
    <3>1. /\ session = polls[p].session /\ polls[p].at = "answered"
          /\ polls[p].reply = "unauthorized"
      BY <2>2 DEF PollUnauthorized
    <3>2. issuer[session] \in Relay
      BY DEF IInv, TypeOK
    <3>. QED BY <3>1, <3>2 DEF RefusedForGood
  <2>3. CASE \/ Activate \/ Deactivate \/ Restart \/ ResultsEmpty \/ SubmitCode \/ ClearFailure
             \/ ClaimGranted \/ ClaimFails \/ Lapse
             \/ \E r \in Relay : Discover(r) \/ LateAnswer(r) \/ Emit(r) \/ Revoke(r)
             \/ \E healthy \in BOOLEAN : ProbeAnswered(healthy) \/ HealthAnswered(healthy)
             \/ \E t \in Timer : TimerFires(t)
    BY <2>3 DEF Activate, Deactivate, Restart, ResultsEmpty, SubmitCode, ClearFailure, ClaimGranted,
       ClaimFails, Lapse, Discover, LateAnswer, Emit, Revoke, ProbeAnswered, HealthAnswered, TimerFires, kept
  <2>4. ASSUME NEW p \in Slot, RemoteEvent(p) \/ PollStep(p), ~PollUnauthorized(p) PROVE FALSE
    BY <2>4 DEF RemoteEvent, PollStep, PollSend, PollSkip, PollAnswered, PollFails, PollApplies,
       PollRetries, LoopWakes, kept
  <2>. QED
    BY <2>1, <2>2, <2>3, <2>4 DEF Next
<1>2. IInv /\ RefusedForGood /\ [Next]_vars => [A]_vars
  BY <1>1
<1>. QED BY <1>2, OneRelayHolds, PTL DEF Spec, SessionIsKept
-----------------------------------------------------------------------------
(***************************************************************************)
(* No hosted relays: every activation polls in a loop.                     *)
(***************************************************************************)
LEMMA LoopStarts ==
  ASSUME Https = {}, PollTypes, LoopIsHeld, NEW a, NEW s, NEW b, StartPolling(a, s, b),
         a => active', active => active'
  PROVE  LoopIsHeld'
<1>1. CASE UNCHANGED polling
  BY <1>1 DEF polling, LoopIsHeld
<1>2. CASE ~UNCHANGED polling
  <2>1. /\ a /\ pollTask = None
        /\ \E p \in Slot : /\ polls[p] = NoPoll /\ pollTask' = p
                         /\ polls' = [polls EXCEPT ![p].at = "ready", ![p].kind = "loop"]
    BY <1>2 DEF StartPolling
  <2>2. PICK p \in Slot : /\ polls[p] = NoPoll /\ pollTask' = p
                         /\ polls' = [polls EXCEPT ![p].at = "ready", ![p].kind = "loop"]
    BY <2>1
  <2>3. ~polls[p].cancelled
    BY <2>2 DEF NoPoll
  <2>4. polls'[p].kind = "loop" /\ ~polls'[p].cancelled
    BY <2>2, <2>3 DEF PollTypes, Poll
  <2>5. \A q \in Slot \ {p} : polls'[q] = polls[q]
    BY <2>2 DEF PollTypes
  <2>6. \A q \in Slot : q # pollTask
    BY <2>1, NoneAssumption
  <2>. QED BY <2>1, <2>2, <2>4, <2>5, <2>6 DEF LoopIsHeld
<1>. QED BY <1>1, <1>2

LEMMA LoopStops ==
  ASSUME PollTypes, LoopIsHeld, NEW p \in Slot,
         pollTask' = None, polls' \in {CancelTask(polls), Over(CancelTask(polls), p)}
  PROVE  LoopIsHeld'
<1> DEFINE ps == CancelTask(polls)
<1>1. ps \in [Slot -> Poll]
  BY CancelTaskPolls
<1>2. ASSUME NEW q \in Slot
      PROVE  ps[q].kind # "once" /\ (ps[q].kind = "loop" => ps[q].cancelled)
  <2>1. ps[q].kind = polls[q].kind /\ ps[q].cancelled = (polls[q].cancelled \/ q = pollTask)
    BY CancelTaskPolls
  <2>2. polls[q].kind # "once" /\ (polls[q].kind = "loop" => polls[q].cancelled \/ q = pollTask)
    BY Zenon DEF LoopIsHeld
  <2>. QED BY <2>1, <2>2, Zenon
<1> HIDE DEF ps
<1>3. CASE polls' = ps
  BY <1>2, <1>3 DEF LoopIsHeld
<1>4. CASE polls' = Over(ps, p)
  <2>1. /\ \A q \in Slot \ {p} : polls'[q] = ps[q]
        /\ polls'[p].kind = "loop" =>
             ps[p].kind = "loop" /\ polls'[p].cancelled = ps[p].cancelled
        /\ polls'[p].kind # "once"
    BY <1>1, <1>4, OverPolls, OverKind
  <2>2. polls'[p].kind = "loop" => polls'[p].cancelled
    BY <1>2, <2>1, Zenon
  <2>. QED BY <1>2, <2>1, <2>2 DEF LoopIsHeld
<1>. QED BY <1>3, <1>4 DEF ps

LEMMA LoopGoesOn ==
  ASSUME PollTypes, LoopIsHeld, UNCHANGED active, NEW p \in Slot, PollStep(p)
  PROVE  LoopIsHeld'
<1>0. /\ pollTask = p => polls[p].kind = "loop" /\ ~polls[p].cancelled
      /\ TaskAfter(p) = pollTask
  <2>1. p # None
    BY NoneAssumption
  <2>. QED BY <2>1, Zenon DEF LoopIsHeld, TaskAfter
<1>1. CASE PollUnauthorized(p) /\ session = polls[p].session
  <2>1. pollTask' = None /\ polls' = Over(CancelTask(polls), p)
    BY <1>1 DEF PollUnauthorized
  <2>. QED BY <2>1, LoopStops
<1>2. ASSUME polls' = Over(polls, p), pollTask' = TaskAfter(p)
      PROVE  LoopIsHeld'
  <2>1. pollTask' = pollTask
    BY <1>0, <1>2
  <2>2. /\ \A q \in Slot \ {p} : polls'[q] = polls[q]
        /\ polls'[p].kind # "once"
        /\ polls'[p].kind = "loop" =>
             polls[p].kind = "loop" /\ polls'[p].cancelled = polls[p].cancelled
        /\ polls[p].kind = "loop" => polls'[p].kind = "loop"
    BY <1>2, OverPolls, OverKind DEF PollTypes
  <2>. QED BY <1>0, <2>1, <2>2 DEF LoopIsHeld, PollTypes
<1>3. ASSUME polls' = [polls EXCEPT ![p] = NoPoll], polls[p].cancelled,
             pollTask' \in {pollTask, TaskAfter(p)}
      PROVE  LoopIsHeld'
  <2>1. pollTask' = pollTask /\ pollTask # p
    BY <1>0, <1>3
  <2>2. polls'[p].kind = "none" /\ \A q \in Slot \ {p} : polls'[q] = polls[q]
    BY <1>3 DEF PollTypes, NoPoll
  <2>. QED BY <2>1, <2>2 DEF LoopIsHeld, PollTypes
<1>4. ASSUME \A q \in Slot : polls'[q].kind = polls[q].kind /\ polls'[q].cancelled = polls[q].cancelled,
             UNCHANGED pollTask
      PROVE  LoopIsHeld'
  BY <1>4 DEF LoopIsHeld, PollTypes
<1>5. CASE PollSend(p)
  BY <1>4, <1>5 DEF PollSend, PollTypes, Poll
<1>6. CASE PollAnswered(p)
  BY <1>4, <1>6 DEF PollAnswered, PollTypes, Poll
<1>7. CASE PollFails(p)
  BY <1>4, <1>7 DEF PollFails, PollTypes, Poll
<1>8. CASE PollSkip(p)
  BY <1>2, <1>3, <1>8 DEF PollSkip
<1>9. CASE PollApplies(p) \/ PollRetries(p) \/ (PollUnauthorized(p) /\ session # polls[p].session)
  BY <1>2, <1>9 DEF PollApplies, PollRetries, PollUnauthorized
<1>10. CASE LoopWakes(p)
  <2>1. CASE polls[p].cancelled
    BY <1>3, <1>10, <2>1 DEF LoopWakes
  <2>2. CASE ~polls[p].cancelled
    BY <1>4, <1>10, <2>2 DEF LoopWakes, PollTypes, Poll
  <2>. QED BY <2>1, <2>2
<1>. QED
  BY <1>1, <1>5, <1>6, <1>7, <1>8, <1>9, <1>10 DEF PollStep

LEMMA LoopStep ==
  ASSUME Https = {}, IInv, LoopIsHeld, Next
  PROVE  LoopIsHeld'
<1>0. PollTypes
  BY DEF IInv, TypeOK, PollTypes
<1>1. CASE UNCHANGED <<active, polling>>
  BY <1>1 DEF polling, LoopIsHeld
<1>2. CASE Activate
  BY <1>0, <1>2, LoopStarts DEF Activate
<1>3. CASE Deactivate \/ ResetPairing
  <2>1. pollTask' = None /\ polls' = CancelTask(polls)
    BY <1>3 DEF Deactivate, ResetPairing, StopPolling
  <2>2. CASE Slot = {}
    BY <2>1, <2>2 DEF LoopIsHeld
  <2>. QED BY <1>0, <2>1, <2>2, LoopStops
<1>4. CASE Restart
  BY <1>4 DEF Restart, LoopIsHeld, NoPoll
<1>5. CASE \E healthy \in BOOLEAN : ProbeAnswered(healthy)
  <2>1. UNCHANGED <<active, polling>> \/ (StartPolling(active, session, probe) /\ UNCHANGED active)
    BY <1>5 DEF ProbeAnswered, UseRelay, polling
  <2>. QED BY <1>0, <1>1, <2>1, LoopStarts
<1>10. CASE \E r \in Relay : LateAnswer(r)
  BY <1>0, <1>10, LoopStarts DEF LateAnswer, UseRelay
<1>6. CASE ClaimStored
  BY <1>0, <1>6, LoopStarts DEF ClaimStored
<1>7. ASSUME NEW p \in Slot, RemoteEvent(p) PROVE LoopIsHeld'
  <2>1. \A q \in Slot \ {p} : polls'[q] = polls[q]
    BY <1>0, <1>7 DEF RemoteEvent, PollTypes
  <2>2. polls'[p].kind = "remote" /\ polls[p].kind = "none"
    BY <1>0, <1>7 DEF RemoteEvent, PollTypes, Poll, NoPoll
  <2>. QED BY <1>0, <1>7, <2>1, <2>2, NoneAssumption DEF RemoteEvent, LoopIsHeld, PollTypes
<1>8. ASSUME NEW p \in Slot, PollStep(p) PROVE LoopIsHeld'
  <2>1. UNCHANGED active
    BY <1>8 DEF PollStep, PollSend, PollSkip, PollAnswered, PollFails, PollApplies,
       PollUnauthorized, PollRetries, LoopWakes
  <2>. QED BY <1>0, <1>8, <2>1, LoopGoesOn
<1>9. CASE \/ ResultsEmpty \/ SubmitCode \/ ClearFailure \/ ClaimGranted \/ ClaimFails \/ Lapse
           \/ \E r \in Relay : Discover(r) \/ Emit(r) \/ Revoke(r)
           \/ \E healthy \in BOOLEAN : HealthAnswered(healthy)
           \/ \E t \in Timer : TimerFires(t)
  BY <1>1, <1>9 DEF ResultsEmpty, SubmitCode, ClearFailure, ClaimGranted, ClaimFails, Lapse, Discover,
     Emit, Revoke, HealthAnswered, TimerFires
<1>. QED
  BY <1>2, <1>3, <1>4, <1>5, <1>6, <1>7, <1>8, <1>9, <1>10 DEF Next

\* Without hosted relays: no loop asks while the app is closed, because the one loop
\* that was not cancelled is the one that closing the app cancels.  (The run
\* watch_reopened shows that a hosted relay breaks this.)
THEOREM ClosedAppAsksNothing ==
  ASSUME Https = {}
  PROVE  Spec => PollsOnlyWhileActive
<1> DEFINE A == \A p \in Slot : polls[p].at = "ready" /\ polls'[p].at = "sent" =>
                  active \/ polls[p].kind # "loop"
<1>1. Init => LoopIsHeld
  BY DEF Init, LoopIsHeld, NoPoll
<1>2. IInv /\ LoopIsHeld /\ [Next]_vars => LoopIsHeld'
  <2>1. LoopIsHeld /\ UNCHANGED vars => LoopIsHeld'
    BY DEF LoopIsHeld, vars, polling
  <2>. QED BY <2>1, LoopStep
<1>3. IInv /\ LoopIsHeld /\ Next => A
  <2> SUFFICES ASSUME IInv, LoopIsHeld, Next, NEW p \in Slot,
                      polls[p].at = "ready", polls'[p].at = "sent"
               PROVE  active \/ polls[p].kind # "loop"
    OBVIOUS
  <2>1. PollSend(p)
    BY NextPolls DEF IInv, Asking, Continues
  <2>. QED BY <2>1, NoneAssumption DEF PollSend, LoopIsHeld
<1>4. IInv /\ LoopIsHeld /\ [Next]_vars => [A]_vars
  BY <1>3
<1>. QED BY <1>1, <1>2, <1>4, IInvHolds, PTL DEF Spec, PollsOnlyWhileActive
=============================================================================
