------------------------------- MODULE Relay -------------------------------
(***************************************************************************)
(* internal/api/server.go: the relay's request handlers over its five      *)
(* stores, and the pushes they cause.                                      *)
(*                                                                         *)
(* Each handler runs in a goroutine of its own and calls one store after   *)
(* the other; only a single call is atomic.  A call either takes effect in *)
(* memory and in its file or, when it cannot persist, in neither           *)
(* (EventStore and WatchPairings model that inside a store), so a store is *)
(* one variable here, and a restart of the process loses the requests in   *)
(* flight and rebuilds what is not in a file: the channel store's indexes  *)
(* (ChannelStore).  A token is authenticated once, when the request starts. *)
(* Random IDs and tokens are numbers that are drawn once.                  *)
(*                                                                         *)
(* An operator that is named after another with an underscore              *)
(* (Upsert_Appends) is a wrong variant of it, kept to show which property  *)
(* notices the difference.                                                 *)
(***************************************************************************)
EXTENDS Integers, Sequences, FiniteSets, ChannelStore

CONSTANTS
    Handler,       \* the goroutines that serve requests
    Kinds,         \* the kinds of requests clients send in this model
    Watch,         \* watch installation IDs
    PushToken,     \* tokens APNs gives to watches
    Key,           \* deduplication keys
    MaxEvents      \* events kept over all channels

ASSUME MaxEventsAssumption == MaxEvents \in Nat \ {0}
ASSUME NoTokenAssumption == None \notin Watch \union PushToken \union Key

VARIABLES
    \* The stores.
    installations, \* IDs in the installation store
    channels,      \* the channel store
    codes,         \* pairing codes
    devices,       \* push registrations, at most one per watch
    events,        \* the event log, oldest first
    \* The requests in flight, and the world outside.
    req,           \* per handler, the request it serves
    drawn,         \* how many IDs and tokens were drawn
    hook,          \* per installation, the producer token its hooks hold, or 0
    paired,        \* per watch, the session token it holds, or 0
    pushToken,     \* per watch, the token APNs last gave it
    dead,          \* tokens APNs rejects as unregistered
    \* History.
    deleted,       \* installations whose deletion was answered 204
    pushes         \* pushes APNs accepted, per event key and watch, up to 2

accounts == <<installations, channels, codes, deleted>>
delivery == <<devices, pushes, pushToken, dead>>
clients == <<hook, paired>>
vars == <<accounts, delivery, events, req, drawn, clients>>

AllKinds == {"install", "restore", "pairing", "claim", "event", "register",
             "unregister", "test", "delete"}

Idle == [kind |-> "none", at |-> "idle", installation |-> None, id |-> 0,
         watch |-> None, token |-> None, key |-> None, queue |-> {}]

Device == [watch : Watch, installation : Installation, token : PushToken]

Stage == {"idle", "create", "reread", "ensure", "code", "claim", "rotate", "upsert",
          "reply", "answer", "append", "snapshot", "send", "forget", "remove",
          "lookup", "pairings", "devices", "events", "channel", "installation"}

Request ==
    [kind : Kinds \union {"none"}, at : Stage,
     installation : Installation \union {None}, id : 0..MaxDrawn,
     watch : Watch \union {None}, token : PushToken \union {None},
     key : Key \union {None}, queue : SUBSET Device]

Code == [installation : Installation, id : 1..MaxDrawn, claimed : BOOLEAN]

Event == [channel : 1..MaxDrawn, key : Key]

TypeOK ==
    /\ installations \subseteq Installation
    /\ channels \in Store
    /\ codes \subseteq Code
    /\ devices \subseteq Device
    /\ \A d, e \in devices : d.watch = e.watch => d = e
    /\ events \in Seq(Event)
    /\ req \in [Handler -> Request]
    /\ drawn \in 0..MaxDrawn
    /\ hook \in [Installation -> 0..MaxDrawn]
    /\ paired \in [Watch -> 0..MaxDrawn]
    /\ pushToken \in [Watch -> PushToken] /\ dead \subseteq PushToken
    /\ deleted \subseteq Installation
    /\ pushes \in [(1..MaxDrawn) \X Key \X Watch -> 0..2]

Init ==
    /\ installations = {} /\ codes = {} /\ devices = {} /\ events = <<>>
    /\ channels = Opened([n \in Drawn |-> NoChannel])
    /\ req = [h \in Handler |-> Idle]
    /\ drawn = 0
    /\ hook = [i \in Installation |-> 0] /\ paired = [w \in Watch |-> 0]
    /\ pushToken \in [Watch -> PushToken]
    /\ \A v, w \in Watch : pushToken[v] = pushToken[w] => v = w
    /\ dead = {}
    /\ deleted = {}
    /\ pushes = [p \in (1..MaxDrawn) \X Key \X Watch |-> 0]
-----------------------------------------------------------------------------
(***************************************************************************)
(* A request arrives and its token is resolved (withAuth, resolveAuth).    *)
(***************************************************************************)
Begin(h, r) ==
    /\ req[h] = Idle
    /\ r.kind \in Kinds
    /\ req' = [req EXCEPT ![h] = r]
    /\ UNCHANGED <<accounts, delivery, events, drawn, clients>>

\* POST /v1/installations, without and with an installation token: a client
\* has one once it was answered.
BeginInstall(h) == \E i \in Installation \ (installations \union deleted) :
    Begin(h, [Idle EXCEPT !.kind = "install", !.at = "create", !.installation = i])

Installed == {i \in installations : hook[i] # 0}

BeginRestore(h) == \E i \in Installed :
    Begin(h, [Idle EXCEPT !.kind = "restore", !.at = "reread", !.installation = i])

\* POST /v1/watch/pairings/code and DELETE /v1/installations/current.
BeginPairing(h) == \E i \in Installed :
    Begin(h, [Idle EXCEPT !.kind = "pairing", !.at = "ensure", !.installation = i])

BeginDelete(h) == \E i \in Installed :
    Begin(h, [Idle EXCEPT !.kind = "delete", !.at = "lookup", !.installation = i])

\* POST /v1/watch/pairings/claim; the watch may not have a push token yet.
BeginClaim(h) == \E c \in codes, w \in Watch : \E t \in {pushToken[w], None} :
    Begin(h, [Idle EXCEPT !.kind = "claim", !.at = "claim", !.id = c.id,
                          !.watch = w, !.token = t])

\* POST /v1/events with a channel's producer token.
BeginEvent(h) == \E i \in Installation, k \in Key :
    /\ hook[i] # 0 /\ GetByProducerToken(channels, hook[i]) # 0
    /\ LET n == GetByProducerToken(channels, hook[i])
       IN  Begin(h, [Idle EXCEPT !.kind = "event", !.at = "append", !.id = n, !.key = k,
                                 !.installation = channels.byID[n].installation])

\* The channel a watch's session token opens.
Opens(w) == {channels.byID[n].installation : n \in
    {n \in Drawn : paired[w] # 0 /\ GetByWatchToken(channels, paired[w]) = n}}

\* POST and DELETE /v1/watch/devices and POST /v1/watch/test-notification with
\* the watch's session token.
BeginRegister(h) == \E w \in Watch : \E i \in Opens(w) :
    Begin(h, [Idle EXCEPT !.kind = "register", !.at = "upsert",
                          !.installation = i, !.watch = w, !.token = pushToken[w]])

BeginUnregister(h) == \E w \in Watch : \E i \in Opens(w) :
    Begin(h, [Idle EXCEPT !.kind = "unregister", !.at = "remove",
                          !.installation = i, !.watch = w])

BeginTest(h) == \E w \in Watch : \E i \in Opens(w) :
    Begin(h, [Idle EXCEPT !.kind = "test", !.at = "snapshot", !.installation = i])
-----------------------------------------------------------------------------
(***************************************************************************)
(* Steps of the handlers: one store call each.                             *)
(***************************************************************************)
GoTo(h, at) == req' = [req EXCEPT ![h].at = at]
End(h) == req' = [req EXCEPT ![h] = Idle]

\* A call that cannot persist is rolled back and the request is answered with an error;
\* only the registration a claim makes on the side is given up silently.
StoreFails(h) ==
    /\ req[h].at \in {"create", "ensure", "code", "claim", "rotate", "upsert",
                      "append", "remove", "pairings", "devices", "events",
                      "channel", "installation"}
    /\ IF req[h].kind = "claim" /\ req[h].at = "upsert"
       THEN GoTo(h, "reply")
       ELSE End(h)
    /\ UNCHANGED <<accounts, delivery, events, drawn, clients>>

\* installations.Create
CreateInstallation(h) ==
    /\ req[h].at = "create"
    /\ req[h].installation \notin installations \union deleted
    /\ installations' = installations \union {req[h].installation}
    /\ GoTo(h, "ensure")
    /\ UNCHANGED <<channels, codes, deleted, delivery, events, drawn, clients>>

\* The restoring handler reads the installation a second time; if it is gone,
\* EnsureForInstallation refuses the empty ID.
RereadInstallation(h) ==
    /\ req[h].at = "reread"
    /\ IF req[h].installation \in installations THEN GoTo(h, "ensure") ELSE End(h)
    /\ UNCHANGED <<accounts, delivery, events, drawn, clients>>

EnsureForInstallation_NoLookup(h) ==
    /\ req[h].at = "ensure"
    /\ drawn < MaxDrawn /\ drawn' = drawn + 1
    /\ channels' = WithChannel(channels, req[h].installation, drawn')
    /\ req' = [req EXCEPT ![h].id = drawn',
                          ![h].at = IF req[h].kind = "pairing" THEN "code" ELSE "answer"]
    /\ UNCHANGED <<installations, codes, deleted, delivery, events, clients>>

\* channels.EnsureForInstallation
EnsureForInstallation(h) ==
    LET i == req[h].installation
    IN  /\ req[h].at = "ensure"
        /\ IF GetByInstallation(channels, i) # 0
           THEN UNCHANGED <<channels, drawn>>
           ELSE /\ drawn < MaxDrawn /\ drawn' = drawn + 1
                /\ channels' = WithChannel(channels, i, drawn')
        /\ req' = [req EXCEPT ![h].id = GetByInstallation(channels', i),
                     ![h].at = IF req[h].kind = "pairing" THEN "code" ELSE "answer"]
        /\ UNCHANGED <<installations, codes, deleted,
                       delivery, events, clients>>

\* The client gets its installation token and the producer token.
ReplyToInstall(h) ==
    /\ req[h].at = "answer"
    /\ hook' = [hook EXCEPT ![req[h].installation] = req[h].id]
    /\ End(h)
    /\ UNCHANGED <<accounts, delivery, events, drawn, paired>>

\* watchPairings.Create
CreateCode(h) ==
    LET i == req[h].installation
    IN  /\ req[h].at = "code"
        /\ drawn < MaxDrawn /\ drawn' = drawn + 1
        /\ codes' = {c \in codes : c.installation = i => c.claimed} \union
                    {[installation |-> i, id |-> drawn', claimed |-> FALSE]}
        /\ End(h)
        /\ UNCHANGED <<installations, channels, deleted,
                       delivery, events, clients>>

\* watchPairings.Claim
Claim(h) ==
    /\ req[h].at = "claim"
    /\ \/ \E c \in codes :
            /\ c.id = req[h].id /\ ~c.claimed
            /\ codes' = (codes \ {c}) \union {[c EXCEPT !.claimed = TRUE]}
            /\ req' = [req EXCEPT ![h].at = "rotate",
                                  ![h].installation = c.installation]
       \/ /\ \A c \in codes : c.id = req[h].id => c.claimed
          /\ End(h)
          /\ UNCHANGED codes
    /\ UNCHANGED <<installations, channels, deleted,
                   delivery, events, drawn, clients>>

\* channels.RotateWatchSession; without a channel the claim fails.
RotateWatchSession(h) ==
    LET i == req[h].installation
    IN  /\ req[h].at = "rotate"
        /\ IF GetByInstallation(channels, i) = 0
           THEN End(h) /\ UNCHANGED <<channels, drawn>>
           ELSE /\ drawn < MaxDrawn /\ drawn' = drawn + 1
                /\ channels' = WithWatchSession(channels, i, drawn')
                /\ req' = [req EXCEPT ![h].id = drawn',
                             ![h].at = IF req[h].token = None THEN "reply" ELSE "upsert"]
        /\ UNCHANGED <<installations, codes, deleted,
                       delivery, events, clients>>

Upsert_Appends(h) ==
    /\ req[h].at = "upsert"
    /\ devices' = devices \union
                  {[watch |-> req[h].watch, token |-> req[h].token,
                    installation |-> req[h].installation]}
    /\ IF req[h].kind = "claim" THEN GoTo(h, "reply") ELSE End(h)
    /\ UNCHANGED <<accounts, pushes, pushToken, dead, events, drawn, clients>>

\* devices.Upsert: a watch has one registration, of the last to claim it.
Upsert(h) ==
    /\ req[h].at = "upsert"
    /\ devices' = {d \in devices : d.watch # req[h].watch} \union
                  {[watch |-> req[h].watch, token |-> req[h].token,
                    installation |-> req[h].installation]}
    /\ IF req[h].kind = "claim" THEN GoTo(h, "reply") ELSE End(h)
    /\ UNCHANGED <<accounts, pushes, pushToken, dead, events, drawn, clients>>

\* The claiming watch gets its session token.
ReplyToClaim(h) ==
    /\ req[h].at = "reply"
    /\ paired' = [paired EXCEPT ![req[h].watch] = req[h].id]
    /\ End(h)
    /\ UNCHANGED <<accounts, delivery, events, drawn, hook>>

\* devices.Remove
RemoveDevice(h) ==
    /\ req[h].at = "remove"
    /\ devices' = {d \in devices : ~(d.watch = req[h].watch /\
                                     d.installation = req[h].installation)}
    /\ End(h)
    /\ UNCHANGED <<accounts, pushes, pushToken, dead, events, drawn, clients>>
-----------------------------------------------------------------------------
(***************************************************************************)
(* handleDeleteInstallation: five stores, the identity last.               *)
(***************************************************************************)
LookupChannel_IdentityFirst(h) ==
    /\ req[h].at = "lookup"
    /\ installations' = installations \ {req[h].installation}
    /\ req' = [req EXCEPT ![h].at = "pairings",
                          ![h].id = GetByInstallation(channels, req[h].installation)]
    /\ UNCHANGED <<channels, codes, deleted, delivery, events, drawn, clients>>

LookupChannel(h) ==
    /\ req[h].at = "lookup"
    /\ req' = [req EXCEPT ![h].at = "pairings",
                          ![h].id = GetByInstallation(channels, req[h].installation)]
    /\ UNCHANGED <<accounts, delivery, events, drawn, clients>>

RemovePairings(h) ==
    /\ req[h].at = "pairings"
    /\ codes' = {c \in codes : c.installation # req[h].installation}
    /\ GoTo(h, "devices")
    /\ UNCHANGED <<installations, channels, deleted,
                   delivery, events, drawn, clients>>

RemoveDevices_SkipsEvents(h) ==
    /\ req[h].at = "devices"
    /\ devices' = {d \in devices : d.installation # req[h].installation}
    /\ GoTo(h, "channel")
    /\ UNCHANGED <<accounts, pushes, pushToken, dead, events, drawn, clients>>

RemoveDevices(h) ==
    /\ req[h].at = "devices"
    /\ devices' = {d \in devices : d.installation # req[h].installation}
    /\ GoTo(h, IF req[h].id = 0 THEN "channel" ELSE "events")
    /\ UNCHANGED <<accounts, pushes, pushToken, dead, events, drawn, clients>>

\* RemoveForChannel goes through the log and appends what it keeps.
Without(log, c) ==
    LET kept[n \in 0..Len(log)] ==
          IF n = 0 THEN <<>>
          ELSE IF log[n].channel = c THEN kept[n - 1]
          ELSE Append(kept[n - 1], log[n])
    IN  kept[Len(log)]

RemoveEvents(h) ==
    /\ req[h].at = "events"
    /\ events' = Without(events, req[h].id)
    /\ GoTo(h, "channel")
    /\ UNCHANGED <<accounts, delivery, drawn, clients>>

RemoveChannel(h) ==
    /\ req[h].at = "channel"
    /\ channels' = WithoutInstallation(channels, req[h].installation)
    /\ GoTo(h, "installation")
    /\ UNCHANGED <<installations, codes, deleted, delivery, events, drawn, clients>>

RemoveInstallation(h) ==
    /\ req[h].at = "installation"
    /\ installations' = installations \ {req[h].installation}
    /\ deleted' = deleted \union {req[h].installation}
    /\ End(h)
    /\ UNCHANGED <<channels, codes, delivery, events, drawn, clients>>
-----------------------------------------------------------------------------
(***************************************************************************)
(* handleCreateEvent and deliverEvent.                                     *)
(***************************************************************************)
Keep(log) == IF Len(log) > MaxEvents THEN Tail(log) ELSE log

AppendUnique_DeliversAll(h) ==
    LET e == [channel |-> req[h].id, key |-> req[h].key]
    IN  /\ req[h].at = "append"
        /\ events' = IF \E n \in DOMAIN events : events[n] = e THEN events
                     ELSE Keep(Append(events, e))
        /\ GoTo(h, "snapshot")
        /\ UNCHANGED <<accounts, delivery, drawn, clients>>

\* store.AppendUnique: only a new event is delivered.
AppendUnique(h) ==
    LET e == [channel |-> req[h].id, key |-> req[h].key]
    IN  /\ req[h].at = "append"
        /\ IF \E n \in DOMAIN events : events[n] = e
           THEN End(h) /\ UNCHANGED events
           ELSE GoTo(h, "snapshot") /\ events' = Keep(Append(events, e))
        /\ UNCHANGED <<accounts, delivery, drawn, clients>>

\* devices.ForInstallation returns a copy that is then walked.
SnapshotDevices(h) ==
    /\ req[h].at = "snapshot"
    /\ LET mine == {d \in devices : d.installation = req[h].installation}
       IN  IF mine = {} THEN End(h)
           ELSE req' = [req EXCEPT ![h].at = "send", ![h].queue = mine]
    /\ UNCHANGED <<accounts, delivery, events, drawn, clients>>

\* Model bound: the history of pushes counts to two, one too many.
Twice(n) == IF n > 2 THEN 2 ELSE n

\* apns.Client.Send: no token of ours or no answer is a failure like any answer but
\* 200 and those that name the device's token.
Outcomes(t) == {"failed", IF t \in dead THEN "unregistered" ELSE "accepted"}

\* deliverEvent sends to the devices of the copy, one after the other.
Send(h) ==
    /\ req[h].at = "send"
    /\ \E d \in req[h].queue : \E outcome \in Outcomes(d.token) :
         LET rest == req[h].queue \ {d}
             p == <<req[h].id, req[h].key, d.watch>>
         IN  /\ IF outcome = "unregistered"
                THEN req' = [req EXCEPT ![h].at = "forget", ![h].watch = d.watch,
                                        ![h].token = d.token, ![h].queue = rest]
                ELSE IF rest = {} THEN End(h)
                ELSE req' = [req EXCEPT ![h].queue = rest]
             /\ IF outcome = "accepted" /\ req[h].kind = "event"
                THEN pushes' = [pushes EXCEPT ![p] = Twice(@ + 1)]
                ELSE UNCHANGED pushes
    /\ UNCHANGED <<accounts, devices, pushToken, dead, events, drawn, clients>>

RemoveByToken_ByWatch(h) ==
    /\ req[h].at = "forget"
    /\ devices' = {d \in devices : d.watch # req[h].watch}
    /\ IF req[h].queue = {} THEN End(h) ELSE GoTo(h, "send")
    /\ UNCHANGED <<accounts, pushes, pushToken, dead, events, drawn, clients>>

\* devices.RemoveByToken; its failure to persist is not noticed.
RemoveByToken(h) ==
    /\ req[h].at = "forget"
    /\ \/ devices' = {d \in devices : d.token # req[h].token}
       \/ UNCHANGED devices
    /\ IF req[h].queue = {} THEN End(h) ELSE GoTo(h, "send")
    /\ UNCHANGED <<accounts, pushes, pushToken, dead, events, drawn, clients>>
-----------------------------------------------------------------------------
\* The process dies, restarts and opens its stores.
Crash ==
    /\ req # [h \in Handler |-> Idle]
    /\ req' = [h \in Handler |-> Idle]
    /\ channels' = Opened(channels.byID)
    /\ UNCHANGED <<installations, codes, deleted, delivery, events, drawn, clients>>

\* APNs gives the watch another token and rejects the one it had.
RefreshPushToken(w) ==
    /\ "register" \in Kinds
    /\ \E t \in PushToken \ dead :
         /\ \A v \in Watch : pushToken[v] # t
         /\ pushToken' = [pushToken EXCEPT ![w] = t]
    /\ dead' = dead \union {pushToken[w]}
    /\ UNCHANGED <<accounts, devices, pushes, events, req, drawn, clients>>

Step(h) ==
    \/ CreateInstallation(h) \/ RereadInstallation(h)
    \/ EnsureForInstallation(h) \/ ReplyToInstall(h) \/ CreateCode(h)
    \/ Claim(h) \/ RotateWatchSession(h) \/ Upsert(h) \/ ReplyToClaim(h)
    \/ RemoveDevice(h)
    \/ LookupChannel(h) \/ RemovePairings(h) \/ RemoveDevices(h)
    \/ RemoveEvents(h) \/ RemoveChannel(h) \/ RemoveInstallation(h)
    \/ AppendUnique(h) \/ SnapshotDevices(h) \/ Send(h) \/ RemoveByToken(h)

Arrival(h) ==
    \/ BeginInstall(h) \/ BeginRestore(h) \/ BeginPairing(h) \/ BeginDelete(h)
    \/ BeginClaim(h) \/ BeginEvent(h) \/ BeginRegister(h) \/ BeginUnregister(h)
    \/ BeginTest(h)

Next ==
    \/ \E h \in Handler : Arrival(h) \/ Step(h) \/ StoreFails(h)
    \/ Crash
    \/ \E w \in Watch : RefreshPushToken(w)

Spec == Init /\ [][Next]_vars
-----------------------------------------------------------------------------
(***************************************************************************)
(* Properties.                                                             *)
(***************************************************************************)
HasRecords(i) ==
    \/ \E n \in Drawn : channels.byID[n].installation = i
    \/ \E c \in codes : c.installation = i
    \/ \E d \in devices : d.installation = i

\* Whatever fails and wherever the process dies, a record an installation
\* leaves behind is one its token can still delete: the installation, and for
\* an event the channel, is there (the order of handleDeleteInstallation).
NothingIsStranded ==
    /\ \A i \in Installation : HasRecords(i) => i \in installations
    /\ \A n \in DOMAIN events : events[n].channel \in IDs(channels.byID)

\* A deletion that was answered 204 left no registration and no event behind
\* (README: "delete the installation, device registrations, event records").
DeletedRecordsAreGone ==
    \A i \in deleted :
        /\ \A d \in devices : d.installation # i
        /\ \A n \in DOMAIN events : events[n].channel # hook[i]

\* ... and no token a client holds still opens its channel ("and all scoped
\* tokens").
DeletedTokensAreRevoked ==
    \A i \in deleted : /\ GetByProducerToken(channels, hook[i]) = 0
                        /\ \A w \in Watch : i \notin Opens(w)

\* Both: what the README says of a deletion.
DeletionIsFinal == DeletedRecordsAreGone /\ DeletedTokensAreRevoked

\* The channel store's indexes are what a restart would rebuild: no call leaves
\* a token behind that opens a channel only until the next restart, or one
\* that opens it only after.
RestartChangesNothing == channels = Opened(channels.byID)

\* A producer or watch token that was rotated out or deleted opens nothing again,
\* whatever is re-created, restored or restarted later.
RevokedStaysRevoked ==
    [][\A t \in 1..drawn :
         /\ GetByWatchToken(channels, t) = 0 => GetByWatchToken(channels', t) = 0
         /\ GetByProducerToken(channels, t) = 0 => GetByProducerToken(channels', t) = 0]_vars

\* An event is pushed to a watch once, however often and however concurrently
\* its hook delivers it (AppendUnique's result decides who delivers).
OnePushPerKey == \A p \in DOMAIN pushes : pushes[p] <= 1

\* A late "unregistered" answer from APNs removes no registration whose token
\* APNs accepts: one made in the meantime survives (RemoveByToken).
LateAnswerKeepsNewToken ==
    [][\A h \in Handler : req[h].at = "forget" /\ req'[h].at # "forget" =>
          \A d \in devices \ devices' : d.token \in dead]_vars

\* The channel that hooks post to stays the installation's, and so the one its
\* pairing codes open, until it is deleted, whatever restores and pairings run at
\* the same time.
ProducerTokenIsStable ==
    [][\A i \in Installation :
         GetByInstallation(channels, i) \notin {0, GetByInstallation(channels', i)} =>
           \E h \in Handler : req[h].kind = "delete" /\ req[h].installation = i]_vars
=============================================================================
