------------------------ MODULE RelayDeletionProofs ------------------------
(***************************************************************************)
(* What a deletion leaves behind when requests are served one at a time,   *)
(* with stores that fail and crashes between any two calls, for any number *)
(* of installations, watches, events and tokens.  With requests that       *)
(* overlap a deletion the code does not keep these promises: the run       *)
(* relay_vs_delete shows a deletion that was answered and is not final.    *)
(***************************************************************************)
EXTENDS RelayProofs

\* Whatever a store holds is of an installation that exists, and every event of a
\* channel that does.
OwnersExist ==
    /\ \A n \in Drawn : channels.byID[n].installation \in installations \union {None}
    /\ \A c \in codes : c.installation \in installations
    /\ \A d \in devices : d.installation \in installations
    /\ \A n \in DOMAIN events : events[n].channel \in IDs(channels.byID)

\* A request works on an installation that exists, but for the one that creates it,
\* and a deletion has left nothing in the stores it has been through.
Served(r) ==
    /\ r.at \notin {"idle", "claim", "create"} => r.installation \in installations
    /\ r.at = "append" => r.id \in IDs(channels.byID)
    /\ r.at \in {"pairings", "devices", "events", "channel"} =>
         r.id = GetByInstallation(channels, r.installation)
    /\ r.at \in {"devices", "events", "channel", "installation"} =>
         \A c \in codes : c.installation # r.installation
    /\ r.at \in {"events", "channel", "installation"} =>
         \A d \in devices : d.installation # r.installation
    /\ r.at \in {"channel", "installation"} =>
         \A n \in DOMAIN events : events[n].channel # r.id
    /\ r.at = "installation" => GetByInstallation(channels, r.installation) = 0

SerialInv ==
    /\ IInv
    /\ OwnersExist
    /\ installations \intersect deleted = {}
    /\ \A h \in Handler : Served(req[h])

OneAtATime == \A g, h \in Handler : g = h
-----------------------------------------------------------------------------
LEMMA StoreFacts ==
  ASSUME SerialInv
  PROVE  /\ IInv /\ Sound(channels, drawn) /\ drawn \in 0..MaxDrawn /\ drawn \in Nat
         /\ channels.byID \in [Drawn -> Channel]
         /\ req \in [Handler -> Request] /\ \A h \in Handler : Served(req[h])
         /\ installations \subseteq Installation /\ None \notin installations
         /\ codes \subseteq Code /\ devices \subseteq Device /\ events \in Seq(Event)
<1>1. IInv
  BY DEF SerialInv
<1>2. channels.byID \in [Drawn -> Channel]
  BY <1>1, Types, StoreTypes
<1>. QED BY <1>1, <1>2, Types, NoneAssumption, MaxDrawnAssumption DEF SerialInv, IInv, TypeOK

\* A channel that is there has an owner.
LEMMA LiveIsOwned ==
  ASSUME IInv, NEW n \in IDs(channels.byID)
  PROVE  n \in Drawn /\ n <= drawn /\ channels.byID[n].installation \in Installation
BY Types DEF Sound, Within, IDs

\* With one handler, the request that moves is the only one.
LEMMA OnlyRequestServed ==
  ASSUME OneAtATime, IInv, NEW h \in Handler, NEW q \in Request, req' = [req EXCEPT ![h] = q],
         Served(q)'
  PROVE  (\A g \in Handler : Served(req[g]))'
<1>1. \A g \in Handler : req'[g] = q
  BY Types DEF OneAtATime
<1>. QED BY <1>1 DEF Served

LEMMA IdleIsServed == Served(Idle) /\ Served(Idle)'
BY IdleRequest DEF Served

\* A step that moves the request and changes no store.
LEMMA OnlyRequestMoves ==
  ASSUME OneAtATime, SerialInv, IInv', NEW h \in Handler, NEW q \in Request,
         req' = [req EXCEPT ![h] = q], Served(q),
         UNCHANGED <<installations, channels, codes, deleted, devices, events>>
  PROVE  SerialInv'
<1>1. Served(q)'
  BY DEF Served
<1>2. (\A g \in Handler : Served(req[g]))'
  BY <1>1, OnlyRequestServed, StoreFacts
<1>. QED BY <1>2 DEF SerialInv, OwnersExist

LEMMA ArrivalIsSerial ==
  ASSUME OneAtATime, SerialInv, IInv', NEW h \in Handler, Arrival(h)
  PROVE  SerialInv'
<1>1. PICK r \in Request :
        /\ req' = [req EXCEPT ![h] = r] /\ Ready(r) /\ Fresh(r)
        /\ UNCHANGED <<accounts, delivery, events, drawn, clients>>
  BY StoreFacts, ArrivalEffect
<1>2. r.at \notin {"create", "claim"} => r.installation \in installations
  BY <1>1, StoreFacts, LiveIsOwned, NoneAssumption DEF Fresh, SerialInv, OwnersExist
<1>3. Served(r)
  BY <1>1, <1>2 DEF Served, Fresh
<1>. QED BY <1>1, <1>3, OnlyRequestMoves DEF accounts, delivery

LEMMA FailureIsSerial ==
  ASSUME OneAtATime, SerialInv, IInv', NEW h \in Handler, StoreFails(h)
  PROVE  SerialInv'
<1>1. IInv /\ Served(req[h])
  BY StoreFacts
<1>2. UNCHANGED <<installations, channels, codes, deleted, devices, events>>
  BY DEF StoreFails, accounts, delivery
<1>3. CASE req[h].kind = "claim" /\ req[h].at = "upsert"
  <2>1. GoTo(h, "reply") /\ "reply" \in Stage
    BY <1>3 DEF StoreFails, Stage
  <2>2. PICK q \in Request :
          req' = [req EXCEPT ![h] = q] /\ q.at = "reply" /\ q.installation = req[h].installation
    BY <1>1, <2>1, Moves
  <2>3. Served(q)
    BY <1>1, <1>3, <2>2 DEF Served
  <2>. QED BY <1>2, <2>2, <2>3, OnlyRequestMoves
<1>4. CASE ~(req[h].kind = "claim" /\ req[h].at = "upsert")
  <2>1. req' = [req EXCEPT ![h] = Idle]
    BY <1>4 DEF StoreFails, End
  <2>. QED BY <1>2, <2>1, IdleRequest, IdleIsServed, OnlyRequestMoves
<1>. QED BY <1>3, <1>4

LEMMA CreateInstallationIsSerial ==
  ASSUME OneAtATime, SerialInv, IInv', NEW h \in Handler, CreateInstallation(h)
  PROVE  SerialInv'
<1>1. GoTo(h, "ensure") /\ "ensure" \in Stage
  BY DEF CreateInstallation, Stage
<1>2. PICK q \in Request :
        req' = [req EXCEPT ![h] = q] /\ q.at = "ensure" /\ q.installation = req[h].installation
  BY <1>1, StoreFacts, Moves
<1>3. /\ installations' = installations \union {req[h].installation}
      /\ req[h].installation \notin installations \union deleted
      /\ UNCHANGED <<channels, codes, deleted, devices, events>>
  BY DEF CreateInstallation, delivery
<1>4. Served(q)'
  BY <1>2, <1>3 DEF Served
<1>5. (\A g \in Handler : Served(req[g]))'
  BY <1>2, <1>4, StoreFacts, OnlyRequestServed
<1>6. OwnersExist' /\ (installations \intersect deleted = {})'
  BY <1>3 DEF SerialInv, OwnersExist
<1>. QED BY <1>5, <1>6 DEF SerialInv

LEMMA RereadIsSerial ==
  ASSUME OneAtATime, SerialInv, IInv', NEW h \in Handler, RereadInstallation(h)
  PROVE  SerialInv'
<1>1. UNCHANGED <<installations, channels, codes, deleted, devices, events>>
  BY DEF RereadInstallation, accounts, delivery
<1>2. CASE req[h].installation \in installations
  <2>1. GoTo(h, "ensure") /\ "ensure" \in Stage
    BY <1>2 DEF RereadInstallation, Stage
  <2>2. PICK q \in Request :
          req' = [req EXCEPT ![h] = q] /\ q.at = "ensure" /\ q.installation = req[h].installation
    BY <2>1, StoreFacts, Moves
  <2>3. Served(q)
    BY <1>2, <2>2 DEF Served
  <2>. QED BY <1>1, <2>2, <2>3, OnlyRequestMoves
<1>3. CASE req[h].installation \notin installations
  <2>1. req' = [req EXCEPT ![h] = Idle]
    BY <1>3 DEF RereadInstallation, End
  <2>. QED BY <1>1, <2>1, IdleRequest, IdleIsServed, OnlyRequestMoves
<1>. QED BY <1>2, <1>3

LEMMA EnsureIsSerial ==
  ASSUME OneAtATime, SerialInv, IInv', NEW h \in Handler, EnsureForInstallation(h)
  PROVE  SerialInv'
<1> DEFINE i == req[h].installation
           n == GetByInstallation(channels', i)
           at == IF req[h].kind = "pairing" THEN "code" ELSE "answer"
<1>1. /\ i \in Installation
      /\ \A m \in Drawn : m <= drawn => channels'.byID[m] = channels.byID[m]
      /\ n \in Drawn
      /\ \A m \in Drawn : channels'.byID[m] = channels.byID[m]
                          \/ channels'.byID[m].installation = i
  BY StoreFacts, EnsureEffect
<1>2. n \in 0..MaxDrawn /\ at \in Stage /\ at \in {"code", "answer"}
  BY <1>1, MaxDrawnAssumption DEF Drawn, Stage
<1>3. GoToWith(h, n, at)
  BY DEF EnsureForInstallation, GoToWith
<1>4. UNCHANGED <<installations, codes, deleted, devices, events>>
  BY DEF EnsureForInstallation, delivery
<1> HIDE DEF n, at
<1>5. PICK q \in Request :
        req' = [req EXCEPT ![h] = q] /\ q.at = at /\ q.installation = i
  BY <1>2, <1>3, StoreFacts, MovesNumbered
<1>6. i \in installations
  BY StoreFacts DEF Served, EnsureForInstallation
<1>7. Served(q)'
  BY <1>2, <1>4, <1>5, <1>6 DEF Served
<1>8. (\A g \in Handler : Served(req[g]))'
  BY <1>5, <1>7, StoreFacts, OnlyRequestServed
<1>9. OwnersExist'
  <2>1. ASSUME NEW m \in IDs(channels.byID)
        PROVE  m \in IDs(channels'.byID)
    BY <1>1, <2>1, StoreFacts, LiveIsOwned DEF IDs
  <2>2. \A m \in Drawn : channels'.byID[m].installation \in installations \union {None}
    BY <1>1, <1>6 DEF SerialInv, OwnersExist
  <2>. QED BY <1>4, <2>1, <2>2 DEF SerialInv, OwnersExist
<1>. QED BY <1>4, <1>8, <1>9 DEF SerialInv

LEMMA CreateCodeIsSerial ==
  ASSUME OneAtATime, SerialInv, IInv', NEW h \in Handler, CreateCode(h)
  PROVE  SerialInv'
<1>1. req[h].installation \in installations
  BY StoreFacts DEF Served, CreateCode
<1>2. req' = [req EXCEPT ![h] = Idle]
      /\ UNCHANGED <<installations, channels, deleted, devices, events>>
  BY DEF CreateCode, End, delivery
<1>3. (\A g \in Handler : Served(req[g]))'
  BY <1>2, StoreFacts, IdleRequest, IdleIsServed, OnlyRequestServed
<1>4. \A c \in codes' : c.installation \in installations
  BY <1>1 DEF CreateCode, SerialInv, OwnersExist
<1>. QED BY <1>2, <1>3, <1>4 DEF SerialInv, OwnersExist

LEMMA ClaimIsSerial ==
  ASSUME OneAtATime, SerialInv, IInv', NEW h \in Handler, Claim(h)
  PROVE  SerialInv'
<1>1. UNCHANGED <<installations, channels, deleted, devices, events>>
  BY DEF Claim, delivery
<1>2. ASSUME NEW c \in codes,
             codes' = (codes \ {c}) \union {[c EXCEPT !.claimed = TRUE]},
             req' = [req EXCEPT ![h].at = "rotate", ![h].installation = c.installation]
      PROVE  SerialInv'
  <2> DEFINE d == [c EXCEPT !.claimed = TRUE]
             j == c.installation
             q == [req[h] EXCEPT !.at = "rotate", !.installation = j]
  <2>1. c \in Code /\ d.installation = j /\ j \in installations /\ j \in Installation
    BY StoreFacts DEF Code, SerialInv, OwnersExist
  <2> HIDE DEF j, d
  <2>2. \A b \in codes' : b.installation \in installations
    BY <1>2, <2>1 DEF SerialInv, OwnersExist, d
  <2>3. req[h] \in Request /\ req \in [Handler -> Request]
    BY StoreFacts
  <2>4. req' = [req EXCEPT ![h] = q]
    BY <1>2, <2>3 DEF j
  <2>5. q \in Request /\ q.at = "rotate" /\ q.installation = j
    <3>1. PICK r \in Request : r = req[h]
      BY <2>3
    <3>2. q = [r EXCEPT !.at = "rotate", !.installation = j] /\ "rotate" \in Stage
      BY <3>1 DEF Stage
    <3> HIDE DEF q
    <3>. QED BY <2>1, <3>2 DEF Request
  <2> HIDE DEF q
  <2>6. PICK r \in Request :
          req' = [req EXCEPT ![h] = r] /\ r.at = "rotate" /\ r.installation = j
    BY <2>4, <2>5
  <2>7. Served(r)'
    BY <1>1, <2>1, <2>6 DEF Served
  <2>8. (\A g \in Handler : Served(req[g]))'
    BY <2>6, <2>7, StoreFacts, OnlyRequestServed
  <2>. QED BY <1>1, <2>2, <2>8 DEF SerialInv, OwnersExist
<1>3. CASE End(h) /\ UNCHANGED codes
  <2>1. req' = [req EXCEPT ![h] = Idle]
    BY <1>3 DEF End
  <2>. QED BY <1>1, <1>3, <2>1, IdleRequest, IdleIsServed, OnlyRequestMoves
<1>. QED BY <1>2, <1>3 DEF Claim

LEMMA RotateIsSerial ==
  ASSUME OneAtATime, SerialInv, IInv', NEW h \in Handler, RotateWatchSession(h)
  PROVE  SerialInv'
<1> DEFINE i == req[h].installation
           at == IF req[h].token = None THEN "reply" ELSE "upsert"
<1>1. UNCHANGED <<installations, codes, deleted, devices, events>>
  BY DEF RotateWatchSession, delivery
<1>2. i \in installations
  BY StoreFacts DEF Served, RotateWatchSession
<1>3. CASE GetByInstallation(channels, i) = 0
  <2>1. req' = [req EXCEPT ![h] = Idle] /\ UNCHANGED channels
    BY <1>3 DEF RotateWatchSession, End
  <2>. QED BY <1>1, <2>1, IdleRequest, IdleIsServed, OnlyRequestMoves
<1>4. CASE GetByInstallation(channels, i) # 0
  <2>1. drawn' = drawn + 1 /\ drawn < MaxDrawn /\ GoToWith(h, drawn', at)
    BY <1>4 DEF RotateWatchSession, GoToWith
  <2>2. drawn' \in 0..MaxDrawn /\ at \in Stage /\ at \in {"reply", "upsert"}
    BY <2>1, StoreFacts, MaxDrawnAssumption DEF Stage
  <2> HIDE DEF at
  <2>3. PICK q \in Request : req' = [req EXCEPT ![h] = q] /\ q.at = at /\ q.installation = i
    BY <2>1, <2>2, StoreFacts, MovesNumbered
  <2>4. Served(q)'
    BY <1>1, <1>2, <2>2, <2>3 DEF Served
  <2>5. (\A g \in Handler : Served(req[g]))'
    BY <2>3, <2>4, StoreFacts, OnlyRequestServed
  <2>6. UNCHANGED channels \/ \A k \in Drawn :
          channels'.byID[k].installation = channels.byID[k].installation
    BY StoreFacts, RotateEffect
  <2>7. ASSUME NEW k \in IDs(channels.byID)
        PROVE  k \in IDs(channels'.byID)
    BY <2>6, <2>7, StoreFacts, LiveIsOwned, NoneAssumption DEF IDs, NoChannel
  <2>8. OwnersExist'
    BY <1>1, <2>6, <2>7 DEF SerialInv, OwnersExist
  <2>. QED BY <1>1, <2>5, <2>8 DEF SerialInv
<1>. QED BY <1>3, <1>4

\* Calls that add nothing to a store, and the request ends or goes on.
LEMMA NothingIsAdded ==
  ASSUME OneAtATime, SerialInv, IInv', NEW h \in Handler, NEW q \in Request,
         req' = [req EXCEPT ![h] = q], Served(q)',
         codes' \subseteq codes, devices' \subseteq devices,
         \A n \in DOMAIN events' : \E m \in DOMAIN events : events'[n] = events[m],
         UNCHANGED <<installations, channels, deleted>>
  PROVE  SerialInv'
<1>1. (\A g \in Handler : Served(req[g]))'
  BY StoreFacts, OnlyRequestServed
<1>2. OwnersExist'
  BY DEF SerialInv, OwnersExist
<1>. QED BY <1>1, <1>2 DEF SerialInv

LEMMA SameEvents ==
  ASSUME UNCHANGED events
  PROVE  \A n \in DOMAIN events' : \E m \in DOMAIN events : events'[n] = events[m]
OBVIOUS

LEMMA UpsertIsSerial ==
  ASSUME OneAtATime, SerialInv, IInv', NEW h \in Handler, Upsert(h)
  PROVE  SerialInv'
<1> DEFINE i == req[h].installation
           new == [watch |-> req[h].watch, token |-> req[h].token, installation |-> i]
<1>1. UNCHANGED <<installations, channels, codes, deleted, events>>
  BY DEF Upsert, accounts
<1>2. i \in installations
  BY StoreFacts DEF Served, Upsert
<1>3. devices' = {d \in devices : d.watch # req[h].watch} \union {new} /\ new.installation = i
  BY DEF Upsert
<1> HIDE DEF new
<1>4. \A d \in devices' : d.installation \in installations
  BY <1>2, <1>3 DEF SerialInv, OwnersExist
<1>5. (\A g \in Handler : Served(req[g]))'
  <2>1. CASE req[h].kind = "claim"
    <3>1. GoTo(h, "reply") /\ "reply" \in Stage
      BY <2>1 DEF Upsert, Stage
    <3>2. PICK q \in Request : req' = [req EXCEPT ![h] = q] /\ q.at = "reply" /\ q.installation = i
      BY <3>1, StoreFacts, Moves
    <3>3. Served(q)'
      BY <1>1, <1>2, <3>2 DEF Served
    <3>. QED BY <3>2, <3>3, StoreFacts, OnlyRequestServed
  <2>2. CASE req[h].kind # "claim"
    <3>1. req' = [req EXCEPT ![h] = Idle]
      BY <2>2 DEF Upsert, End
    <3>. QED BY <3>1, StoreFacts, IdleRequest, IdleIsServed, OnlyRequestServed
  <2>. QED BY <2>1, <2>2
<1>. QED BY <1>1, <1>4, <1>5 DEF SerialInv, OwnersExist

LEMMA ReplyIsSerial ==
  ASSUME OneAtATime, SerialInv, IInv', NEW h \in Handler, ReplyToInstall(h) \/ ReplyToClaim(h)
  PROVE  SerialInv'
<1>1. req' = [req EXCEPT ![h] = Idle]
      /\ UNCHANGED <<installations, channels, codes, deleted, devices, events>>
  BY DEF ReplyToInstall, ReplyToClaim, End, accounts, delivery
<1>. QED BY <1>1, IdleRequest, IdleIsServed, OnlyRequestMoves

LEMMA RemoveDeviceIsSerial ==
  ASSUME OneAtATime, SerialInv, IInv', NEW h \in Handler, RemoveDevice(h)
  PROVE  SerialInv'
<1>1. req' = [req EXCEPT ![h] = Idle] /\ devices' \subseteq devices
      /\ UNCHANGED <<installations, channels, codes, deleted, events>>
  BY DEF RemoveDevice, End, accounts
<1>. QED BY <1>1, IdleRequest, IdleIsServed, SameEvents, NothingIsAdded

LEMMA LookupChannelIsSerial ==
  ASSUME OneAtATime, SerialInv, IInv', NEW h \in Handler, LookupChannel(h)
  PROVE  SerialInv'
<1> DEFINE i == req[h].installation
           n == GetByInstallation(channels, i)
<1>1. i \in installations
  BY StoreFacts DEF Served, LookupChannel
<1>2. n \in 0..MaxDrawn
  BY <1>1, StoreFacts, LookUp
<1>3. GoToWith(h, n, "pairings") /\ "pairings" \in Stage
  BY DEF LookupChannel, GoToWith, Stage
<1> HIDE DEF n
<1>4. PICK q \in Request :
        req' = [req EXCEPT ![h] = q] /\ q.at = "pairings" /\ q.installation = i /\ q.id = n
  BY <1>2, <1>3, StoreFacts, MovesNumbered
<1>5. Served(q)
  BY <1>1, <1>4 DEF Served, n
<1>. QED BY <1>4, <1>5, OnlyRequestMoves DEF LookupChannel, accounts, delivery

LEMMA RemovePairingsIsSerial ==
  ASSUME OneAtATime, SerialInv, IInv', NEW h \in Handler, RemovePairings(h)
  PROVE  SerialInv'
<1> DEFINE i == req[h].installation
<1>1. req[h].at \in DeleteStages /\ "devices" \in DeleteStages /\ GoTo(h, "devices")
  BY DEF RemovePairings, DeleteStages
<1>2. PICK q \in Request :
        req' = [req EXCEPT ![h] = q] /\ q.at = "devices" /\ q.installation = i /\ q.id = req[h].id
  BY <1>1, StoreFacts, DeletionMovesOn
<1>3. codes' = {c \in codes : c.installation # i}
      /\ UNCHANGED <<installations, channels, deleted, devices, events>>
  BY DEF RemovePairings, delivery
<1>4. i \in installations /\ req[h].id = GetByInstallation(channels, i)
  BY StoreFacts DEF Served, RemovePairings
<1>5. Served(q)'
  BY <1>2, <1>3, <1>4 DEF Served
<1>6. codes' \subseteq codes
  BY <1>3
<1>. QED BY <1>2, <1>3, <1>5, <1>6, SameEvents, NothingIsAdded

LEMMA RemoveDevicesIsSerial ==
  ASSUME OneAtATime, SerialInv, IInv', NEW h \in Handler, RemoveDevices(h)
  PROVE  SerialInv'
<1> DEFINE i == req[h].installation
           at == IF req[h].id = 0 THEN "channel" ELSE "events"
<1>1. req[h].at \in DeleteStages /\ at \in DeleteStages /\ GoTo(h, at)
  BY DEF RemoveDevices, DeleteStages
<1>2. at \in {"channel", "events"} /\ (at = "channel" => req[h].id = 0)
  OBVIOUS
<1> HIDE DEF at
<1>3. PICK q \in Request :
        req' = [req EXCEPT ![h] = q] /\ q.at = at /\ q.installation = i /\ q.id = req[h].id
  BY <1>1, StoreFacts, DeletionMovesOn
<1>4. devices' = {d \in devices : d.installation # i}
      /\ UNCHANGED <<installations, channels, codes, deleted, events>>
  BY DEF RemoveDevices, accounts
<1>5. /\ i \in installations /\ req[h].id = GetByInstallation(channels, i)
      /\ \A c \in codes : c.installation # i
  BY StoreFacts DEF Served, RemoveDevices
<1>6. \A n \in DOMAIN events : events[n].channel # 0
  <2>1. \A n \in DOMAIN events : events[n] \in Event
    <3>1. events \in Seq(Event)
      BY StoreFacts
    <3>. QED BY <3>1
  <2>. QED BY <2>1, MaxDrawnAssumption DEF Event
<1>7. Served(q)'
  BY <1>2, <1>3, <1>4, <1>5, <1>6 DEF Served
<1>8. devices' \subseteq devices
  BY <1>4
<1>. QED BY <1>3, <1>4, <1>7, <1>8, SameEvents, NothingIsAdded

LEMMA RemoveEventsIsSerial ==
  ASSUME OneAtATime, SerialInv, IInv', NEW h \in Handler, RemoveEvents(h)
  PROVE  SerialInv'
<1> DEFINE i == req[h].installation
           n == req[h].id
<1>1. req[h].at \in DeleteStages /\ "channel" \in DeleteStages /\ GoTo(h, "channel")
  BY DEF RemoveEvents, DeleteStages
<1>2. PICK q \in Request :
        req' = [req EXCEPT ![h] = q] /\ q.at = "channel" /\ q.installation = i /\ q.id = n
  BY <1>1, StoreFacts, DeletionMovesOn
<1>3. events' = Without(events, n)
      /\ UNCHANGED <<installations, channels, codes, deleted, devices>>
  BY DEF RemoveEvents, accounts, delivery
<1>4. \A m \in DOMAIN events' : /\ events'[m].channel # n
                                /\ \E k \in DOMAIN events : events'[m] = events[k]
  BY <1>3, StoreFacts, WithoutFilters
<1>5. /\ i \in installations /\ n = GetByInstallation(channels, i)
      /\ \A c \in codes : c.installation # i
      /\ \A d \in devices : d.installation # i
  BY StoreFacts DEF Served, RemoveEvents
<1>6. Served(q)'
  BY <1>2, <1>3, <1>4, <1>5 DEF Served
<1>. QED BY <1>2, <1>3, <1>4, <1>6, NothingIsAdded

LEMMA RemoveChannelIsSerial ==
  ASSUME OneAtATime, SerialInv, IInv', NEW h \in Handler, RemoveChannel(h)
  PROVE  SerialInv'
<1> DEFINE i == req[h].installation
           n == req[h].id
<1>1. req[h].at \in DeleteStages /\ "installation" \in DeleteStages /\ GoTo(h, "installation")
  BY DEF RemoveChannel, DeleteStages
<1>2. PICK q \in Request :
        req' = [req EXCEPT ![h] = q] /\ q.at = "installation" /\ q.installation = i /\ q.id = n
  BY <1>1, StoreFacts, DeletionMovesOn
<1>3. UNCHANGED <<installations, codes, deleted, devices, events>>
  BY DEF RemoveChannel, delivery
<1>4. /\ i \in installations /\ n = GetByInstallation(channels, i)
      /\ \A c \in codes : c.installation # i
      /\ \A d \in devices : d.installation # i
      /\ \A m \in DOMAIN events : events[m].channel # n
  BY StoreFacts DEF Served, RemoveChannel
<1>5. /\ GetByInstallation(channels', i) = 0
      /\ \A k \in Drawn : channels'.byID[k] =
           IF k = GetByInstallation(channels, i) THEN NoChannel ELSE channels.byID[k]
  BY StoreFacts, RemoveEffect
<1>6. Served(q)'
  BY <1>2, <1>3, <1>4, <1>5 DEF Served
<1>7. (\A g \in Handler : Served(req[g]))'
  BY <1>2, <1>6, StoreFacts, OnlyRequestServed
<1>8. \A k \in Drawn : channels'.byID[k].installation \in installations \union {None}
  BY <1>5 DEF SerialInv, OwnersExist, NoChannel
<1>9. \A m \in DOMAIN events : events[m].channel \in IDs(channels'.byID)
  BY <1>4, <1>5 DEF SerialInv, OwnersExist, IDs
<1>. QED BY <1>3, <1>7, <1>8, <1>9 DEF SerialInv, OwnersExist

LEMMA RemoveInstallationIsSerial ==
  ASSUME OneAtATime, SerialInv, IInv', NEW h \in Handler, RemoveInstallation(h)
  PROVE  SerialInv'
<1> DEFINE i == req[h].installation
<1>1. /\ installations' = installations \ {i} /\ deleted' = deleted \union {i}
      /\ req' = [req EXCEPT ![h] = Idle]
      /\ UNCHANGED <<channels, codes, devices, events>>
  BY DEF RemoveInstallation, End, delivery
<1>2. /\ i \in installations /\ GetByInstallation(channels, i) = 0
      /\ \A c \in codes : c.installation # i
      /\ \A d \in devices : d.installation # i
  BY StoreFacts DEF Served, RemoveInstallation
<1>3. \A k \in Drawn : channels.byID[k].installation # i
  <2>1. channels.byInstallation[i] = 0 /\ i \in Installation
    BY <1>2, StoreFacts, LookUp
  <2>. QED BY <2>1, StoreFacts DEF Sound, Indexed, Drawn
<1>4. (\A g \in Handler : Served(req[g]))'
  BY <1>1, StoreFacts, IdleRequest, IdleIsServed, OnlyRequestServed
<1> HIDE DEF i
<1>5. OwnersExist'
  BY <1>1, <1>2, <1>3 DEF SerialInv, OwnersExist
<1>. QED BY <1>1, <1>4, <1>5 DEF SerialInv

LEMMA AppendIsSerial ==
  ASSUME OneAtATime, SerialInv, IInv', NEW h \in Handler, AppendUnique(h)
  PROVE  SerialInv'
<1> DEFINE e == [channel |-> req[h].id, key |-> req[h].key]
<1>1. UNCHANGED <<installations, channels, codes, deleted, devices>>
  BY DEF AppendUnique, accounts, delivery
<1>2. e.channel \in IDs(channels.byID) /\ req[h].installation \in installations
  BY StoreFacts DEF Served, AppendUnique
<1>3. \A n \in DOMAIN events' : events'[n] = e \/ \E m \in DOMAIN events : events'[n] = events[m]
  BY StoreFacts, AppendEffect
<1> HIDE DEF e
<1>4. OwnersExist'
  BY <1>1, <1>2, <1>3 DEF SerialInv, OwnersExist
<1>5. (\A g \in Handler : Served(req[g]))'
  <2>1. CASE End(h)
    <3>1. req' = [req EXCEPT ![h] = Idle]
      BY <2>1 DEF End
    <3>. QED BY <3>1, StoreFacts, IdleRequest, IdleIsServed, OnlyRequestServed
  <2>2. CASE GoTo(h, "snapshot")
    <3>1. "snapshot" \in Stage
      BY DEF Stage
    <3>2. PICK q \in Request :
            /\ req' = [req EXCEPT ![h] = q]
            /\ q.at = "snapshot" /\ q.installation = req[h].installation
      BY <2>2, <3>1, StoreFacts, Moves
    <3>3. Served(q)'
      BY <1>1, <1>2, <3>2 DEF Served
    <3>. QED BY <3>2, <3>3, StoreFacts, OnlyRequestServed
  <2>. QED BY <2>1, <2>2 DEF AppendUnique
<1>. QED BY <1>1, <1>4, <1>5 DEF SerialInv

LEMMA SnapshotIsSerial ==
  ASSUME OneAtATime, SerialInv, IInv', NEW h \in Handler, SnapshotDevices(h)
  PROVE  SerialInv'
<1>1. UNCHANGED <<installations, channels, codes, deleted, devices, events>>
  BY DEF SnapshotDevices, accounts, delivery
<1>2. PICK q \in Request :
        /\ req' = [req EXCEPT ![h] = q]
        /\ q.at \in {"idle", "send"} /\ (q.at = "send" => q.installation = req[h].installation)
  BY StoreFacts, SnapshotEffect
<1>3. Served(q)
  BY <1>2, StoreFacts DEF Served, SnapshotDevices
<1>. QED BY <1>1, <1>2, <1>3, OnlyRequestMoves

LEMMA SendIsSerial ==
  ASSUME OneAtATime, SerialInv, IInv', NEW h \in Handler, Send(h)
  PROVE  SerialInv'
<1>1. UNCHANGED <<installations, channels, codes, deleted, devices, events>>
  BY DEF Send, accounts
<1>2. PICK q \in Request :
        /\ req' = [req EXCEPT ![h] = q]
        /\ q.at \in {"idle", "send", "forget"}
        /\ q.at # "idle" => q.installation = req[h].installation
  BY StoreFacts, SendEffect
<1>3. Served(q)
  BY <1>2, StoreFacts DEF Served, Send
<1>. QED BY <1>1, <1>2, <1>3, OnlyRequestMoves

LEMMA RemoveByTokenIsSerial ==
  ASSUME OneAtATime, SerialInv, IInv', NEW h \in Handler, RemoveByToken(h)
  PROVE  SerialInv'
<1>1. devices' \subseteq devices /\ UNCHANGED <<installations, channels, codes, deleted, events>>
  BY DEF RemoveByToken, accounts
<1>2. CASE End(h)
  <2>1. req' = [req EXCEPT ![h] = Idle]
    BY <1>2 DEF End
  <2>. QED BY <1>1, <2>1, IdleRequest, IdleIsServed, SameEvents, NothingIsAdded
<1>3. CASE GoTo(h, "send")
  <2>1. "send" \in Stage
    BY DEF Stage
  <2>2. PICK q \in Request :
          req' = [req EXCEPT ![h] = q] /\ q.at = "send" /\ q.installation = req[h].installation
    BY <1>3, <2>1, StoreFacts, Moves
  <2>3. Served(q)'
    BY <1>1, <2>2, StoreFacts DEF Served, RemoveByToken
  <2>. QED BY <1>1, <2>2, <2>3, SameEvents, NothingIsAdded
<1>. QED BY <1>2, <1>3 DEF RemoveByToken
-----------------------------------------------------------------------------
(***************************************************************************)
(* The invariant and what it says of deletions.                            *)
(***************************************************************************)
LEMMA CrashIsSerial ==
  ASSUME SerialInv, IInv', Crash
  PROVE  SerialInv'
<1>1. UNCHANGED <<installations, channels, codes, deleted, devices, events>>
  BY StoreFacts, RestartIsExact DEF Crash, RestartChangesNothing, delivery
<1>2. \A h \in Handler : req'[h] = Idle
  BY DEF Crash
<1>3. (\A h \in Handler : Served(req[h]))'
  BY <1>2, IdleRequest DEF Served
<1>. QED BY <1>1, <1>3 DEF SerialInv, OwnersExist

LEMMA NextIsSerial ==
  ASSUME OneAtATime, SerialInv, [Next]_vars
  PROVE  SerialInv'
<1>1. IInv'
  BY StoreFacts, NextKeepsIInv
<1>2. ASSUME NEW h \in Handler, Step(h)
      PROVE  SerialInv'
  BY <1>1, <1>2, CreateInstallationIsSerial, RereadIsSerial, EnsureIsSerial, ReplyIsSerial,
     CreateCodeIsSerial, ClaimIsSerial, RotateIsSerial, UpsertIsSerial, RemoveDeviceIsSerial,
     LookupChannelIsSerial, RemovePairingsIsSerial, RemoveDevicesIsSerial,
     RemoveEventsIsSerial, RemoveChannelIsSerial, RemoveInstallationIsSerial,
     AppendIsSerial, SnapshotIsSerial, SendIsSerial, RemoveByTokenIsSerial DEF Step
<1>3. ASSUME NEW h \in Handler, Arrival(h) \/ StoreFails(h)
      PROVE  SerialInv'
  BY <1>1, <1>3, ArrivalIsSerial, FailureIsSerial
<1>4. CASE Crash
  BY <1>1, <1>4, CrashIsSerial
<1>5. ASSUME UNCHANGED <<installations, channels, codes, deleted, devices, events, req>>
      PROVE  SerialInv'
  <2>1. (\A h \in Handler : Served(req[h]))'
    BY <1>5, StoreFacts DEF Served
  <2>. QED BY <1>1, <1>5, <2>1 DEF SerialInv, OwnersExist
<1>6. ASSUME NEW w \in Watch, RefreshPushToken(w)
      PROVE  SerialInv'
  BY <1>5, <1>6 DEF RefreshPushToken, accounts
<1>7. CASE UNCHANGED vars
  BY <1>5, <1>7 DEF vars, accounts, delivery
<1>. QED BY <1>2, <1>3, <1>4, <1>6, <1>7 DEF Next

\* SerialInv holds in every state when requests are served one at a time.
THEOREM SerialInvHolds ==
  ASSUME OneAtATime
  PROVE  Spec => []SerialInv
<1>1. Init => SerialInv
  <2> SUFFICES ASSUME Init PROVE SerialInv
    OBVIOUS
  <2>1. IInv
    BY InitIInv
  <2>2. \A n \in Drawn : channels.byID[n] = NoChannel
    BY DEF Init, Opened
  <2>3. OwnersExist /\ installations \intersect deleted = {}
    BY <2>2 DEF Init, OwnersExist, NoChannel
  <2>4. \A h \in Handler : Served(req[h])
    BY IdleIsServed DEF Init
  <2>. QED BY <2>1, <2>3, <2>4 DEF SerialInv
<1>2. SerialInv /\ [Next]_vars => SerialInv'
  BY NextIsSerial
<1>. QED BY <1>1, <1>2, PTL DEF Spec

\* NothingIsStranded: a deletion that a failing store or a crash cut short left no
\* record that its installation's token cannot still delete.
THEOREM DeletionCanBeRepeated ==
  ASSUME OneAtATime
  PROVE  Spec => []NothingIsStranded
<1>1. SerialInv => NothingIsStranded
  BY NoneAssumption DEF SerialInv, OwnersExist, NothingIsStranded, HasRecords
<1>. QED BY <1>1, SerialInvHolds, PTL

\* The channel an installation's hooks knew is gone with the installation.
LEMMA DeletedHasNoChannel ==
  ASSUME SerialInv, NEW i \in deleted
  PROVE  /\ i \in Installation /\ hook[i] \in Drawn
         /\ \A n \in Drawn : channels.byID[n].installation # i
         /\ hook[i] \notin IDs(channels.byID)
<1>1. i \in Installation /\ hook[i] \in 0..MaxDrawn /\ hook[i] # 0 /\ Holds(i, hook[i])
  BY DEF SerialInv, IInv, TypeOK, DeletedHaveHook, HooksOpenTheirOwn
<1>2. hook[i] \in Drawn
  BY <1>1, MaxDrawnAssumption DEF Drawn
<1>3. i \notin installations /\ i # None
  BY <1>1, NoneAssumption DEF SerialInv
<1>4. \A n \in Drawn : channels.byID[n].installation # i
  BY <1>3 DEF SerialInv, OwnersExist
<1>. QED BY <1>1, <1>2, <1>4 DEF Holds

\* DeletedRecordsAreGone: a deletion that was answered 204 left no registration and no
\* event of the installation's channel.
THEOREM DeletionIsComplete ==
  ASSUME OneAtATime
  PROVE  Spec => []DeletedRecordsAreGone
<1>1. SerialInv => DeletedRecordsAreGone
  <2> SUFFICES ASSUME SerialInv, NEW i \in deleted
               PROVE  /\ \A d \in devices : d.installation # i
                      /\ \A n \in DOMAIN events : events[n].channel # hook[i]
    BY DEF DeletedRecordsAreGone
  <2>1. hook[i] \notin IDs(channels.byID) /\ i \notin installations
    BY DeletedHasNoChannel DEF SerialInv
  <2>. QED BY <2>1 DEF SerialInv, OwnersExist
<1>. QED BY <1>1, SerialInvHolds, PTL

\* DeletedTokensAreRevoked: ... and no token that a hook or a watch holds opens its
\* channel.
THEOREM DeletionRevokes ==
  ASSUME OneAtATime
  PROVE  Spec => []DeletedTokensAreRevoked
<1>1. SerialInv => DeletedTokensAreRevoked
  <2> SUFFICES ASSUME SerialInv, NEW i \in deleted
               PROVE  /\ GetByProducerToken(channels, hook[i]) = 0
                      /\ \A w \in Watch : i \notin Opens(w)
    BY DEF DeletedTokensAreRevoked
  <2>1. /\ hook[i] \in Drawn /\ hook[i] \notin IDs(channels.byID)
        /\ \A n \in Drawn : channels.byID[n].installation # i
    BY DeletedHasNoChannel
  <2>2. GetByProducerToken(channels, hook[i]) = 0
    BY <2>1, StoreFacts, ProducerOpens
  <2>3. \A w \in Watch : i \notin Opens(w)
    BY <2>1 DEF Opens
  <2>. QED BY <2>2, <2>3
<1>. QED BY <1>1, SerialInvHolds, PTL
=============================================================================
