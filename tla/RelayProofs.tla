----------------------------- MODULE RelayProofs -----------------------------
(***************************************************************************)
(* Theorems about Relay, for any number of installations, watches, events  *)
(* and tokens, and of requests in flight at the same time.  What a         *)
(* deletion leaves behind needs requests served one at a time and is in    *)
(* RelayDeletionProofs.                                                    *)
(***************************************************************************)
EXTENDS Relay, ChannelStoreProofs, WellFoundedInduction, FiniteSetTheorems

DeleteStages == {"lookup", "pairings", "devices", "events", "channel", "installation"}

\* n was drawn, and the channel of that number, while it is there, is i's.
Holds(i, n) ==
    /\ n <= drawn
    /\ n \in IDs(channels.byID) => channels.byID[n].installation = i

\* What a request has looked up or was given by the time its handler uses it.
Ready(r) ==
    /\ r.at \notin {"idle", "claim"} => r.installation \in Installation
    /\ r.at \in {"claim", "rotate", "upsert", "reply", "remove"} => r.watch \in Watch
    /\ r.at = "upsert" => r.token \in PushToken
    /\ r.at = "append" => r.id \in Drawn /\ r.key \in Key
    /\ r.at = "forget" => r.token \in dead
    /\ r.at = "answer" => r.id # 0 /\ Holds(r.installation, r.id)
    /\ r.at \in DeleteStages => r.kind = "delete" /\ hook[r.installation] # 0

RequestsAreReady == \A h \in Handler : Ready(req[h])

\* A hook's token opens its installation's channel or none: numbers are not drawn
\* twice.
HooksOpenTheirOwn == \A i \in Installation : Holds(i, hook[i])

\* Only what a client holds the token of is deleted.
DeletedHaveHook == \A i \in deleted : hook[i] # 0

IInv ==
    /\ TypeOK
    /\ Sound(channels, drawn)
    /\ RequestsAreReady
    /\ HooksOpenTheirOwn
    /\ DeletedHaveHook
-----------------------------------------------------------------------------
(***************************************************************************)
(* RemoveForChannel, element by element.                                   *)
(***************************************************************************)
\* A set of numbers that is not empty has a least one.
LEMMA Least ==
  ASSUME NEW S \in SUBSET Nat, S # {}
  PROVE  \E n \in S : \A m \in S : n <= m
<1>1. PICK R : IsWellFoundedOn(R, Nat) /\ \A m, n \in Nat : m < n => <<m, n>> \in R
  <2> DEFINE R == OpToRel(<, Nat)
  <2>1. IsWellFoundedOn(R, Nat)
    BY NatLessThanWellFounded
  <2>2. \A m, n \in Nat : m < n => <<m, n>> \in R
    BY DEF OpToRel
  <2> HIDE DEF R
  <2>. QED BY <2>1, <2>2, Zenon
<1>2. S \subseteq Nat
  OBVIOUS
<1>3. PICK n \in S : \A m \in S : ~ (<<m, n>> \in R)
  <2>1. IsWellFoundedOn(R, Nat)
    BY <1>1
  <2>. QED BY <1>2, <2>1, WFMin
<1>4. ASSUME NEW m \in S
      PROVE  n <= m
  <2>1. ~(m < n)
    BY <1>1, <1>2, <1>3
  <2>2. m \in Nat /\ n \in Nat
    BY <1>2
  <2>. QED BY <2>1, <2>2
<1>. QED BY <1>4

LEMMA WithoutFilters ==
  ASSUME NEW log \in Seq(Event), NEW c
  PROVE  /\ Without(log, c) \in Seq(Event)
         /\ \A n \in DOMAIN Without(log, c) :
              /\ Without(log, c)[n].channel # c
              /\ \E m \in DOMAIN log : Without(log, c)[n] = log[m]
<1> DEFINE N == Len(log)
           Next1(g, n) == IF n = 0 THEN <<>>
                          ELSE IF log[n].channel = c THEN g[n - 1]
                          ELSE Append(g[n - 1], log[n])
           Is(n, g) == g = [m \in 0..n |-> Next1(g, m)]
           kept == CHOOSE g : Is(N, g)
<1>1. N \in Nat /\ DOMAIN log = 1..N /\ \A n \in 1..N : log[n] \in Event
  OBVIOUS
<1>2. Without(log, c) = kept[N]
  BY DEF Without
<1>3. Is(N, kept)
  <2> DEFINE bad == {n \in 0..N : ~ \E g : Is(n, g)}
  <2>1. SUFFICES bad = {}
    <3>1. N \in 0..N
      BY <1>1
    <3>2. \E g : Is(N, g)
      BY <2>1, <3>1
    <3> HIDE DEF Is
    <3>. QED BY <3>2
  <2>2. SUFFICES ASSUME bad # {} PROVE FALSE
    OBVIOUS
  <2>3. bad \in SUBSET Nat
    BY <1>1
  <2>4. PICK n \in bad : \A m \in bad : n <= m
    <3> HIDE DEF bad
    <3>. QED BY <2>2, <2>3, Least
  <2>5. n \in 0..N /\ n \in Nat
    BY <1>1
  <2>6. CASE n = 0
    <3> DEFINE g == [m \in 0..0 |-> <<>>]
    <3>1. Is(0, g)
      <4>1. \A m \in 0..0 : m = 0
        OBVIOUS
      <4>. QED BY <4>1
    <3> HIDE DEF Is, g
    <3>. QED BY <2>5, <2>6, <3>1
  <2>7. CASE n # 0
    <3>1. n - 1 \in 0..N /\ ~(n <= n - 1)
      BY <1>1, <2>5, <2>7
    <3>2. n - 1 \notin bad
      BY <2>4, <3>1
    <3>3. PICK g : Is(n - 1, g)
      BY <3>1, <3>2
    <3> DEFINE f == [m \in 0..n |-> IF m = n THEN Next1(g, n) ELSE g[m]]
    <3>4. \A m \in 0..(n - 1) : g[m] = Next1(g, m)
      BY <3>3
    <3>5. \A m \in 0..n : f[m] = Next1(f, m)
      <4>1. \A m \in 0..(n - 1) : f[m] = g[m]
        BY <2>5
      <4>2. f[n] = Next1(g, n)
        BY <2>5
      <4>3. n - 1 \in 0..(n - 1)
        BY <2>5, <2>7
      <4>4. Next1(f, n) = Next1(g, n)
        BY <4>1, <4>3
      <4>5. ASSUME NEW m \in 0..(n - 1)
            PROVE  f[m] = Next1(f, m)
        <5>1. m # 0 => m - 1 \in 0..(n - 1)
          BY <2>5
        <5>2. m # 0 => f[m - 1] = g[m - 1]
          BY <4>1, <5>1
        <5>. QED BY <3>4, <4>1, <5>2
      <4>6. \A m \in 0..n : m = n \/ m \in 0..(n - 1)
        BY <2>5
      <4> HIDE DEF f
      <4>. QED BY <4>2, <4>4, <4>5, <4>6
    <3>6. f = [m \in 0..n |-> f[m]]
      OBVIOUS
    <3>7. Is(n, f)
      <4> HIDE DEF f
      <4>. QED BY <3>5, <3>6
    <3> HIDE DEF Is, f
    <3>. QED BY <2>4, <3>7
  <2>. QED BY <2>6, <2>7
<1>4. /\ kept[0] = <<>>
      /\ \A n \in 1..N : kept[n] = IF log[n].channel = c THEN kept[n - 1]
                                   ELSE Append(kept[n - 1], log[n])
  <2> HIDE DEF kept
  <2>1. \A n \in 0..N : kept[n] = Next1(kept, n)
    BY <1>3
  <2>. QED BY <1>1, <2>1
<1> DEFINE Ok(s) == /\ s \in Seq(Event)
                    /\ \A n \in DOMAIN s : s[n].channel # c /\ \E m \in DOMAIN log : s[n] = log[m]
<1> HIDE DEF kept
<1>5. \A n \in 0..N : Ok(kept[n])
  <2> DEFINE bad == {n \in 0..N : ~ Ok(kept[n])}
  <2>1. SUFFICES ASSUME bad # {} PROVE FALSE
    OBVIOUS
  <2>2. bad \in SUBSET Nat
    BY <1>1
  <2>3. PICK n \in bad : \A m \in bad : n <= m
    <3> HIDE DEF bad
    <3>. QED BY <2>1, <2>2, Least
  <2>4. n \in 0..N /\ n \in Nat /\ ~Ok(kept[n])
    BY <1>1
  <2>5. n # 0
    <3>1. Ok(<<>>)
      OBVIOUS
    <3> HIDE DEF Ok
    <3>. QED BY <1>4, <2>4, <3>1
  <2>6. n - 1 \in 0..N /\ ~(n <= n - 1) /\ n \in 1..N
    BY <1>1, <2>4, <2>5
  <2>7. Ok(kept[n - 1])
    BY <2>3, <2>6
  <2>8. CASE log[n].channel = c
    <3>1. kept[n] = kept[n - 1]
      BY <1>4, <2>6, <2>8
    <3> HIDE DEF Ok
    <3>. QED BY <2>4, <2>7, <3>1
  <2>9. CASE log[n].channel # c
    <3>1. kept[n] = Append(kept[n - 1], log[n])
      BY <1>4, <2>6, <2>9
    <3> DEFINE s == kept[n - 1]
    <3>2. Ok(s) /\ log[n] \in Event /\ n \in DOMAIN log
      BY <1>1, <2>6, <2>7
    <3> HIDE DEF s
    <3>3. Append(s, log[n]) \in Seq(Event) /\ DOMAIN Append(s, log[n]) = 1..(Len(s) + 1)
          /\ Append(s, log[n])[Len(s) + 1] = log[n]
          /\ \A k \in 1..Len(s) : Append(s, log[n])[k] = s[k]
      BY <3>2
    <3>4. DOMAIN s = 1..Len(s) /\ \A k \in 1..(Len(s) + 1) : k = Len(s) + 1 \/ k \in 1..Len(s)
      <4>1. DOMAIN s = 1..Len(s) /\ Len(s) \in Nat
        BY <3>2
      <4> DEFINE l == Len(s)
      <4>2. l \in Nat
        BY <4>1
      <4> HIDE DEF l
      <4>3. \A k \in 1..(l + 1) : k = l + 1 \/ k \in 1..l
        BY <4>2
      <4>. QED BY <4>1, <4>3 DEF l
    <3>5. Ok(Append(s, log[n]))
      BY <2>9, <3>2, <3>3, <3>4
    <3>. QED BY <2>4, <3>1, <3>5 DEF s
  <2>. QED BY <2>8, <2>9
<1>6. N \in 0..N
  BY <1>1
<1>. QED BY <1>2, <1>5, <1>6
-----------------------------------------------------------------------------
(***************************************************************************)
(* What the actions make of a request.                                     *)
(***************************************************************************)
LEMMA RequestTypes ==
  ASSUME NEW r \in Request
  PROVE  /\ r.kind \in Kinds \union {"none"} /\ r.at \in Stage
         /\ r.installation \in Installation \union {None} /\ r.id \in 0..MaxDrawn
         /\ r.watch \in Watch \union {None} /\ r.token \in PushToken \union {None}
         /\ r.key \in Key \union {None} /\ r.queue \in SUBSET Device
BY DEF Request

LEMMA StageChanged ==
  ASSUME NEW r \in Request, NEW at \in Stage, NEW q, q = [r EXCEPT !.at = at]
  PROVE  /\ q \in Request /\ q.at = at /\ q.kind = r.kind
         /\ q.installation = r.installation /\ q.id = r.id /\ q.watch = r.watch
         /\ q.token = r.token /\ q.key = r.key /\ q.queue = r.queue
BY DEF Request

LEMMA NumberChanged ==
  ASSUME NEW r \in Request, NEW at \in Stage, NEW n \in 0..MaxDrawn,
         NEW q, q = [r EXCEPT !.id = n, !.at = at]
  PROVE  /\ q \in Request /\ q.at = at /\ q.kind = r.kind
         /\ q.installation = r.installation /\ q.id = n /\ q.watch = r.watch
         /\ q.token = r.token /\ q.key = r.key /\ q.queue = r.queue
BY DEF Request

LEMMA InstallationChanged ==
  ASSUME NEW r \in Request, NEW at \in Stage, NEW i \in Installation,
         NEW q, q = [r EXCEPT !.at = at, !.installation = i]
  PROVE  /\ q \in Request /\ q.at = at /\ q.kind = r.kind
         /\ q.installation = i /\ q.id = r.id /\ q.watch = r.watch
         /\ q.token = r.token /\ q.key = r.key /\ q.queue = r.queue
BY DEF Request

LEMMA QueueChanged ==
  ASSUME NEW r \in Request, NEW at \in Stage, NEW Q \in SUBSET Device,
         NEW q, q = [r EXCEPT !.at = at, !.queue = Q]
  PROVE  /\ q \in Request /\ q.at = at /\ q.kind = r.kind
         /\ q.installation = r.installation /\ q.id = r.id /\ q.watch = r.watch
         /\ q.token = r.token /\ q.key = r.key /\ q.queue = Q
BY DEF Request

LEMMA Requeued ==
  ASSUME NEW r \in Request, NEW Q \in SUBSET Device, NEW q, q = [r EXCEPT !.queue = Q]
  PROVE  /\ q \in Request /\ q.at = r.at /\ q.kind = r.kind
         /\ q.installation = r.installation /\ q.id = r.id /\ q.watch = r.watch
         /\ q.token = r.token /\ q.key = r.key /\ q.queue = Q
BY DEF Request

LEMMA AnswerNamesDevice ==
  ASSUME NEW r \in Request, NEW Q \in SUBSET Device, NEW w \in Watch, NEW t \in PushToken,
         NEW q, q = [r EXCEPT !.at = "forget", !.watch = w, !.token = t, !.queue = Q]
  PROVE  /\ q \in Request /\ q.at = "forget" /\ q.kind = r.kind
         /\ q.installation = r.installation /\ q.id = r.id /\ q.watch = w
         /\ q.token = t /\ q.key = r.key /\ q.queue = Q
BY DEF Request, Stage

OfInstallation(r, kind, at, i) == [r EXCEPT !.kind = kind, !.at = at, !.installation = i]

LEMMA RequestOf ==
  ASSUME NEW r \in Request, NEW kind \in Kinds, NEW at \in Stage, NEW i \in Installation
  PROVE  LET q == OfInstallation(r, kind, at, i)
         IN  q \in Request /\ q.kind = kind /\ q.at = at /\ q.installation = i
<1> DEFINE q == OfInstallation(r, kind, at, i)
<1>0. q = [r EXCEPT !.kind = kind, !.at = at, !.installation = i]
  BY DEF OfInstallation
<1> HIDE DEF q
<1>1. q \in Request
  <2>1. kind \in Kinds \union {"none"} /\ i \in Installation \union {None}
    OBVIOUS
  <2>. QED BY <1>0, <2>1 DEF Request
<1>2. q.kind = kind /\ q.at = at /\ q.installation = i
  BY <1>0 DEF Request
<1>. QED BY <1>1, <1>2 DEF q

LEMMA IdleRequest ==
  /\ Idle \in Request /\ Idle.kind = "none" /\ Idle.at = "idle" /\ Idle.installation = None
  /\ Idle.id = 0 /\ Idle.watch = None /\ Idle.token = None /\ Idle.key = None
  /\ Idle.queue = {}
BY MaxDrawnAssumption DEF Idle, Request, Stage

-----------------------------------------------------------------------------
(***************************************************************************)
(* The requests that a step leaves alone.                                  *)
(***************************************************************************)
\* No step takes back what a request in flight relies on.
Grows ==
    /\ dead \subseteq dead'
    /\ \A i \in Installation : hook[i] # 0 => hook'[i] # 0
    /\ \A i \in Installation, n \in 0..MaxDrawn : Holds(i, n) => Holds(i, n)'

LEMMA Types ==
  ASSUME IInv
  PROVE  /\ channels \in Store /\ Sound(channels, drawn) /\ drawn \in 0..MaxDrawn
         /\ req \in [Handler -> Request] /\ \A h \in Handler : Ready(req[h])
         /\ \A h \in Handler : req[h] \in Request
BY DEF IInv, TypeOK, RequestsAreReady

LEMMA StaysReady ==
  ASSUME NEW r \in Request, Ready(r), Grows
  PROVE  Ready(r)'
<1>1. r.id \in 0..MaxDrawn
  BY RequestTypes
<1>2. r.at \in DeleteStages \/ r.at = "answer" => r.at \notin {"idle", "claim"}
  BY DEF DeleteStages
<1>. QED BY <1>1, <1>2 DEF Ready, Grows

LEMMA OneRequestMoves ==
  ASSUME IInv, Grows, NEW h \in Handler, NEW q \in Request, req' = [req EXCEPT ![h] = q],
         Ready(q)'
  PROVE  req' \in [Handler -> Request] /\ RequestsAreReady'
<1>1. req' \in [Handler -> Request]
  BY Types
<1>2. ASSUME NEW g \in Handler
      PROVE  Ready(req[g])'
  <2>1. CASE g = h
    <3>1. req'[g] = q
      BY <2>1, Types
    <3>. QED BY <3>1 DEF Ready, Holds
  <2>2. CASE g # h
    <3>1. req'[g] = req[g]
      BY <2>2, Types
    <3> DEFINE r == req[g]
    <3>2. r \in Request /\ Ready(r)
      BY Types
    <3>3. PICK p \in Request : p = r
      BY <3>2
    <3>4. Ready(p)'
      BY <3>2, <3>3, StaysReady
    <3>5. req'[g] = p
      BY <3>1, <3>3
    <3>. QED BY <3>4, <3>5 DEF Ready, Holds
  <2>. QED BY <2>1, <2>2
<1>. QED BY <1>1, <1>2 DEF RequestsAreReady

LEMMA GrowsIfSame ==
  ASSUME UNCHANGED <<channels, drawn, hook, dead>>
  PROVE  Grows
BY DEF Grows, Holds

\* The channels that are there later and have an old number were there before.
LEMMA GrowsByChannels ==
  ASSUME IInv, UNCHANGED <<hook, dead>>, drawn' \in 0..MaxDrawn, drawn <= drawn',
         \A n \in IDs(channels'.byID) : n <= drawn =>
            /\ n \in IDs(channels.byID)
            /\ channels'.byID[n].installation = channels.byID[n].installation
  PROVE  Grows
<1>1. ASSUME NEW i \in Installation, NEW n \in 0..MaxDrawn, Holds(i, n)
      PROVE  Holds(i, n)'
  BY <1>1, Types, MaxDrawnAssumption DEF Holds
<1>. QED BY <1>1 DEF Grows

\* A step that moves one request and changes nothing else.
LEMMA OnlyRequest ==
  ASSUME IInv, NEW h \in Handler, NEW q \in Request, req' = [req EXCEPT ![h] = q],
         Ready(q), UNCHANGED <<accounts, delivery, events, drawn, clients>>
  PROVE  IInv'
<1>1. UNCHANGED <<installations, channels, codes, deleted, devices, pushes, pushToken, dead,
                  events, drawn, hook, paired>>
  BY DEF accounts, delivery, clients
<1>2. Grows
  BY <1>1, GrowsIfSame
<1>3. Ready(q)'
  BY <1>2, StaysReady
<1>4. req' \in [Handler -> Request] /\ RequestsAreReady'
  BY <1>2, <1>3, OneRequestMoves
<1>5. TypeOK'
  BY <1>1, <1>4 DEF IInv, TypeOK
<1>6. Sound(channels, drawn)' /\ HooksOpenTheirOwn' /\ DeletedHaveHook'
  BY <1>1 DEF IInv, HooksOpenTheirOwn, Holds, DeletedHaveHook
<1>. QED BY <1>4, <1>5, <1>6 DEF IInv

LEMMA IdleIsReady == Ready(Idle) /\ Ready(Idle)'
BY IdleRequest DEF Ready, DeleteStages
-----------------------------------------------------------------------------
(***************************************************************************)
(* Arriving requests.                                                      *)
(***************************************************************************)
\* A request that has just arrived is of an installation that is there, or of the
\* owner of a channel that is.
Fresh(r) ==
    /\ r.at \in {"create", "reread", "ensure", "lookup", "claim", "append", "upsert", "remove",
                "snapshot"}
    /\ r.kind = "event" => r.at = "append"
    /\ r.at \notin {"create", "claim"} =>
         \/ r.installation \in installations
         \/ \E n \in IDs(channels.byID) : channels.byID[n].installation = r.installation
    /\ r.at = "append" => r.id \in IDs(channels.byID)

LEMMA Arrived ==
  ASSUME NEW h \in Handler, NEW q \in Request, Ready(q), Fresh(q), Begin(h, q)
  PROVE  \E r \in Request :
            /\ req' = [req EXCEPT ![h] = r] /\ Ready(r) /\ Fresh(r)
            /\ UNCHANGED <<accounts, delivery, events, drawn, clients>>
BY DEF Begin

\* A token opens a channel that is there, of an installation.
LEMMA ProducerOpens ==
  ASSUME IInv, NEW t \in Drawn, GetByProducerToken(channels, t) # 0
  PROVE  LET n == GetByProducerToken(channels, t)
         IN  /\ n \in IDs(channels.byID) /\ n \in Drawn
             /\ channels.byID[n].installation \in Installation
             /\ n = t
<1>1. Sound(channels, drawn)
  BY Types
<1> DEFINE n == GetByProducerToken(channels, t)
<1>2. n \in IDs(channels.byID)
  BY DEF GetByProducerToken, Found
<1>3. n \in Drawn /\ channels.byID[n].installation \in Installation
      /\ channels.byID[n].producer = n
  BY <1>1, <1>2 DEF Sound, Within, IDs
<1>4. channels.byProducerToken[t] = n
  BY <1>1, LookUp
<1>5. channels.byID[n].producer = t
  BY <1>1, <1>3, <1>4 DEF Sound, Indexed
<1>. QED BY <1>2, <1>3, <1>5

LEMMA WatchOpens ==
  ASSUME IInv, NEW w \in Watch, NEW i \in Opens(w)
  PROVE  i \in Installation
         /\ \E n \in IDs(channels.byID) : channels.byID[n].installation = i
<1>1. PICK n \in Drawn : /\ paired[w] # 0 /\ GetByWatchToken(channels, paired[w]) = n
                         /\ i = channels.byID[n].installation
  BY DEF Opens
<1>2. n # 0
  BY DEF Drawn
<1>3. n \in IDs(channels.byID)
  BY <1>1, <1>2 DEF GetByWatchToken, Found
<1>. QED BY <1>1, <1>3, Types DEF Sound, Within

LEMMA ArrivalEffect ==
  ASSUME IInv, NEW h \in Handler, Arrival(h)
  PROVE  \E r \in Request :
            /\ req' = [req EXCEPT ![h] = r] /\ Ready(r) /\ Fresh(r)
            /\ UNCHANGED <<accounts, delivery, events, drawn, clients>>
<1>1. CASE BeginInstall(h)
  <2> DEFINE q(i) == [Idle EXCEPT !.kind = "install", !.at = "create", !.installation = i]
  <2>1. PICK i \in Installation \ (installations \union deleted) : Begin(h, q(i))
    BY <1>1 DEF BeginInstall
  <2>2. i \in Installation
    BY DEF IInv, TypeOK
  <2>3. "install" \in Kinds /\ "create" \in Stage
    BY <2>1, IdleRequest DEF Begin, Stage, Request
  <2>4. PICK r \in Request : r = Idle
    BY IdleRequest
  <2>5. q(i) \in Request /\ q(i).kind = "install" /\ q(i).at = "create" /\ q(i).installation = i
    <3>1. q(i) = OfInstallation(r, "install", "create", i)
      BY <2>4 DEF OfInstallation
    <3> HIDE DEF q
    <3>. QED BY <2>2, <2>3, <3>1, RequestOf
  <2> HIDE DEF q
  <2>6. Ready(q(i)) /\ Fresh(q(i))
    BY <2>2, <2>5 DEF Ready, DeleteStages, Fresh
  <2>. QED BY <2>1, <2>5, <2>6, Arrived
<1>2. CASE BeginRestore(h)
  <2> DEFINE q(i) == [Idle EXCEPT !.kind = "restore", !.at = "reread", !.installation = i]
  <2>1. PICK i \in Installed : Begin(h, q(i))
    BY <1>2 DEF BeginRestore
  <2>2. i \in Installation
    BY DEF Installed, IInv, TypeOK
  <2>3. "restore" \in Kinds /\ "reread" \in Stage
    BY <2>1, IdleRequest DEF Begin, Stage, Request
  <2>4. PICK r \in Request : r = Idle
    BY IdleRequest
  <2>5. q(i) \in Request /\ q(i).kind = "restore" /\ q(i).at = "reread" /\ q(i).installation = i
    <3>1. q(i) = OfInstallation(r, "restore", "reread", i)
      BY <2>4 DEF OfInstallation
    <3> HIDE DEF q
    <3>. QED BY <2>2, <2>3, <3>1, RequestOf
  <2> HIDE DEF q
  <2>6. Ready(q(i)) /\ Fresh(q(i))
    BY <2>2, <2>5 DEF Ready, DeleteStages, Fresh, Installed
  <2>. QED BY <2>1, <2>5, <2>6, Arrived
<1>3. CASE BeginPairing(h)
  <2> DEFINE q(i) == [Idle EXCEPT !.kind = "pairing", !.at = "ensure", !.installation = i]
  <2>1. PICK i \in Installed : Begin(h, q(i))
    BY <1>3 DEF BeginPairing
  <2>2. i \in Installation
    BY DEF Installed, IInv, TypeOK
  <2>3. "pairing" \in Kinds /\ "ensure" \in Stage
    BY <2>1, IdleRequest DEF Begin, Stage, Request
  <2>4. PICK r \in Request : r = Idle
    BY IdleRequest
  <2>5. q(i) \in Request /\ q(i).kind = "pairing" /\ q(i).at = "ensure" /\ q(i).installation = i
    <3>1. q(i) = OfInstallation(r, "pairing", "ensure", i)
      BY <2>4 DEF OfInstallation
    <3> HIDE DEF q
    <3>. QED BY <2>2, <2>3, <3>1, RequestOf
  <2> HIDE DEF q
  <2>6. Ready(q(i)) /\ Fresh(q(i))
    BY <2>2, <2>5 DEF Ready, DeleteStages, Fresh, Installed
  <2>. QED BY <2>1, <2>5, <2>6, Arrived
<1>4. CASE BeginDelete(h)
  <2> DEFINE q(i) == [Idle EXCEPT !.kind = "delete", !.at = "lookup", !.installation = i]
  <2>1. PICK i \in Installed : Begin(h, q(i))
    BY <1>4 DEF BeginDelete
  <2>2. i \in Installation /\ hook[i] # 0
    BY DEF Installed, IInv, TypeOK
  <2>3. "delete" \in Kinds /\ "lookup" \in Stage
    BY <2>1, IdleRequest DEF Begin, Stage, Request
  <2>4. PICK r \in Request : r = Idle
    BY IdleRequest
  <2>5. q(i) \in Request /\ q(i).kind = "delete" /\ q(i).at = "lookup" /\ q(i).installation = i
    <3>1. q(i) = OfInstallation(r, "delete", "lookup", i)
      BY <2>4 DEF OfInstallation
    <3> HIDE DEF q
    <3>. QED BY <2>2, <2>3, <3>1, RequestOf
  <2> HIDE DEF q
  <2>6. Ready(q(i)) /\ Fresh(q(i))
    BY <2>2, <2>5 DEF Ready, DeleteStages, Fresh, Installed
  <2>. QED BY <2>1, <2>5, <2>6, Arrived
<1>5. CASE BeginClaim(h)
  <2> DEFINE q(n, w, t) == [Idle EXCEPT !.kind = "claim", !.at = "claim", !.id = n, !.watch = w, !.token = t]
  <2>0. PICK c \in codes, w \in Watch : \E t \in {pushToken[w], None} : Begin(h, q(c.id, w, t))
    BY <1>5 DEF BeginClaim
  <2>1. PICK t \in {pushToken[w], None} : Begin(h, q(c.id, w, t))
    BY <2>0
  <2>2. c.id \in 0..MaxDrawn /\ t \in PushToken \union {None}
    BY MaxDrawnAssumption DEF IInv, TypeOK, Code
  <2>3. "claim" \in Kinds /\ "claim" \in Stage
    BY <2>1, IdleRequest DEF Begin, Stage, Request
  <2> DEFINE n == c.id
  <2> HIDE DEF n
  <2>4. PICK r \in Request : r = Idle
    BY IdleRequest
  <2>5. q(n, w, t) \in Request /\ q(n, w, t).kind = "claim" /\ q(n, w, t).at = "claim"
        /\ q(n, w, t).id = n /\ q(n, w, t).watch = w /\ q(n, w, t).token = t
    <3>1. q(n, w, t) = [r EXCEPT !.kind = "claim", !.at = "claim", !.id = n, !.watch = w, !.token = t]
      BY <2>4
    <3> HIDE DEF q
    <3>2. n \in 0..MaxDrawn
      BY <2>2 DEF n
    <3>3. q(n, w, t) \in Request
      BY <2>2, <2>3, <3>1, <3>2 DEF Request
    <3>4. q(n, w, t).kind = "claim" /\ q(n, w, t).at = "claim"
      BY <3>1 DEF Request
    <3>5. q(n, w, t).id = n /\ q(n, w, t).watch = w /\ q(n, w, t).token = t
      BY <3>1 DEF Request
    <3>. QED BY <3>3, <3>4, <3>5
  <2> HIDE DEF q
  <2>6. Ready(q(n, w, t)) /\ Fresh(q(n, w, t))
    BY <2>2, <2>5 DEF Ready, DeleteStages, Fresh
  <2>. QED BY <2>1, <2>5, <2>6, Arrived DEF n
<1>6. CASE BeginEvent(h)
  <2> DEFINE q(n, k, i) == [Idle EXCEPT !.kind = "event", !.at = "append", !.id = n, !.key = k,
                                        !.installation = i]
             n(i) == GetByProducerToken(channels, hook[i])
             j(i) == channels.byID[n(i)].installation
  <2>0. PICK i \in Installation, k \in Key :
          hook[i] # 0 /\ n(i) # 0 /\ Begin(h, q(n(i), k, j(i)))
    BY <1>6 DEF BeginEvent
  <2>1. hook[i] \in Drawn
    BY <2>0, MaxDrawnAssumption DEF IInv, TypeOK, Drawn
  <2>2. PICK m \in Drawn, l \in Installation :
          m = n(i) /\ l = j(i) /\ m \in IDs(channels.byID) /\ channels.byID[m].installation = l
    BY <2>0, <2>1, ProducerOpens
  <2>3. Begin(h, q(m, k, l))
    BY <2>0, <2>2
  <2>4. "event" \in Kinds /\ "append" \in Stage /\ m \in 0..MaxDrawn
    BY <2>3, IdleRequest, MaxDrawnAssumption DEF Begin, Stage, Request, Drawn
  <2>5. PICK r \in Request : r = Idle
    BY IdleRequest
  <2>6. q(m, k, l) \in Request /\ q(m, k, l).kind = "event" /\ q(m, k, l).at = "append"
        /\ q(m, k, l).id = m /\ q(m, k, l).key = k /\ q(m, k, l).installation = l
    <3>1. q(m, k, l) = [r EXCEPT !.kind = "event", !.at = "append", !.id = m, !.key = k,
                                 !.installation = l]
      BY <2>5
    <3> HIDE DEF q
    <3>3. q(m, k, l) \in Request
      BY <2>4, <3>1 DEF Request
    <3>4. q(m, k, l).kind = "event" /\ q(m, k, l).at = "append"
      BY <3>1 DEF Request
    <3>5. q(m, k, l).id = m /\ q(m, k, l).key = k /\ q(m, k, l).installation = l
      BY <3>1 DEF Request
    <3>. QED BY <3>3, <3>4, <3>5
  <2> HIDE DEF q
  <2>7. Ready(q(m, k, l)) /\ Fresh(q(m, k, l))
    BY <2>2, <2>6 DEF Ready, DeleteStages, Fresh
  <2>. QED BY <2>3, <2>6, <2>7, Arrived
<1>7. CASE BeginRegister(h)
  <2> DEFINE q(i, w, t) == [Idle EXCEPT !.kind = "register", !.at = "upsert", !.installation = i, !.watch = w, !.token = t]
  <2>0. PICK w \in Watch : \E i \in Opens(w) : Begin(h, q(i, w, pushToken[w]))
    BY <1>7 DEF BeginRegister
  <2>7. PICK t \in PushToken : t = pushToken[w]
    BY DEF IInv, TypeOK
  <2>1. PICK i \in Opens(w) : Begin(h, q(i, w, t))
    BY <2>0, <2>7
  <2>2. i \in Installation
    BY WatchOpens
  <2>3. "register" \in Kinds /\ "upsert" \in Stage
    BY <2>1, IdleRequest DEF Begin, Stage, Request
  <2>4. PICK r \in Request : r = Idle
    BY IdleRequest
  <2>5. q(i, w, t) \in Request /\ q(i, w, t).kind = "register" /\ q(i, w, t).at = "upsert"
        /\ q(i, w, t).installation = i /\ q(i, w, t).watch = w /\ q(i, w, t).token = t
    <3>1. q(i, w, t) = [r EXCEPT !.kind = "register", !.at = "upsert", !.installation = i, !.watch = w, !.token = t]
      BY <2>4
    <3> HIDE DEF q
    <3>3. q(i, w, t) \in Request
      BY <2>2, <2>3, <3>1 DEF Request
    <3>4. q(i, w, t).kind = "register" /\ q(i, w, t).at = "upsert"
      BY <3>1 DEF Request
    <3>5. q(i, w, t).installation = i /\ q(i, w, t).watch = w /\ q(i, w, t).token = t
      BY <3>1 DEF Request
    <3>. QED BY <3>3, <3>4, <3>5
  <2> HIDE DEF q
  <2>6. Ready(q(i, w, t)) /\ Fresh(q(i, w, t))
    BY <2>2, <2>5, WatchOpens DEF Ready, DeleteStages, Fresh
  <2>. QED BY <2>1, <2>5, <2>6, Arrived
<1>8. CASE BeginUnregister(h)
  <2> DEFINE q(i, w) == [Idle EXCEPT !.kind = "unregister", !.at = "remove", !.installation = i, !.watch = w]
  <2>0. PICK w \in Watch : \E i \in Opens(w) : Begin(h, q(i, w))
    BY <1>8 DEF BeginUnregister
  <2>1. PICK i \in Opens(w) : Begin(h, q(i, w))
    BY <2>0
  <2>2. i \in Installation
    BY WatchOpens
  <2>3. "unregister" \in Kinds /\ "remove" \in Stage
    BY <2>1, IdleRequest DEF Begin, Stage, Request
  <2>4. PICK r \in Request : r = Idle
    BY IdleRequest
  <2>5. q(i, w) \in Request /\ q(i, w).kind = "unregister" /\ q(i, w).at = "remove"
        /\ q(i, w).installation = i /\ q(i, w).watch = w
    <3>1. q(i, w) = [r EXCEPT !.kind = "unregister", !.at = "remove", !.installation = i, !.watch = w]
      BY <2>4
    <3> HIDE DEF q
    <3>3. q(i, w) \in Request
      BY <2>2, <2>3, <3>1 DEF Request
    <3>4. q(i, w).kind = "unregister" /\ q(i, w).at = "remove"
      BY <3>1 DEF Request
    <3>5. q(i, w).installation = i /\ q(i, w).watch = w
      BY <3>1 DEF Request
    <3>. QED BY <3>3, <3>4, <3>5
  <2> HIDE DEF q
  <2>6. Ready(q(i, w)) /\ Fresh(q(i, w))
    BY <2>2, <2>5, WatchOpens DEF Ready, DeleteStages, Fresh
  <2>. QED BY <2>1, <2>5, <2>6, Arrived
<1>9. CASE BeginTest(h)
  <2> DEFINE q(i) == [Idle EXCEPT !.kind = "test", !.at = "snapshot", !.installation = i]
  <2>0. PICK w \in Watch : \E i \in Opens(w) : Begin(h, q(i))
    BY <1>9 DEF BeginTest
  <2>1. PICK i \in Opens(w) : Begin(h, q(i))
    BY <2>0
  <2>2. i \in Installation
    BY WatchOpens
  <2>3. "test" \in Kinds /\ "snapshot" \in Stage
    BY <2>1, IdleRequest DEF Begin, Stage, Request
  <2>4. PICK r \in Request : r = Idle
    BY IdleRequest
  <2>5. q(i) \in Request /\ q(i).kind = "test" /\ q(i).at = "snapshot"
        /\ q(i).installation = i
    <3>1. q(i) = OfInstallation(r, "test", "snapshot", i)
      BY <2>4 DEF OfInstallation
    <3> HIDE DEF q
    <3>. QED BY <2>2, <2>3, <3>1, RequestOf
  <2> HIDE DEF q
  <2>6. Ready(q(i)) /\ Fresh(q(i))
    BY <2>2, <2>5, WatchOpens DEF Ready, DeleteStages, Fresh
  <2>. QED BY <2>1, <2>5, <2>6, Arrived
<1>. QED BY <1>1, <1>2, <1>3, <1>4, <1>5, <1>6, <1>7, <1>8, <1>9 DEF Arrival

LEMMA ArrivalKeepsIInv ==
  ASSUME IInv, NEW h \in Handler, Arrival(h)
  PROVE  IInv'
BY ArrivalEffect, OnlyRequest
-----------------------------------------------------------------------------
(***************************************************************************)
(* The handlers' calls.                                                    *)
(***************************************************************************)
LEMMA Moves ==
  ASSUME IInv, NEW h \in Handler, NEW at \in Stage, GoTo(h, at)
  PROVE  \E q \in Request :
            /\ req' = [req EXCEPT ![h] = q]
            /\ q.at = at /\ q.kind = req[h].kind /\ q.installation = req[h].installation
            /\ q.id = req[h].id /\ q.watch = req[h].watch /\ q.token = req[h].token
            /\ q.key = req[h].key /\ q.queue = req[h].queue
<1> DEFINE q == [req[h] EXCEPT !.at = at]
<1>1. req[h] \in Request /\ req \in [Handler -> Request]
  BY Types
<1>2. req' = [req EXCEPT ![h] = q]
  BY DEF GoTo
<1>3. q \in Request /\ q.at = at /\ q.kind = req[h].kind
      /\ q.installation = req[h].installation /\ q.id = req[h].id
      /\ q.watch = req[h].watch /\ q.token = req[h].token
      /\ q.key = req[h].key /\ q.queue = req[h].queue
  BY <1>1, StageChanged
<1> HIDE DEF q
<1>. QED BY <1>2, <1>3

GoToWith(h, n, at) == req' = [req EXCEPT ![h].id = n, ![h].at = at]

LEMMA MovesNumbered ==
  ASSUME IInv, NEW h \in Handler, NEW at \in Stage, NEW n \in 0..MaxDrawn,
         GoToWith(h, n, at)
  PROVE  \E q \in Request :
            /\ req' = [req EXCEPT ![h] = q]
            /\ q.at = at /\ q.kind = req[h].kind /\ q.installation = req[h].installation
            /\ q.id = n /\ q.watch = req[h].watch /\ q.token = req[h].token
            /\ q.key = req[h].key /\ q.queue = req[h].queue
<1> DEFINE q == [req[h] EXCEPT !.id = n, !.at = at]
<1>1. req[h] \in Request /\ req \in [Handler -> Request]
  BY Types
<1>2. req' = [req EXCEPT ![h] = q]
  BY <1>1 DEF GoToWith
<1>3. q \in Request /\ q.at = at /\ q.kind = req[h].kind
      /\ q.installation = req[h].installation /\ q.id = n
      /\ q.watch = req[h].watch /\ q.token = req[h].token
      /\ q.key = req[h].key /\ q.queue = req[h].queue
  <2>1. PICK r \in Request : r = req[h]
    BY <1>1
  <2>2. q = [r EXCEPT !.id = n, !.at = at]
    BY <2>1
  <2> HIDE DEF q
  <2>3. q \in Request
    BY <2>2 DEF Request
  <2>4. /\ q.at = at /\ q.kind = r.kind /\ q.installation = r.installation
        /\ q.id = n /\ q.watch = r.watch /\ q.token = r.token
        /\ q.key = r.key /\ q.queue = r.queue
    BY <2>2 DEF Request
  <2>. QED BY <2>1, <2>3, <2>4
<1> HIDE DEF q
<1>. QED BY <1>2, <1>3

\* A step that changes no channel and draws nothing.
LEMMA Undisturbed ==
  ASSUME IInv, NEW h \in Handler, NEW q \in Request, req' = [req EXCEPT ![h] = q],
         Ready(q), UNCHANGED <<channels, drawn, hook, dead, deleted>>
  PROVE  /\ req' \in [Handler -> Request] /\ RequestsAreReady' /\ Sound(channels, drawn)'
         /\ HooksOpenTheirOwn' /\ DeletedHaveHook'
<1>1. Grows
  BY GrowsIfSame
<1>2. Ready(q)'
  BY <1>1, StaysReady
<1>3. req' \in [Handler -> Request] /\ RequestsAreReady'
  BY <1>1, <1>2, OneRequestMoves
<1>. QED BY <1>3 DEF IInv, HooksOpenTheirOwn, Holds, DeletedHaveHook

LEMMA FailureKeepsIInv ==
  ASSUME IInv, NEW h \in Handler, StoreFails(h)
  PROVE  IInv'
<1>1. CASE req[h].kind = "claim" /\ req[h].at = "upsert"
  <2>1. GoTo(h, "reply") /\ "reply" \in Stage
    BY <1>1 DEF StoreFails, Stage
  <2>2. PICK q \in Request :
          /\ req' = [req EXCEPT ![h] = q]
          /\ q.at = "reply" /\ q.installation = req[h].installation
          /\ q.watch = req[h].watch
    BY <2>1, Moves
  <2>3. Ready(q)
    BY <1>1, <2>2, Types DEF Ready, DeleteStages
  <2>. QED BY <2>2, <2>3, OnlyRequest DEF StoreFails
<1>2. CASE ~(req[h].kind = "claim" /\ req[h].at = "upsert")
  <2>1. req' = [req EXCEPT ![h] = Idle]
    BY <1>2 DEF StoreFails, End
  <2>. QED BY <2>1, OnlyRequest, IdleRequest, IdleIsReady DEF StoreFails
<1>. QED BY <1>1, <1>2

LEMMA CreateInstallationKeepsIInv ==
  ASSUME IInv, NEW h \in Handler, CreateInstallation(h)
  PROVE  IInv'
<1>1. "ensure" \in Stage
  BY DEF Stage
<1>2. PICK q \in Request :
        req' = [req EXCEPT ![h] = q] /\ q.at = "ensure" /\ q.installation = req[h].installation
  BY <1>1, Moves DEF CreateInstallation
<1>3. req[h].installation \in Installation
  BY Types DEF CreateInstallation, Ready
<1>4. Ready(q)
  BY <1>2, <1>3 DEF Ready, DeleteStages
<1>5. /\ req' \in [Handler -> Request] /\ RequestsAreReady' /\ Sound(channels, drawn)'
      /\ HooksOpenTheirOwn' /\ DeletedHaveHook'
  BY <1>2, <1>4, Undisturbed DEF CreateInstallation, delivery, clients
<1>6. TypeOK'
  BY <1>3, <1>5 DEF IInv, TypeOK, CreateInstallation, delivery, clients
<1>. QED BY <1>5, <1>6 DEF IInv

LEMMA RereadKeepsIInv ==
  ASSUME IInv, NEW h \in Handler, RereadInstallation(h)
  PROVE  IInv'
<1>1. CASE req[h].installation \in installations
  <2>1. GoTo(h, "ensure") /\ "ensure" \in Stage
    BY <1>1 DEF RereadInstallation, Stage
  <2>2. PICK q \in Request :
          req' = [req EXCEPT ![h] = q] /\ q.at = "ensure" /\ q.installation = req[h].installation
    BY <2>1, Moves
  <2>3. Ready(q)
    BY <2>2, Types DEF Ready, DeleteStages, RereadInstallation
  <2>. QED BY <2>2, <2>3, OnlyRequest DEF RereadInstallation
<1>2. CASE req[h].installation \notin installations
  <2>1. req' = [req EXCEPT ![h] = Idle]
    BY <1>2 DEF RereadInstallation, End
  <2>. QED BY <2>1, OnlyRequest, IdleRequest, IdleIsReady DEF RereadInstallation
<1>. QED BY <1>1, <1>2

\* The channel that is found for an installation is there and is its own.
LEMMA ChannelOf ==
  ASSUME IInv, NEW i \in Installation, GetByInstallation(channels, i) # 0
  PROVE  LET n == GetByInstallation(channels, i)
         IN  n \in Drawn /\ n <= drawn /\ channels.byID[n].installation = i
<1> DEFINE n == GetByInstallation(channels, i)
<1>1. Sound(channels, drawn)
  BY Types
<1>2. n \in IDs(channels.byID)
  BY DEF GetByInstallation, Found
<1>3. n \in Drawn /\ n <= drawn
  BY <1>1, <1>2 DEF Sound, Within, IDs
<1>4. channels.byInstallation[i] = n
  BY <1>1, LookUp
<1>. QED BY <1>1, <1>3, <1>4 DEF Sound, Indexed

\* EnsureForInstallation gives the channel there is, or one with a new number.
LEMMA EnsureEffect ==
  ASSUME IInv, NEW h \in Handler, EnsureForInstallation(h)
  PROVE  LET i == req[h].installation
         IN  /\ i \in Installation
             /\ channels' \in Store /\ Sound(channels, drawn)'
             /\ drawn' \in 0..MaxDrawn /\ drawn <= drawn' /\ drawn' \in Nat /\ drawn \in Nat
             /\ \A m \in Drawn : m <= drawn => channels'.byID[m] = channels.byID[m]
             /\ GetByInstallation(channels', i) \in Drawn
             /\ GetByInstallation(channels', i) <= drawn'
             /\ channels'.byID[GetByInstallation(channels', i)].installation = i
             /\ GetByInstallation(channels, i) \in {0, GetByInstallation(channels', i)}
             /\ \A m \in Drawn : channels'.byID[m] = channels.byID[m]
                                 \/ channels'.byID[m].installation = i
<1> DEFINE i == req[h].installation
<1>1. i \in Installation
  BY Types DEF EnsureForInstallation, Ready
<1>2. drawn \in Nat /\ drawn \in 0..MaxDrawn /\ Sound(channels, drawn) /\ channels \in Store
  BY Types, MaxDrawnAssumption
<1> HIDE DEF i
<1>3. CASE GetByInstallation(channels, i) # 0
  <2>1. UNCHANGED <<channels, drawn>>
    BY <1>3 DEF EnsureForInstallation, i
  <2>. QED BY <1>1, <1>2, <1>3, <2>1, ChannelOf DEF i
<1>4. CASE GetByInstallation(channels, i) = 0
  <2>1. drawn < MaxDrawn /\ drawn' = drawn + 1 /\ channels' = WithChannel(channels, i, drawn')
    BY <1>4 DEF EnsureForInstallation, i
  <2>2. Sound(channels', drawn')
    BY <1>1, <1>2, <1>4, <2>1, EnsureSound
  <2>3. drawn' \in Drawn /\ drawn' \in 0..MaxDrawn /\ drawn' \in Nat
    BY <1>2, <2>1, MaxDrawnAssumption DEF Drawn
  <2>4. /\ channels'.byID = [channels.byID EXCEPT ![drawn'] =
                               [installation |-> i, producer |-> drawn', watch |-> 0]]
        /\ channels'.byInstallation = [channels.byInstallation EXCEPT ![i] = drawn']
    <3>1. PICK m \in Drawn : m = drawn'
      BY <2>3
    <3>2. channels' = WithChannel(channels, i, m)
      BY <2>1, <3>1
    <3> DEFINE s == WithChannel(channels, i, m)
    <3>3. /\ s \in Store
          /\ s.byID = [channels.byID EXCEPT ![m] =
                           [installation |-> i, producer |-> m, watch |-> 0]]
          /\ s.byInstallation = [channels.byInstallation EXCEPT ![i] = m]
          /\ s.byProducerToken = [channels.byProducerToken EXCEPT ![m] = m]
          /\ s.byWatchToken = channels.byWatchToken
      BY <1>1, <1>2, EnsureParts
    <3>. QED BY <3>1, <3>2, <3>3
  <2>5. /\ channels.byID \in [Drawn -> Channel]
        /\ channels.byInstallation \in [Installation -> 0..MaxDrawn]
    BY <1>2, StoreTypes
  <2>6. GetByInstallation(channels', i) = drawn'
    BY <1>1, <2>2, <2>4, <2>5, LookUp
  <2>7. \A m \in Drawn : m <= drawn => channels'.byID[m] = channels.byID[m]
    <3>1. \A m \in Drawn : m <= drawn => m # drawn'
      BY <1>2, <2>1 DEF Drawn
    <3>. QED BY <2>4, <2>5, <3>1
  <2>8. /\ channels'.byID[drawn'].installation = i
        /\ \A m \in Drawn : channels'.byID[m] = channels.byID[m]
                            \/ channels'.byID[m].installation = i
    BY <2>3, <2>4, <2>5
  <2>. QED BY <1>1, <1>2, <1>4, <2>1, <2>2, <2>3, <2>6, <2>7, <2>8 DEF i, Sound
<1>. QED BY <1>3, <1>4
LEMMA HooksStay ==
  ASSUME IInv, Grows, UNCHANGED <<hook, deleted>>
  PROVE  HooksOpenTheirOwn' /\ DeletedHaveHook'
<1>1. \A i \in Installation : hook[i] \in 0..MaxDrawn /\ Holds(i, hook[i])
  BY DEF IInv, TypeOK, HooksOpenTheirOwn
<1>2. ASSUME NEW i \in Installation
      PROVE  Holds(i, hook[i])'
  <2>1. PICK n \in 0..MaxDrawn : n = hook[i]
    BY <1>1
  <2>2. Holds(i, n)'
    BY <1>1, <2>1 DEF Grows
  <2>. QED BY <2>1, <2>2 DEF Holds
<1>. QED BY <1>2 DEF IInv, HooksOpenTheirOwn, DeletedHaveHook

LEMMA EnsureKeepsIInv ==
  ASSUME IInv, NEW h \in Handler, EnsureForInstallation(h)
  PROVE  IInv'
<1> DEFINE i == req[h].installation
           n == GetByInstallation(channels', i)
           at == IF req[h].kind = "pairing" THEN "code" ELSE "answer"
<1>1. /\ i \in Installation /\ channels' \in Store /\ Sound(channels, drawn)'
      /\ drawn' \in 0..MaxDrawn /\ drawn <= drawn'
      /\ \A m \in Drawn : m <= drawn => channels'.byID[m] = channels.byID[m]
      /\ n \in Drawn /\ n <= drawn' /\ channels'.byID[n].installation = i
  BY EnsureEffect
<1>2. n \in 0..MaxDrawn /\ n # 0 /\ at \in Stage
  BY <1>1, MaxDrawnAssumption DEF Drawn, Stage
<1>3. GoToWith(h, n, at)
  BY DEF EnsureForInstallation, GoToWith
<1>4. UNCHANGED <<installations, codes, deleted, devices, pushes, pushToken, dead, events,
                  hook, paired>>
  BY DEF EnsureForInstallation, delivery, clients
<1>5. at \in {"code", "answer"}
  OBVIOUS
<1> HIDE DEF n, at
<1>6. PICK q \in Request :
        req' = [req EXCEPT ![h] = q] /\ q.at = at /\ q.installation = i /\ q.id = n
  BY <1>2, <1>3, MovesNumbered
<1>7. Grows
  BY <1>1, <1>4, GrowsByChannels DEF IDs
<1>8. Ready(q)'
  BY <1>1, <1>2, <1>5, <1>6 DEF Ready, Holds, DeleteStages
<1>9. req' \in [Handler -> Request] /\ RequestsAreReady'
  BY <1>6, <1>7, <1>8, OneRequestMoves
<1>10. TypeOK'
  BY <1>1, <1>4, <1>9 DEF IInv, TypeOK
<1>. QED BY <1>1, <1>4, <1>7, <1>9, <1>10, HooksStay DEF IInv

LEMMA ReplyToInstallKeepsIInv ==
  ASSUME IInv, NEW h \in Handler, ReplyToInstall(h)
  PROVE  IInv'
<1> DEFINE i == req[h].installation
           n == req[h].id
<1>1. i \in Installation /\ n \in 0..MaxDrawn /\ n # 0 /\ Holds(i, n)
  <2>1. req[h] \in Request /\ Ready(req[h]) /\ req[h].at = "answer"
    BY Types DEF ReplyToInstall
  <2>. QED BY <2>1, RequestTypes DEF Ready
<1>2. /\ hook' = [hook EXCEPT ![i] = n] /\ req' = [req EXCEPT ![h] = Idle]
      /\ UNCHANGED <<installations, channels, codes, deleted, devices, pushes, pushToken,
                     dead, events, drawn, paired>>
  BY DEF ReplyToInstall, End, accounts, delivery
<1> HIDE DEF i, n
<1>3. hook \in [Installation -> 0..MaxDrawn]
  BY DEF IInv, TypeOK
<1>4. hook' \in [Installation -> 0..MaxDrawn]
  BY <1>1, <1>2, <1>3
<1>5. \A j \in Installation : hook'[j] = IF j = i THEN n ELSE hook[j]
  BY <1>2, <1>3
<1>6. Grows
  BY <1>1, <1>2, <1>5 DEF Grows, Holds
<1>7. req' \in [Handler -> Request] /\ RequestsAreReady'
  BY <1>2, <1>6, IdleRequest, IdleIsReady, OneRequestMoves
<1>8. TypeOK'
  BY <1>2, <1>4, <1>7 DEF IInv, TypeOK
<1>9. HooksOpenTheirOwn'
  BY <1>1, <1>2, <1>5 DEF IInv, HooksOpenTheirOwn, Holds
<1>10. DeletedHaveHook'
  BY <1>1, <1>2, <1>5, <1>8 DEF IInv, DeletedHaveHook, TypeOK
<1>. QED BY <1>2, <1>7, <1>8, <1>9, <1>10 DEF IInv

LEMMA CreateCodeKeepsIInv ==
  ASSUME IInv, NEW h \in Handler, CreateCode(h)
  PROVE  IInv'
<1> DEFINE i == req[h].installation
           new == [installation |-> i, id |-> drawn', claimed |-> FALSE]
<1>1. i \in Installation
  BY Types DEF Ready, CreateCode
<1>2. /\ drawn < MaxDrawn /\ drawn' = drawn + 1 /\ req' = [req EXCEPT ![h] = Idle]
      /\ codes' = {c \in codes : c.installation = i => c.claimed} \union {new}
      /\ UNCHANGED <<installations, channels, deleted, devices, pushes, pushToken, dead,
                     events, hook, paired>>
  BY DEF CreateCode, End, delivery, clients
<1>3. drawn' \in 0..MaxDrawn /\ drawn <= drawn' /\ drawn' \in 1..MaxDrawn
  BY <1>2, Types, MaxDrawnAssumption
<1>4. new \in Code
  BY <1>1, <1>3 DEF Code
<1> HIDE DEF new
<1>5. codes' \subseteq Code
  BY <1>2, <1>4 DEF IInv, TypeOK
<1>6. Grows
  BY <1>2, <1>3, GrowsByChannels
<1>7. req' \in [Handler -> Request] /\ RequestsAreReady'
  BY <1>2, <1>6, IdleRequest, IdleIsReady, OneRequestMoves
<1>8. TypeOK'
  BY <1>2, <1>3, <1>5, <1>7 DEF IInv, TypeOK
<1>9. Sound(channels, drawn)'
  BY <1>2, <1>3, Types, SoundLater
<1>. QED BY <1>2, <1>6, <1>7, <1>8, <1>9, HooksStay DEF IInv

LEMMA ClaimKeepsIInv ==
  ASSUME IInv, NEW h \in Handler, Claim(h)
  PROVE  IInv'
<1>1. UNCHANGED <<installations, channels, deleted, devices, pushes, pushToken, dead,
                  events, drawn, hook, paired>>
  BY DEF Claim, delivery, clients
<1>2. ASSUME NEW c \in codes,
             codes' = (codes \ {c}) \union {[c EXCEPT !.claimed = TRUE]},
             req' = [req EXCEPT ![h].at = "rotate", ![h].installation = c.installation]
      PROVE  IInv'
  <2>1. c \in Code /\ [c EXCEPT !.claimed = TRUE] \in Code
    BY DEF IInv, TypeOK, Code
  <2> DEFINE j == c.installation
             q == [req[h] EXCEPT !.at = "rotate", !.installation = j]
  <2>2. j \in Installation /\ codes' \subseteq Code
    BY <1>2, <2>1 DEF IInv, TypeOK, Code
  <2> HIDE DEF j
  <2>3. req[h] \in Request /\ req \in [Handler -> Request]
    BY Types
  <2>4. req' = [req EXCEPT ![h] = q]
    BY <1>2, <2>3 DEF j
  <2>5. "rotate" \in Stage
    BY DEF Stage
  <2>6. /\ q \in Request /\ q.at = "rotate" /\ q.installation = j
        /\ q.watch = req[h].watch
    <3>1. PICK r \in Request : r = req[h]
      BY <2>3
    <3>2. q = [r EXCEPT !.at = "rotate", !.installation = j]
      BY <3>1
    <3> HIDE DEF q
    <3>. QED BY <2>2, <2>5, <3>1, <3>2 DEF Request
  <2> HIDE DEF q
  <2>7. req[h].watch \in Watch
    BY Types DEF Claim, Ready
  <2>8. Ready(q)
    BY <2>2, <2>6, <2>7 DEF Ready, DeleteStages
  <2>9. /\ req' \in [Handler -> Request] /\ RequestsAreReady' /\ Sound(channels, drawn)'
        /\ HooksOpenTheirOwn' /\ DeletedHaveHook'
    BY <1>1, <2>4, <2>6, <2>8, Undisturbed
  <2>10. TypeOK'
    BY <1>1, <2>2, <2>9 DEF IInv, TypeOK
  <2>. QED BY <2>9, <2>10 DEF IInv
<1>3. CASE End(h) /\ UNCHANGED codes
  <2>1. req' = [req EXCEPT ![h] = Idle]
    BY <1>3 DEF End
  <2>. QED BY <1>1, <1>3, <2>1, OnlyRequest, IdleRequest, IdleIsReady
         DEF accounts, delivery, clients
<1>. QED BY <1>2, <1>3 DEF Claim

LEMMA RotateKeepsIInv ==
  ASSUME IInv, NEW h \in Handler, RotateWatchSession(h)
  PROVE  IInv'
<1> DEFINE i == req[h].installation
           at == IF req[h].token = None THEN "reply" ELSE "upsert"
<1>1. i \in Installation /\ req[h].watch \in Watch /\ req[h] \in Request
  BY Types DEF Ready, RotateWatchSession
<1>2. UNCHANGED <<installations, codes, deleted, devices, pushes, pushToken, dead, events,
                  hook, paired>>
  BY DEF RotateWatchSession, delivery, clients
<1>3. CASE GetByInstallation(channels, i) = 0
  <2>1. req' = [req EXCEPT ![h] = Idle] /\ UNCHANGED <<channels, drawn>>
    BY <1>3 DEF RotateWatchSession, End
  <2>. QED BY <1>2, <2>1, OnlyRequest, IdleRequest, IdleIsReady
         DEF accounts, delivery, clients
<1>4. CASE GetByInstallation(channels, i) # 0
  <2>1. /\ drawn < MaxDrawn /\ drawn' = drawn + 1
        /\ channels' = WithWatchSession(channels, i, drawn')
        /\ GoToWith(h, drawn', at)
    BY <1>4 DEF RotateWatchSession, GoToWith
  <2>2. drawn \in Nat /\ drawn' \in 0..MaxDrawn /\ drawn <= drawn' /\ at \in Stage
    BY <2>1, Types, MaxDrawnAssumption DEF Stage
  <2>3. Sound(channels', drawn') /\ Sound(channels, drawn) /\ channels' \in Store
    BY <1>1, <1>4, <2>1, <2>2, Types, RotateSound DEF Sound
  <2>4. at \in {"reply", "upsert"} /\ (at = "upsert" => req[h].token \in PushToken)
    BY <1>1, RequestTypes
  <2> HIDE DEF i, at
  <2>5. PICK q \in Request :
          /\ req' = [req EXCEPT ![h] = q] /\ q.at = at /\ q.installation = i
          /\ q.watch = req[h].watch /\ q.token = req[h].token
    BY <2>1, <2>2, MovesNumbered DEF i
  <2>6. \A m \in IDs(channels'.byID) :
          m \in IDs(channels.byID)
          /\ channels'.byID[m].installation = channels.byID[m].installation
    BY <1>1, <1>4, <2>1, <2>2, Types, RotateKeepsOwners DEF IDs
  <2>7. Grows
    BY <1>2, <2>2, <2>6, GrowsByChannels
  <2>8. Ready(q)'
    BY <1>1, <2>4, <2>5 DEF Ready, DeleteStages, i
  <2>9. req' \in [Handler -> Request] /\ RequestsAreReady'
    BY <2>5, <2>7, <2>8, OneRequestMoves
  <2>10. TypeOK'
    BY <1>2, <2>2, <2>3, <2>9 DEF IInv, TypeOK
  <2>11. Sound(channels, drawn)'
    BY <2>3
  <2>. QED BY <1>2, <2>7, <2>9, <2>10, <2>11, HooksStay DEF IInv
<1>. QED BY <1>3, <1>4
LEMMA UpsertKeepsIInv ==
  ASSUME IInv, NEW h \in Handler, Upsert(h)
  PROVE  IInv'
<1> DEFINE new == [watch |-> req[h].watch, token |-> req[h].token,
                   installation |-> req[h].installation]
<1>1. /\ devices' = {d \in devices : d.watch # req[h].watch} \union {new}
      /\ UNCHANGED <<installations, channels, codes, deleted, pushes, pushToken, dead,
                     events, drawn, hook, paired>>
  BY DEF Upsert, accounts, clients
<1>2. /\ req[h].installation \in Installation /\ req[h].watch \in Watch
      /\ req[h].token \in PushToken /\ req[h].at = "upsert"
  BY Types DEF Ready, Upsert
<1>3. new \in Device /\ new.watch = req[h].watch
  BY <1>2 DEF Device
<1> HIDE DEF new
<1>4. devices' \subseteq Device /\ \A d, e \in devices' : d.watch = e.watch => d = e
  BY <1>1, <1>3 DEF IInv, TypeOK
<1>5. \E q \in Request : req' = [req EXCEPT ![h] = q] /\ Ready(q)
  <2>1. CASE req[h].kind = "claim"
    <3>1. GoTo(h, "reply") /\ "reply" \in Stage
      BY <2>1 DEF Upsert, Stage
    <3>2. PICK q \in Request :
            /\ req' = [req EXCEPT ![h] = q]
            /\ q.at = "reply" /\ q.installation = req[h].installation
            /\ q.watch = req[h].watch
      BY <3>1, Moves
    <3>. QED BY <1>2, <3>2 DEF Ready, DeleteStages
  <2>2. CASE req[h].kind # "claim"
    BY <2>2, IdleRequest, IdleIsReady DEF Upsert, End
  <2>. QED BY <2>1, <2>2
<1>6. /\ req' \in [Handler -> Request] /\ RequestsAreReady' /\ Sound(channels, drawn)'
      /\ HooksOpenTheirOwn' /\ DeletedHaveHook'
  BY <1>1, <1>5, Undisturbed
<1>7. TypeOK'
  BY <1>1, <1>4, <1>6 DEF IInv, TypeOK
<1>. QED BY <1>6, <1>7 DEF IInv

LEMMA ReplyToClaimKeepsIInv ==
  ASSUME IInv, NEW h \in Handler, ReplyToClaim(h)
  PROVE  IInv'
<1>1. /\ paired' = [paired EXCEPT ![req[h].watch] = req[h].id]
      /\ req' = [req EXCEPT ![h] = Idle]
      /\ UNCHANGED <<installations, channels, codes, deleted, devices, pushes, pushToken,
                     dead, events, drawn, hook>>
  BY DEF ReplyToClaim, End, accounts, delivery
<1>2. req[h].id \in 0..MaxDrawn
  BY Types, RequestTypes
<1>3. paired' \in [Watch -> 0..MaxDrawn]
  BY <1>1, <1>2 DEF IInv, TypeOK
<1>4. /\ req' \in [Handler -> Request] /\ RequestsAreReady' /\ Sound(channels, drawn)'
      /\ HooksOpenTheirOwn' /\ DeletedHaveHook'
  BY <1>1, IdleRequest, IdleIsReady, Undisturbed
<1>5. TypeOK'
  BY <1>1, <1>3, <1>4 DEF IInv, TypeOK
<1>. QED BY <1>4, <1>5 DEF IInv

\* Calls that only take push registrations away.
LEMMA FewerDevices ==
  ASSUME IInv, NEW h \in Handler, NEW q \in Request, req' = [req EXCEPT ![h] = q],
         Ready(q), devices' \subseteq devices,
         UNCHANGED <<accounts, pushes, pushToken, dead, events, drawn, clients>>
  PROVE  IInv'
<1>1. UNCHANGED <<installations, channels, codes, deleted, pushes, pushToken, dead,
                  events, drawn, hook, paired>>
  BY DEF accounts, clients
<1>2. /\ req' \in [Handler -> Request] /\ RequestsAreReady' /\ Sound(channels, drawn)'
      /\ HooksOpenTheirOwn' /\ DeletedHaveHook'
  BY <1>1, Undisturbed
<1>3. TypeOK'
  BY <1>1, <1>2 DEF IInv, TypeOK
<1>. QED BY <1>2, <1>3 DEF IInv

LEMMA RemoveDeviceKeepsIInv ==
  ASSUME IInv, NEW h \in Handler, RemoveDevice(h)
  PROVE  IInv'
<1>1. devices' \subseteq devices /\ req' = [req EXCEPT ![h] = Idle]
  BY DEF RemoveDevice, End
<1>. QED BY <1>1, IdleRequest, IdleIsReady, FewerDevices DEF RemoveDevice

LEMMA LookupChannelKeepsIInv ==
  ASSUME IInv, NEW h \in Handler, LookupChannel(h)
  PROVE  IInv'
<1> DEFINE n == GetByInstallation(channels, req[h].installation)
<1>1. /\ req[h].at = "lookup" /\ req[h].installation \in Installation
      /\ req[h].kind = "delete" /\ hook[req[h].installation] # 0
  BY Types DEF LookupChannel, Ready, DeleteStages
<1>2. n \in 0..MaxDrawn
  BY <1>1, Types, LookUp
<1>3. GoToWith(h, n, "pairings") /\ "pairings" \in Stage
  BY DEF LookupChannel, GoToWith, Stage
<1> HIDE DEF n
<1>4. PICK q \in Request :
        /\ req' = [req EXCEPT ![h] = q] /\ q.at = "pairings"
        /\ q.kind = req[h].kind /\ q.installation = req[h].installation
  BY <1>2, <1>3, MovesNumbered
<1>5. Ready(q)
  BY <1>1, <1>4 DEF Ready, DeleteStages
<1>. QED BY <1>4, <1>5, OnlyRequest DEF LookupChannel

\* The stages of a deletion.
LEMMA DeletionMovesOn ==
  ASSUME IInv, NEW h \in Handler, req[h].at \in DeleteStages, NEW at \in DeleteStages,
         GoTo(h, at)
  PROVE  \E q \in Request :
            /\ req' = [req EXCEPT ![h] = q] /\ Ready(q)
            /\ q.at = at /\ q.installation = req[h].installation /\ q.id = req[h].id
<1>1. at \in Stage
  BY DEF DeleteStages, Stage
<1>2. PICK q \in Request :
        /\ req' = [req EXCEPT ![h] = q] /\ q.at = at /\ q.kind = req[h].kind
        /\ q.installation = req[h].installation /\ q.id = req[h].id
  BY <1>1, Moves
<1>3. req[h].installation \in Installation /\ req[h].kind = "delete"
      /\ hook[req[h].installation] # 0
  BY Types DEF Ready, DeleteStages
<1>4. Ready(q)
  BY <1>2, <1>3 DEF Ready, DeleteStages
<1>. QED BY <1>2, <1>4

LEMMA RemovePairingsKeepsIInv ==
  ASSUME IInv, NEW h \in Handler, RemovePairings(h)
  PROVE  IInv'
<1>1. req[h].at \in DeleteStages /\ "devices" \in DeleteStages /\ GoTo(h, "devices")
  BY DEF RemovePairings, DeleteStages
<1>2. PICK q \in Request : req' = [req EXCEPT ![h] = q] /\ Ready(q)
  BY <1>1, DeletionMovesOn
<1>3. codes' \subseteq codes
      /\ UNCHANGED <<installations, channels, deleted, devices, pushes, pushToken, dead,
                     events, drawn, hook, paired>>
  BY DEF RemovePairings, delivery, clients
<1>4. /\ req' \in [Handler -> Request] /\ RequestsAreReady' /\ Sound(channels, drawn)'
      /\ HooksOpenTheirOwn' /\ DeletedHaveHook'
  BY <1>2, <1>3, Undisturbed
<1>5. TypeOK'
  BY <1>3, <1>4 DEF IInv, TypeOK
<1>. QED BY <1>4, <1>5 DEF IInv

LEMMA RemoveDevicesKeepsIInv ==
  ASSUME IInv, NEW h \in Handler, RemoveDevices(h)
  PROVE  IInv'
<1> DEFINE at == IF req[h].id = 0 THEN "channel" ELSE "events"
<1>1. req[h].at \in DeleteStages /\ at \in DeleteStages /\ GoTo(h, at)
  BY DEF RemoveDevices, DeleteStages
<1> HIDE DEF at
<1>2. PICK q \in Request : req' = [req EXCEPT ![h] = q] /\ Ready(q)
  BY <1>1, DeletionMovesOn
<1>3. devices' \subseteq devices
  BY DEF RemoveDevices
<1>. QED BY <1>2, <1>3, FewerDevices DEF RemoveDevices

\* Calls that change the event log alone.
LEMMA OtherEvents ==
  ASSUME IInv, NEW h \in Handler, NEW q \in Request, req' = [req EXCEPT ![h] = q],
         Ready(q), events' \in Seq(Event), UNCHANGED <<accounts, delivery, drawn, clients>>
  PROVE  IInv'
<1>1. UNCHANGED <<installations, channels, codes, deleted, devices, pushes, pushToken, dead,
                  drawn, hook, paired>>
  BY DEF accounts, delivery, clients
<1>2. /\ req' \in [Handler -> Request] /\ RequestsAreReady' /\ Sound(channels, drawn)'
      /\ HooksOpenTheirOwn' /\ DeletedHaveHook'
  BY <1>1, Undisturbed
<1>3. TypeOK'
  BY <1>1, <1>2 DEF IInv, TypeOK
<1>. QED BY <1>2, <1>3 DEF IInv

LEMMA RemoveEventsKeepsIInv ==
  ASSUME IInv, NEW h \in Handler, RemoveEvents(h)
  PROVE  IInv'
<1>1. req[h].at \in DeleteStages /\ "channel" \in DeleteStages /\ GoTo(h, "channel")
  BY DEF RemoveEvents, DeleteStages
<1>2. PICK q \in Request : req' = [req EXCEPT ![h] = q] /\ Ready(q)
  BY <1>1, DeletionMovesOn
<1>3. events \in Seq(Event)
  BY DEF IInv, TypeOK
<1>4. events' \in Seq(Event)
  BY <1>3, WithoutFilters DEF RemoveEvents
<1>. QED BY <1>2, <1>4, OtherEvents DEF RemoveEvents

\* RemoveByInstallation takes the installation's channel away, and no other.
LEMMA RemoveEffect ==
  ASSUME IInv, NEW h \in Handler, RemoveChannel(h)
  PROVE  LET i == req[h].installation
         IN  /\ i \in Installation
             /\ Sound(channels, drawn)' /\ channels' \in Store
             /\ GetByInstallation(channels', i) = 0
             /\ \A k \in Drawn : channels'.byID[k] =
                  IF k = GetByInstallation(channels, i) THEN NoChannel ELSE channels.byID[k]
             /\ UNCHANGED drawn
<1> DEFINE i == req[h].installation
<1>1. i \in Installation
  BY Types DEF Ready, RemoveChannel
<1>2. channels' = WithoutInstallation(channels, i) /\ UNCHANGED drawn
  BY DEF RemoveChannel
<1> HIDE DEF i
<1>3. drawn \in Nat /\ Sound(channels, drawn)
  BY Types, MaxDrawnAssumption
<1>4. /\ Sound(channels', drawn)
      /\ GetByInstallation(channels', i) = 0
      /\ \A k \in Drawn : channels'.byID[k] =
           IF k = GetByInstallation(channels, i) THEN NoChannel ELSE channels.byID[k]
  BY <1>1, <1>2, <1>3, RemoveSound
<1>. QED BY <1>1, <1>2, <1>4 DEF i, Sound

LEMMA RemoveChannelKeepsIInv ==
  ASSUME IInv, NEW h \in Handler, RemoveChannel(h)
  PROVE  IInv'
<1>1. req[h].at \in DeleteStages /\ "installation" \in DeleteStages /\ GoTo(h, "installation")
  BY DEF RemoveChannel, DeleteStages
<1>2. PICK q \in Request : req' = [req EXCEPT ![h] = q] /\ Ready(q)
  BY <1>1, DeletionMovesOn
<1>3. UNCHANGED <<installations, codes, deleted, devices, pushes, pushToken, dead,
                  events, drawn, hook, paired>>
  BY DEF RemoveChannel, delivery, clients
<1>4. /\ Sound(channels, drawn)' /\ channels' \in Store
      /\ \A k \in Drawn : channels'.byID[k] \in {NoChannel, channels.byID[k]}
  BY RemoveEffect
<1>5. Grows
  BY <1>3, <1>4, Types, MaxDrawnAssumption, GrowsByChannels DEF IDs
<1>6. Ready(q)'
  BY <1>2, <1>5, StaysReady
<1>7. req' \in [Handler -> Request] /\ RequestsAreReady'
  BY <1>2, <1>5, <1>6, OneRequestMoves
<1>8. TypeOK'
  BY <1>3, <1>4, <1>7 DEF IInv, TypeOK
<1>. QED BY <1>3, <1>4, <1>5, <1>7, <1>8, HooksStay DEF IInv

LEMMA RemoveInstallationKeepsIInv ==
  ASSUME IInv, NEW h \in Handler, RemoveInstallation(h)
  PROVE  IInv'
<1> DEFINE i == req[h].installation
<1>1. i \in Installation /\ hook[i] # 0
  BY Types DEF Ready, RemoveInstallation, DeleteStages
<1>2. /\ installations' = installations \ {i} /\ deleted' = deleted \union {i}
      /\ req' = [req EXCEPT ![h] = Idle]
      /\ UNCHANGED <<channels, codes, devices, pushes, pushToken, dead, events, drawn,
                     hook, paired>>
  BY DEF RemoveInstallation, End, delivery, clients
<1> HIDE DEF i
<1>3. Grows
  BY <1>2, GrowsIfSame
<1>4. req' \in [Handler -> Request] /\ RequestsAreReady'
  BY <1>2, <1>3, IdleRequest, IdleIsReady, OneRequestMoves
<1>5. TypeOK'
  BY <1>1, <1>2, <1>4 DEF IInv, TypeOK
<1>6. Sound(channels, drawn)' /\ HooksOpenTheirOwn' /\ DeletedHaveHook'
  BY <1>1, <1>2 DEF IInv, HooksOpenTheirOwn, Holds, DeletedHaveHook
<1>. QED BY <1>4, <1>5, <1>6 DEF IInv

LEMMA KeepKeeps ==
  ASSUME NEW log \in Seq(Event), log # <<>>
  PROVE  /\ Keep(log) \in Seq(Event)
         /\ \A n \in DOMAIN Keep(log) : \E m \in DOMAIN log : Keep(log)[n] = log[m]
<1>1. /\ Tail(log) \in Seq(Event) /\ Len(log) \in Nat /\ DOMAIN log = 1..Len(log)
      /\ DOMAIN Tail(log) = 1..(Len(log) - 1)
      /\ \A n \in 1..(Len(log) - 1) : Tail(log)[n] = log[n + 1]
  OBVIOUS
<1>2. \A n \in 1..(Len(log) - 1) : n + 1 \in 1..Len(log)
  BY <1>1
<1>. QED BY <1>1, <1>2 DEF Keep

LEMMA AppendEffect ==
  ASSUME IInv, NEW h \in Handler, AppendUnique(h)
  PROVE  LET e == [channel |-> req[h].id, key |-> req[h].key]
         IN  /\ e \in Event /\ events' \in Seq(Event)
             /\ \A n \in DOMAIN events' : events'[n] = e \/ \E m \in DOMAIN events : events'[n] = events[m]
<1> DEFINE e == [channel |-> req[h].id, key |-> req[h].key]
           log == Append(events, e)
<1>1. e \in Event
  BY Types DEF AppendUnique, Ready, Event, Drawn
<1>2. events \in Seq(Event)
  BY DEF IInv, TypeOK
<1>3. events' = events \/ events' = Keep(log)
  BY DEF AppendUnique
<1> HIDE DEF e
<1>4. /\ log \in Seq(Event) /\ log # <<>>
      /\ \A n \in DOMAIN log : log[n] = e \/ \E m \in DOMAIN events : log[n] = events[m]
  <2>1. log \in Seq(Event) /\ log # <<>> /\ DOMAIN events = 1..Len(events) /\ Len(events) \in Nat
        /\ DOMAIN log = 1..(Len(events) + 1) /\ log[Len(events) + 1] = e
        /\ \A n \in 1..Len(events) : log[n] = events[n]
    BY <1>1, <1>2
  <2> DEFINE l == Len(events)
  <2>2. l \in Nat
    BY <2>1
  <2> HIDE DEF l
  <2>3. \A n \in 1..(l + 1) : n = l + 1 \/ n \in 1..l
    BY <2>2
  <2>. QED BY <2>1, <2>3 DEF l
<1> HIDE DEF log
<1>5. CASE events' = Keep(log)
  <2>1. /\ Keep(log) \in Seq(Event)
        /\ \A n \in DOMAIN Keep(log) : \E m \in DOMAIN log : Keep(log)[n] = log[m]
    BY <1>4, KeepKeeps
  <2>. QED BY <1>1, <1>4, <1>5, <2>1 DEF e
<1>. QED BY <1>1, <1>2, <1>3, <1>5 DEF e

LEMMA AppendKeepsIInv ==
  ASSUME IInv, NEW h \in Handler, AppendUnique(h)
  PROVE  IInv'
<1>1. events' \in Seq(Event)
  BY AppendEffect
<1>2. CASE End(h)
  <2>1. req' = [req EXCEPT ![h] = Idle]
    BY <1>2 DEF End
  <2>. QED BY <1>1, <2>1, IdleRequest, IdleIsReady, OtherEvents DEF AppendUnique
<1>3. CASE GoTo(h, "snapshot")
  <2>1. "snapshot" \in Stage
    BY DEF Stage
  <2>2. PICK q \in Request :
          /\ req' = [req EXCEPT ![h] = q]
          /\ q.at = "snapshot" /\ q.installation = req[h].installation
    BY <1>3, <2>1, Moves
  <2>3. Ready(q)
    BY <2>2, Types DEF Ready, DeleteStages, AppendUnique
  <2>. QED BY <1>1, <2>2, <2>3, OtherEvents DEF AppendUnique
<1>. QED BY <1>2, <1>3 DEF AppendUnique

LEMMA SnapshotEffect ==
  ASSUME IInv, NEW h \in Handler, SnapshotDevices(h)
  PROVE  LET mine == {d \in devices : d.installation = req[h].installation}
         IN  \E q \in Request :
               /\ req' = [req EXCEPT ![h] = q] /\ Ready(q)
               /\ q.at \in {"idle", "send"}
               /\ q.at = "send" => /\ q.installation = req[h].installation
                                  /\ q.kind = req[h].kind /\ q.id = req[h].id
                                  /\ q.key = req[h].key /\ q.queue = mine
<1> DEFINE mine == {d \in devices : d.installation = req[h].installation}
<1>1. CASE mine = {}
  BY <1>1, IdleRequest, IdleIsReady DEF SnapshotDevices, End
<1>2. CASE mine # {}
  <2> DEFINE q == [req[h] EXCEPT !.at = "send", !.queue = mine]
  <2>1. req[h] \in Request /\ req \in [Handler -> Request]
    BY Types
  <2>2. req' = [req EXCEPT ![h] = q]
    BY <1>2, <2>1 DEF SnapshotDevices
  <2>3. mine \in SUBSET Device /\ "send" \in Stage
    BY DEF IInv, TypeOK, Stage
  <2> HIDE DEF mine
  <2>4. /\ q \in Request /\ q.at = "send" /\ q.installation = req[h].installation
        /\ q.kind = req[h].kind /\ q.id = req[h].id /\ q.key = req[h].key /\ q.queue = mine
    <3>1. PICK r \in Request : r = req[h]
      BY <2>1
    <3>2. q = [r EXCEPT !.at = "send", !.queue = mine]
      BY <3>1
    <3> HIDE DEF q
    <3>3. q \in Request
      BY <2>3, <3>2 DEF Request
    <3>4. /\ q.at = "send" /\ q.installation = r.installation
          /\ q.kind = r.kind /\ q.id = r.id /\ q.key = r.key /\ q.queue = mine
      BY <3>2 DEF Request
    <3>. QED BY <3>1, <3>3, <3>4
  <2> HIDE DEF q
  <2>5. Ready(q)
    BY <2>4, Types DEF Ready, DeleteStages, SnapshotDevices
  <2>. QED BY <2>2, <2>4, <2>5 DEF mine
<1>. QED BY <1>1, <1>2

LEMMA SnapshotKeepsIInv ==
  ASSUME IInv, NEW h \in Handler, SnapshotDevices(h)
  PROVE  IInv'
BY SnapshotEffect, OnlyRequest DEF SnapshotDevices

LEMMA SendEffect ==
  ASSUME IInv, NEW h \in Handler, Send(h)
  PROVE  \E d \in req[h].queue, q \in Request :
            /\ req' = [req EXCEPT ![h] = q] /\ Ready(q)
            /\ q.at \in {"idle", "send", "forget"}
            /\ q.at # "idle" => /\ q.installation = req[h].installation
                               /\ q.kind = req[h].kind /\ q.id = req[h].id
                               /\ q.key = req[h].key /\ q.queue = req[h].queue \ {d}
            /\ \/ UNCHANGED pushes
               \/ /\ req[h].kind = "event"
                  /\ pushes' = [pushes EXCEPT ![<<req[h].id, req[h].key, d.watch>>] = Twice(@ + 1)]
<1>1. req[h] \in Request /\ req \in [Handler -> Request] /\ req[h].installation \in Installation
      /\ req[h].queue \subseteq Device /\ req[h].at = "send"
  BY Types, RequestTypes DEF Send, Ready
<1>2. PICK d \in req[h].queue : \E outcome \in Outcomes(d.token) :
        LET rest == req[h].queue \ {d}
            p == <<req[h].id, req[h].key, d.watch>>
        IN  /\ IF outcome = "unregistered"
               THEN req' = [req EXCEPT ![h].at = "forget", ![h].watch = d.watch,
                                       ![h].token = d.token, ![h].queue = rest]
               ELSE IF rest = {} THEN End(h)
               ELSE req' = [req EXCEPT ![h].queue = rest]
            /\ IF outcome = "accepted" /\ req[h].kind = "event"
               THEN pushes' = [pushes EXCEPT ![p] = Twice(@ + 1)]
               ELSE UNCHANGED pushes
  BY DEF Send
<1> DEFINE rest == req[h].queue \ {d}
           p == <<req[h].id, req[h].key, d.watch>>
           Pushed == \/ UNCHANGED pushes
                     \/ req[h].kind = "event" /\ pushes' = [pushes EXCEPT ![p] = Twice(@ + 1)]
           Rest(q) == /\ q.installation = req[h].installation
                      /\ q.kind = req[h].kind /\ q.id = req[h].id
                      /\ q.key = req[h].key /\ q.queue = rest
<1>3. rest \in SUBSET Device /\ d.watch \in Watch /\ d.token \in PushToken
  BY <1>1 DEF Device
<1>4. /\ \/ /\ d.token \in dead
            /\ req' = [req EXCEPT ![h].at = "forget", ![h].watch = d.watch,
                                  ![h].token = d.token, ![h].queue = rest]
         \/ End(h)
         \/ req' = [req EXCEPT ![h].queue = rest]
      /\ Pushed
  BY <1>2 DEF Outcomes
<1> HIDE DEF rest
<1>5. ASSUME d.token \in dead,
             req' = [req EXCEPT ![h].at = "forget", ![h].watch = d.watch,
                                ![h].token = d.token, ![h].queue = rest]
      PROVE  \E q \in Request : req' = [req EXCEPT ![h] = q] /\ Ready(q) /\ q.at = "forget" /\ Rest(q)
  <2> DEFINE w == d.watch
             t == d.token
             q == [req[h] EXCEPT !.at = "forget", !.watch = w, !.token = t, !.queue = rest]
  <2>1. req' = [req EXCEPT ![h] = q]
    BY <1>1, <1>5
  <2>2. w \in Watch /\ t \in PushToken /\ t \in dead /\ "forget" \in Stage
    BY <1>3, <1>5 DEF Stage
  <2> HIDE DEF w, t
  <2>3. q \in Request /\ q.at = "forget" /\ q.token = t /\ Rest(q)
    <3>1. PICK r \in Request : r = req[h]
      BY <1>1
    <3>2. q = [r EXCEPT !.at = "forget", !.watch = w, !.token = t, !.queue = rest]
      BY <3>1
    <3> HIDE DEF q
    <3>3. q \in Request
      BY <1>3, <2>2, <3>2 DEF Request
    <3>4. /\ q.at = "forget" /\ q.installation = r.installation /\ q.token = t
          /\ q.kind = r.kind /\ q.id = r.id /\ q.key = r.key /\ q.queue = rest
      BY <3>2 DEF Request
    <3>. QED BY <3>1, <3>3, <3>4
  <2> HIDE DEF q
  <2>4. Ready(q)
    BY <1>1, <2>2, <2>3 DEF Ready, DeleteStages
  <2>. QED BY <2>1, <2>3, <2>4
<1>6. ASSUME End(h)
      PROVE  \E q \in Request : req' = [req EXCEPT ![h] = q] /\ Ready(q) /\ q.at = "idle"
  BY <1>6, IdleRequest, IdleIsReady DEF End
<1>7. ASSUME req' = [req EXCEPT ![h].queue = rest]
      PROVE  \E q \in Request : req' = [req EXCEPT ![h] = q] /\ Ready(q) /\ q.at = "send" /\ Rest(q)
  <2> DEFINE q == [req[h] EXCEPT !.queue = rest]
  <2>1. req' = [req EXCEPT ![h] = q]
    BY <1>1, <1>7
  <2>2. q \in Request /\ q.at = "send" /\ Rest(q)
    <3>1. PICK r \in Request : r = req[h]
      BY <1>1
    <3>2. q = [r EXCEPT !.queue = rest]
      BY <3>1
    <3> HIDE DEF q
    <3>3. q \in Request
      BY <1>3, <3>2 DEF Request
    <3>4. /\ q.at = r.at /\ q.installation = r.installation
          /\ q.kind = r.kind /\ q.id = r.id /\ q.key = r.key /\ q.queue = rest
      BY <3>2 DEF Request
    <3>. QED BY <1>1, <3>1, <3>3, <3>4
  <2> HIDE DEF q
  <2>3. Ready(q)
    BY <1>1, <2>2 DEF Ready, DeleteStages
  <2>. QED BY <2>1, <2>2, <2>3
<1>8. \E q \in Request : /\ req' = [req EXCEPT ![h] = q] /\ Ready(q)
                         /\ q.at \in {"idle", "send", "forget"} /\ (q.at # "idle" => Rest(q))
  BY <1>4, <1>5, <1>6, <1>7
<1>. QED BY <1>4, <1>8 DEF rest

LEMMA SendKeepsIInv ==
  ASSUME IInv, NEW h \in Handler, Send(h)
  PROVE  IInv'
<1>1. UNCHANGED <<installations, channels, codes, deleted, devices, pushToken, dead,
                  events, drawn, hook, paired>>
  BY DEF Send, accounts, clients
<1>2. PICK d \in req[h].queue, q \in Request :
        /\ req' = [req EXCEPT ![h] = q] /\ Ready(q)
        /\ \/ UNCHANGED pushes
           \/ pushes' = [pushes EXCEPT ![<<req[h].id, req[h].key, d.watch>>] = Twice(@ + 1)]
  BY SendEffect
<1>3. pushes' \in [(1..MaxDrawn) \X Key \X Watch -> 0..2]
  <2> DEFINE Pushed == (1..MaxDrawn) \X Key \X Watch
             p == <<req[h].id, req[h].key, d.watch>>
  <2>1. pushes \in [Pushed -> 0..2]
    BY DEF IInv, TypeOK
  <2>2. pushes' = pushes \/ pushes' = [pushes EXCEPT ![p] = Twice(@ + 1)]
    BY <1>2
  <2>3. \A n \in 0..2 : Twice(n + 1) \in 0..2
    BY DEF Twice
  <2> HIDE DEF Pushed, p
  <2>4. pushes' \in [Pushed -> 0..2]
    BY <2>1, <2>2, <2>3
  <2>. QED BY <2>4 DEF Pushed
<1>4. /\ req' \in [Handler -> Request] /\ RequestsAreReady' /\ Sound(channels, drawn)'
      /\ HooksOpenTheirOwn' /\ DeletedHaveHook'
  BY <1>1, <1>2, Undisturbed
<1>5. TypeOK'
  BY <1>1, <1>3, <1>4 DEF IInv, TypeOK
<1>. QED BY <1>4, <1>5 DEF IInv

LEMMA RemoveByTokenKeepsIInv ==
  ASSUME IInv, NEW h \in Handler, RemoveByToken(h)
  PROVE  IInv'
<1>1. devices' \subseteq devices
  BY DEF RemoveByToken
<1>2. CASE End(h)
  <2>1. req' = [req EXCEPT ![h] = Idle]
    BY <1>2 DEF End
  <2>. QED BY <1>1, <2>1, IdleRequest, IdleIsReady, FewerDevices DEF RemoveByToken
<1>3. CASE GoTo(h, "send")
  <2>1. "send" \in Stage
    BY DEF Stage
  <2>2. PICK q \in Request :
          /\ req' = [req EXCEPT ![h] = q]
          /\ q.at = "send" /\ q.installation = req[h].installation
    BY <1>3, <2>1, Moves
  <2>3. Ready(q)
    BY <2>2, Types DEF Ready, DeleteStages, RemoveByToken
  <2>. QED BY <1>1, <2>2, <2>3, FewerDevices DEF RemoveByToken
<1>. QED BY <1>2, <1>3 DEF RemoveByToken
-----------------------------------------------------------------------------
(***************************************************************************)
(* The process, and APNs.                                                  *)
(***************************************************************************)
\* The indexes are the ones a restart would rebuild.
LEMMA RestartIsExact ==
  ASSUME IInv
  PROVE  RestartChangesNothing
BY Types, IndexedIsOpened DEF Sound, RestartChangesNothing

LEMMA CrashKeepsIInv ==
  ASSUME IInv, Crash
  PROVE  IInv'
<1>1. UNCHANGED <<installations, channels, codes, deleted, devices, pushes, pushToken, dead,
                  events, drawn, hook, paired>>
  BY RestartIsExact DEF Crash, RestartChangesNothing, delivery, clients
<1>2. req' \in [Handler -> Request] /\ RequestsAreReady'
  <2>1. req' = [h \in Handler |-> Idle]
    BY DEF Crash
  <2>2. \A h \in Handler : req'[h] = Idle
    BY <2>1
  <2>. QED BY <2>1, <2>2, IdleRequest DEF RequestsAreReady, Ready, DeleteStages
<1>3. TypeOK'
  BY <1>1, <1>2 DEF IInv, TypeOK
<1>4. Sound(channels, drawn)' /\ HooksOpenTheirOwn' /\ DeletedHaveHook'
  BY <1>1 DEF IInv, HooksOpenTheirOwn, Holds, DeletedHaveHook
<1>. QED BY <1>2, <1>3, <1>4 DEF IInv

LEMMA RefreshKeepsIInv ==
  ASSUME IInv, NEW w \in Watch, RefreshPushToken(w)
  PROVE  IInv'
<1>1. UNCHANGED <<installations, channels, codes, deleted, devices, pushes, events, req,
                  drawn, hook, paired>>
  BY DEF RefreshPushToken, accounts, clients
<1>2. pushToken' \in [Watch -> PushToken] /\ dead' \subseteq PushToken /\ dead \subseteq dead'
  BY DEF IInv, TypeOK, RefreshPushToken
<1>3. Grows
  BY <1>1, <1>2 DEF Grows, Holds
<1>4. RequestsAreReady'
  <2> SUFFICES ASSUME NEW h \in Handler PROVE Ready(req[h])'
    BY DEF RequestsAreReady
  <2>1. PICK r \in Request : r = req[h]
    BY Types
  <2>2. Ready(r)'
    BY <1>3, <2>1, Types, StaysReady
  <2>3. req'[h] = r
    BY <1>1, <2>1
  <2>. QED BY <2>2, <2>3 DEF Ready, Holds
<1>5. TypeOK'
  BY <1>1, <1>2 DEF IInv, TypeOK
<1>6. Sound(channels, drawn)' /\ HooksOpenTheirOwn' /\ DeletedHaveHook'
  BY <1>1 DEF IInv, HooksOpenTheirOwn, Holds, DeletedHaveHook
<1>. QED BY <1>4, <1>5, <1>6 DEF IInv

LEMMA InitIInv ==
  ASSUME Init
  PROVE  IInv
<1>1. Sound(channels, drawn) /\ channels \in Store
  BY EmptySound DEF Init, Sound
<1>2. req \in [Handler -> Request] /\ \A h \in Handler : req[h] = Idle
  BY IdleRequest DEF Init
<1>3. TypeOK
  <2>1. installations = {} /\ codes = {} /\ devices = {} /\ events = <<>> /\ drawn = 0
        /\ hook = [i \in Installation |-> 0] /\ paired = [w \in Watch |-> 0]
        /\ pushToken \in [Watch -> PushToken] /\ dead = {} /\ deleted = {}
        /\ pushes = [p \in (1..MaxDrawn) \X Key \X Watch |-> 0]
    BY DEF Init
  <2>2. 0 \in 0..MaxDrawn /\ 0 \in 0..2
    BY MaxDrawnAssumption
  <2>3. <<>> \in Seq(Event)
    OBVIOUS
  <2>. QED BY <1>1, <1>2, <2>1, <2>2, <2>3 DEF TypeOK
<1>4. RequestsAreReady
  BY <1>2, IdleIsReady DEF RequestsAreReady
<1>5. HooksOpenTheirOwn /\ DeletedHaveHook
  <2>1. \A i \in Installation : hook[i] = 0
    BY DEF Init
  <2>2. 0 <= drawn /\ 0 \notin IDs(channels.byID)
    BY DEF Init, IDs, Drawn
  <2>. QED BY <2>1, <2>2 DEF HooksOpenTheirOwn, Holds, DeletedHaveHook, Init
<1>. QED BY <1>1, <1>3, <1>4, <1>5 DEF IInv

LEMMA StepKeepsIInv ==
  ASSUME IInv, NEW h \in Handler, Step(h)
  PROVE  IInv'
BY CreateInstallationKeepsIInv, RereadKeepsIInv, EnsureKeepsIInv, ReplyToInstallKeepsIInv,
   CreateCodeKeepsIInv, ClaimKeepsIInv, RotateKeepsIInv, UpsertKeepsIInv,
   ReplyToClaimKeepsIInv, RemoveDeviceKeepsIInv, LookupChannelKeepsIInv,
   RemovePairingsKeepsIInv, RemoveDevicesKeepsIInv, RemoveEventsKeepsIInv,
   RemoveChannelKeepsIInv, RemoveInstallationKeepsIInv, AppendKeepsIInv,
   SnapshotKeepsIInv, SendKeepsIInv, RemoveByTokenKeepsIInv DEF Step

LEMMA NextKeepsIInv ==
  ASSUME IInv, [Next]_vars
  PROVE  IInv'
<1>1. ASSUME NEW h \in Handler, Arrival(h) \/ Step(h) \/ StoreFails(h)
      PROVE  IInv'
  BY <1>1, ArrivalKeepsIInv, StepKeepsIInv, FailureKeepsIInv
<1>2. CASE Crash
  BY <1>2, CrashKeepsIInv
<1>3. ASSUME NEW w \in Watch, RefreshPushToken(w)
      PROVE  IInv'
  BY <1>3, RefreshKeepsIInv
<1>4. CASE UNCHANGED vars
  <2>1. UNCHANGED <<installations, channels, codes, deleted, devices, pushes, pushToken, dead,
                    events, req, drawn, hook, paired>>
    BY <1>4 DEF vars, accounts, delivery, clients
  <2>2. TypeOK'
    BY <2>1 DEF IInv, TypeOK
  <2>3. Sound(channels, drawn)' /\ RequestsAreReady' /\ HooksOpenTheirOwn' /\ DeletedHaveHook'
    BY <2>1 DEF IInv, RequestsAreReady, Ready, HooksOpenTheirOwn, Holds, DeletedHaveHook
  <2>. QED BY <2>2, <2>3 DEF IInv
<1>. QED BY <1>1, <1>2, <1>3, <1>4 DEF Next
-----------------------------------------------------------------------------
(***************************************************************************)
(* Theorems for any number of concurrent requests.                         *)
(***************************************************************************)
\* IInv holds in every state.
THEOREM IInvHolds == Spec => []IInv
<1>1. Init => IInv
  BY InitIInv
<1>2. IInv /\ [Next]_vars => IInv'
  BY NextKeepsIInv
<1>. QED BY <1>1, <1>2, PTL DEF Spec

\* TypeOK: stores, requests and tokens keep their types, and a watch has one
\* registration (devices.Upsert).
THEOREM TypeCorrect == Spec => []TypeOK
<1>1. IInv => TypeOK
  BY DEF IInv
<1>. QED BY <1>1, IInvHolds, PTL

\* RestartChangesNothing: OpenStore rebuilds the very indexes that the channel
\* store's calls have kept.
THEOREM IndexesAreExact == Spec => []RestartChangesNothing
<1>1. IInv => RestartChangesNothing
  BY RestartIsExact
<1>. QED BY <1>1, IInvHolds, PTL

\* A hook's producer token opens its own installation's channel or none, whatever
\* was deleted, restored or restarted.
THEOREM HooksAreScoped == Spec => []HooksOpenTheirOwn
<1>1. IInv => HooksOpenTheirOwn
  BY DEF IInv
<1>. QED BY <1>1, IInvHolds, PTL

\* The calls that change a channel.
LEMMA ChannelSteps ==
  ASSUME IInv, [Next]_vars
  PROVE  \/ UNCHANGED channels
         \/ \E h \in Handler : EnsureForInstallation(h) \/ RotateWatchSession(h) \/ RemoveChannel(h)
<1>1. ASSUME NEW h \in Handler, Arrival(h) \/ StoreFails(h)
      PROVE  UNCHANGED channels
  BY <1>1 DEF Arrival, StoreFails, BeginInstall, BeginRestore, BeginPairing, BeginDelete,
     BeginClaim, BeginEvent, BeginRegister, BeginUnregister, BeginTest, Begin, accounts
<1>2. ASSUME NEW h \in Handler, Step(h)
      PROVE  UNCHANGED channels
             \/ EnsureForInstallation(h) \/ RotateWatchSession(h) \/ RemoveChannel(h)
  BY <1>2 DEF Step, CreateInstallation, RereadInstallation, ReplyToInstall, CreateCode, Claim,
     Upsert, ReplyToClaim, RemoveDevice, LookupChannel, RemovePairings, RemoveDevices,
     RemoveEvents, RemoveInstallation, AppendUnique, SnapshotDevices, Send, RemoveByToken,
     accounts
<1>3. CASE Crash
  BY <1>3, RestartIsExact DEF Crash, RestartChangesNothing
<1>4. ASSUME NEW w \in Watch, RefreshPushToken(w)
      PROVE  UNCHANGED channels
  BY <1>4 DEF RefreshPushToken, accounts
<1>5. CASE UNCHANGED vars
  BY <1>5 DEF vars, accounts
<1>. QED BY <1>1, <1>2, <1>3, <1>4, <1>5 DEF Next

\* RotateWatchSession, channel by channel.
LEMMA RotateEffect ==
  ASSUME IInv, NEW h \in Handler, RotateWatchSession(h)
  PROVE  \/ UNCHANGED channels
         \/ /\ drawn' = drawn + 1
            /\ Sound(channels, drawn)'
            /\ \A k \in Drawn :
                 /\ channels'.byID[k].installation = channels.byID[k].installation
                 /\ channels'.byID[k].producer = channels.byID[k].producer
                 /\ channels'.byID[k].watch \in {channels.byID[k].watch, drawn'}
                 /\ channels'.byID[k] # NoChannel => channels.byID[k] # NoChannel
<1> DEFINE i == req[h].installation
<1>1. i \in Installation
  BY Types DEF Ready, RotateWatchSession
<1>2. CASE GetByInstallation(channels, i) = 0
  BY <1>2 DEF RotateWatchSession
<1>3. CASE GetByInstallation(channels, i) # 0
  <2>1. /\ drawn < MaxDrawn /\ drawn' = drawn + 1
        /\ channels' = WithWatchSession(channels, i, drawn')
    BY <1>3 DEF RotateWatchSession
  <2>2. drawn \in Nat /\ Sound(channels, drawn)
    BY Types, MaxDrawnAssumption
  <2>3. Sound(channels', drawn')
    BY <1>1, <1>3, <2>1, <2>2, RotateSound
  <2>4. \A k \in Drawn :
          /\ channels'.byID[k].installation = channels.byID[k].installation
          /\ channels'.byID[k].producer = channels.byID[k].producer
          /\ channels'.byID[k].watch \in {channels.byID[k].watch, drawn'}
          /\ channels'.byID[k] # NoChannel => channels.byID[k] # NoChannel
    BY <1>1, <1>3, <2>1, <2>2, RotateKeepsOwners
  <2>. QED BY <2>1, <2>3, <2>4
<1>. QED BY <1>2, <1>3

\* A token opens a channel later only if that channel had it already.
LEMMA OpensNoMore ==
  ASSUME NEW n, NEW m, NEW s, NEW r, Sound(s, n), Sound(r, m), NEW t \in Drawn,
         \A k \in Drawn : /\ r.byID[k].watch = t => s.byID[k].watch = t
                          /\ r.byID[k].producer = t => s.byID[k].producer = t
  PROVE  /\ GetByWatchToken(s, t) = 0 => GetByWatchToken(r, t) = 0
         /\ GetByProducerToken(s, t) = 0 => GetByProducerToken(r, t) = 0
<1>1. /\ GetByWatchToken(s, t) = s.byWatchToken[t] /\ GetByWatchToken(r, t) = r.byWatchToken[t]
      /\ GetByProducerToken(s, t) = s.byProducerToken[t]
      /\ GetByProducerToken(r, t) = r.byProducerToken[t]
  BY LookUp
<1>2. /\ r.byWatchToken[t] \in 0..MaxDrawn /\ r.byProducerToken[t] \in 0..MaxDrawn
      /\ \A x \in 0..MaxDrawn : x = 0 \/ x \in Drawn
      /\ 0 \notin Drawn
  BY StoreTypes, MaxDrawnAssumption DEF Sound, Drawn
<1>3. ASSUME s.byWatchToken[t] = 0, r.byWatchToken[t] # 0
      PROVE  FALSE
  <2>1. PICK k \in Drawn : r.byWatchToken[t] = k
    BY <1>2, <1>3
  <2>2. s.byID[k].watch = t
    BY <2>1 DEF Sound, Indexed
  <2>. QED BY <1>2, <1>3, <2>2 DEF Sound, Indexed
<1>4. ASSUME s.byProducerToken[t] = 0, r.byProducerToken[t] # 0
      PROVE  FALSE
  <2>1. PICK k \in Drawn : r.byProducerToken[t] = k
    BY <1>2, <1>4
  <2>2. s.byID[k].producer = t
    BY <2>1 DEF Sound, Indexed
  <2>. QED BY <1>2, <1>4, <2>2 DEF Sound, Indexed
<1>. QED BY <1>1, <1>3, <1>4

LEMMA RevokedTokensStay ==
  ASSUME IInv, [Next]_vars, NEW t \in 1..drawn
  PROVE  /\ GetByWatchToken(channels, t) = 0 => GetByWatchToken(channels', t) = 0
         /\ GetByProducerToken(channels, t) = 0 => GetByProducerToken(channels', t) = 0
<1>1. /\ Sound(channels, drawn) /\ Sound(channels', drawn') /\ drawn \in 0..MaxDrawn
      /\ t \in Drawn /\ t <= drawn /\ drawn \in Nat /\ t # 0
  BY Types, NextKeepsIInv, MaxDrawnAssumption DEF IInv, Drawn
<1>2. CASE UNCHANGED channels
  BY <1>2
<1>3. ASSUME NEW h \in Handler, EnsureForInstallation(h)
      PROVE  \A k \in Drawn : /\ channels'.byID[k].watch = t => channels.byID[k].watch = t
                              /\ channels'.byID[k].producer = t => channels.byID[k].producer = t
  <2> SUFFICES ASSUME NEW k \in Drawn, channels'.byID[k] # channels.byID[k]
               PROVE  channels'.byID[k].watch # t /\ channels'.byID[k].producer # t
    OBVIOUS
  <2>1. ~(k <= drawn)
    BY <1>3, EnsureEffect
  <2> DEFINE i == req[h].installation
  <2>2. /\ drawn' = drawn + 1 /\ drawn < MaxDrawn /\ i \in Installation
        /\ channels' = WithChannel(channels, i, drawn')
    BY <1>3, EnsureEffect DEF EnsureForInstallation
  <2>3. PICK m \in Drawn : m = drawn'
    BY <1>1, <2>2, MaxDrawnAssumption DEF Drawn
  <2> HIDE DEF i
  <2> DEFINE s == WithChannel(channels, i, m)
  <2>4. channels \in Store
    BY <1>1 DEF Sound
  <2>5. /\ s \in Store
        /\ s.byID = [channels.byID EXCEPT ![m] =
                         [installation |-> i, producer |-> m, watch |-> 0]]
        /\ s.byInstallation = [channels.byInstallation EXCEPT ![i] = m]
        /\ s.byProducerToken = [channels.byProducerToken EXCEPT ![m] = m]
        /\ s.byWatchToken = channels.byWatchToken
    BY <2>2, <2>4, EnsureParts
  <2>6. channels.byID \in [Drawn -> Channel] /\ channels' = s
    BY <2>2, <2>3, <2>4, StoreTypes
  <2> HIDE DEF s
  <2>7. k = m
    BY <2>5, <2>6
  <2>8. channels'.byID[k].watch = 0 /\ channels'.byID[k].producer = m
    BY <2>5, <2>6, <2>7
  <2>. QED BY <1>1, <2>1, <2>7, <2>8
<1>4. ASSUME NEW h \in Handler, RotateWatchSession(h), channels' # channels
      PROVE  \A k \in Drawn : /\ channels'.byID[k].watch = t => channels.byID[k].watch = t
                              /\ channels'.byID[k].producer = t => channels.byID[k].producer = t
  <2>1. drawn' # t
    BY <1>1, <1>4, RotateEffect
  <2>. QED BY <1>4, <2>1, RotateEffect
<1>5. ASSUME NEW h \in Handler, RemoveChannel(h)
      PROVE  \A k \in Drawn : /\ channels'.byID[k].watch = t => channels.byID[k].watch = t
                              /\ channels'.byID[k].producer = t => channels.byID[k].producer = t
  <2>1. \A k \in Drawn : channels'.byID[k] \in {NoChannel, channels.byID[k]}
    BY <1>5, RemoveEffect
  <2>. QED BY <1>1, <2>1 DEF NoChannel
<1>6. CASE channels' # channels
  <2>1. \A k \in Drawn : /\ channels'.byID[k].watch = t => channels.byID[k].watch = t
                         /\ channels'.byID[k].producer = t => channels.byID[k].producer = t
    BY <1>3, <1>4, <1>5, <1>6, ChannelSteps
  <2>. QED BY <1>1, <2>1, OpensNoMore
<1>. QED BY <1>2, <1>6

\* RevokedStaysRevoked: a producer or watch token that opens nothing, because it was
\* rotated out or its channel deleted, opens nothing ever again.
THEOREM RevokedForGood == Spec => RevokedStaysRevoked
<1>1. IInv /\ [Next]_vars =>
        [\A t \in 1..drawn :
           /\ GetByWatchToken(channels, t) = 0 => GetByWatchToken(channels', t) = 0
           /\ GetByProducerToken(channels, t) = 0 => GetByProducerToken(channels', t) = 0]_vars
  BY RevokedTokensStay
<1>. QED BY <1>1, IInvHolds, PTL DEF Spec, RevokedStaysRevoked

\* ProducerTokenIsStable: the channel found for an installation stays the one found,
\* until a deletion of that installation is under way.
THEOREM ChannelIsStable == Spec => ProducerTokenIsStable
<1> DEFINE Stays(i) ==
      GetByInstallation(channels, i) \notin {0, GetByInstallation(channels', i)} =>
        \E h \in Handler : req[h].kind = "delete" /\ req[h].installation = i
<1>1. ASSUME IInv, [Next]_vars, NEW i \in Installation,
             GetByInstallation(channels, i) \notin {0, GetByInstallation(channels', i)}
      PROVE  \E h \in Handler : req[h].kind = "delete" /\ req[h].installation = i
  <2> DEFINE n == GetByInstallation(channels, i)
  <2>1. n \in Drawn /\ n <= drawn /\ channels.byID[n].installation = i
    BY <1>1, ChannelOf
  <2>2. Sound(channels, drawn) /\ Sound(channels, drawn)'
    BY <1>1, Types, NextKeepsIInv DEF IInv
  <2> HIDE DEF n
  <2>3. channels'.byID[n].installation # i
    <3>1. GetByInstallation(channels', i) = channels'.byInstallation[i]
      BY <2>2, LookUp
    <3>2. channels'.byInstallation[i] # n
      BY <1>1, <3>1 DEF n
    <3>. QED BY <2>1, <2>2, <3>2 DEF Sound, Indexed
  <2>4. channels' # channels
    BY <2>1, <2>3
  <2>5. ASSUME NEW h \in Handler, EnsureForInstallation(h)
        PROVE  FALSE
    <3>1. channels'.byID[n] = channels.byID[n]
      BY <1>1, <2>1, <2>5, EnsureEffect
    <3>. QED BY <2>1, <2>3, <3>1
  <2>6. ASSUME NEW h \in Handler, RotateWatchSession(h)
        PROVE  FALSE
    <3>1. channels'.byID[n].installation = channels.byID[n].installation
      BY <1>1, <2>1, <2>4, <2>6, RotateEffect
    <3>. QED BY <2>1, <2>3, <3>1
  <2>7. PICK h \in Handler : RemoveChannel(h)
    BY <1>1, <2>4, <2>5, <2>6, ChannelSteps
  <2> DEFINE j == req[h].installation
  <2>8. req[h].kind = "delete" /\ j \in Installation
    BY <1>1, <2>7, Types DEF RemoveChannel, Ready, DeleteStages
  <2>9. channels'.byID[n] =
          IF n = GetByInstallation(channels, j) THEN NoChannel ELSE channels.byID[n]
    BY <1>1, <2>1, <2>7, RemoveEffect
  <2>10. n = GetByInstallation(channels, j)
    BY <2>1, <2>3, <2>9
  <2>11. j = i
    <3>1. n # 0
      BY <2>1 DEF Drawn
    <3> HIDE DEF j
    <3>2. channels.byID[GetByInstallation(channels, j)].installation = j
      BY <1>1, <2>8, <2>10, <3>1, ChannelOf
    <3>. QED BY <2>1, <2>10, <3>2
  <2>. QED BY <2>8, <2>11
<1>2. IInv /\ [Next]_vars => [\A i \in Installation : Stays(i)]_vars
  BY <1>1
<1>. QED BY <1>2, IInvHolds, PTL DEF Spec, ProducerTokenIsStable

\* A handler's step moves no other handler's request.
LEMMA StepMovesOne ==
  ASSUME req \in [Handler -> Request], NEW g \in Handler, Step(g), NEW h \in Handler, h # g
  PROVE  req'[h] = req[h]
<1>1. ASSUME NEW at, GoTo(g, at)
      PROVE  req'[h] = req[h]
  BY <1>1 DEF GoTo
<1>2. ASSUME End(g)
      PROVE  req'[h] = req[h]
  BY <1>2 DEF End
<1>3. CASE \/ CreateInstallation(g) \/ RereadInstallation(g) \/ ReplyToInstall(g)
           \/ CreateCode(g) \/ Upsert(g) \/ ReplyToClaim(g) \/ RemoveDevice(g)
           \/ RemovePairings(g) \/ RemoveDevices(g) \/ RemoveEvents(g)
           \/ RemoveChannel(g) \/ RemoveInstallation(g) \/ AppendUnique(g)
           \/ RemoveByToken(g)
  BY <1>1, <1>2, <1>3 DEF CreateInstallation, RereadInstallation, ReplyToInstall, CreateCode,
     Upsert, ReplyToClaim, RemoveDevice, RemovePairings, RemoveDevices, RemoveEvents,
     RemoveChannel, RemoveInstallation, AppendUnique, RemoveByToken
<1>4. CASE EnsureForInstallation(g)
  BY <1>4 DEF EnsureForInstallation
<1>5. CASE Claim(g)
  BY <1>2, <1>5 DEF Claim
<1>6. CASE RotateWatchSession(g)
  BY <1>2, <1>6 DEF RotateWatchSession
<1>7. CASE LookupChannel(g)
  BY <1>7 DEF LookupChannel
<1>8. CASE SnapshotDevices(g)
  BY <1>2, <1>8 DEF SnapshotDevices
<1>9. CASE Send(g)
  BY <1>2, <1>9 DEF Send
<1>. QED BY <1>3, <1>4, <1>5, <1>6, <1>7, <1>8, <1>9 DEF Step

\* LateAnswerKeepsNewToken: when APNs calls a token unregistered, only registrations
\* with a token that it rejects are removed.
THEOREM OnlyDeadTokensAreForgotten == Spec => LateAnswerKeepsNewToken
<1> DEFINE Forgets(h) ==
      req[h].at = "forget" /\ req'[h].at # "forget" =>
          \A d \in devices \ devices' : d.token \in dead
<1>1. ASSUME IInv, [Next]_vars, NEW h \in Handler,
             req[h].at = "forget", req'[h].at # "forget", NEW d \in devices \ devices'
      PROVE  d.token \in dead
  <2>1. req \in [Handler -> Request] /\ req[h].token \in dead
    BY <1>1, Types DEF Ready
  <2>2. ASSUME NEW g \in Handler, Step(g)
        PROVE  d.token \in dead
    <3>1. CASE g = h
      <4>1. RemoveByToken(h)
        BY <1>1, <2>2, <3>1 DEF Step, CreateInstallation, RereadInstallation,
           EnsureForInstallation, ReplyToInstall, CreateCode, Claim, RotateWatchSession,
           Upsert, ReplyToClaim, RemoveDevice, LookupChannel, RemovePairings,
           RemoveDevices, RemoveEvents, RemoveChannel, RemoveInstallation, AppendUnique,
           SnapshotDevices, Send
      <4>2. d.token = req[h].token
        BY <1>1, <4>1 DEF RemoveByToken
      <4>. QED BY <2>1, <4>2
    <3>2. CASE g # h
      <4>1. req'[h] = req[h]
        BY <2>1, <2>2, <3>2, StepMovesOne
      <4>. QED BY <1>1, <4>1
    <3>. QED BY <3>1, <3>2
  <2>3. CASE ~ \E g \in Handler : Step(g)
    <3>1. UNCHANGED devices
      BY <1>1, <2>3 DEF Next, Arrival, StoreFails, BeginInstall, BeginRestore, BeginPairing,
         BeginDelete, BeginClaim, BeginEvent, BeginRegister, BeginUnregister, BeginTest, Begin,
         Crash, RefreshPushToken, delivery, vars
    <3>. QED BY <1>1, <3>1
  <2>. QED BY <2>2, <2>3
<1>2. IInv /\ [Next]_vars => [\A h \in Handler : Forgets(h)]_vars
  BY <1>1
<1>. QED BY <1>2, IInvHolds, PTL DEF Spec, LateAnswerKeepsNewToken
-----------------------------------------------------------------------------
(***************************************************************************)
(* One push per event and watch, while no event is forgotten.              *)
(***************************************************************************)
\* The log keeps its events: neither retention nor a deletion takes one out.
LogKept == \A n \in DOMAIN events : \E m \in DOMAIN events' : events'[m] = events[n]

NothingIsForgotten == [][LogKept]_vars

Recorded(c, k) == \E n \in DOMAIN events : events[n] = [channel |-> c, key |-> k]

Delivers(r) == r.kind = "event" /\ r.at \in {"snapshot", "send", "forget"}

OnePerWatch(Q) == \A d, e \in Q : d.watch = e.watch => d = e

\* r's event is in the log, and none of the watches r still has to reach was reached.
Unreached(r) ==
    /\ r.id \in 1..MaxDrawn /\ r.key \in Key /\ Recorded(r.id, r.key)
    /\ r.at = "snapshot" => \A w \in Watch : pushes[<<r.id, r.key, w>>] = 0
    /\ r.at # "snapshot" => /\ \A d \in r.queue : pushes[<<r.id, r.key, d.watch>>] = 0
                            /\ OnePerWatch(r.queue)

PushedAreRecorded ==
    \A c \in 1..MaxDrawn, k \in Key, w \in Watch :
        /\ pushes[<<c, k, w>>] <= 1
        /\ pushes[<<c, k, w>>] # 0 => Recorded(c, k)

DeliveriesAreAhead == \A h \in Handler : Delivers(req[h]) => Unreached(req[h])

SameEvent(r, s) == Delivers(r) /\ Delivers(s) /\ r.id = s.id /\ r.key = s.key

OneDelivers == \A g, h \in Handler : SameEvent(req[g], req[h]) => g = h

PushInv == PushedAreRecorded /\ DeliveriesAreAhead /\ OneDelivers

LEMMA RecordedStays ==
  ASSUME LogKept, NEW c, NEW k, Recorded(c, k)
  PROVE  Recorded(c, k)'
<1>1. PICK n \in DOMAIN events : events[n] = [channel |-> c, key |-> k]
  BY DEF Recorded
<1>2. PICK m \in DOMAIN events' : events'[m] = events[n]
  BY DEF LogKept
<1>. QED BY <1>1, <1>2 DEF Recorded

\* s goes on with the delivery r has begun, and adds nothing to it.
Continues(r, s) ==
    /\ Delivers(r) /\ s.id = r.id /\ s.key = r.key
    /\ s.at = "snapshot" => r.at = "snapshot"
    /\ s.at # "snapshot" /\ r.at # "snapshot" => s.queue \subseteq r.queue
    /\ s.at # "snapshot" /\ r.at = "snapshot" =>
         (\A d \in s.queue : d.watch \in Watch) /\ OnePerWatch(s.queue)

LEMMA QuietStep ==
  ASSUME PushInv, LogKept, UNCHANGED pushes,
         \A h \in Handler : Delivers(req[h])' => Continues(req[h], req'[h])
  PROVE  PushInv'
<1>1. PushedAreRecorded'
  BY RecordedStays DEF PushInv, PushedAreRecorded
<1>2. ASSUME NEW h \in Handler, Delivers(req[h])'
      PROVE  Unreached(req[h])'
  <2>1. Continues(req[h], req'[h]) /\ Unreached(req[h])
    BY <1>2 DEF PushInv, DeliveriesAreAhead, Continues
  <2>2. /\ req'[h].id \in 1..MaxDrawn /\ req'[h].key \in Key
        /\ Recorded(req[h].id, req[h].key)'
    <3>1. Recorded(req[h].id, req[h].key)
      BY <2>1 DEF Unreached
    <3>2. PICK c, k : c = req[h].id /\ k = req[h].key
      OBVIOUS
    <3>3. Recorded(c, k)'
      BY <3>1, <3>2, RecordedStays
    <3>. QED BY <2>1, <3>2, <3>3 DEF Unreached, Continues, Recorded
  <2>3. req'[h].at = "snapshot" =>
          \A w \in Watch : pushes'[<<req'[h].id, req'[h].key, w>>] = 0
    BY <2>1 DEF Unreached, Continues
  <2>4. req'[h].at # "snapshot" =>
          /\ \A d \in req'[h].queue : pushes'[<<req'[h].id, req'[h].key, d.watch>>] = 0
          /\ OnePerWatch(req'[h].queue)
    BY <2>1 DEF Unreached, Continues, OnePerWatch
  <2>. QED BY <2>2, <2>3, <2>4 DEF Unreached, OnePerWatch
<1>3. ASSUME NEW g \in Handler, NEW h \in Handler, SameEvent(req[g], req[h])'
      PROVE  g = h
  BY <1>3 DEF PushInv, OneDelivers, SameEvent, Continues
<1>. QED BY <1>1, <1>2, <1>3 DEF PushInv, DeliveriesAreAhead, OneDelivers
LEMMA Untouched ==
  ASSUME NEW h \in Handler, req'[h] = req[h], Delivers(req[h])'
  PROVE  Continues(req[h], req'[h])
BY DEF Continues, Delivers

LEMMA OthersWait ==
  ASSUME IInv, NEW g \in Handler, Step(g), NEW h \in Handler, h # g, Delivers(req[h])'
  PROVE  Continues(req[h], req'[h])
<1>1. req'[h] = req[h]
  BY StepMovesOne, Types
<1>. QED BY <1>1, Untouched

\* A handler that moves on to a call other than those of a delivery.
LEMMA NoDelivery ==
  ASSUME IInv, NEW h \in Handler, NEW at \in Stage \ {"snapshot", "send", "forget"},
         NEW n \in 0..MaxDrawn, NEW i,
         \/ GoTo(h, at) \/ GoToWith(h, n, at) \/ End(h)
         \/ req' = [req EXCEPT ![h].at = at, ![h].installation = i]
         \/ req' = [req EXCEPT ![h].at = at, ![h].id = n]
  PROVE  ~ Delivers(req[h])'
<1>1. req \in [Handler -> Request]
  BY Types
<1>2. PICK r \in Request : r = req[h]
  BY Types
<1>3. CASE GoTo(h, at)
  BY <1>3, Moves, <1>1 DEF Delivers
<1>4. CASE GoToWith(h, n, at)
  BY <1>4, MovesNumbered, <1>1 DEF Delivers
<1>5. CASE End(h)
  BY <1>1, <1>5, IdleRequest DEF Delivers, End
<1>6. CASE req' = [req EXCEPT ![h].at = at, ![h].installation = i]
  <2>1. req'[h] = [r EXCEPT !.at = at, !.installation = i]
    BY <1>1, <1>2, <1>6
  <2>2. req'[h].at = at
    BY <2>1 DEF Request
  <2>. QED BY <2>2 DEF Delivers
<1>7. CASE req' = [req EXCEPT ![h].at = at, ![h].id = n]
  <2>1. req'[h] = [r EXCEPT !.at = at, !.id = n]
    BY <1>1, <1>2, <1>7
  <2>2. req'[h].at = at
    BY <2>1 DEF Request
  <2>. QED BY <2>2 DEF Delivers
<1>. QED BY <1>3, <1>4, <1>5, <1>6, <1>7

DeliveryStep(h) == AppendUnique(h) \/ SnapshotDevices(h) \/ Send(h) \/ RemoveByToken(h)

LEMMA OtherCalls ==
  ASSUME IInv, NEW h \in Handler, Step(h), ~ DeliveryStep(h)
  PROVE  ~ Delivers(req[h])' /\ UNCHANGED pushes
<1>1. {"ensure", "answer", "code", "rotate", "reply", "upsert", "pairings", "devices",
       "events", "channel", "installation", "idle"}
        \subseteq Stage \ {"snapshot", "send", "forget"}
  BY DEF Stage
<1>2. 0 \in 0..MaxDrawn
  BY MaxDrawnAssumption
<1>3. ASSUME NEW at, at \in {"ensure", "answer", "reply", "devices", "events", "channel",
                            "installation"},
             GoTo(h, at)
      PROVE  ~ Delivers(req[h])'
  BY <1>1, <1>2, <1>3, NoDelivery
<1>4. ASSUME End(h)
      PROVE  ~ Delivers(req[h])'
  BY <1>1, <1>2, <1>4, NoDelivery
<1>5. CASE CreateInstallation(h) \/ RereadInstallation(h) \/ ReplyToInstall(h)
           \/ CreateCode(h) \/ Upsert(h) \/ ReplyToClaim(h) \/ RemoveDevice(h)
  BY <1>3, <1>4, <1>5 DEF CreateInstallation, RereadInstallation, ReplyToInstall,
     CreateCode, Upsert, ReplyToClaim, RemoveDevice, delivery
<1>6. CASE RemovePairings(h) \/ RemoveDevices(h) \/ RemoveEvents(h)
           \/ RemoveChannel(h) \/ RemoveInstallation(h)
  BY <1>3, <1>4, <1>6 DEF RemovePairings, RemoveDevices, RemoveEvents,
     RemoveChannel, RemoveInstallation, delivery
<1>7. CASE EnsureForInstallation(h)
  <2> DEFINE n == GetByInstallation(channels', req[h].installation)
             at == IF req[h].kind = "pairing" THEN "code" ELSE "answer"
  <2>1. GoToWith(h, n, at) /\ UNCHANGED pushes
    BY <1>7 DEF EnsureForInstallation, GoToWith, delivery
  <2>2. n \in 0..MaxDrawn
    BY <1>7, EnsureEffect, MaxDrawnAssumption DEF Drawn
  <2>3. at \in Stage \ {"snapshot", "send", "forget"}
    BY <1>1
  <2> HIDE DEF n, at
  <2>. QED BY <2>1, <2>2, <2>3, NoDelivery
<1>8. CASE Claim(h)
  <2>1. UNCHANGED pushes
    BY <1>8 DEF Claim, delivery
  <2>2. End(h) \/ \E i : req' = [req EXCEPT ![h].at = "rotate", ![h].installation = i]
    BY <1>8 DEF Claim
  <2>. QED BY <1>1, <1>2, <1>4, <2>1, <2>2, NoDelivery
<1>9. CASE RotateWatchSession(h)
  <2> DEFINE at == IF req[h].token = None THEN "reply" ELSE "upsert"
  <2>1. UNCHANGED pushes
    BY <1>9 DEF RotateWatchSession, delivery
  <2>2. End(h) \/ (drawn' = drawn + 1 /\ drawn < MaxDrawn /\ GoToWith(h, drawn', at))
    BY <1>9 DEF RotateWatchSession, GoToWith
  <2>3. drawn' = drawn + 1 /\ drawn < MaxDrawn => drawn' \in 0..MaxDrawn
    BY Types, MaxDrawnAssumption
  <2>4. at \in Stage \ {"snapshot", "send", "forget"}
    BY <1>1
  <2> HIDE DEF at
  <2>. QED BY <1>4, <2>1, <2>2, <2>3, <2>4, NoDelivery
<1>10. CASE LookupChannel(h)
  <2> DEFINE n == GetByInstallation(channels, req[h].installation)
  <2>1. req' = [req EXCEPT ![h].at = "pairings", ![h].id = n] /\ UNCHANGED pushes
    BY <1>10 DEF LookupChannel, delivery
  <2>2. n \in 0..MaxDrawn
    BY Types, MaxDrawnAssumption DEF GetByInstallation, Found, Drawn, IDs
  <2> HIDE DEF n
  <2>. QED BY <1>1, <2>1, <2>2, NoDelivery
<1>. QED BY <1>5, <1>6, <1>7, <1>8, <1>9, <1>10 DEF Step, DeliveryStep
\* A new event is put into the log, even when another has to leave.
LEMMA AppendRecords ==
  ASSUME NEW log \in Seq(Event), NEW e \in Event
  PROVE  \E n \in DOMAIN Keep(Append(log, e)) : Keep(Append(log, e))[n] = e
<1> DEFINE l == Len(log)
           longer == Append(log, e)
<1>1. l \in Nat
  OBVIOUS
<1>2. longer \in Seq(Event) /\ Len(longer) = l + 1 /\ longer[l + 1] = e
      /\ DOMAIN longer = 1..(l + 1)
  OBVIOUS
<1> HIDE DEF l, longer
<1>3. CASE l + 1 > MaxEvents
  <2>1. l # 0
    BY <1>1, <1>3, MaxEventsAssumption
  <2>2. DOMAIN Tail(longer) = 1..l /\ \A n \in 1..l : Tail(longer)[n] = longer[n + 1]
    BY <1>1, <1>2
  <2>3. l \in 1..l
    BY <1>1, <2>1
  <2>. QED BY <1>2, <1>3, <2>2, <2>3 DEF Keep, longer
<1>4. CASE ~ (l + 1 > MaxEvents)
  <2>1. l + 1 \in 1..(l + 1)
    BY <1>1
  <2>. QED BY <1>2, <1>4, <2>1 DEF Keep, longer
<1>. QED BY <1>3, <1>4

LEMMA AppendKeepsPushInv ==
  ASSUME IInv, PushInv, LogKept, NEW h \in Handler, AppendUnique(h)
  PROVE  PushInv'
<1> DEFINE e == [channel |-> req[h].id, key |-> req[h].key]
<1>1. UNCHANGED pushes /\ Step(h)
  BY DEF AppendUnique, delivery, Step
<1>2. CASE End(h)
  <2>1. ~ Delivers(req[h])'
    BY <1>2, Types, IdleRequest DEF End, Delivers
  <2>2. \A g \in Handler : Delivers(req[g])' => Continues(req[g], req'[g])
    BY <1>1, <2>1, OthersWait
  <2>. QED BY <1>1, <2>2, QuietStep
<1>3. CASE /\ \A n \in DOMAIN events : events[n] # e
           /\ GoTo(h, "snapshot") /\ events' = Keep(Append(events, e))
  <2>1. PICK q \in Request :
          /\ req' = [req EXCEPT ![h] = q]
          /\ q.at = "snapshot" /\ q.id = req[h].id /\ q.key = req[h].key
    <3>1. "snapshot" \in Stage
      BY DEF Stage
    <3>. QED BY <1>3, <3>1, Moves
  <2>2. req[h].id \in 1..MaxDrawn /\ req[h].key \in Key
    BY Types DEF Ready, AppendUnique, Drawn
  <2>3. PICK c \in 1..MaxDrawn, k \in Key : c = req[h].id /\ k = req[h].key
    BY <2>2
  <2>4. ~ Recorded(c, k)
    BY <1>3, <2>3 DEF Recorded
  <2>5. Recorded(c, k)'
    <3>1. e \in Event /\ events \in Seq(Event)
      BY <2>2 DEF Event, IInv, TypeOK
    <3>2. \E n \in DOMAIN events' : events'[n] = e
      <4> HIDE DEF e
      <4>. QED BY <1>3, <3>1, AppendRecords
    <3>. QED BY <2>3, <3>2 DEF Recorded
  <2>6. req'[h] = q /\ q.id = c /\ q.key = k
    BY <2>1, <2>3, Types
  <2>7. \A w \in Watch : pushes[<<c, k, w>>] = 0
    BY <2>4 DEF PushInv, PushedAreRecorded
  <2>8. Unreached(req[h])'
    BY <1>1, <2>1, <2>5, <2>6, <2>7 DEF Unreached
  <2>9. ASSUME NEW g \in Handler, g # h, Delivers(req[g])'
        PROVE  /\ req'[g] = req[g] /\ Delivers(req[g]) /\ Unreached(req[g])'
               /\ ~ (req[g].id = c /\ req[g].key = k)
    <3>1. req'[g] = req[g]
      BY <2>1, <2>9
    <3>2. Delivers(req[g]) /\ Unreached(req[g])
      BY <2>9, <3>1 DEF Delivers, PushInv, DeliveriesAreAhead
    <3>3. PICK b, j : b = req[g].id /\ j = req[g].key
      OBVIOUS
    <3>4. Recorded(b, j)
      BY <3>2, <3>3 DEF Unreached
    <3>5. Recorded(b, j)'
      BY <3>4, RecordedStays
    <3>6. Unreached(req[g])'
      BY <1>1, <3>1, <3>2, <3>3, <3>5 DEF Unreached, Recorded
    <3>. QED BY <2>4, <3>1, <3>2, <3>3, <3>4, <3>6
  <2>10. PushedAreRecorded'
    BY <1>1, RecordedStays DEF PushInv, PushedAreRecorded
  <2>11. DeliveriesAreAhead'
    BY <2>8, <2>9 DEF DeliveriesAreAhead
  <2>12. ASSUME NEW f \in Handler, NEW g \in Handler, SameEvent(req[f], req[g])'
         PROVE  f = g
    <3>1. Delivers(req[f])' /\ Delivers(req[g])' /\ req'[f].id = req'[g].id
          /\ req'[f].key = req'[g].key
      BY <2>12 DEF SameEvent
    <3>2. CASE f # h /\ g # h
      BY <2>9, <3>1, <3>2 DEF PushInv, OneDelivers, SameEvent
    <3>3. CASE f = h \/ g = h
      BY <2>6, <2>9, <3>1, <3>3
    <3>. QED BY <3>2, <3>3
  <2>. QED BY <2>10, <2>11, <2>12 DEF PushInv, OneDelivers
<1>. QED BY <1>2, <1>3 DEF AppendUnique

LEMMA SnapshotKeepsPushInv ==
  ASSUME IInv, PushInv, LogKept, NEW h \in Handler, SnapshotDevices(h)
  PROVE  PushInv'
<1> DEFINE mine == {d \in devices : d.installation = req[h].installation}
<1>1. UNCHANGED pushes /\ Step(h) /\ req[h].at = "snapshot"
  BY DEF SnapshotDevices, delivery, Step
<1>2. PICK q \in Request :
        /\ req' = [req EXCEPT ![h] = q]
        /\ q.at \in {"idle", "send"}
        /\ q.at = "send" => /\ q.kind = req[h].kind /\ q.id = req[h].id
                           /\ q.key = req[h].key /\ q.queue = mine
  BY SnapshotEffect
<1>3. req'[h] = q
  BY <1>2, Types
<1>4. (\A d \in mine : d.watch \in Watch) /\ OnePerWatch(mine)
  BY DEF IInv, TypeOK, Device, OnePerWatch
<1>5. Delivers(req[h])' => Continues(req[h], req'[h])
  <2> HIDE DEF mine
  <2>. QED BY <1>1, <1>2, <1>3, <1>4 DEF Delivers, Continues, OnePerWatch
<1>6. \A g \in Handler : Delivers(req[g])' => Continues(req[g], req'[g])
  BY <1>1, <1>5, OthersWait
<1>. QED BY <1>1, <1>6, QuietStep

LEMMA RemoveByTokenKeepsPushInv ==
  ASSUME IInv, PushInv, LogKept, NEW h \in Handler, RemoveByToken(h)
  PROVE  PushInv'
<1>1. UNCHANGED pushes /\ Step(h) /\ req[h].at = "forget"
  BY DEF RemoveByToken, Step
<1>2. CASE End(h)
  <2>1. ~ Delivers(req[h])'
    BY <1>2, Types, IdleRequest DEF End, Delivers
  <2>2. \A g \in Handler : Delivers(req[g])' => Continues(req[g], req'[g])
    BY <1>1, <2>1, OthersWait
  <2>. QED BY <1>1, <2>2, QuietStep
<1>3. CASE GoTo(h, "send")
  <2>1. PICK q \in Request :
          /\ req' = [req EXCEPT ![h] = q] /\ q.at = "send" /\ q.kind = req[h].kind
          /\ q.id = req[h].id /\ q.key = req[h].key /\ q.queue = req[h].queue
    <3>1. "send" \in Stage
      BY DEF Stage
    <3>. QED BY <1>3, <3>1, Moves
  <2>2. req'[h] = q
    BY <2>1, Types
  <2>3. Delivers(req[h])' => Continues(req[h], req'[h])
    BY <1>1, <2>1, <2>2 DEF Delivers, Continues
  <2>4. \A g \in Handler : Delivers(req[g])' => Continues(req[g], req'[g])
    BY <1>1, <2>3, OthersWait
  <2>. QED BY <1>1, <2>4, QuietStep
<1>. QED BY <1>2, <1>3 DEF RemoveByToken
LEMMA SendKeepsPushInv ==
  ASSUME IInv, PushInv, LogKept, NEW h \in Handler, Send(h)
  PROVE  PushInv'
<1>1. UNCHANGED events /\ Step(h) /\ req[h].at = "send"
  BY DEF Send, Step
<1>2. PICK d \in req[h].queue, q \in Request :
        /\ req' = [req EXCEPT ![h] = q] /\ Ready(q)
        /\ q.at \in {"idle", "send", "forget"}
        /\ q.at # "idle" => /\ q.installation = req[h].installation
                           /\ q.kind = req[h].kind /\ q.id = req[h].id
                           /\ q.key = req[h].key /\ q.queue = req[h].queue \ {d}
        /\ \/ UNCHANGED pushes
           \/ /\ req[h].kind = "event"
              /\ pushes' = [pushes EXCEPT ![<<req[h].id, req[h].key, d.watch>>] = Twice(@ + 1)]
  BY SendEffect
<1>3. req'[h] = q
  BY <1>2, Types
<1>4. Delivers(req[h])' => Continues(req[h], req'[h])
  BY <1>1, <1>2, <1>3 DEF Delivers, Continues
<1>5. CASE UNCHANGED pushes
  <2>1. \A g \in Handler : Delivers(req[g])' => Continues(req[g], req'[g])
    BY <1>1, <1>4, OthersWait
  <2>. QED BY <1>5, <2>1, QuietStep
<1>6. CASE req[h].kind = "event"
           /\ pushes' = [pushes EXCEPT ![<<req[h].id, req[h].key, d.watch>>] = Twice(@ + 1)]
  <2>1. Delivers(req[h]) /\ Unreached(req[h])
    BY <1>1, <1>6 DEF Delivers, PushInv, DeliveriesAreAhead
  <2>2. PICK c \in 1..MaxDrawn, k \in Key : c = req[h].id /\ k = req[h].key
    BY <2>1 DEF Unreached
  <2>3. PICK v \in Watch : v = d.watch
    <3>1. req[h].queue \subseteq Device
      BY Types, RequestTypes
    <3>. QED BY <3>1 DEF Device
  <2>4. pushes[<<c, k, v>>] = 0 /\ Recorded(c, k) /\ OnePerWatch(req[h].queue)
    BY <1>1, <2>1, <2>2, <2>3 DEF Unreached
  <2>5. /\ pushes'[<<c, k, v>>] = 1
        /\ \A b \in 1..MaxDrawn, j \in Key, w \in Watch :
             b # c \/ j # k \/ w # v => pushes'[<<b, j, w>>] = pushes[<<b, j, w>>]
    <3> DEFINE p == <<c, k, v>>
               Points == (1..MaxDrawn) \X Key \X Watch
    <3>1. pushes \in [Points -> 0..2] /\ p \in Points
      BY DEF IInv, TypeOK
    <3>2. pushes' = [pushes EXCEPT ![p] = Twice(@ + 1)]
      BY <1>6, <2>2, <2>3
    <3>3. pushes[p] = 0 /\ Twice(0 + 1) = 1
      BY <2>4 DEF Twice
    <3>4. \A b \in 1..MaxDrawn, j \in Key, w \in Watch :
            <<b, j, w>> \in Points /\ (b # c \/ j # k \/ w # v => <<b, j, w>> # p)
      OBVIOUS
    <3>5. pushes'[p] = 1 /\ \A z \in Points : z # p => pushes'[z] = pushes[z]
      <4> HIDE DEF p, Points
      <4>. QED BY <3>1, <3>2, <3>3
    <3> HIDE DEF Points
    <3>. QED BY <3>4, <3>5
  <2>6. \A b, j : Recorded(b, j)' <=> Recorded(b, j)
    BY <1>1 DEF Recorded
  <2>7. PushedAreRecorded'
    <3>1. ASSUME NEW b \in 1..MaxDrawn, NEW j \in Key, NEW w \in Watch
          PROVE  pushes'[<<b, j, w>>] <= 1 /\ (pushes'[<<b, j, w>>] # 0 => Recorded(b, j))
      BY <2>4, <2>5 DEF PushInv, PushedAreRecorded
    <3>. QED BY <2>6, <3>1 DEF PushedAreRecorded
  <2>8. ASSUME NEW g \in Handler, g # h, Delivers(req[g])'
        PROVE  req'[g] = req[g] /\ Delivers(req[g]) /\ Unreached(req[g])'
    <3>1. req'[g] = req[g]
      BY <1>2, <2>8
    <3>2. Delivers(req[g]) /\ Unreached(req[g])
      BY <2>8, <3>1 DEF Delivers, PushInv, DeliveriesAreAhead
    <3>3. PICK b \in 1..MaxDrawn, j \in Key : b = req[g].id /\ j = req[g].key
      BY <3>2 DEF Unreached
    <3>4. b # c \/ j # k
      BY <2>1, <2>2, <2>8, <3>2, <3>3 DEF PushInv, OneDelivers, SameEvent
    <3>5. \A w \in Watch : pushes'[<<b, j, w>>] = pushes[<<b, j, w>>]
      BY <2>5, <3>4
    <3>6. \A e \in req[g].queue : e.watch \in Watch
      <4>1. req[g].queue \subseteq Device
        BY Types, RequestTypes
      <4>. QED BY <4>1 DEF Device
    <3>7. Unreached(req[g])'
      BY <2>6, <3>1, <3>2, <3>3, <3>5, <3>6 DEF Unreached, OnePerWatch
    <3>. QED BY <3>1, <3>2, <3>7
  <2>9. Delivers(req[h])' => Unreached(req[h])'
    <3>1. SUFFICES ASSUME q.at \in {"send", "forget"}, q.id = c, q.key = k,
                          q.queue = req[h].queue \ {d}
                   PROVE  Unreached(req[h])'
      BY <1>2, <1>3, <2>2 DEF Delivers
    <3>2. ASSUME NEW e \in req[h].queue, e # d
          PROVE  e.watch \in Watch /\ e.watch # v /\ pushes[<<c, k, e.watch>>] = 0
      <4>1. req[h].queue \subseteq Device
        BY Types, RequestTypes
      <4>2. e.watch \in Watch
        BY <4>1 DEF Device
      <4>3. e.watch # v
        BY <2>3, <2>4, <3>2 DEF OnePerWatch
      <4>4. pushes[<<c, k, e.watch>>] = 0
        BY <1>1, <2>1, <2>2 DEF Unreached
      <4>. QED BY <4>2, <4>3, <4>4
    <3>3. \A e \in q.queue : pushes'[<<c, k, e.watch>>] = 0
      BY <2>5, <3>1, <3>2
    <3>4. OnePerWatch(q.queue)
      BY <2>4, <3>1 DEF OnePerWatch
    <3>. QED BY <1>3, <2>4, <2>6, <3>1, <3>3, <3>4 DEF Unreached, OnePerWatch
  <2>10. DeliveriesAreAhead'
    BY <2>8, <2>9 DEF DeliveriesAreAhead
  <2>11. ASSUME NEW f \in Handler, NEW g \in Handler, SameEvent(req[f], req[g])'
         PROVE  f = g
    <3>1. \A x \in Handler : Delivers(req[x])' =>
            Delivers(req[x]) /\ req'[x].id = req[x].id /\ req'[x].key = req[x].key
      BY <1>4, <2>1, <2>8 DEF Continues
    <3>. QED BY <2>11, <3>1 DEF PushInv, OneDelivers, SameEvent
  <2>. QED BY <2>7, <2>10, <2>11 DEF PushInv, OneDelivers
<1>. QED BY <1>2, <1>5, <1>6

LEMMA PushInvHolds ==
  ASSUME IInv, PushInv, [Next]_vars, [LogKept]_vars
  PROVE  PushInv'
<1>1. CASE UNCHANGED vars
  <2>1. UNCHANGED <<pushes, events, req>>
    BY <1>1 DEF vars, delivery
  <2>. QED BY <2>1 DEF PushInv, PushedAreRecorded, DeliveriesAreAhead, OneDelivers, SameEvent,
           Unreached, Recorded, Delivers, OnePerWatch
<1>2. CASE LogKept
  <2>1. ASSUME NEW h \in Handler, Arrival(h)
        PROVE  PushInv'
    <3>1. PICK r \in Request : /\ req' = [req EXCEPT ![h] = r] /\ Ready(r) /\ Fresh(r)
                               /\ UNCHANGED <<accounts, delivery, events, drawn, clients>>
      BY <2>1, ArrivalEffect
    <3>2. UNCHANGED pushes /\ ~ Delivers(req[h])'
      BY <3>1, Types DEF delivery, Fresh, Delivers
    <3>3. ASSUME NEW g \in Handler, Delivers(req[g])'
          PROVE  Continues(req[g], req'[g])
      <4>1. req'[g] = req[g]
        BY <3>1, <3>2, <3>3
      <4>. QED BY <3>3, <4>1, Untouched
    <3>. QED BY <1>2, <3>2, <3>3, QuietStep
  <2>2. ASSUME NEW h \in Handler, Step(h)
        PROVE  PushInv'
    <3>1. CASE DeliveryStep(h)
      BY <1>2, <3>1, AppendKeepsPushInv, SnapshotKeepsPushInv, SendKeepsPushInv,
         RemoveByTokenKeepsPushInv DEF DeliveryStep
    <3>2. CASE ~ DeliveryStep(h)
      <4>1. ~ Delivers(req[h])' /\ UNCHANGED pushes
        BY <2>2, <3>2, OtherCalls
      <4>2. \A g \in Handler : Delivers(req[g])' => Continues(req[g], req'[g])
        BY <2>2, <4>1, OthersWait
      <4>. QED BY <1>2, <4>1, <4>2, QuietStep
    <3>. QED BY <3>1, <3>2
  <2>3. ASSUME NEW h \in Handler, StoreFails(h)
        PROVE  PushInv'
    <3>1. UNCHANGED pushes /\ (GoTo(h, "reply") \/ End(h))
      BY <2>3 DEF StoreFails, delivery
    <3>2. ~ Delivers(req[h])'
      <4>1. "reply" \in Stage \ {"snapshot", "send", "forget"} /\ 0 \in 0..MaxDrawn
        BY MaxDrawnAssumption DEF Stage
      <4>. QED BY <3>1, <4>1, NoDelivery
    <3>3. ASSUME NEW g \in Handler, Delivers(req[g])'
          PROVE  Continues(req[g], req'[g])
      <4>1. req'[g] = req[g]
        BY <3>1, <3>2, <3>3, Types DEF GoTo, End
      <4>. QED BY <3>3, <4>1, Untouched
    <3>. QED BY <1>2, <3>1, <3>3, QuietStep
  <2>4. CASE Crash
    <3>1. UNCHANGED pushes /\ \A g \in Handler : ~ Delivers(req[g])'
      BY <2>4, IdleRequest DEF Crash, delivery, Delivers
    <3>. QED BY <1>2, <3>1, QuietStep
  <2>5. ASSUME NEW w \in Watch, RefreshPushToken(w)
        PROVE  PushInv'
    <3>1. UNCHANGED <<pushes, req>>
      BY <2>5 DEF RefreshPushToken
    <3>2. \A g \in Handler : Delivers(req[g])' => Continues(req[g], req'[g])
      BY <3>1, Untouched
    <3>. QED BY <1>2, <3>1, <3>2, QuietStep
  <2>. QED BY <1>1, <2>1, <2>2, <2>3, <2>4, <2>5 DEF Next
<1>. QED BY <1>1, <1>2

\* OnePushPerKey: as long as the log keeps its events, an event is pushed to a watch
\* once, however many hooks deliver it at the same time.  An event that left the log
\* and is delivered again is pushed again.
THEOREM PushedOnce == Spec /\ NothingIsForgotten => []OnePushPerKey
<1>1. Init => PushInv
  <2> SUFFICES ASSUME Init PROVE PushInv
    OBVIOUS
  <2>2. \A h \in Handler : ~ Delivers(req[h])
    <3>1. \A h \in Handler : req[h] = Idle
      BY DEF Init
    <3>. QED BY <3>1, IdleRequest DEF Delivers
  <2>3. \A c \in 1..MaxDrawn, k \in Key, w \in Watch : pushes[<<c, k, w>>] = 0
    <3>1. pushes = [p \in (1..MaxDrawn) \X Key \X Watch |-> 0]
      BY DEF Init
    <3>. QED BY <3>1
  <2>. QED BY <2>2, <2>3 DEF PushInv, PushedAreRecorded, DeliveriesAreAhead, OneDelivers, SameEvent
<1>2. IInv /\ PushInv /\ [Next]_vars /\ [LogKept]_vars => PushInv'
  BY PushInvHolds
<1>3. IInv /\ PushInv => OnePushPerKey
  <2> SUFFICES ASSUME IInv, PushInv, NEW p \in DOMAIN pushes PROVE pushes[p] <= 1
    BY DEF OnePushPerKey
  <2>2. p \in (1..MaxDrawn) \X Key \X Watch
    <3>1. pushes \in [(1..MaxDrawn) \X Key \X Watch -> 0..2]
      BY DEF IInv, TypeOK
    <3>. QED BY <3>1
  <2>3. PICK c \in 1..MaxDrawn, k \in Key, w \in Watch : p = <<c, k, w>>
    BY <2>2
  <2>. QED BY <2>3 DEF PushInv, PushedAreRecorded
<1>. QED BY <1>1, <1>2, <1>3, IInvHolds, PTL DEF Spec, NothingIsForgotten
=============================================================================
