-------------------------- MODULE RateLimiterProofs --------------------------
(***************************************************************************)
(* Theorems about RateLimiter, for every set of keys and callers, every    *)
(* limit and window, and every bound on the wait for the mutex.            *)
(***************************************************************************)
EXTENDS RateLimiter, TLAPS

\* A call that waits for the mutex has read the time within MaxLag.
ReadingsAreRecent ==
    \A c \in Caller : asked[c] # NoKey => read[c] <= now /\ now <= read[c] + MaxLag

\* Of the requests let through at the times a, the last n are those of the window
\* that began at w, and came in it; those before came before it, and all but the
\* last limit of those a window before it.
Follow(a, n, w, limit) ==
    /\ n <= Len(a)
    /\ n = 0 => Len(a) = 0
    /\ \A i \in 1..Len(a) : i > Len(a) - n => w <= a[i] /\ a[i] < w + Window + MaxLag
    /\ \A i \in 1..Len(a) : i <= Len(a) - n => a[i] < w + MaxLag
    /\ \A i \in 1..Len(a) : i + limit <= Len(a) - n => a[i] + Window < w + MaxLag

\* What AtMostTwiceTheLimit says of one key.
Spread(a, limit) ==
    \A i, j \in 1..Len(a) : j = i + limit + limit => a[i] + Window < a[j] + MaxLag

WindowsFollow(k) ==
    /\ Follow(allowed[k], buckets[k].count, buckets[k].windowStart, Limit[k])
    /\ Spread(allowed[k], Limit[k])
    /\ buckets[k].windowStart <= now

Windows == \A k \in Key : WindowsFollow(k)

IInv == TypeOK /\ ReadingsAreRecent /\ Windows
-----------------------------------------------------------------------------
LEMMA Types ==
  ASSUME TypeOK
  PROVE  /\ now \in Nat /\ Window \in Nat \ {0} /\ MaxLag \in Nat
         /\ \A c \in Caller : read[c] \in Nat /\ asked[c] \in Key \union {NoKey}
         /\ \A k \in Key : /\ Limit[k] \in Nat \ {0} /\ allowed[k] \in Seq(Nat)
                           /\ buckets[k].windowStart \in Nat /\ buckets[k].count \in Nat
                           /\ buckets[k].count <= Limit[k]
BY LimitAssumption, WindowAssumption, MaxLagAssumption DEF TypeOK, Bucket

\* A new window begins a window after the one before it, so what came before that
\* one is a window away.
LEMMA NewWindow ==
  ASSUME NEW a \in Seq(Nat), NEW n \in Nat, NEW w \in Nat, NEW limit \in Nat \ {0},
         NEW t \in Nat, NEW d \in Nat, t <= d, d <= t + MaxLag, n <= limit,
         Follow(a, n, w, limit), Spread(a, limit), n = 0 \/ t - w >= Window
  PROVE  Follow(Append(a, d), 1, t, limit) /\ Spread(Append(a, d), limit)
<1> DEFINE b == Append(a, d)
<1>1. /\ Len(a) \in Nat /\ Len(b) = Len(a) + 1 /\ b[Len(a) + 1] = d
      /\ \A i \in 1..Len(a) : b[i] = a[i] /\ a[i] \in Nat
  OBVIOUS
<1>2. Window \in Nat \ {0} /\ MaxLag \in Nat
  BY WindowAssumption, MaxLagAssumption
<1>3. ASSUME NEW i \in 1..Len(a) PROVE a[i] < t + MaxLag
  <2>1. a[i] \in Nat /\ t - w >= Window /\ n <= Len(a)
    BY <1>1 DEF Follow
  <2>2. CASE i <= Len(a) - n
    <3>1. a[i] < w + MaxLag
      BY <2>2 DEF Follow
    <3>. QED BY <3>1, <2>1, <1>2
  <2>3. CASE i > Len(a) - n
    <3>1. a[i] < w + Window + MaxLag
      BY <2>3 DEF Follow
    <3>. QED BY <3>1, <2>1, <1>2
  <2>. QED BY <2>2, <2>3, <1>1
<1>4. ASSUME NEW i \in 1..Len(a), i <= Len(a) - n PROVE a[i] + Window < t + MaxLag
  <2>1. a[i] \in Nat /\ t - w >= Window
    BY <1>1 DEF Follow
  <2>2. a[i] < w + MaxLag
    BY <1>4 DEF Follow
  <2>. QED BY <2>1, <2>2, <1>2
<1>5. Follow(b, 1, t, limit)
  BY <1>1, <1>2, <1>3, <1>4 DEF Follow
<1>6. Spread(b, limit)
  <2> SUFFICES ASSUME NEW i \in 1..Len(b), NEW j \in 1..Len(b), j = i + limit + limit
               PROVE  b[i] + Window < b[j] + MaxLag
    BY DEF Spread
  <2>1. i \in 1..Len(a)
    BY <1>1
  <2>2. CASE j = Len(a) + 1
    <3>1. b[i] = a[i] /\ b[j] = d /\ a[i] \in Nat
      BY <2>1, <2>2, <1>1
    <3>2. i <= Len(a) - n
      BY <2>2, <1>1
    <3>3. a[i] + Window < d + MaxLag
      <4>1. a[i] \in Nat /\ a[i] + Window < t + MaxLag
        BY <3>1, <3>2, <2>1, <1>4
      <4>. QED BY <4>1, <1>2
    <3>. QED BY <3>1, <3>3, Zenon
  <2>3. CASE j \in 1..Len(a)
    <3>1. b[i] = a[i] /\ b[j] = a[j]
      BY <2>1, <2>3, <1>1
    <3>. QED BY <3>1, <2>1, <2>3 DEF Spread
  <2>. QED BY <2>2, <2>3, <1>1
<1>. QED BY <1>5, <1>6

\* One more request of the window: the ones twice the limit before it are from
\* before the window before.
LEMMA SameWindow ==
  ASSUME NEW a \in Seq(Nat), NEW n \in Nat, NEW w \in Nat, NEW limit \in Nat \ {0},
         NEW t \in Nat, NEW d \in Nat, d <= t + MaxLag, w <= d, n # 0, n < limit,
         Follow(a, n, w, limit), Spread(a, limit), t - w < Window
  PROVE  Follow(Append(a, d), n + 1, w, limit) /\ Spread(Append(a, d), limit)
<1> DEFINE b == Append(a, d)
<1>1. /\ Len(a) \in Nat /\ Len(b) = Len(a) + 1 /\ b[Len(a) + 1] = d
      /\ \A i \in 1..Len(a) : b[i] = a[i] /\ a[i] \in Nat
  OBVIOUS
<1>2. Window \in Nat \ {0} /\ MaxLag \in Nat
  BY WindowAssumption, MaxLagAssumption
<1>3. Follow(b, n + 1, w, limit)
  <2>1. n + 1 <= Len(b) /\ Len(b) - (n + 1) = Len(a) - n /\ n + 1 # 0
    BY <1>1 DEF Follow
  <2>2. ASSUME NEW i \in 1..Len(b), i > Len(b) - (n + 1)
        PROVE  w <= b[i] /\ b[i] < w + Window + MaxLag
    <3>1. CASE i = Len(a) + 1
      <4>1. b[i] = d
        BY <3>1, <1>1
      <4>. QED BY <4>1, <1>2
    <3>2. CASE i \in 1..Len(a)
      BY <3>2, <2>1, <2>2, <1>1 DEF Follow
    <3>. QED BY <3>1, <3>2, <1>1
  <2>3. ASSUME NEW i \in 1..Len(b), i <= Len(b) - (n + 1)
        PROVE  b[i] = a[i] /\ i \in 1..Len(a) /\ i <= Len(a) - n
    BY <2>1, <2>3, <1>1
  <2>4. ASSUME NEW i \in 1..Len(b), i <= Len(b) - (n + 1)
        PROVE  b[i] < w + MaxLag
    BY <2>3, <2>4 DEF Follow
  <2>5. ASSUME NEW i \in 1..Len(b), i + limit <= Len(b) - (n + 1)
        PROVE  b[i] + Window < w + MaxLag
    <3>1. b[i] = a[i] /\ i \in 1..Len(a) /\ i + limit <= Len(a) - n
      BY <2>1, <2>5, <1>1
    <3>. QED BY <3>1 DEF Follow
  <2>. QED BY <2>1, <2>2, <2>4, <2>5 DEF Follow
<1>4. Spread(b, limit)
  <2> SUFFICES ASSUME NEW i \in 1..Len(b), NEW j \in 1..Len(b), j = i + limit + limit
               PROVE  b[i] + Window < b[j] + MaxLag
    BY DEF Spread
  <2>1. i \in 1..Len(a)
    BY <1>1
  <2>2. CASE j = Len(a) + 1
    <3>1. i + limit <= Len(a) - n
      BY <2>2, <1>1
    <3>2. a[i] + Window < w + MaxLag
      BY <2>1, <3>1 DEF Follow
    <3>3. b[i] = a[i] /\ b[j] = d /\ a[i] \in Nat
      BY <2>1, <2>2, <1>1
    <3>4. a[i] + Window < d + MaxLag
      <4>1. a[i] \in Nat
        BY <3>3
      <4>. QED BY <3>2, <4>1, <1>2
    <3>. QED BY <3>3, <3>4, Zenon
  <2>3. CASE j \in 1..Len(a)
    <3>1. b[i] = a[i] /\ b[j] = a[j]
      BY <2>1, <2>3, <1>1
    <3>. QED BY <3>1, <2>1, <2>3 DEF Spread
  <2>4. j = Len(a) + 1 \/ j \in 1..Len(a)
    <3>1. Len(a) \in Nat /\ j \in 1..(Len(a) + 1)
      BY <1>1
    <3>. QED BY <3>1
  <2>. QED BY <2>2, <2>3, <2>4, Zenon
<1>. QED BY <1>3, <1>4
-----------------------------------------------------------------------------
\* Before the first request no key has a bucket.
LEMMA InitIInv == Init => IInv
<1> SUFFICES ASSUME Init PROVE IInv
  OBVIOUS
<1>1. TypeOK
  BY LimitAssumption DEF Init, TypeOK, Bucket
<1>2. ASSUME NEW k \in Key PROVE WindowsFollow(k)
  <2>1. /\ allowed[k] = <<>> /\ buckets[k].count = 0 /\ buckets[k].windowStart = 0
        /\ Len(allowed[k]) = 0 /\ now = 0
    BY DEF Init
  <2>. QED BY <2>1 DEF WindowsFollow, Follow, Spread
<1>. QED
  BY <1>1, <1>2 DEF IInv, Init, ReadingsAreRecent, Windows

\* Where neither buckets nor histories change, time may pass.
LEMMA WindowsUnchanged ==
  ASSUME IInv, UNCHANGED <<buckets, allowed>>, now' \in Nat, now <= now'
  PROVE  Windows'
BY Types DEF IInv, Windows, WindowsFollow

LEMMA TickStep == IInv /\ Tick => IInv'
<1> SUFFICES ASSUME IInv, Tick PROVE IInv'
  OBVIOUS
<1>1. TypeOK /\ now \in Nat /\ now' = now + 1 /\ UNCHANGED <<buckets, asked, read, answer, allowed>>
  BY DEF IInv, TypeOK, Tick
<1>2. TypeOK'
  BY <1>1 DEF TypeOK
<1>3. ReadingsAreRecent'
  BY <1>1, Types DEF IInv, ReadingsAreRecent, Tick
<1>. QED BY <1>1, <1>2, <1>3, WindowsUnchanged DEF IInv

LEMMA AskStep ==
  ASSUME IInv, NEW c \in Caller, NEW k \in Key, Ask(c, k)
  PROVE  IInv'
<1>1. TypeOK /\ now \in Nat /\ UNCHANGED <<buckets, now, allowed>>
  BY DEF IInv, TypeOK, Ask
<1>2. TypeOK'
  BY <1>1 DEF TypeOK, Ask
<1>3. ReadingsAreRecent'
  BY <1>1, Types DEF IInv, ReadingsAreRecent, Ask, TypeOK
<1>. QED BY <1>1, <1>2, <1>3, WindowsUnchanged DEF IInv

\* A caller that has its answer no longer waits.
LEMMA AnswerStep ==
  ASSUME IInv, NEW c \in Caller,
         asked' = [asked EXCEPT ![c] = NoKey], read' = [read EXCEPT ![c] = 0], now' = now
  PROVE  ReadingsAreRecent'
BY DEF IInv, TypeOK, ReadingsAreRecent

\* A request of k that is let through changes the bucket and the history of k only.
LEMMA AllowedStep ==
  ASSUME IInv, NEW c \in Caller, asked[c] # NoKey, Answer(c, "allowed"),
         NEW b \in Bucket, b.count <= Limit[asked[c]], b.windowStart <= now,
         buckets' = [buckets EXCEPT ![asked[c]] = b],
         Follow(Append(allowed[asked[c]], now), b.count, b.windowStart, Limit[asked[c]]),
         Spread(Append(allowed[asked[c]], now), Limit[asked[c]])
  PROVE  IInv'
<1>1. PICK k \in Key : k = asked[c]
  BY DEF IInv, TypeOK
<1>2. TypeOK /\ now \in Nat /\ allowed[k] \in Seq(Nat)
  BY Types, <1>1 DEF IInv
<1>3. /\ allowed' = [allowed EXCEPT ![k] = Append(allowed[k], now)] /\ now' = now
      /\ asked' = [asked EXCEPT ![c] = NoKey] /\ read' = [read EXCEPT ![c] = 0]
      /\ answer' = [answer EXCEPT ![c] = "allowed"]
  BY <1>1 DEF Answer
<1>4. /\ allowed'[k] = Append(allowed[k], now) /\ buckets'[k] = b
      /\ \A l \in Key : l # k => buckets'[l] = buckets[l] /\ allowed'[l] = allowed[l]
  BY <1>1, <1>2, <1>3 DEF TypeOK
<1>5. TypeOK'
  <2>1. allowed' \in [Key -> Seq(Nat)]
    BY <1>2, <1>3 DEF TypeOK
  <2>2. buckets' \in [Key -> Bucket]
    BY <1>1, <1>2 DEF TypeOK
  <2>3. \A l \in Key : buckets'[l].count <= Limit[l]
    BY <1>1, <1>2, <1>4 DEF TypeOK
  <2>. QED BY <1>2, <1>3, <2>1, <2>2, <2>3 DEF TypeOK
<1>6. Windows'
  <2>1. WindowsFollow(k)'
    BY <1>1, <1>3, <1>4 DEF WindowsFollow
  <2>2. ASSUME NEW l \in Key, l # k PROVE WindowsFollow(l)'
    BY <1>3, <1>4, <2>2 DEF IInv, Windows, WindowsFollow
  <2>. QED BY <2>1, <2>2 DEF Windows
<1>7. ReadingsAreRecent'
  BY <1>3, AnswerStep
<1>. QED BY <1>5, <1>6, <1>7 DEF IInv

\* What is known of a call that has the mutex.
LEMMA Deciding ==
  ASSUME IInv, NEW c \in Caller, asked[c] # NoKey
  PROVE  \E k \in Key :
         /\ k = asked[c] /\ read[c] \in Nat /\ now \in Nat
         /\ read[c] <= now /\ now <= read[c] + MaxLag
         /\ allowed[k] \in Seq(Nat) /\ buckets[k] \in Bucket
         /\ buckets[k].windowStart \in Nat /\ buckets[k].count \in Nat
         /\ buckets[k].count <= Limit[k] /\ Limit[k] \in Nat \ {0}
         /\ WindowsFollow(k)
BY Types DEF IInv, TypeOK, ReadingsAreRecent, Windows

LEMMA OpenWindowStep ==
  ASSUME IInv, NEW c \in Caller, OpenWindow(c)
  PROVE  IInv'
<1>1. asked[c] # NoKey /\ Answer(c, "allowed")
  BY DEF OpenWindow
<1>2. PICK k \in Key :
         /\ k = asked[c] /\ read[c] \in Nat /\ now \in Nat
         /\ read[c] <= now /\ now <= read[c] + MaxLag
         /\ allowed[k] \in Seq(Nat) /\ buckets[k] \in Bucket
         /\ buckets[k].windowStart \in Nat /\ buckets[k].count \in Nat
         /\ buckets[k].count <= Limit[k] /\ Limit[k] \in Nat \ {0}
         /\ WindowsFollow(k)
  BY <1>1, Deciding
<1> DEFINE b == [windowStart |-> read[c], count |-> 1]
<1>3. /\ buckets' = [buckets EXCEPT ![k] = b]
      /\ buckets[k].count = 0 \/ read[c] - buckets[k].windowStart >= Window
  BY <1>2 DEF OpenWindow, Expired
<1>4. b \in Bucket /\ b.count = 1 /\ b.windowStart = read[c] /\ b.count <= Limit[k]
  BY <1>2 DEF Bucket
<1> HIDE DEF b
<1>5. /\ Follow(Append(allowed[k], now), 1, read[c], Limit[k])
      /\ Spread(Append(allowed[k], now), Limit[k])
  BY <1>2, <1>3, NewWindow DEF WindowsFollow
<1>. QED BY <1>1, <1>2, <1>3, <1>4, <1>5, AllowedStep

LEMMA CountRequestStep ==
  ASSUME IInv, NEW c \in Caller, CountRequest(c)
  PROVE  IInv'
<1>1. asked[c] # NoKey /\ Answer(c, "allowed")
  BY DEF CountRequest
<1>2. PICK k \in Key :
         /\ k = asked[c] /\ read[c] \in Nat /\ now \in Nat
         /\ read[c] <= now /\ now <= read[c] + MaxLag
         /\ allowed[k] \in Seq(Nat) /\ buckets[k] \in Bucket
         /\ buckets[k].windowStart \in Nat /\ buckets[k].count \in Nat
         /\ buckets[k].count <= Limit[k] /\ Limit[k] \in Nat \ {0}
         /\ WindowsFollow(k)
  BY <1>1, Deciding
<1> DEFINE b == [buckets[k] EXCEPT !.count = buckets[k].count + 1]
<1>3. /\ buckets' = [buckets EXCEPT ![k] = b]
      /\ buckets[k].count < Limit[k]
      /\ buckets[k].count # 0 /\ ~(read[c] - buckets[k].windowStart >= Window)
  BY <1>2, Zenon DEF CountRequest, Expired
<1>4. b \in Bucket /\ b.count = buckets[k].count + 1 /\ b.windowStart = buckets[k].windowStart
  <2>1. buckets[k].count + 1 \in Nat
    BY <1>2
  <2>. QED BY <1>2, <2>1, Zenon DEF Bucket
<1> HIDE DEF b
<1>5. /\ Follow(Append(allowed[k], now), buckets[k].count + 1, buckets[k].windowStart, Limit[k])
      /\ Spread(Append(allowed[k], now), Limit[k])
  <2>1. read[c] - buckets[k].windowStart < Window
    BY <1>2, <1>3, WindowAssumption
  <2>. QED BY <1>2, <1>3, <2>1, SameWindow DEF WindowsFollow
<1>6. b.count <= Limit[k] /\ b.windowStart <= now
  BY <1>2, <1>3, <1>4 DEF WindowsFollow
<1>. QED BY <1>1, <1>2, <1>3, <1>4, <1>5, <1>6, AllowedStep

\* A refused request changes nothing of the limiter.
LEMMA DenyStep ==
  ASSUME IInv, NEW c \in Caller, Deny(c)
  PROVE  IInv'
<1>1. /\ UNCHANGED <<buckets, now, allowed>> /\ now \in Nat
      /\ asked' = [asked EXCEPT ![c] = NoKey] /\ read' = [read EXCEPT ![c] = 0]
      /\ answer' = [answer EXCEPT ![c] = "denied"]
  BY DEF Deny, Answer, IInv, TypeOK
<1>2. TypeOK'
  BY <1>1 DEF IInv, TypeOK
<1>3. ReadingsAreRecent'
  BY <1>1, AnswerStep
<1>. QED BY <1>1, <1>2, <1>3, WindowsUnchanged DEF IInv

LEMMA Invariance == Spec => []IInv
<1>1. IInv /\ [Next]_vars => IInv'
  <2> SUFFICES ASSUME IInv, [Next]_vars PROVE IInv'
    OBVIOUS
  <2>1. CASE UNCHANGED vars
    BY <2>1 DEF vars, IInv, TypeOK, ReadingsAreRecent, Windows, WindowsFollow
  <2>. QED
    BY <2>1, TickStep, AskStep, OpenWindowStep, CountRequestStep, DenyStep DEF Next
<1>. QED BY InitIInv, <1>1, PTL DEF Spec
-----------------------------------------------------------------------------
\* Type correctness of the limiter; no bucket counts more than its limit.
THEOREM TypeCorrect == Spec => []TypeOK
<1>1. IInv => TypeOK
  BY DEF IInv
<1>. QED BY <1>1, Invariance, PTL

\* No key lets more than twice its limit through in a window, however calls wait
\* for the mutex (requestLimiter.Allow).
THEOREM BurstsAreBounded == Spec => []AtMostTwiceTheLimit
<1>1. IInv => AtMostTwiceTheLimit
  BY DEF IInv, Windows, WindowsFollow, Spread, AtMostTwiceTheLimit
<1>. QED BY <1>1, Invariance, PTL

\* A refused request's key has used up its limit within the last window.
THEOREM RefusalsAreDue == Spec => DeniedOnlyOverLimit
<1> DEFINE Due(c) ==
      LET k == asked[c]
          first == Len(allowed[k]) - Limit[k] + 1
      IN answer[c] # "denied" /\ answer'[c] = "denied" =>
           first >= 1 /\ now < allowed[k][first] + Window + MaxLag
<1>1. ASSUME IInv, [Next]_vars, NEW c \in Caller, answer[c] # "denied", answer'[c] = "denied"
      PROVE  Deny(c)
  <2>1. ASSUME NEW d \in Caller, NEW k \in Key, Ask(d, k) PROVE FALSE
    BY <1>1, <2>1 DEF Ask, IInv, TypeOK
  <2>2. ASSUME NEW d \in Caller, OpenWindow(d) \/ CountRequest(d) PROVE FALSE
    BY <1>1, <2>2 DEF OpenWindow, CountRequest, Answer, IInv, TypeOK
  <2>3. ASSUME NEW d \in Caller, Deny(d) PROVE d = c
    BY <1>1, <2>3 DEF Deny, Answer, IInv, TypeOK
  <2>4. ~Tick /\ ~UNCHANGED vars
    BY <1>1 DEF Tick, vars
  <2>. QED BY <1>1, <2>1, <2>2, <2>3, <2>4 DEF Next
<1>2. ASSUME IInv, NEW c \in Caller, Deny(c)
      PROVE  Due(c)
  <2>1. asked[c] # NoKey /\ buckets[asked[c]].count >= Limit[asked[c]]
    BY <1>2 DEF Deny
  <2>2. PICK k \in Key :
           /\ k = asked[c] /\ read[c] \in Nat /\ now \in Nat
           /\ read[c] <= now /\ now <= read[c] + MaxLag
           /\ allowed[k] \in Seq(Nat) /\ buckets[k] \in Bucket
           /\ buckets[k].windowStart \in Nat /\ buckets[k].count \in Nat
           /\ buckets[k].count <= Limit[k] /\ Limit[k] \in Nat \ {0}
           /\ WindowsFollow(k)
    BY <1>2, <2>1, Deciding
  <2>3. PICK a \in Seq(Nat), w \in Nat, limit \in Nat \ {0} :
           a = allowed[k] /\ w = buckets[k].windowStart /\ limit = Limit[k]
    BY <2>2
  <2>4. Follow(a, limit, w, limit) /\ read[c] < w + Window
    <3>1. buckets[k].count = limit
      BY <2>1, <2>2, <2>3
    <3>2. ~(read[c] - buckets[k].windowStart >= Window)
      BY <1>2, <2>2 DEF Deny, Expired
    <3>. QED BY <3>1, <3>2, <2>2, <2>3, WindowAssumption DEF WindowsFollow
  <2>5. Len(a) - limit + 1 >= 1 /\ now < a[Len(a) - limit + 1] + Window + MaxLag
    <3>1. Len(a) - limit + 1 \in 1..Len(a) /\ Len(a) - limit + 1 > Len(a) - limit
      BY <2>4 DEF Follow
    <3>2. w <= a[Len(a) - limit + 1] /\ a[Len(a) - limit + 1] \in Nat
      BY <2>4, <3>1 DEF Follow
    <3>. QED BY <2>2, <2>4, <3>1, <3>2, WindowAssumption, MaxLagAssumption
  <2>. QED BY <2>2, <2>3, <2>5
<1>3. IInv /\ [Next]_vars => [\A c \in Caller : Due(c)]_vars
  <2> SUFFICES ASSUME IInv, [Next]_vars, NEW c \in Caller PROVE Due(c)
    OBVIOUS
  <2>. QED BY <1>1, <1>2
<1>4. Spec => [][\A c \in Caller : Due(c)]_vars
  BY <1>3, Invariance, PTL DEF Spec
<1>. QED BY <1>4 DEF DeniedOnlyOverLimit
=============================================================================
