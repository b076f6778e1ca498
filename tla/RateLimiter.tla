----------------------------- MODULE RateLimiter -----------------------------
(***************************************************************************)
(* The request limiter of the handlers (requestLimiter in                  *)
(* internal/api/server.go).  A key is a scope with an address or an        *)
(* installation.  Allow reads the clock before it takes the mutex, so a    *)
(* call may decide with a time that is up to MaxLag old, and two calls may  *)
(* decide in the other order than they read.                               *)
(***************************************************************************)
EXTENDS Integers, Sequences

CONSTANTS
    Key,      \* "claim:" and an address, "event:" and an installation, ...
    NoKey,
    Caller,   \* requests in flight at a time
    Limit,    \* maxCount of a key's scope; every scope's is positive
    Window,   \* defaultRateLimitWindow; every caller passes this one
    MaxLag,   \* how long a call waits for the mutex at most
    MaxTime   \* bound on the clock

ASSUME LimitAssumption == Limit \in [Key -> Nat \ {0}]
ASSUME WindowAssumption == Window \in Nat \ {0}
ASSUME MaxLagAssumption == MaxLag \in Nat
ASSUME NoKeyAssumption == NoKey \notin Key

VARIABLES
    buckets,  \* per key; a key without a bucket has count 0
    now,
    asked,    \* the key a caller asks for, before it has the mutex
    read,     \* the time it has read; 0 when it does not ask
    answer,   \* what it was told last
    allowed   \* history: when each key's requests were let through

vars == <<buckets, now, asked, read, answer, allowed>>

Bucket == [windowStart : Nat, count : Nat]

TypeOK ==
    /\ buckets \in [Key -> Bucket]
    /\ \A k \in Key : buckets[k].count <= Limit[k]
    /\ now \in Nat
    /\ asked \in [Caller -> Key \union {NoKey}]
    /\ read \in [Caller -> Nat]
    /\ answer \in [Caller -> {"none", "allowed", "denied"}]
    /\ allowed \in [Key -> Seq(Nat)]

Init ==
    /\ buckets = [k \in Key |-> [windowStart |-> 0, count |-> 0]]
    /\ now = 0
    /\ asked = [c \in Caller |-> NoKey]
    /\ read = [c \in Caller |-> 0]
    /\ answer = [c \in Caller |-> "none"]
    /\ allowed = [k \in Key |-> <<>>]
-----------------------------------------------------------------------------
Tick ==
    /\ now < MaxTime
    /\ \A c \in Caller : asked[c] # NoKey => now < read[c] + MaxLag
    /\ now' = now + 1
    /\ UNCHANGED <<buckets, asked, read, answer, allowed>>

\* Allow, up to the mutex.
Ask(c, k) ==
    /\ asked[c] = NoKey
    /\ asked' = [asked EXCEPT ![c] = k]
    /\ read' = [read EXCEPT ![c] = now]
    /\ answer' = [answer EXCEPT ![c] = "none"]
    /\ UNCHANGED <<buckets, now, allowed>>

\* Whether a call that read time t finds no bucket of its key, or an old one.
Expired_TooEarly(b, t) == b.count = 0 \/ t - b.windowStart >= Window - 1

Expired(b, t) == b.count = 0 \/ t - b.windowStart >= Window

Answer(c, verdict) ==
    /\ answer' = [answer EXCEPT ![c] = verdict]
    /\ asked' = [asked EXCEPT ![c] = NoKey]
    /\ allowed' = IF verdict = "allowed"
                  THEN [allowed EXCEPT ![asked[c]] = Append(@, now)]
                  ELSE allowed
    /\ read' = [read EXCEPT ![c] = 0]
    /\ UNCHANGED now

\* Allow under the mutex: a new window, one more in the window, or none left.
OpenWindow(c) ==
    /\ asked[c] # NoKey
    /\ Expired(buckets[asked[c]], read[c])
    /\ buckets' = [buckets EXCEPT ![asked[c]] = [windowStart |-> read[c], count |-> 1]]
    /\ Answer(c, "allowed")

CountRequest_OffByOne(c) ==
    /\ asked[c] # NoKey
    /\ ~Expired(buckets[asked[c]], read[c])
    /\ buckets[asked[c]].count <= Limit[asked[c]]
    /\ buckets' = [buckets EXCEPT ![asked[c]].count = @ + 1]
    /\ Answer(c, "allowed")

CountRequest(c) ==
    /\ asked[c] # NoKey
    /\ ~Expired(buckets[asked[c]], read[c])
    /\ buckets[asked[c]].count < Limit[asked[c]]
    /\ buckets' = [buckets EXCEPT ![asked[c]].count = @ + 1]
    /\ Answer(c, "allowed")

\* A refused request restarts the window.
Deny_RestartsWindow(c) ==
    /\ asked[c] # NoKey
    /\ ~Expired(buckets[asked[c]], read[c])
    /\ buckets[asked[c]].count >= Limit[asked[c]]
    /\ Answer(c, "denied")
    /\ buckets' = [buckets EXCEPT ![asked[c]].windowStart = read[c]]

Deny(c) ==
    /\ asked[c] # NoKey
    /\ ~Expired(buckets[asked[c]], read[c])
    /\ buckets[asked[c]].count >= Limit[asked[c]]
    /\ Answer(c, "denied")
    /\ UNCHANGED buckets

Next ==
    \/ Tick
    \/ \E c \in Caller :
        \/ \E k \in Key : Ask(c, k)
        \/ OpenWindow(c)
        \/ CountRequest(c)
        \/ Deny(c)

Spec == Init /\ [][Next]_vars
-----------------------------------------------------------------------------
\* The windows are fixed ones, so a burst at the end of one and a burst at the
\* start of the next may both pass, but never more: of more than twice the limit
\* of requests of one key, let through in a row, the first and the last are a
\* window apart, less the time calls wait for the mutex (requestLimiter.Allow).
AtMostTwiceTheLimit ==
    \A k \in Key : \A i, j \in 1..Len(allowed[k]) :
        j = i + Limit[k] + Limit[k] => allowed[k][i] + Window < allowed[k][j] + MaxLag

\* A request is refused only when its key used up its limit within the last
\* window: refused requests do not count, and other keys' do not either.
DeniedOnlyOverLimit ==
    [][\A c \in Caller :
         LET k == asked[c]
             first == Len(allowed[k]) - Limit[k] + 1
         IN answer[c] # "denied" /\ answer'[c] = "denied" =>
              first >= 1 /\ now < allowed[k][first] + Window + MaxLag]_vars
=============================================================================
