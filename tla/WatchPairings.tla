---------------------------- MODULE WatchPairings ----------------------------
(***************************************************************************)
(* internal/watchpairings/store.go: the one-time codes that pair a watch   *)
(* with an installation's channel.                                         *)
(*                                                                         *)
(* s.byID is the set of its codes.  A code's random ID is left out: the    *)
(* time Create read tells codes apart, since two readings of the           *)
(* nanosecond clock by Create differ (the clock here never goes back; the  *)
(* README says what a step back would do).  s.mu is held by one call at a  *)
(* time, whose progress is its stage, and the process may die in each.     *)
(*                                                                         *)
(* An operator that is named after another with an underscore              *)
(* (Create_KeepsOld) is a wrong variant of it, kept to show which property *)
(* notices the difference.                                                 *)
(***************************************************************************)
EXTENDS Integers, FiniteSets

CONSTANTS
    Installation,      \* installation IDs
    CodeHash,          \* hashes of the numeric codes Create may draw
    TTL,               \* how long a code is valid (pairingCodeTTL)
    MaxClaimAttempts,  \* maxClaimAttempts
    MaxTime            \* model bound: the clock stops there

ASSUME TTLAssumption == TTL \in Nat \ {0}
ASSUME AttemptsAssumption == MaxClaimAttempts \in Nat \ {0}
ASSUME MaxTimeAssumption == MaxTime \in Nat

VARIABLES
    codes,      \* s.byID
    now,        \* the wall clock
    stage,      \* of the process and of the call holding s.mu
    creating,   \* the code Create is adding, if it is running
    claiming,   \* the code Claim is granting, if it is
    removing,   \* the installation RemoveForInstallation is clearing, if any
    saved,      \* the clone the running call restores if persisting fails
    disk,       \* the codes in the state file
    \* History.
    latest,     \* per installation, when the code it was given last was created
    granted     \* creation times of the codes Claim returned

request == <<stage, creating, claiming, removing, saved>>
history == <<latest, granted>>
vars    == <<codes, now, request, disk, history>>

Code == [installation : Installation, hash : CodeHash, created : Nat \ {0},
         expires : Nat, attempts : 0..MaxClaimAttempts, claimed : BOOLEAN]

TypeOK ==
    /\ codes \in SUBSET Code /\ saved \in SUBSET Code /\ disk \in SUBSET Code
    /\ now \in Nat
    /\ stage \in {"down", "idle", "persist", "return"}
    /\ creating \in SUBSET Code /\ claiming \in SUBSET Code
    /\ removing \in SUBSET Installation
    /\ latest \in [Installation -> SUBSET Nat]
    /\ granted \in SUBSET Nat

Init ==
    /\ codes = {} /\ saved = {} /\ disk = {}
    /\ now = 0
    /\ stage = "down"
    /\ creating = {} /\ claiming = {} /\ removing = {}
    /\ latest = [i \in Installation |-> {}]
    /\ granted = {}

\* Codes that can still be claimed at time t (hasActiveHashLocked).
Active(S, t) == {c \in S : ~c.claimed /\ c.expires > t}

\* The code Claim settles on for a hash: the newest, if there is one.
Candidates(h) ==
    {c \in codes : /\ c.hash = h
                   /\ \A d \in codes : d.hash = h => d.created <= c.created}
-----------------------------------------------------------------------------
(***************************************************************************)
(* The process and the clock.                                              *)
(***************************************************************************)
Tick ==
    /\ now < MaxTime
    /\ now' = now + 1
    /\ UNCHANGED <<codes, request, disk, history>>

\* OpenStore reads back what the state file holds, expired codes included.
Open ==
    /\ stage = "down"
    /\ stage' = "idle"
    /\ codes' = disk
    /\ UNCHANGED <<now, creating, claiming, removing, saved, disk, history>>

Crash ==
    /\ stage # "down"
    /\ stage' = "down"
    /\ codes' = {} /\ saved' = {}
    /\ creating' = {} /\ claiming' = {} /\ removing' = {}
    /\ UNCHANGED <<now, disk, history>>

\* Every call that changes byID clones it first and then persists.
BeginPersist ==
    /\ stage = "idle"
    /\ stage' = "persist"
    /\ saved' = codes
    /\ UNCHANGED <<disk, history>>
-----------------------------------------------------------------------------
(***************************************************************************)
(* The calls, up to persistLocked.                                         *)
(***************************************************************************)
NewCode(i, h, t) ==
    [installation |-> i, hash |-> h, created |-> t, expires |-> t + TTL,
     attempts |-> 0, claimed |-> FALSE]

Create_KeepsOld(i, h) ==
    LET t == now + 1
        kept == {c \in codes : c.expires > t}
    IN  /\ BeginPersist
        /\ t <= MaxTime
        /\ now' = t
        /\ \A c \in Active(kept, t) : c.hash # h
        /\ creating' = {NewCode(i, h, t)}
        /\ codes' = kept \union creating'
        /\ UNCHANGED <<claiming, removing>>

Create_CollisionAllowed(i, h) ==
    LET t == now + 1
        kept == {c \in codes : c.expires > t /\ (c.installation = i => c.claimed)}
    IN  /\ BeginPersist
        /\ t <= MaxTime
        /\ now' = t
        /\ creating' = {NewCode(i, h, t)}
        /\ codes' = kept \union creating'
        /\ UNCHANGED <<claiming, removing>>

\* Create reads the clock, prunes expired codes, drops the installation's
\* unclaimed one and adds a code that no active one collides with.  (If ten
\* draws all collide it restores the clone: no change.)
Create(i, h) ==
    LET t == now + 1
        kept == {c \in codes : c.expires > t /\ (c.installation = i => c.claimed)}
    IN  /\ BeginPersist
        /\ t <= MaxTime
        /\ now' = t
        /\ \A c \in Active(kept, t) : c.hash # h
        /\ creating' = {NewCode(i, h, t)}
        /\ codes' = kept \union creating'
        /\ UNCHANGED <<claiming, removing>>

ClaimAgain_NoLimit(h) ==
    \E c \in Candidates(h) :
        /\ BeginPersist
        /\ c.claimed
        /\ codes' = (codes \ {c}) \union {[c EXCEPT !.attempts = @ + 1]}
        /\ UNCHANGED <<now, creating, claiming, removing>>

\* Claim of a code that was claimed before: only the attempt is counted, up
\* to the limit.
ClaimAgain(h) ==
    \E c \in Candidates(h) :
        /\ BeginPersist
        /\ c.claimed /\ c.attempts < MaxClaimAttempts
        /\ codes' = (codes \ {c}) \union {[c EXCEPT !.attempts = @ + 1]}
        /\ UNCHANGED <<now, creating, claiming, removing>>

\* Claim of a code whose time is over deletes it.
ClaimExpired(h) ==
    \E c \in Candidates(h) :
        /\ BeginPersist
        /\ ~c.claimed /\ c.attempts < MaxClaimAttempts /\ c.expires <= now
        /\ codes' = codes \ {c}
        /\ UNCHANGED <<now, creating, claiming, removing>>

ClaimActive_Unsaved(h) ==
    \E c \in Candidates(h) :
        /\ stage = "idle" /\ stage' = "return"
        /\ ~c.claimed /\ c.attempts < MaxClaimAttempts /\ c.expires > now
        /\ codes' = (codes \ {c}) \union
                    {[c EXCEPT !.attempts = @ + 1, !.claimed = TRUE]}
        /\ claiming' = {c}
        /\ UNCHANGED <<now, creating, removing, saved, disk, history>>

\* Claim of an active code marks it claimed.
ClaimActive(h) ==
    \E c \in Candidates(h) :
        /\ BeginPersist
        /\ ~c.claimed /\ c.attempts < MaxClaimAttempts /\ c.expires > now
        /\ codes' = (codes \ {c}) \union
                    {[c EXCEPT !.attempts = @ + 1, !.claimed = TRUE]}
        /\ claiming' = {c}
        /\ UNCHANGED <<now, creating, removing>>

\* RemoveForInstallation; with nothing to remove it returns at once.
RemoveForInstallation(i) ==
    /\ BeginPersist
    /\ \E c \in codes : c.installation = i
    /\ codes' = {c \in codes : c.installation # i}
    /\ removing' = {i}
    /\ UNCHANGED <<now, creating, claiming>>
-----------------------------------------------------------------------------
(***************************************************************************)
(* persistLocked, and the return of the call.                              *)
(***************************************************************************)
Persist ==
    /\ stage = "persist"
    /\ stage' = "return"
    /\ disk' = codes
    /\ latest' = [i \in Installation |->
                    LET new == {c \in creating : c.installation = i}
                    IN  IF new = {} /\ i \notin removing THEN latest[i]
                        ELSE {c.created : c \in new}]
    /\ UNCHANGED <<codes, now, creating, claiming, removing, saved, granted>>

PersistFails_NoRollback ==
    /\ stage = "persist"
    /\ stage' = "idle"
    /\ creating' = {} /\ claiming' = {} /\ removing' = {} /\ saved' = {}
    /\ UNCHANGED <<codes, now, disk, history>>

\* The clone is restored and the call returns the error.
PersistFails ==
    /\ stage = "persist"
    /\ stage' = "idle"
    /\ codes' = saved
    /\ creating' = {} /\ claiming' = {} /\ removing' = {} /\ saved' = {}
    /\ UNCHANGED <<now, disk, history>>

Return ==
    /\ stage = "return"
    /\ stage' = "idle"
    /\ granted' = granted \union {c.created : c \in claiming}
    /\ creating' = {} /\ claiming' = {} /\ removing' = {} /\ saved' = {}
    /\ UNCHANGED <<codes, now, disk, latest>>

Next ==
    \/ Tick \/ Open \/ Crash
    \/ Persist \/ PersistFails \/ Return
    \/ \E h \in CodeHash :
          \/ \E i \in Installation : Create(i, h)
          \/ ClaimAgain(h) \/ ClaimExpired(h) \/ ClaimActive(h)
    \/ \E i \in Installation : RemoveForInstallation(i)

Spec == Init /\ [][Next]_vars
-----------------------------------------------------------------------------
(***************************************************************************)
(* Properties.                                                             *)
(***************************************************************************)
\* A code is granted once, over failed writes, crashes and restarts (Claim;
\* the plan's "short-lived, hashed at rest, single-use").
SingleUse == \A c \in claiming : stage = "return" => c.created \notin granted

\* Only the code an installation was given last is ever granted: one that was
\* replaced by Create or removed with its installation is not.
OnlyLatestIsGranted ==
    \A c \in claiming : stage = "return" => latest[c.installation] = {c.created}

\* "Keep at most one active code per installation", in memory and in the file
\* (the deletion loop of Create).
OneActivePerInstallation ==
    \A S \in {codes, disk} : \A c, d \in Active(S, now) :
        c.installation = d.installation => c = d

\* Between calls every active code can be claimed: it is the one Claim settles
\* on, though older codes of the same digits may be kept, and the limit of
\* attempts, which counts matches only, does not block it.
ActiveIsClaimable ==
    stage = "idle" =>
        \A c \in Active(codes, now) :
            Candidates(c.hash) = {c} /\ c.attempts < MaxClaimAttempts

\* Between calls the store holds what a restart would read back.
MemoryIsDurable == stage \in {"idle", "return"} => codes = disk
=============================================================================
