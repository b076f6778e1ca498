------------------------ MODULE WatchPairingsProofs ------------------------
(***************************************************************************)
(* Theorems about WatchPairings, for every set of installations and hashes, *)
(* every lifetime of codes, every limit of attempts and every bound on the *)
(* clock.                                                                  *)
(***************************************************************************)
EXTENDS WatchPairings, TLAPS

\* What holds of the codes in memory and of those in the file, at time t, when
\* the codes created at the times G were granted.
Sound(S, t, G) ==
    /\ \A c \in S : c.created <= t
    /\ \A c, d \in S : c.created = d.created => c = d
    /\ \A c \in S : ~c.claimed => c.attempts = 0
    /\ \A c, d \in S : ~c.claimed /\ ~d.claimed /\ c.installation = d.installation => c = d
    /\ \A c, d \in S : ~c.claimed /\ c.hash = d.hash /\ c # d => d.created < c.created
    /\ \A c \in S : c.created \in G => c.claimed

\* Where the file stands: a code that can still be claimed is the one its
\* installation was given last.
FileIsLatest ==
    /\ Sound(disk, now, granted)
    /\ \A t \in granted : t <= now
    /\ \A c \in disk : ~c.claimed => latest[c.installation] = {c.created}

\* Where memory stands to the file: equal between calls; while a call persists
\* the file's codes are saved, and an unclaimed code is either in the file or
\* the one being created, which has no rival.
MemoryFollowsFile ==
    /\ Sound(codes, now, granted)
    /\ MemoryIsDurable
    /\ stage = "persist" => saved = disk
    /\ stage \in {"down", "idle"} => creating = {} /\ claiming = {} /\ removing = {}
    /\ stage = "persist" =>
         \A c \in codes : ~c.claimed =>
            \/ c \in creating
            \/ /\ c \in disk /\ c.installation \notin removing
               /\ \A n \in creating : n.installation # c.installation

\* At most one code is being created or claimed, and a code that is being
\* claimed is its installation's latest, not yet granted, and already claimed
\* in memory.
OneCall ==
    /\ \A m, n \in creating : m = n
    /\ creating # {} => claiming = {} /\ removing = {}
    /\ claiming # {} => removing = {}
    /\ \A c \in claiming :
         /\ latest[c.installation] = {c.created}
         /\ c.created <= now /\ c.created \notin granted
         /\ \A d \in codes : d.created = c.created => d.claimed

IInv == TypeOK /\ FileIsLatest /\ MemoryFollowsFile /\ OneCall
-----------------------------------------------------------------------------
\* Dropping codes, or time passing, leaves codes sound.
LEMMA SoundSubset ==
  ASSUME NEW S \in SUBSET Code, NEW T \in SUBSET S,
         NEW t \in Nat, NEW u \in Nat, t <= u, NEW G, Sound(S, t, G)
  PROVE  Sound(T, u, G)
BY DEF Sound, Code

\* Claiming a code, again or for the first time, leaves codes sound.
LEMMA SoundClaimed ==
  ASSUME NEW S \in SUBSET Code, NEW t \in Nat, NEW G, Sound(S, t, G), NEW c \in S,
         NEW d \in Code, d.claimed, d.created = c.created, d.hash = c.hash
  PROVE  Sound((S \ {c}) \union {d}, t, G)
BY DEF Sound, Code

\* A code created now, of an installation without an unclaimed code and with
\* digits of no unclaimed code, leaves codes sound.
LEMMA SoundNew ==
  ASSUME NEW S \in SUBSET Code, NEW t \in Nat, NEW G, Sound(S, t, G),
         \A g \in G : g <= t,
         NEW n \in Code, n.created = t + 1, ~n.claimed, n.attempts = 0,
         \A c \in S : ~c.claimed => c.installation # n.installation /\ c.hash # n.hash
  PROVE  Sound(S \union {n}, t + 1, G)
BY DEF Sound, Code
-----------------------------------------------------------------------------
\* A store that was never opened satisfies the invariant.
LEMMA InitIInv == Init => IInv
BY DEF Init, IInv, TypeOK, FileIsLatest, MemoryFollowsFile, OneCall, Sound, MemoryIsDurable

LEMMA TickStep == IInv /\ Tick => IInv'
<1> SUFFICES ASSUME IInv, Tick PROVE IInv'
  OBVIOUS
<1>1. /\ now \in Nat /\ now' \in Nat /\ now <= now'
      /\ codes \in SUBSET Code /\ disk \in SUBSET Code
  BY DEF IInv, TypeOK, Tick
<1>2. Sound(disk', now', granted') /\ Sound(codes', now', granted')
  BY <1>1, SoundSubset DEF IInv, FileIsLatest, MemoryFollowsFile, Tick, history
<1>. QED
  BY <1>1, <1>2 DEF IInv, TypeOK, FileIsLatest, MemoryFollowsFile, OneCall, MemoryIsDurable,
     Tick, request, history, Code

\* OpenStore and the process's end touch neither the file nor what was granted.
LEMMA OpenStep == IInv /\ Open => IInv'
BY DEF IInv, TypeOK, FileIsLatest, MemoryFollowsFile, OneCall, MemoryIsDurable, Open, history

LEMMA CrashStep == IInv /\ Crash => IInv'
BY DEF IInv, TypeOK, FileIsLatest, MemoryFollowsFile, OneCall, MemoryIsDurable, Sound, Crash, history

\* Create: what it prunes may go, and the new code has no rival.
LEMMA CreateStep ==
  ASSUME NEW i \in Installation, NEW h \in CodeHash, IInv, Create(i, h)
  PROVE  IInv'
<1> DEFINE t == now + 1
           n == NewCode(i, h, t)
           kept == {c \in codes : c.expires > t /\ (c.installation = i => c.claimed)}
<1>0. TypeOK /\ FileIsLatest /\ MemoryFollowsFile /\ OneCall
  BY DEF IInv
<1>1. /\ stage = "idle" /\ stage' = "persist" /\ saved' = codes /\ codes = disk
      /\ creating' = {n} /\ codes' = kept \union {n} /\ now' = t
      /\ claiming' = {} /\ removing' = {}
      /\ UNCHANGED <<disk, latest, granted>>
  BY <1>0 DEF Create, BeginPersist, MemoryFollowsFile, MemoryIsDurable, history
<1>2. /\ n \in Code /\ n.created = t /\ ~n.claimed /\ n.attempts = 0
      /\ n.installation = i /\ n.hash = h
  BY <1>0, TTLAssumption, AttemptsAssumption DEF NewCode, Code, TypeOK
<1>3. /\ now \in Nat /\ t \in Nat /\ now <= t
      /\ codes \in SUBSET Code /\ kept \in SUBSET Code /\ kept \in SUBSET codes
  BY <1>0 DEF TypeOK
<1>4. \A c \in kept : ~c.claimed => c.installation # i /\ c.hash # h
  BY DEF Create, Active
<1>5. Sound(codes', now', granted')
  <2>1. Sound(kept, now, granted)
    BY <1>0, <1>3, SoundSubset DEF MemoryFollowsFile
  <2>2. \A g \in granted : g <= now
    BY <1>0 DEF FileIsLatest
  <2>3. Sound(kept \union {n}, now + 1, granted)
    BY <2>1, <2>2, <1>2, <1>3, <1>4, SoundNew
  <2>. QED BY <2>3, <1>1
<1>6. FileIsLatest'
  <2>1. Sound(disk, t, granted)
    BY <1>0, <1>1, <1>3, SoundSubset DEF FileIsLatest
  <2>2. \A g \in granted : g <= t
    BY <1>0, <1>3 DEF FileIsLatest, TypeOK
  <2>. QED BY <2>1, <2>2, <1>0, <1>1 DEF FileIsLatest
<1>7. MemoryFollowsFile'
  BY <1>1, <1>2, <1>4, <1>5 DEF MemoryFollowsFile, MemoryIsDurable
<1>8. OneCall'
  BY <1>1 DEF OneCall
<1>9. TypeOK'
  BY <1>0, <1>1, <1>2, <1>3 DEF TypeOK
<1>. QED BY <1>6, <1>7, <1>8, <1>9 DEF IInv

\* A claim that changes memory: the code is counted as tried, or claimed, or,
\* when its time is over, deleted.
LEMMA ClaimStep ==
  ASSUME NEW h \in CodeHash, IInv, ClaimAgain(h) \/ ClaimExpired(h) \/ ClaimActive(h)
  PROVE  IInv'
<1>0. TypeOK /\ FileIsLatest /\ MemoryFollowsFile /\ OneCall
  BY DEF IInv
<1>1. PICK c \in codes :
        /\ stage = "idle" /\ stage' = "persist" /\ saved' = codes
        /\ UNCHANGED <<now, creating, removing, disk, latest, granted>>
        /\ \/ /\ c.attempts < MaxClaimAttempts
              /\ codes' = (codes \ {c}) \union {[c EXCEPT !.attempts = @ + 1]}
              /\ c.claimed /\ claiming' = claiming
           \/ codes' = codes \ {c} /\ claiming' = claiming
           \/ /\ c.attempts < MaxClaimAttempts
              /\ codes' = (codes \ {c}) \union
                          {[c EXCEPT !.attempts = @ + 1, !.claimed = TRUE]}
              /\ ~c.claimed /\ claiming' = {c}
  BY DEF ClaimAgain, ClaimExpired, ClaimActive, Candidates, BeginPersist, history
<1>2. /\ codes \in SUBSET Code /\ codes = disk /\ now \in Nat
      /\ creating = {} /\ claiming = {} /\ removing = {} /\ c \in Code
  BY <1>0, <1>1 DEF TypeOK, MemoryFollowsFile, MemoryIsDurable
<1>3. FileIsLatest'
  BY <1>0, <1>1 DEF FileIsLatest
<1>4. ASSUME NEW d \in Code, d.claimed, d.created = c.created, d.hash = c.hash,
             codes' = (codes \ {c}) \union {d},
             claiming' = {} \/ (claiming' = {c} /\ ~c.claimed)
      PROVE  IInv'
  <2>1. Sound(codes', now', granted')
    BY <1>0, <1>1, <1>2, <1>4, SoundClaimed DEF MemoryFollowsFile
  <2>2. MemoryFollowsFile'
    BY <1>1, <1>2, <1>4, <2>1 DEF MemoryFollowsFile, MemoryIsDurable
  <2>3. OneCall'
    BY <1>0, <1>1, <1>2, <1>4 DEF OneCall, FileIsLatest, Sound
  <2>4. TypeOK'
    BY <1>0, <1>1, <1>2, <1>4 DEF TypeOK
  <2>. QED BY <1>3, <2>2, <2>3, <2>4 DEF IInv
<1>5. ASSUME codes' = codes \ {c}, claiming' = {}
      PROVE  IInv'
  <2>1. Sound(codes', now', granted')
    BY <1>0, <1>1, <1>2, <1>5, SoundSubset DEF MemoryFollowsFile
  <2>2. MemoryFollowsFile'
    BY <1>1, <1>2, <1>5, <2>1 DEF MemoryFollowsFile, MemoryIsDurable
  <2>3. OneCall'
    BY <1>1, <1>2, <1>5 DEF OneCall
  <2>4. TypeOK'
    BY <1>0, <1>1, <1>2, <1>5 DEF TypeOK
  <2>. QED BY <1>3, <2>2, <2>3, <2>4 DEF IInv
<1>6. ASSUME c.attempts < MaxClaimAttempts
      PROVE  /\ [c EXCEPT !.attempts = @ + 1] \in Code
             /\ [c EXCEPT !.attempts = @ + 1, !.claimed = TRUE] \in Code
  <2>1. c.attempts + 1 \in 0..MaxClaimAttempts
    BY <1>2, <1>6, AttemptsAssumption DEF Code
  <2>2. c \in [installation : Installation, hash : CodeHash, created : Nat \ {0},
               expires : Nat, attempts : 0..MaxClaimAttempts, claimed : BOOLEAN]
    BY <1>2 DEF Code
  <2>3. [c EXCEPT !.attempts = c.attempts + 1] \in Code
    BY <2>1, <2>2, Zenon DEF Code
  <2>4. [c EXCEPT !.attempts = c.attempts + 1, !.claimed = TRUE] \in Code
    BY <2>1, <2>2, Zenon DEF Code
  <2>. QED BY <2>3, <2>4
<1>7. CASE /\ c.attempts < MaxClaimAttempts
           /\ codes' = (codes \ {c}) \union {[c EXCEPT !.attempts = @ + 1]}
           /\ c.claimed /\ claiming' = claiming
  <2> DEFINE d == [c EXCEPT !.attempts = @ + 1]
  <2>1. d \in Code /\ d.claimed /\ d.created = c.created /\ d.hash = c.hash
    BY <1>2, <1>6, <1>7 DEF Code
  <2>. QED BY <1>2, <1>4, <1>7, <2>1
<1>8. CASE /\ c.attempts < MaxClaimAttempts
           /\ codes' = (codes \ {c}) \union
                       {[c EXCEPT !.attempts = @ + 1, !.claimed = TRUE]}
           /\ ~c.claimed /\ claiming' = {c}
  <2> DEFINE d == [c EXCEPT !.attempts = @ + 1, !.claimed = TRUE]
  <2>1. d \in Code /\ d.claimed /\ d.created = c.created /\ d.hash = c.hash
    BY <1>2, <1>6, <1>8 DEF Code
  <2>. QED BY <1>2, <1>4, <1>8, <2>1
<1>. QED BY <1>1, <1>2, <1>5, <1>7, <1>8

\* RemoveForInstallation leaves none of the installation's codes.
LEMMA RemoveStep ==
  ASSUME NEW i \in Installation, IInv, RemoveForInstallation(i)
  PROVE  IInv'
<1>0. TypeOK /\ FileIsLatest /\ MemoryFollowsFile /\ OneCall
  BY DEF IInv
<1>1. /\ stage = "idle" /\ stage' = "persist" /\ saved' = codes /\ codes = disk
      /\ codes' = {c \in codes : c.installation # i} /\ removing' = {i}
      /\ creating' = {} /\ claiming' = {}
      /\ UNCHANGED <<now, disk, latest, granted>>
  BY <1>0 DEF RemoveForInstallation, BeginPersist, MemoryFollowsFile, MemoryIsDurable, history
<1>2. Sound(codes', now', granted')
  BY <1>0, <1>1, SoundSubset DEF MemoryFollowsFile, TypeOK
<1>3. FileIsLatest'
  BY <1>0, <1>1 DEF FileIsLatest
<1>4. MemoryFollowsFile'
  BY <1>1, <1>2 DEF MemoryFollowsFile, MemoryIsDurable
<1>5. OneCall'
  BY <1>1 DEF OneCall
<1>6. TypeOK'
  BY <1>0, <1>1 DEF TypeOK
<1>. QED BY <1>3, <1>4, <1>5, <1>6 DEF IInv

\* The write: the new code becomes its installation's latest; a removed
\* installation has none any more.
LEMMA PersistStep == IInv /\ Persist => IInv'
<1> SUFFICES ASSUME IInv, Persist PROVE IInv'
  OBVIOUS
<1>0. TypeOK /\ FileIsLatest /\ MemoryFollowsFile /\ OneCall
  BY DEF IInv
<1>1. /\ stage = "persist" /\ stage' = "return" /\ disk' = codes
      /\ UNCHANGED <<codes, now, creating, claiming, removing, saved, granted>>
  BY DEF Persist
<1>2. ASSUME NEW c \in codes, ~c.claimed
      PROVE  latest'[c.installation] = {c.created}
  <2> DEFINE new == {n \in creating : n.installation = c.installation}
  <2>0. c.installation \in Installation
    BY <1>0 DEF TypeOK, Code
  <2>1. latest'[c.installation] =
          IF new = {} /\ c.installation \notin removing THEN latest[c.installation]
          ELSE {n.created : n \in new}
    BY <2>0 DEF Persist
  <2>2. CASE c \in creating
    <3>1. new = {c}
      BY <1>0, <2>2 DEF OneCall
    <3>. QED BY <2>1, <3>1
  <2>3. CASE /\ c \in disk /\ c.installation \notin removing
             /\ \A n \in creating : n.installation # c.installation
    BY <1>0, <1>2, <2>1, <2>3 DEF FileIsLatest
  <2>. QED BY <1>0, <1>1, <1>2, <2>2, <2>3 DEF MemoryFollowsFile
<1>3. ASSUME NEW c \in claiming
      PROVE  latest'[c.installation] = {c.created}
  <2>1. creating = {} /\ removing = {} /\ c.installation \in Installation
    BY <1>0 DEF OneCall, TypeOK, Code
  <2>. QED BY <1>0, <2>1 DEF Persist, OneCall
<1>4. FileIsLatest'
  BY <1>0, <1>1, <1>2 DEF FileIsLatest, MemoryFollowsFile
<1>5. MemoryFollowsFile'
  BY <1>0, <1>1 DEF MemoryFollowsFile, MemoryIsDurable
<1>6. OneCall'
  BY <1>0, <1>1, <1>3 DEF OneCall
<1>7. TypeOK'
  <2>1. \A i \in Installation : {c.created : c \in {c \in creating : c.installation = i}} \in SUBSET Nat
    BY <1>0 DEF TypeOK, Code
  <2>2. latest' \in [Installation -> SUBSET Nat]
    BY <1>0, <2>1 DEF Persist, TypeOK
  <2>. QED BY <1>0, <1>1, <2>2 DEF TypeOK
<1>. QED BY <1>4, <1>5, <1>6, <1>7 DEF IInv

\* The rollback: what was saved is what the file holds.
LEMMA PersistFailsStep == IInv /\ PersistFails => IInv'
BY DEF IInv, TypeOK, FileIsLatest, MemoryFollowsFile, OneCall, MemoryIsDurable, PersistFails, history

\* The return of a claim: its code is granted, and claimed in the file.
LEMMA ReturnStep == IInv /\ Return => IInv'
<1> SUFFICES ASSUME IInv, Return PROVE IInv'
  OBVIOUS
<1>0. TypeOK /\ FileIsLatest /\ MemoryFollowsFile /\ OneCall
  BY DEF IInv
<1>1. /\ stage' = "idle" /\ codes = disk
      /\ granted' = granted \union {c.created : c \in claiming}
      /\ creating' = {} /\ claiming' = {} /\ removing' = {} /\ saved' = {}
      /\ UNCHANGED <<codes, now, disk, latest>>
  BY <1>0 DEF Return, MemoryFollowsFile, MemoryIsDurable
<1>2. Sound(codes, now, granted')
  BY <1>0, <1>1 DEF MemoryFollowsFile, OneCall, Sound
<1>3. \A t \in granted' : t <= now
  BY <1>0, <1>1 DEF FileIsLatest, OneCall
<1>4. FileIsLatest' /\ MemoryFollowsFile' /\ OneCall'
  BY <1>0, <1>1, <1>2, <1>3 DEF FileIsLatest, MemoryFollowsFile, OneCall, MemoryIsDurable
<1>5. TypeOK'
  BY <1>0, <1>1 DEF TypeOK, Code
<1>. QED BY <1>4, <1>5 DEF IInv

\* Every step of the specification preserves the invariant.
LEMMA IInvStep == IInv /\ [Next]_vars => IInv'
<1>1. IInv /\ UNCHANGED vars => IInv'
  BY DEF vars, request, history, IInv, TypeOK, FileIsLatest, MemoryFollowsFile, OneCall,
         MemoryIsDurable
<1>. QED
  BY <1>1, TickStep, OpenStep, CrashStep, CreateStep, ClaimStep, RemoveStep,
     PersistStep, PersistFailsStep, ReturnStep DEF Next

LEMMA Invariance == Spec => []IInv
BY InitIInv, IInvStep, PTL DEF Spec

\* Type correctness of the store of pairing codes.
THEOREM TypeCorrect == Spec => []TypeOK
<1>1. IInv => TypeOK
  BY DEF IInv
<1>. QED BY <1>1, Invariance, PTL

\* A code is granted once, whatever fails and wherever the process dies (Claim).
THEOREM CodesAreSingleUse == Spec => []SingleUse
<1>1. IInv => SingleUse
  BY DEF IInv, OneCall, SingleUse
<1>. QED BY <1>1, Invariance, PTL

\* A code that was replaced (Create) or removed (RemoveForInstallation) is never
\* granted.
THEOREM LatestCodeIsGranted == Spec => []OnlyLatestIsGranted
<1>1. IInv => OnlyLatestIsGranted
  BY DEF IInv, OneCall, OnlyLatestIsGranted
<1>. QED BY <1>1, Invariance, PTL

\* An installation has at most one active code, in memory and in the file
\* (Create's deletion of the older one).
THEOREM OneActiveCode == Spec => []OneActivePerInstallation
<1>1. IInv => OneActivePerInstallation
  BY DEF IInv, FileIsLatest, MemoryFollowsFile, Sound, Active, OneActivePerInstallation
<1>. QED BY <1>1, Invariance, PTL

\* Between calls Claim settles on every active code, and its limit of attempts
\* does not block it.
THEOREM ActiveCodesAreClaimable == Spec => []ActiveIsClaimable
<1>1. IInv => ActiveIsClaimable
  <2> SUFFICES ASSUME IInv, NEW c \in Active(codes, now)
               PROVE  Candidates(c.hash) = {c} /\ c.attempts < MaxClaimAttempts
    BY DEF ActiveIsClaimable
  <2>1. Sound(codes, now, granted) /\ codes \in SUBSET Code /\ c \in codes /\ ~c.claimed
    BY DEF IInv, MemoryFollowsFile, TypeOK, Active
  <2>2. \A d \in codes : d.hash = c.hash /\ d # c => d.created < c.created
    BY <2>1 DEF Sound
  <2>3. \A d \in Candidates(c.hash) : d = c
    BY <2>1, <2>2 DEF Candidates, Code
  <2>4. c \in Candidates(c.hash)
    BY <2>1, <2>2 DEF Candidates, Code
  <2>5. c.attempts < MaxClaimAttempts
    BY <2>1, AttemptsAssumption DEF Sound
  <2>. QED BY <2>3, <2>4, <2>5
<1>. QED BY <1>1, Invariance, PTL

\* Between calls a restart reads back what memory holds (restoreLocked).
THEOREM CodesAreDurable == Spec => []MemoryIsDurable
<1>1. IInv => MemoryIsDurable
  BY DEF IInv, MemoryFollowsFile
<1>. QED BY <1>1, Invariance, PTL
=============================================================================
