------------------------- MODULE ChannelStoreProofs -------------------------
(***************************************************************************)
(* The channel store's calls keep its indexes exact, for any number of     *)
(* installations and tokens.                                               *)
(***************************************************************************)
EXTENDS ChannelStore, TLAPS

\* Each index names the channel that has the key, if one does.
Indexed(store) ==
    /\ \A i \in Installation, m \in Drawn :
         store.byInstallation[i] = m <=> store.byID[m].installation = i
    /\ \A t, m \in Drawn : store.byProducerToken[t] = m <=> store.byID[m].producer = t
    /\ \A t, m \in Drawn : store.byWatchToken[t] = m <=> store.byID[m].watch = t

\* The channels that are there were among the first n drawn, with their tokens.
Within(byID, n) ==
    \A m \in IDs(byID) : /\ byID[m].installation \in Installation
                         /\ byID[m].producer = m /\ m <= n
                         /\ byID[m].watch <= n

Sound(store, n) == store \in Store /\ Indexed(store) /\ Within(store.byID, n)
-----------------------------------------------------------------------------
LEMMA StoreTypes ==
  ASSUME NEW store \in Store
  PROVE  /\ store.byID \in [Drawn -> Channel]
         /\ store.byInstallation \in [Installation -> 0..MaxDrawn]
         /\ store.byProducerToken \in [Drawn -> 0..MaxDrawn]
         /\ store.byWatchToken \in [Drawn -> 0..MaxDrawn]
BY DEF Store

LEMMA ChannelTypes ==
  ASSUME NEW c \in Channel
  PROVE  /\ c.installation \in Installation \union {None}
         /\ c.producer \in 0..MaxDrawn /\ c.watch \in 0..MaxDrawn
BY DEF Channel

\* Two stores with the same parts are the same.
LEMMA SameStore ==
  ASSUME NEW s \in Store, NEW t \in Store,
         s.byID = t.byID, s.byInstallation = t.byInstallation,
         s.byProducerToken = t.byProducerToken, s.byWatchToken = t.byWatchToken
  PROVE  s = t
BY DEF Store

LEMMA SoleOfOne ==
  ASSUME NEW x
  PROVE  Sole({}) = 0 /\ Sole({x}) = x
BY DEF Sole

\* An index entry is what Sole finds.
LEMMA SoleEntry ==
  ASSUME NEW S \in SUBSET Drawn, NEW x \in 0..MaxDrawn, \A m \in Drawn : x = m <=> m \in S
  PROVE  Sole(S) = x
<1>1. CASE x = 0
  <2>1. S = {}
    BY <1>1 DEF Drawn
  <2>. QED BY <1>1, <2>1, SoleOfOne
<1>2. CASE x # 0
  <2>1. x \in Drawn
    BY <1>2, MaxDrawnAssumption DEF Drawn
  <2>2. S = {x}
    BY <2>1
  <2>. QED BY <2>2, SoleOfOne
<1>. QED BY <1>1, <1>2

\* An exact index is the one OpenStore would rebuild.
LEMMA IndexedIsOpened ==
  ASSUME NEW store \in Store, Indexed(store)
  PROVE  store = Opened(store.byID)
<1> DEFINE byID == store.byID
           o == Opened(byID)
<1>1. /\ byID \in [Drawn -> Channel]
      /\ store.byInstallation \in [Installation -> 0..MaxDrawn]
      /\ store.byProducerToken \in [Drawn -> 0..MaxDrawn]
      /\ store.byWatchToken \in [Drawn -> 0..MaxDrawn]
  BY StoreTypes
<1>2. \A m \in Drawn : byID[m] = NoChannel =>
        /\ byID[m].installation \notin Installation
        /\ byID[m].producer \notin Drawn /\ byID[m].watch \notin Drawn
  BY NoneAssumption, MaxDrawnAssumption DEF NoChannel, Drawn
<1>3. ASSUME NEW i \in Installation
      PROVE  Sole({n \in IDs(byID) : byID[n].installation = i}) = store.byInstallation[i]
  <2> DEFINE S == {n \in IDs(byID) : byID[n].installation = i}
  <2>1. S \in SUBSET Drawn /\ \A m \in Drawn : m \in S <=> byID[m].installation = i
    BY <1>2 DEF IDs
  <2>2. store.byInstallation[i] \in 0..MaxDrawn
    BY <1>1
  <2>3. \A m \in Drawn : store.byInstallation[i] = m <=> m \in S
    BY <2>1 DEF Indexed
  <2> HIDE DEF S
  <2>4. Sole(S) = store.byInstallation[i]
    BY <2>1, <2>2, <2>3, SoleEntry
  <2>. QED BY <2>4 DEF S
<1>4. ASSUME NEW t \in Drawn
      PROVE  Sole({n \in IDs(byID) : byID[n].producer = t}) = store.byProducerToken[t]
  <2> DEFINE S == {n \in IDs(byID) : byID[n].producer = t}
  <2>1. S \in SUBSET Drawn /\ \A m \in Drawn : m \in S <=> byID[m].producer = t
    BY <1>2 DEF IDs
  <2>2. store.byProducerToken[t] \in 0..MaxDrawn
    BY <1>1
  <2>3. \A m \in Drawn : store.byProducerToken[t] = m <=> m \in S
    BY <2>1 DEF Indexed
  <2> HIDE DEF S
  <2>4. Sole(S) = store.byProducerToken[t]
    BY <2>1, <2>2, <2>3, SoleEntry
  <2>. QED BY <2>4 DEF S
<1>5. ASSUME NEW t \in Drawn
      PROVE  Sole({n \in IDs(byID) : byID[n].watch = t}) = store.byWatchToken[t]
  <2> DEFINE S == {n \in IDs(byID) : byID[n].watch = t}
  <2>1. S \in SUBSET Drawn /\ \A m \in Drawn : m \in S <=> byID[m].watch = t
    BY <1>2 DEF IDs
  <2>2. store.byWatchToken[t] \in 0..MaxDrawn
    BY <1>1
  <2>3. \A m \in Drawn : store.byWatchToken[t] = m <=> m \in S
    BY <2>1 DEF Indexed
  <2> HIDE DEF S
  <2>4. Sole(S) = store.byWatchToken[t]
    BY <2>1, <2>2, <2>3, SoleEntry
  <2>. QED BY <2>4 DEF S
<1>6. /\ o.byID = byID
      /\ o.byInstallation = [i \in Installation |-> Sole({n \in IDs(byID) : byID[n].installation = i})]
      /\ o.byProducerToken = [t \in Drawn |-> Sole({n \in IDs(byID) : byID[n].producer = t})]
      /\ o.byWatchToken = [t \in Drawn |-> Sole({n \in IDs(byID) : byID[n].watch = t})]
  BY DEF Opened
<1>7. /\ o.byInstallation = store.byInstallation
      /\ o.byProducerToken = store.byProducerToken
      /\ o.byWatchToken = store.byWatchToken
  <2>1. o.byInstallation = store.byInstallation
    BY <1>1, <1>3, <1>6
  <2>2. o.byProducerToken = store.byProducerToken
    BY <1>1, <1>4, <1>6
  <2>3. o.byWatchToken = store.byWatchToken
    BY <1>1, <1>5, <1>6
  <2>. QED BY <2>1, <2>2, <2>3
<1>8. o = [byID |-> o.byID, byInstallation |-> o.byInstallation,
           byProducerToken |-> o.byProducerToken, byWatchToken |-> o.byWatchToken]
  BY DEF Opened
<1> HIDE DEF o
<1>9. o \in Store
  BY <1>1, <1>6, <1>7, <1>8 DEF Store
<1>. QED BY <1>6, <1>7, <1>9, SameStore DEF o
-----------------------------------------------------------------------------
(***************************************************************************)
(* Looking up.                                                             *)
(***************************************************************************)
LEMMA LookUp ==
  ASSUME NEW n, NEW store, Sound(store, n)
  PROVE  /\ \A i \in Installation :
              /\ GetByInstallation(store, i) = store.byInstallation[i]
              /\ GetByInstallation(store, i) \in 0..MaxDrawn
         /\ \A t \in Drawn :
              /\ GetByProducerToken(store, t) = store.byProducerToken[t]
              /\ GetByWatchToken(store, t) = store.byWatchToken[t]
<1>1. /\ store.byID \in [Drawn -> Channel]
      /\ store.byInstallation \in [Installation -> 0..MaxDrawn]
      /\ store.byProducerToken \in [Drawn -> 0..MaxDrawn]
      /\ store.byWatchToken \in [Drawn -> 0..MaxDrawn]
  BY StoreTypes DEF Sound
<1>2. \A m \in Drawn : store.byID[m] = NoChannel =>
        /\ store.byID[m].installation \notin Installation
        /\ store.byID[m].producer \notin Drawn /\ store.byID[m].watch \notin Drawn
  BY NoneAssumption, MaxDrawnAssumption DEF NoChannel, Drawn
<1>3. \A x \in 0..MaxDrawn : x = 0 \/ x \in Drawn
  BY MaxDrawnAssumption DEF Drawn
<1>4. ASSUME NEW i \in Installation
      PROVE  GetByInstallation(store, i) = store.byInstallation[i]
  BY <1>1, <1>2, <1>3 DEF GetByInstallation, Found, IDs, Sound, Indexed
<1>5. ASSUME NEW t \in Drawn
      PROVE  /\ GetByProducerToken(store, t) = store.byProducerToken[t]
             /\ GetByWatchToken(store, t) = store.byWatchToken[t]
  BY <1>1, <1>2, <1>3 DEF GetByProducerToken, GetByWatchToken, Found, IDs, Sound, Indexed
<1>. QED BY <1>1, <1>4, <1>5
-----------------------------------------------------------------------------
(***************************************************************************)
(* The calls that change the store.                                        *)
(***************************************************************************)
\* A changed store, part by part.
LEMMA EnsureParts ==
  ASSUME NEW store \in Store, NEW i \in Installation, NEW m \in Drawn
  PROVE  LET s == WithChannel(store, i, m)
         IN  /\ s \in Store
             /\ s.byID = [store.byID EXCEPT ![m] =
                             [installation |-> i, producer |-> m, watch |-> 0]]
             /\ s.byInstallation = [store.byInstallation EXCEPT ![i] = m]
             /\ s.byProducerToken = [store.byProducerToken EXCEPT ![m] = m]
             /\ s.byWatchToken = store.byWatchToken
<1> DEFINE c == [installation |-> i, producer |-> m, watch |-> 0]
           s == WithChannel(store, i, m)
<1>1. c \in Channel /\ m \in 0..MaxDrawn
  BY MaxDrawnAssumption DEF Channel, Drawn
<1> HIDE DEF c
<1>2. /\ s.byID = [store.byID EXCEPT ![m] = c]
      /\ s.byInstallation = [store.byInstallation EXCEPT ![i] = m]
      /\ s.byProducerToken = [store.byProducerToken EXCEPT ![m] = m]
      /\ s.byWatchToken = store.byWatchToken
  BY DEF WithChannel, Store, c
<1>3. s \in Store
  BY <1>1 DEF WithChannel, Store, c
<1>. QED BY <1>2, <1>3 DEF c

LEMMA RotateParts ==
  ASSUME NEW store \in Store, NEW i \in Installation, NEW t \in Drawn,
         store.byInstallation[i] \in Drawn
  PROVE  LET s == WithWatchSession(store, i, t)
             n == store.byInstallation[i]
         IN  /\ s \in Store
             /\ s.byID = [store.byID EXCEPT ![n].watch = t]
             /\ s.byInstallation = store.byInstallation
             /\ s.byProducerToken = store.byProducerToken
             /\ s.byWatchToken = [u \in Drawn |->
                  IF u = t THEN n ELSE IF u = store.byID[n].watch THEN 0 ELSE store.byWatchToken[u]]
<1> DEFINE s == WithWatchSession(store, i, t)
           n == store.byInstallation[i]
<1>1. /\ s.byID = [store.byID EXCEPT ![n].watch = t]
      /\ s.byInstallation = store.byInstallation
      /\ s.byProducerToken = store.byProducerToken
      /\ s.byWatchToken = [u \in Drawn |->
           IF u = t THEN n ELSE IF u = store.byID[n].watch THEN 0 ELSE store.byWatchToken[u]]
  BY DEF WithWatchSession, Store
<1>2. /\ n \in Drawn /\ n \in 0..MaxDrawn /\ t \in 0..MaxDrawn
      /\ store.byWatchToken \in [Drawn -> 0..MaxDrawn] /\ store.byID \in [Drawn -> Channel]
      /\ 0 \in 0..MaxDrawn
  BY StoreTypes, MaxDrawnAssumption DEF Drawn
<1>3. s.byWatchToken \in [Drawn -> 0..MaxDrawn]
  BY <1>1, <1>2
<1>4. s.byID \in [Drawn -> Channel]
  <2>1. [store.byID[n] EXCEPT !.watch = t] \in Channel
    BY <1>2 DEF Channel
  <2>. QED BY <1>1, <1>2, <2>1
<1>5. s \in Store
  BY <1>1, <1>3, <1>4 DEF WithWatchSession, Store
<1>. QED BY <1>1, <1>5

LEMMA RemoveParts ==
  ASSUME NEW store \in Store, NEW i \in Installation,
         GetByInstallation(store, i) \in Drawn,
         store.byID[GetByInstallation(store, i)].producer \in Drawn
  PROVE  LET s == WithoutInstallation(store, i)
             n == GetByInstallation(store, i)
         IN  /\ s \in Store
             /\ s.byID = [store.byID EXCEPT ![n] = NoChannel]
             /\ s.byInstallation = [store.byInstallation EXCEPT ![i] = 0]
             /\ s.byProducerToken = [store.byProducerToken EXCEPT ![store.byID[n].producer] = 0]
             /\ s.byWatchToken = [u \in Drawn |->
                  IF u = store.byID[n].watch THEN 0 ELSE store.byWatchToken[u]]
<1> DEFINE s == WithoutInstallation(store, i)
           n == GetByInstallation(store, i)
<1>0. n # 0
  BY MaxDrawnAssumption DEF Drawn
<1> HIDE DEF n
<1>1. /\ s.byID = [store.byID EXCEPT ![n] = NoChannel]
      /\ s.byInstallation = [store.byInstallation EXCEPT ![i] = 0]
      /\ s.byProducerToken = [store.byProducerToken EXCEPT ![store.byID[n].producer] = 0]
      /\ s.byWatchToken = [u \in Drawn |->
           IF u = store.byID[n].watch THEN 0 ELSE store.byWatchToken[u]]
  BY <1>0 DEF WithoutInstallation, Store, n
<1>2. /\ store.byInstallation \in [Installation -> 0..MaxDrawn]
      /\ store.byProducerToken \in [Drawn -> 0..MaxDrawn]
      /\ store.byWatchToken \in [Drawn -> 0..MaxDrawn]
      /\ store.byID \in [Drawn -> Channel] /\ NoChannel \in Channel
      /\ 0 \in 0..MaxDrawn
  BY StoreTypes, MaxDrawnAssumption DEF NoChannel, Channel
<1>3. /\ s.byID \in [Drawn -> Channel]
      /\ s.byInstallation \in [Installation -> 0..MaxDrawn]
      /\ s.byProducerToken \in [Drawn -> 0..MaxDrawn]
      /\ s.byWatchToken \in [Drawn -> 0..MaxDrawn]
  <2> DEFINE byID == store.byID
             byInstallation == store.byInstallation
             byProducerToken == store.byProducerToken
             byWatchToken == store.byWatchToken
             producer == byID[n].producer
             watch == byID[n].watch
  <2> HIDE DEF s
  <2>0. /\ byID \in [Drawn -> Channel] /\ byInstallation \in [Installation -> 0..MaxDrawn]
        /\ byProducerToken \in [Drawn -> 0..MaxDrawn] /\ byWatchToken \in [Drawn -> 0..MaxDrawn]
        /\ s.byID = [byID EXCEPT ![n] = NoChannel]
        /\ s.byInstallation = [byInstallation EXCEPT ![i] = 0]
        /\ s.byProducerToken = [byProducerToken EXCEPT ![producer] = 0]
        /\ s.byWatchToken = [u \in Drawn |-> IF u = watch THEN 0 ELSE byWatchToken[u]]
    BY <1>1, <1>2
  <2> HIDE DEF byID, byInstallation, byProducerToken, byWatchToken, producer, watch
  <2>1. s.byID \in [Drawn -> Channel]
    BY <1>2, <2>0
  <2>2. s.byInstallation \in [Installation -> 0..MaxDrawn]
    BY <1>2, <2>0
  <2>3. s.byProducerToken \in [Drawn -> 0..MaxDrawn]
    BY <1>2, <2>0
  <2>4. s.byWatchToken \in [Drawn -> 0..MaxDrawn]
    BY <1>2, <2>0
  <2>. QED BY <2>1, <2>2, <2>3, <2>4
<1>4. s \in Store
  BY <1>0, <1>1, <1>3 DEF WithoutInstallation, Store, n
<1>. QED BY <1>1, <1>4 DEF n

\* EnsureForInstallation: the next number is nobody's yet.
LEMMA EnsureSound ==
  ASSUME NEW n \in Nat, n < MaxDrawn, NEW store, Sound(store, n), NEW i \in Installation,
         GetByInstallation(store, i) = 0
  PROVE  Sound(WithChannel(store, i, n + 1), n + 1)
<1> DEFINE m == n + 1
           s == WithChannel(store, i, m)
           c == [installation |-> i, producer |-> m, watch |-> 0]
<1>1. m \in Drawn /\ m \in Nat /\ store \in Store
  BY MaxDrawnAssumption DEF Drawn, Sound
<1>2. /\ s \in Store
      /\ s.byID = [store.byID EXCEPT ![m] = c]
      /\ s.byInstallation = [store.byInstallation EXCEPT ![i] = m]
      /\ s.byProducerToken = [store.byProducerToken EXCEPT ![m] = m]
      /\ s.byWatchToken = store.byWatchToken
  BY <1>1, EnsureParts
<1>3. /\ c.installation = i /\ c.producer = m /\ c.watch = 0
  OBVIOUS
<1>4. /\ store.byID \in [Drawn -> Channel]
      /\ store.byInstallation \in [Installation -> 0..MaxDrawn]
      /\ store.byProducerToken \in [Drawn -> 0..MaxDrawn]
      /\ store.byWatchToken \in [Drawn -> 0..MaxDrawn]
      /\ store.byInstallation[i] = 0
  BY <1>1, StoreTypes, LookUp
<1>5. store.byID[m] = NoChannel
  BY <1>1 DEF Sound, Within, IDs
<1>6. \A k \in Drawn : store.byID[k].producer # m
  <2> SUFFICES ASSUME NEW k \in Drawn, store.byID[k].producer = m PROVE FALSE
    OBVIOUS
  <2>1. store.byID[k] # NoChannel
    BY <1>1 DEF NoChannel, Drawn
  <2>. QED BY <1>1, <2>1 DEF Sound, Within, IDs
<1>7. 0 \notin Drawn /\ i # None
  BY NoneAssumption DEF Drawn
<1> HIDE DEF m, s, c
<1>8. Indexed(s)
  <2>1. ASSUME NEW j \in Installation, NEW k \in Drawn
        PROVE  s.byInstallation[j] = k <=> s.byID[k].installation = j
    BY <1>1, <1>2, <1>3, <1>4, <1>5, <1>7, NoneAssumption DEF Sound, Indexed, NoChannel
  <2>2. ASSUME NEW t \in Drawn, NEW k \in Drawn
        PROVE  s.byProducerToken[t] = k <=> s.byID[k].producer = t
    BY <1>1, <1>2, <1>3, <1>4, <1>5, <1>6, <1>7 DEF Sound, Indexed, NoChannel
  <2>3. ASSUME NEW t \in Drawn, NEW k \in Drawn
        PROVE  s.byWatchToken[t] = k <=> s.byID[k].watch = t
    <3>1. store.byID[m].watch = 0 /\ (store.byWatchToken[t] = k <=> store.byID[k].watch = t)
      BY <1>5 DEF Sound, Indexed, NoChannel
    <3>. QED BY <1>1, <1>2, <1>3, <1>4, <1>7, <3>1
  <2>. QED BY <2>1, <2>2, <2>3 DEF Indexed
<1>9. Within(s.byID, m)
  <2> SUFFICES ASSUME NEW k \in IDs(s.byID)
               PROVE  /\ s.byID[k].installation \in Installation
                      /\ s.byID[k].producer = k /\ k <= m /\ s.byID[k].watch <= m
    BY DEF Within
  <2>1. k \in Drawn
    BY DEF IDs
  <2>2. CASE k = m
    BY <1>1, <1>2, <1>3, <1>4, <2>1, <2>2
  <2>3. CASE k # m
    <3>1. s.byID[k] = store.byID[k] /\ k \in IDs(store.byID)
      BY <1>2, <1>4, <2>1, <2>3 DEF IDs
    <3>2. /\ store.byID[k].installation \in Installation /\ store.byID[k].producer = k
          /\ k <= n /\ store.byID[k].watch <= n /\ store.byID[k].watch \in 0..MaxDrawn
      BY <1>4, <2>1, <3>1, ChannelTypes DEF Sound, Within
    <3>. QED BY <2>1, <3>1, <3>2 DEF m, Drawn
  <2>. QED BY <2>2, <2>3
<1>. QED BY <1>2, <1>8, <1>9 DEF Sound, m, s

\* RotateWatchSession: the token that is replaced opens nothing any more.
LEMMA RotateSound ==
  ASSUME NEW n \in Nat, n < MaxDrawn, NEW store, Sound(store, n), NEW i \in Installation,
         GetByInstallation(store, i) # 0
  PROVE  Sound(WithWatchSession(store, i, n + 1), n + 1)
<1> DEFINE t == n + 1
           c == store.byInstallation[i]
           s == WithWatchSession(store, i, t)
<1>1. t \in Drawn /\ t \in Nat /\ store \in Store
  BY MaxDrawnAssumption DEF Drawn, Sound
<1>2. /\ store.byID \in [Drawn -> Channel]
      /\ store.byInstallation \in [Installation -> 0..MaxDrawn]
      /\ store.byProducerToken \in [Drawn -> 0..MaxDrawn]
      /\ store.byWatchToken \in [Drawn -> 0..MaxDrawn]
      /\ 0 \notin Drawn
  BY <1>1, StoreTypes DEF Drawn
<1>3. c \in Drawn
  BY <1>2, LookUp, MaxDrawnAssumption DEF Drawn
<1>4. /\ s \in Store
      /\ s.byID = [store.byID EXCEPT ![c].watch = t]
      /\ s.byInstallation = store.byInstallation
      /\ s.byProducerToken = store.byProducerToken
      /\ s.byWatchToken = [u \in Drawn |->
           IF u = t THEN c ELSE IF u = store.byID[c].watch THEN 0 ELSE store.byWatchToken[u]]
  BY <1>1, <1>3, RotateParts
<1> HIDE DEF s, c
<1>5. /\ \A k \in Drawn \ {c} : s.byID[k] = store.byID[k]
      /\ s.byID[c].installation = store.byID[c].installation
      /\ s.byID[c].producer = store.byID[c].producer
      /\ s.byID[c].watch = t
  BY <1>2, <1>3, <1>4 DEF Channel
<1>6. \A k \in Drawn : store.byID[k].watch # t
  <2> SUFFICES ASSUME NEW k \in Drawn, store.byID[k].watch = t PROVE FALSE
    OBVIOUS
  <2>1. store.byID[k] # NoChannel
    BY <1>1 DEF NoChannel, Drawn
  <2>. QED BY <1>1, <2>1 DEF Sound, Within, IDs
<1> HIDE DEF t
<1>7. Indexed(s)
  <2>1. ASSUME NEW j \in Installation, NEW k \in Drawn
        PROVE  s.byInstallation[j] = k <=> s.byID[k].installation = j
    <3>1. store.byInstallation[j] = k <=> store.byID[k].installation = j
      BY DEF Sound, Indexed
    <3>. QED BY <1>4, <1>5, <3>1
  <2>2. ASSUME NEW u \in Drawn, NEW k \in Drawn
        PROVE  s.byProducerToken[u] = k <=> s.byID[k].producer = u
    <3>1. store.byProducerToken[u] = k <=> store.byID[k].producer = u
      BY DEF Sound, Indexed
    <3>. QED BY <1>4, <1>5, <3>1
  <2>3. ASSUME NEW u \in Drawn, NEW k \in Drawn
        PROVE  s.byWatchToken[u] = k <=> s.byID[k].watch = u
    <3>1. /\ store.byWatchToken[u] = k <=> store.byID[k].watch = u
          /\ store.byWatchToken[u] = c <=> store.byID[c].watch = u
      BY <1>3 DEF Sound, Indexed
    <3>2. s.byWatchToken[u] = IF u = t THEN c ELSE IF u = store.byID[c].watch THEN 0
                                                 ELSE store.byWatchToken[u]
      BY <1>4
    <3>3. s.byID[k].watch = IF k = c THEN t ELSE store.byID[k].watch
      BY <1>5
    <3>. QED BY <1>2, <1>3, <1>6, <3>1, <3>2, <3>3
  <2>. QED BY <2>1, <2>2, <2>3 DEF Indexed
<1>8. Within(s.byID, t)
  <2> SUFFICES ASSUME NEW k \in IDs(s.byID)
               PROVE  /\ s.byID[k].installation \in Installation
                      /\ s.byID[k].producer = k /\ k <= t /\ s.byID[k].watch <= t
    BY DEF Within
  <2>1. k \in Drawn
    BY DEF IDs
  <2>2. c \in IDs(store.byID)
    <3>1. store.byID[c].installation = i
      BY <1>3 DEF Sound, Indexed, c
    <3>. QED BY <1>3, <3>1, NoneAssumption DEF IDs, NoChannel
  <2>3. k \in IDs(store.byID)
    BY <1>5, <2>1, <2>2 DEF IDs
  <2>4. /\ store.byID[k].installation \in Installation /\ store.byID[k].producer = k
        /\ k <= n /\ store.byID[k].watch <= n /\ store.byID[k].watch \in 0..MaxDrawn
    BY <1>2, <2>1, <2>3, ChannelTypes DEF Sound, Within
  <2>5. k \in Nat /\ n <= t /\ t \in Nat
    BY <2>1 DEF Drawn, t
  <2>6. /\ s.byID[k].installation = store.byID[k].installation
        /\ s.byID[k].producer = store.byID[k].producer
        /\ s.byID[k].watch = store.byID[k].watch \/ s.byID[k].watch = t
    BY <1>5, <2>1
  <2>. QED BY <2>4, <2>5, <2>6
<1>. QED BY <1>4, <1>7, <1>8 DEF Sound, s, t

\* RemoveByInstallation: the channel and its tokens are gone.
LEMMA RemoveSound ==
  ASSUME NEW n \in Nat, NEW store, Sound(store, n), NEW i \in Installation
  PROVE  /\ Sound(WithoutInstallation(store, i), n)
         /\ \A k \in Drawn : WithoutInstallation(store, i).byID[k] =
                IF k = GetByInstallation(store, i) THEN NoChannel ELSE store.byID[k]
         /\ GetByInstallation(WithoutInstallation(store, i), i) = 0
<1> DEFINE c == GetByInstallation(store, i)
           s == WithoutInstallation(store, i)
<1>1. /\ store \in Store
      /\ store.byID \in [Drawn -> Channel]
      /\ store.byInstallation \in [Installation -> 0..MaxDrawn]
      /\ store.byProducerToken \in [Drawn -> 0..MaxDrawn]
      /\ store.byWatchToken \in [Drawn -> 0..MaxDrawn]
      /\ 0 \notin Drawn
      /\ c = store.byInstallation[i]
  <2>1. c = store.byInstallation[i]
    BY LookUp
  <2>2. store \in Store /\ 0 \notin Drawn
    BY DEF Sound, Drawn
  <2>. QED BY <2>1, <2>2, StoreTypes
<1>2. CASE c = 0
  <2>1. s = [store EXCEPT !.byInstallation[i] = 0]
    BY <1>2 DEF WithoutInstallation
  <2>2. [store.byInstallation EXCEPT ![i] = 0] = store.byInstallation
    BY <1>1, <1>2
  <2>3. s = store
    BY <1>1, <2>1, <2>2 DEF Store
  <2>. QED BY <1>1, <1>2, <2>3
<1>3. CASE c # 0
  <2>1. c \in Drawn /\ store.byID[c].installation = i
    BY <1>1, <1>3, MaxDrawnAssumption DEF Drawn, Sound, Indexed
  <2>2. store.byID[c].producer = c
    BY <2>1, NoneAssumption DEF Sound, Within, IDs, NoChannel
  <2>3. /\ s \in Store
        /\ s.byID = [store.byID EXCEPT ![c] = NoChannel]
        /\ s.byInstallation = [store.byInstallation EXCEPT ![i] = 0]
        /\ s.byProducerToken = [store.byProducerToken EXCEPT ![c] = 0]
        /\ s.byWatchToken = [u \in Drawn |->
             IF u = store.byID[c].watch THEN 0 ELSE store.byWatchToken[u]]
    <3>1. /\ s \in Store
          /\ s.byID = [store.byID EXCEPT ![c] = NoChannel]
          /\ s.byInstallation = [store.byInstallation EXCEPT ![i] = 0]
          /\ s.byProducerToken = [store.byProducerToken EXCEPT ![store.byID[c].producer] = 0]
          /\ s.byWatchToken = [u \in Drawn |->
               IF u = store.byID[c].watch THEN 0 ELSE store.byWatchToken[u]]
      <4>1. store \in Store /\ c \in Drawn /\ store.byID[c].producer \in Drawn
        BY <1>1, <2>1, <2>2
      <4>. QED BY <4>1, RemoveParts, Zenon
    <3>. QED BY <2>2, <3>1
  <2> HIDE DEF s, c
  <2>4. NoChannel.installation = None /\ NoChannel.producer = 0 /\ NoChannel.watch = 0
    BY DEF NoChannel
  <2>5. \A k \in Drawn : s.byID[k] = IF k = c THEN NoChannel ELSE store.byID[k]
    BY <1>1, <2>1, <2>3
  <2>6. ASSUME NEW j \in Installation, NEW k \in Drawn
        PROVE  s.byInstallation[j] = k <=> s.byID[k].installation = j
    <3>1. /\ store.byInstallation[j] = k <=> store.byID[k].installation = j
          /\ store.byInstallation[j] = c <=> store.byID[c].installation = j
      BY <2>1 DEF Sound, Indexed
    <3>2. s.byInstallation[j] = IF j = i THEN 0 ELSE store.byInstallation[j]
      BY <1>1, <2>3
    <3>. QED BY <1>1, <2>1, <2>4, <2>5, <3>1, <3>2, NoneAssumption
  <2>7. ASSUME NEW u \in Drawn, NEW k \in Drawn
        PROVE  s.byProducerToken[u] = k <=> s.byID[k].producer = u
    <3>1. /\ store.byProducerToken[u] = k <=> store.byID[k].producer = u
          /\ store.byProducerToken[u] = c <=> store.byID[c].producer = u
      BY <2>1 DEF Sound, Indexed
    <3>2. s.byProducerToken[u] = IF u = c THEN 0 ELSE store.byProducerToken[u]
      BY <1>1, <2>3
    <3>. QED BY <1>1, <2>1, <2>2, <2>4, <2>5, <3>1, <3>2
  <2>8. ASSUME NEW u \in Drawn, NEW k \in Drawn
        PROVE  s.byWatchToken[u] = k <=> s.byID[k].watch = u
    <3>1. /\ store.byWatchToken[u] = k <=> store.byID[k].watch = u
          /\ store.byWatchToken[u] = c <=> store.byID[c].watch = u
      BY <2>1 DEF Sound, Indexed
    <3>2. s.byWatchToken[u] = IF u = store.byID[c].watch THEN 0 ELSE store.byWatchToken[u]
      BY <2>3
    <3>. QED BY <1>1, <2>1, <2>4, <2>5, <3>1, <3>2
  <2>9. Within(s.byID, n)
    BY <2>5 DEF Sound, Within, IDs
  <2>10. Sound(s, n)
    BY <2>3, <2>6, <2>7, <2>8, <2>9 DEF Sound, Indexed
  <2>11. GetByInstallation(s, i) = 0
    BY <1>1, <2>3, <2>10, LookUp
  <2>. QED BY <2>5, <2>10, <2>11 DEF s, c
<1>. QED BY <1>2, <1>3
\* RotateWatchSession leaves each channel where it is and its owner.
LEMMA RotateKeepsOwners ==
  ASSUME NEW n \in Nat, n < MaxDrawn, NEW store, Sound(store, n), NEW i \in Installation,
         GetByInstallation(store, i) # 0
  PROVE  LET s == WithWatchSession(store, i, n + 1)
         IN  \A k \in Drawn :
               /\ s.byID[k].installation = store.byID[k].installation
               /\ s.byID[k].producer = store.byID[k].producer
               /\ s.byID[k].watch \in {store.byID[k].watch, n + 1}
               /\ s.byID[k] # NoChannel => store.byID[k] # NoChannel
<1> DEFINE t == n + 1
           c == store.byInstallation[i]
           s == WithWatchSession(store, i, t)
<1>1. t \in Drawn /\ t \in Nat /\ store \in Store
  BY MaxDrawnAssumption DEF Drawn, Sound
<1>2. c \in Drawn /\ store.byID \in [Drawn -> Channel]
  BY <1>1, StoreTypes, LookUp, MaxDrawnAssumption DEF Drawn
<1>3. /\ s \in Store
      /\ s.byID = [store.byID EXCEPT ![c].watch = t]
      /\ s.byInstallation = store.byInstallation
      /\ s.byProducerToken = store.byProducerToken
      /\ s.byWatchToken = [u \in Drawn |->
           IF u = t THEN c ELSE IF u = store.byID[c].watch THEN 0 ELSE store.byWatchToken[u]]
  BY <1>1, <1>2, RotateParts
<1>4. store.byID[c].installation = i
  BY <1>2 DEF Sound, Indexed
<1>5. store.byID[c] # NoChannel
  BY <1>4, NoneAssumption DEF NoChannel
<1> HIDE DEF s, c, t
<1>6. /\ \A k \in Drawn \ {c} : s.byID[k] = store.byID[k]
      /\ s.byID[c].installation = store.byID[c].installation
      /\ s.byID[c].producer = store.byID[c].producer
      /\ s.byID[c].watch = t
  BY <1>2, <1>3 DEF Channel
<1>. QED BY <1>5, <1>6 DEF s, t

\* Nothing in the store depends on the numbers that are not drawn yet.
LEMMA SoundLater ==
  ASSUME NEW n \in Nat, NEW m \in Nat, n <= m, NEW store, Sound(store, n)
  PROVE  Sound(store, m)
<1>1. store.byID \in [Drawn -> Channel]
  BY StoreTypes DEF Sound
<1>2. ASSUME NEW k \in IDs(store.byID)
      PROVE  k <= m /\ store.byID[k].watch <= m
  <2>1. k \in Drawn /\ k <= n /\ store.byID[k].watch <= n
    BY <1>2 DEF Sound, Within, IDs
  <2>2. store.byID[k].watch \in 0..MaxDrawn
    BY <1>1, <2>1, ChannelTypes
  <2>. QED BY <2>1, <2>2 DEF Drawn
<1>. QED BY <1>2 DEF Sound, Within

\* The store of an empty file.
LEMMA EmptySound == Sound(Opened([k \in Drawn |-> NoChannel]), 0)
<1> DEFINE byID == [k \in Drawn |-> NoChannel]
           s == Opened(byID)
<1>1. NoChannel.installation = None /\ NoChannel.producer = 0 /\ NoChannel.watch = 0
  BY DEF NoChannel
<1>2. NoChannel \in Channel /\ 0 \in 0..MaxDrawn /\ 0 \notin Drawn
  BY MaxDrawnAssumption DEF NoChannel, Channel, Drawn
<1>3. IDs(byID) = {}
  BY DEF IDs
<1> HIDE DEF byID
<1>4. s = [byID |-> byID, byInstallation |-> [i \in Installation |-> 0],
           byProducerToken |-> [t \in Drawn |-> 0], byWatchToken |-> [t \in Drawn |-> 0]]
  BY <1>3, SoleOfOne DEF Opened
<1>5. byID \in [Drawn -> Channel] /\ \A k \in Drawn : byID[k] = NoChannel
  BY <1>2 DEF byID
<1>6. s \in Store
  BY <1>2, <1>4, <1>5 DEF Store
<1> HIDE DEF s
<1>7. Indexed(s)
  BY <1>1, <1>2, <1>4, <1>5, NoneAssumption DEF Indexed
<1>8. Within(s.byID, 0)
  BY <1>3, <1>4 DEF Within
<1>. QED BY <1>6, <1>7, <1>8 DEF Sound, s, byID
=============================================================================
