---------------------------- MODULE ChannelStore ----------------------------
(***************************************************************************)
(* internal/channels/store.go: the store's five maps and what its calls    *)
(* make of them.  A call either persists the channels or is rolled back,   *)
(* so each operator here gives the whole next store, and the file always   *)
(* holds the channels of byID.  Channel n has the producer token n; 0 is   *)
(* no channel and no token.  Phone tokens are left out: nothing rotates    *)
(* them.                                                                   *)
(***************************************************************************)
EXTENDS Integers

CONSTANTS
    Installation,  \* installation IDs
    MaxDrawn,      \* model bound: IDs and tokens drawn
    None

ASSUME NoneAssumption == None \notin Installation
ASSUME MaxDrawnAssumption == MaxDrawn \in Nat

Drawn == 1..MaxDrawn
NoChannel == [installation |-> None, producer |-> 0, watch |-> 0]

Channel == [installation : Installation \union {None},
            producer : 0..MaxDrawn, watch : 0..MaxDrawn]

Store == [byID : [Drawn -> Channel],
          byInstallation : [Installation -> 0..MaxDrawn],
          byProducerToken : [Drawn -> 0..MaxDrawn],
          byWatchToken : [Drawn -> 0..MaxDrawn]]

IDs(byID) == {n \in Drawn : byID[n] # NoChannel}
Sole(ids) == IF ids = {} THEN 0 ELSE CHOOSE n \in ids : TRUE

\* OpenStore rebuilds every index from the channels in the file.
Opened(byID) ==
    [byID |-> byID,
     byInstallation |-> [i \in Installation |->
         Sole({n \in IDs(byID) : byID[n].installation = i})],
     byProducerToken |-> [t \in Drawn |-> Sole({n \in IDs(byID) : byID[n].producer = t})],
     byWatchToken |-> [t \in Drawn |-> Sole({n \in IDs(byID) : byID[n].watch = t})]]

\* An index may name a channel that byID does not have.
Found(store, n) == IF n \in IDs(store.byID) THEN n ELSE 0

GetByInstallation(store, i) == Found(store, store.byInstallation[i])
GetByProducerToken(store, t) == Found(store, store.byProducerToken[t])
GetByWatchToken(store, t) == Found(store, store.byWatchToken[t])

\* EnsureForInstallation, where there is no channel yet.
WithChannel(store, i, n) ==
    [store EXCEPT !.byID[n] = [installation |-> i, producer |-> n, watch |-> 0],
                  !.byInstallation[i] = n,
                  !.byProducerToken[n] = n]

WithWatchSession_KeepsOld(store, i, t) ==
    LET n == store.byInstallation[i]
    IN  [store EXCEPT !.byID[n].watch = t, !.byWatchToken[t] = n]

\* RotateWatchSession, where there is a channel.
WithWatchSession(store, i, t) ==
    LET n == store.byInstallation[i]
    IN  [store EXCEPT
           !.byID[n].watch = t,
           !.byWatchToken = [u \in Drawn |->
               IF u = t THEN n ELSE IF u = store.byID[n].watch THEN 0 ELSE @[u]]]

WithoutInstallation_KeepsRecord(store, i) ==
    LET n == GetByInstallation(store, i)
    IN  IF n = 0 THEN store
        ELSE [store EXCEPT
                !.byInstallation[i] = 0,
                !.byProducerToken[store.byID[n].producer] = 0,
                !.byWatchToken = [u \in Drawn |->
                    IF u = store.byID[n].watch THEN 0 ELSE @[u]]]

\* RemoveByInstallation
WithoutInstallation(store, i) ==
    LET n == GetByInstallation(store, i)
    IN  IF n = 0 THEN [store EXCEPT !.byInstallation[i] = 0]
        ELSE [store EXCEPT
                !.byID[n] = NoChannel,
                !.byInstallation[i] = 0,
                !.byProducerToken[store.byID[n].producer] = 0,
                !.byWatchToken = [u \in Drawn |->
                    IF u = store.byID[n].watch THEN 0 ELSE @[u]]]
=============================================================================
