--------------------------- MODULE MCWatchClient ---------------------------
(***************************************************************************)
(* WatchClient for TLC.  Each run chooses the relays: two on the local     *)
(* network, one of which the watch uses; that one alone; or a hosted one   *)
(* the build was given and a local one.                                    *)
(***************************************************************************)
EXTENDS WatchClient, TLC

CONSTANT Home   \* the relay the watch is paired with where the runs below bound it

Symmetry == Permutations(Slot)

\* Model bounds (state constraints).
\* Another relay is met only before the first pairing and the first event.
Elsewhere == (reported \union late \union {base, probe, claim.base}) \intersect (Relay \ {Home})
OneRelayOnceInUse ==
    /\ Elsewhere # {} => Drawn = {} /\ last[Home] = 0
    /\ \A r \in Relay \ {Home} : last[r] = 0 /\ honoured[r] = 0

\* A timer that outlives its alert: none; or one, while discovery reports
\* nothing and no push is answered.
NoOldTimer    == Cardinality(timers) <= 1
OldTimerAlone ==
    ~NoOldTimer => /\ Cardinality(timers) = 2 /\ reported = {}
                   /\ \A p \in Slot : polls[p].kind # "remote"

\* Discovery reports nothing more once the watch is paired a second time; nor is a
\* report being probed then; a cancelled probe's answer comes before any pairing.
ReportsInFirstSession   == reported # {} => Cardinality(Drawn) <= 1
DiscoveryInFirstSession == reported # {} \/ probe # None => Cardinality(Drawn) <= 1
LateBeforePairing       == late # {} => Drawn = {}
=============================================================================
