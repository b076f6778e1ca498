------------------------------ MODULE EventLog ------------------------------
(***************************************************************************)
(* What the relay's event store promises, with no files, no failures and   *)
(* no restarts: a bounded log of events shared by all channels, whose IDs  *)
(* only grow.  EventStore.tla is shown to implement it.                    *)
(***************************************************************************)
EXTENDS Integers, FiniteSets

CONSTANTS
    Channel,    \* channel IDs
    Key,        \* deduplication keys a hook may send
    NoKey,      \* the empty deduplication key
    MaxEvents   \* events kept over all channels

VARIABLES
    log,        \* the retained events
    high        \* no event with an ID above this one was ever logged

Event == [id : Nat \ {0}, channel : Channel, key : Key \union {NoKey}]

\* The MaxEvents newest events of S.
Newest(S) == {e \in S : Cardinality({f \in S : f.id > e.id}) < MaxEvents}

SameKey(e, f) == e.channel = f.channel /\ e.key = f.key /\ e.key # NoKey

Init == log = {} /\ high = 0

\* A new event gets an ID above every ID ever logged, and evicts the oldest.
Append(c, k) ==
    /\ high' \in Nat /\ high' > high
    /\ LET new == [id |-> high', channel |-> c, key |-> k]
       IN  /\ \A e \in log : ~SameKey(e, new)
           /\ log' = Newest(log \union {new})

\* Removing a channel's events frees no ID.
Remove(c) ==
    /\ log' = {e \in log : e.channel # c}
    /\ UNCHANGED high

Next == \E c \in Channel :
            \/ \E k \in Key \union {NoKey} : Append(c, k)
            \/ Remove(c)

Spec == Init /\ [][Next]_<<log, high>>
=============================================================================
