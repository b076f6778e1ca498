----------------------------- MODULE EventStore -----------------------------
(***************************************************************************)
(* internal/events/store.go: the relay's bounded, persisted event log, and *)
(* the watches that follow it by ID (GET /v1/events?since=).               *)
(*                                                                         *)
(* The slice s.events is modelled as the set of its events.  AppendUnique  *)
(* takes s.nextID under the lock and the other operations only drop        *)
(* events, so the order of the slice is the order of the IDs as long as    *)
(* every retained ID is below nextID; IdsBelowNext states that.            *)
(*                                                                         *)
(* s.mu admits one writer, and readers only between writers, so one call   *)
(* is in progress at a time: its stage says how far it is, and the process *)
(* may die at every stage.                                                 *)
(*                                                                         *)
(* An operator that is named after another with an underscore              *)
(* (Newest_OffByOne) is a wrong variant of it, kept to show which property *)
(* notices the difference.                                                 *)
(***************************************************************************)
EXTENDS Integers, FiniteSets

CONSTANTS
    Channel,    \* channel IDs
    Key,        \* deduplication keys a hook may send
    NoKey,      \* the empty deduplication key
    MaxEvents,  \* events.OpenStore's maxEvents
    Seed,       \* what the wall clock may read when the store is opened
    MaxID       \* model bound: appends stop once nextID is above it

ASSUME MaxEventsAssumption == MaxEvents \in Nat \ {0}
ASSUME SeedAssumption == Seed \subseteq Nat \ {0}
ASSUME MaxIDAssumption == MaxID \in Nat

VARIABLES
    events,     \* s.events
    nextID,     \* s.nextID
    stage,      \* of the process and of the call holding s.mu
    pending,    \* the event AppendUnique is adding, if it is running
    removing,   \* the channel RemoveForChannel is clearing, if it is running
    saved,      \* the copies the running call restores if persisting fails
    disk,       \* the state file
    \* What a watch keeps.
    cursor,     \* per channel, the ID its watch has polled up to
    seen,       \* the events the watches were sent
    \* History.
    acked,      \* events AppendUnique returned, new or already there
    committed,  \* events that were ever in the state file
    removedTo   \* per channel, nextID when its events were last removed

memory  == <<events, nextID>>
request == <<stage, pending, removing, saved>>
watches == <<cursor, seen>>
history == <<acked, committed, removedTo>>
vars    == <<memory, request, disk, watches, history>>

Event == [id : Nat \ {0}, channel : Channel, key : Key \union {NoKey}]
State == [events : SUBSET Event, nextID : Nat]

\* A missing file: reading it leaves a new store as it is, and so does a file
\* with no events and a nextID that is not positive.
NoFile == [events |-> {}, nextID |-> 0]

TypeOK ==
    /\ events \in SUBSET Event
    /\ nextID \in Nat
    /\ stage \in {"down", "idle", "persist", "return"}
    /\ pending \in SUBSET Event
    /\ removing \in SUBSET Channel
    /\ saved \in State
    /\ disk \in State
    /\ cursor \in [Channel -> Nat]
    /\ seen \in SUBSET Event
    /\ acked \in SUBSET Event
    /\ committed \in SUBSET Event
    /\ removedTo \in [Channel -> Nat]

Init ==
    /\ events = {} /\ nextID = 0
    /\ stage = "down"
    /\ pending = {} /\ removing = {} /\ saved = NoFile
    /\ disk = NoFile
    /\ cursor = [c \in Channel |-> 0] /\ seen = {}
    /\ acked = {} /\ committed = {}
    /\ removedTo = [c \in Channel |-> 0]
-----------------------------------------------------------------------------
(***************************************************************************)
(* Helpers.                                                                *)
(***************************************************************************)
Newer(S, e) == {f \in S : f.id > e.id}

Newest_OffByOne(S) == {e \in S : Cardinality(Newer(S, e)) < MaxEvents - 1}

\* trimEvents
Newest(S) == {e \in S : Cardinality(Newer(S, e)) < MaxEvents}

\* The ID that OpenStore resumes from: n, unless an event kept has reached it.
ResumeAt(S, n) ==
    IF \E e \in S : e.id >= n
    THEN 1 + CHOOSE m \in {e.id : e \in S} : \A e \in S : e.id <= m
    ELSE n

Duplicates_None(c, k) == {}

\* The scan of AppendUnique: the events with the same, non-empty, key.
Duplicates(c, k) == {e \in events : e.channel = c /\ e.key = k /\ k # NoKey}
-----------------------------------------------------------------------------
(***************************************************************************)
(* The process.                                                            *)
(***************************************************************************)
Open_Reseeded ==
    /\ stage = "down"
    /\ stage' = "idle"
    /\ events' = Newest(disk.events)
    /\ \E now \in Seed : nextID' = now
    /\ UNCHANGED <<pending, removing, saved, disk, watches, history>>

Open_Unseeded ==
    /\ stage = "down"
    /\ stage' = "idle"
    /\ events' = Newest(disk.events)
    /\ nextID' = ResumeAt(events', disk.nextID)
    /\ UNCHANGED <<pending, removing, saved, disk, watches, history>>

\* OpenStore, when the process starts: what the state file holds, trimmed;
\* a new ID sequence starts at the clock's milliseconds.
Open ==
    /\ stage = "down"
    /\ stage' = "idle"
    /\ events' = Newest(disk.events)
    /\ IF disk.nextID > 0
       THEN nextID' = ResumeAt(events', disk.nextID)
       ELSE \E now \in Seed : nextID' = ResumeAt(events', now)
    /\ UNCHANGED <<pending, removing, saved, disk, watches, history>>

\* The process dies: memory and the call in progress are lost.  The file is
\* replaced by a rename, so it is whole whenever that happens.
Crash ==
    /\ stage # "down"
    /\ stage' = "down"
    /\ events' = {} /\ nextID' = 0
    /\ pending' = {} /\ removing' = {} /\ saved' = NoFile
    /\ UNCHANGED <<disk, watches, history>>

(***************************************************************************)
(* AppendUnique and RemoveForChannel, up to persistLocked.                 *)
(***************************************************************************)
\* AppendUnique finds the key in the channel and returns the event it has.
AppendDuplicate(c, k) ==
    /\ stage = "idle"
    /\ Duplicates(c, k) # {}
    /\ acked' = acked \union
           {e \in Duplicates(c, k) : Newer(Duplicates(c, k), e) = {}}
    /\ UNCHANGED <<memory, request, disk, watches, committed, removedTo>>

\* AppendUnique adds a new event.
AppendNew(c, k) ==
    /\ stage = "idle"
    /\ nextID <= MaxID
    /\ Duplicates(c, k) = {}
    /\ LET new == [id |-> nextID, channel |-> c, key |-> k]
       IN  /\ pending' = {new}
           /\ events' = Newest(events \union {new})
    /\ nextID' = nextID + 1
    /\ saved' = [events |-> events, nextID |-> nextID]
    /\ stage' = "persist"
    /\ UNCHANGED <<removing, disk, watches, history>>

\* RemoveForChannel; with nothing to remove it returns without persisting.
RemoveForChannel(c) ==
    /\ stage = "idle"
    /\ \E e \in events : e.channel = c
    /\ removing' = {c}
    /\ events' = {e \in events : e.channel # c}
    /\ saved' = [events |-> events, nextID |-> nextID]
    /\ stage' = "persist"
    /\ UNCHANGED <<nextID, pending, disk, watches, history>>

(***************************************************************************)
(* persistLocked, and the return of the call.                              *)
(***************************************************************************)
Persist_EventsOnly ==
    /\ stage = "persist"
    /\ stage' = "return"
    /\ disk' = [events |-> events, nextID |-> saved.nextID]
    /\ committed' = committed \union pending
    /\ removedTo' = [c \in Channel |->
                        IF c \in removing THEN nextID ELSE removedTo[c]]
    /\ UNCHANGED <<memory, pending, removing, saved, watches, acked>>

\* The temporary file was written and renamed over the state file.
Persist ==
    /\ stage = "persist"
    /\ stage' = "return"
    /\ disk' = [events |-> events, nextID |-> nextID]
    /\ committed' = committed \union pending
    /\ removedTo' = [c \in Channel |->
                        IF c \in removing THEN nextID ELSE removedTo[c]]
    /\ UNCHANGED <<memory, pending, removing, saved, watches, acked>>

PersistFails_NoRollback ==
    /\ stage = "persist"
    /\ stage' = "idle"
    /\ pending' = {} /\ removing' = {} /\ saved' = NoFile
    /\ UNCHANGED <<memory, disk, watches, history>>

PersistFails_KeepsEvents ==
    /\ stage = "persist"
    /\ stage' = "idle"
    /\ nextID' = saved.nextID
    /\ pending' = {} /\ removing' = {} /\ saved' = NoFile
    /\ UNCHANGED <<events, disk, watches, history>>

\* A step of persistLocked failed: memory is rolled back and the call returns
\* the error.  (RemoveForChannel restores only the events; it left nextID.)
PersistFails ==
    /\ stage = "persist"
    /\ stage' = "idle"
    /\ events' = saved.events /\ nextID' = saved.nextID
    /\ pending' = {} /\ removing' = {} /\ saved' = NoFile
    /\ UNCHANGED <<disk, watches, history>>

\* The call returns; the caller now knows the event was stored.
Return ==
    /\ stage = "return"
    /\ stage' = "idle"
    /\ acked' = acked \union pending
    /\ pending' = {} /\ removing' = {} /\ saved' = NoFile
    /\ UNCHANGED <<memory, disk, watches, committed, removedTo>>
-----------------------------------------------------------------------------
(***************************************************************************)
(* The watch of channel c polls for the events above its cursor and moves  *)
(* the cursor to the last of them (SinceForChannel waits for the writer).  *)
(* A response that is lost changes nothing on either side.                 *)
(***************************************************************************)
SinceForChannel(c, after) == {e \in events : e.channel = c /\ e.id > after}

Poll_Unlocked(c) ==
    /\ stage # "down"
    /\ LET out == SinceForChannel(c, cursor[c])
       IN  /\ out # {}
           /\ seen' = seen \union out
           /\ \E last \in out :
                /\ Newer(out, last) = {}
                /\ cursor' = [cursor EXCEPT ![c] = last.id]
    /\ UNCHANGED <<memory, request, disk, history>>

Poll(c) ==
    /\ stage \in {"idle", "return"}
    /\ LET out == SinceForChannel(c, cursor[c])
       IN  /\ out # {}
           /\ seen' = seen \union out
           /\ \E last \in out :
                /\ Newer(out, last) = {}
                /\ cursor' = [cursor EXCEPT ![c] = last.id]
    /\ UNCHANGED <<memory, request, disk, history>>

Next ==
    \/ Open \/ Crash
    \/ Persist \/ PersistFails \/ Return
    \/ \E c \in Channel :
          \/ \E k \in Key \union {NoKey} : AppendDuplicate(c, k) \/ AppendNew(c, k)
          \/ RemoveForChannel(c)
          \/ Poll(c)

Spec == Init /\ [][Next]_vars
-----------------------------------------------------------------------------
(***************************************************************************)
(* Properties.                                                             *)
(***************************************************************************)
\* Every retained ID is below the next one to be given, in memory and in the
\* file (what OpenStore's correction of nextID and the rollbacks are for).
IdsBelowNext ==
    /\ stage # "down" => \A e \in events : e.id < nextID
    /\ \A e \in disk.events : e.id < disk.nextID

\* No two retained events of a channel carry the same deduplication key, in
\* memory or in the file, whatever failed in between (AppendUnique).
UniqueKeys ==
    \A S \in {events, disk.events} : \A e, f \in S :
        e.channel = f.channel /\ e.key = f.key /\ e.key # NoKey => e = f

\* Between calls the store holds what a restart would read back: a failed
\* write is rolled back entirely (persistLocked's callers).
MemoryIsDurable ==
    stage \in {"idle", "return"} =>
        /\ events = disk.events
        /\ nextID = disk.nextID \/ disk = NoFile

\* A watch is sent only events that a restart cannot take back (the RLock of
\* SinceForChannel against the writer's rollback).
SeenIsCommitted == seen \subseteq committed

\* A watch's cursor never passes an event it was not sent: polling by "above
\* the last ID" loses nothing, over restarts, failed writes and clock changes.
CursorNeverSkips ==
    \A e \in disk.events : e.id <= cursor[e.channel] => e \in seen

\* An event whose append was acknowledged, as new or as a duplicate, survives
\* restarts until its channel is removed or MaxEvents newer ones are stored.
AckedIsRetained ==
    \A e \in acked :
        \/ e \in disk.events
        \/ e.id < removedTo[e.channel]
        \/ Cardinality(Newer(committed, e)) >= MaxEvents

\* The file implements the bounded log of EventLog: an append or a removal
\* takes effect once, whole, at the rename, and IDs only grow.
Log == INSTANCE EventLog WITH
           log  <- disk.events,
           high <- IF disk.nextID > 0 THEN disk.nextID - 1 ELSE 0
ImplementsEventLog == Log!Spec
=============================================================================
