-------------------------- MODULE EventStoreProofs --------------------------
(***************************************************************************)
(* Theorems about EventStore, for every set of channels and keys, every    *)
(* log size, every clock and every number of events.                       *)
(***************************************************************************)
EXTENDS EventStore, FiniteSetTheorems, TLAPS

\* S is within the size of the log.
Fits(S) ==
    /\ IsFiniteSet(S)
    /\ \A e \in S : Cardinality(Newer(S, e)) < MaxEvents

\* Where the IDs in use stand to the file: every event that was ever in it,
\* and every cursor, is below the nextID it holds, so that no ID is given
\* twice whatever the process does between two writes.
FileBounds ==
    /\ Fits(disk.events)
    /\ disk.nextID = 0 => disk.events = {}
    /\ disk.events \subseteq committed
    /\ \A e \in committed : e.id < disk.nextID
    /\ \A c \in Channel : cursor[c] = 0 \/ cursor[c] < disk.nextID

\* Where memory stands to the file: equal between calls, and while a call
\* persists, one event or one channel away from it with the file's contents
\* saved for the rollback.
MemoryBounds ==
    /\ Fits(events)
    /\ stage # "down" => nextID > 0 /\ disk.nextID <= nextID
    /\ stage \in {"down", "idle"} => pending = {} /\ removing = {}
    /\ stage = "persist" =>
         /\ IsFiniteSet(pending)
         /\ saved.events = disk.events
         /\ saved.nextID = disk.nextID \/ disk = NoFile
         /\ saved.nextID > 0 /\ disk.nextID <= saved.nextID
         /\ saved.nextID <= nextID
         /\ events = {e \in Newest(saved.events \union pending) : e.channel \notin removing}
         /\ \A e \in pending : e.id = saved.nextID /\ nextID = e.id + 1

\* What became of each event that was ever in the file.
Retention ==
    /\ IsFiniteSet(committed)
    /\ acked \subseteq committed
    /\ stage = "return" => pending \subseteq committed
    /\ \A e \in committed :
         \/ e \in disk.events
         \/ e.id < removedTo[e.channel]
         \/ Cardinality(Newer(committed, e)) >= MaxEvents
    /\ \A c \in Channel : removedTo[c] = 0 \/ removedTo[c] <= disk.nextID

IInv ==
    /\ TypeOK
    /\ IdsBelowNext
    /\ UniqueKeys
    /\ MemoryIsDurable
    /\ SeenIsCommitted
    /\ CursorNeverSkips
    /\ FileBounds
    /\ MemoryBounds
    /\ Retention
-----------------------------------------------------------------------------
\* trimEvents only drops events.
LEMMA NewestSubset == \A S : Newest(S) \subseteq S
BY DEF Newest

\* With every ID below n, the store resumes at n.
LEMMA ResumeAtBound ==
  ASSUME NEW n \in Nat, NEW S \in SUBSET Event, \A e \in S : e.id < n
  PROVE  ResumeAt(S, n) = n
BY DEF ResumeAt, Event

\* A larger set has at least as many events newer than e.
LEMMA NewerMonotone ==
  ASSUME NEW T, IsFiniteSet(T), NEW S \in SUBSET T, NEW e
  PROVE  /\ Cardinality(Newer(S, e)) \in Nat /\ Cardinality(Newer(T, e)) \in Nat
         /\ Cardinality(Newer(S, e)) <= Cardinality(Newer(T, e))
<1>1. Newer(S, e) \in SUBSET Newer(T, e) /\ Newer(T, e) \in SUBSET T
  BY DEF Newer
<1>2. IsFiniteSet(Newer(T, e)) /\ IsFiniteSet(Newer(S, e))
  BY <1>1, FS_Subset
<1>. QED BY <1>1, <1>2, FS_Subset, FS_CardinalityType

\* Dropping events keeps a log within its size.
LEMMA FitsSubset ==
  ASSUME NEW S, Fits(S), NEW T \in SUBSET S
  PROVE  Fits(T)
<1>1. IsFiniteSet(T)
  BY FS_Subset DEF Fits
<1>2. ASSUME NEW e \in T PROVE Cardinality(Newer(T, e)) < MaxEvents
  <2>1. Cardinality(Newer(S, e)) < MaxEvents
    BY DEF Fits
  <2>. QED BY <2>1, NewerMonotone, MaxEventsAssumption DEF Fits
<1>. QED BY <1>1, <1>2 DEF Fits

\* What trimEvents keeps fits ...
LEMMA NewestFits ==
  ASSUME NEW S, IsFiniteSet(S)
  PROVE  Fits(Newest(S))
<1> DEFINE T == Newest(S)
<1>1. T \in SUBSET S /\ IsFiniteSet(T)
  BY NewestSubset, FS_Subset
<1>2. ASSUME NEW e \in T PROVE Cardinality(Newer(T, e)) < MaxEvents
  <2>1. Cardinality(Newer(S, e)) < MaxEvents
    BY DEF Newest
  <2>. QED BY <1>1, <2>1, NewerMonotone, MaxEventsAssumption
<1>. QED BY <1>1, <1>2 DEF Fits

\* ... and trimming what fits, as OpenStore does with what the file holds,
\* changes nothing.
LEMMA FitsNewest ==
  ASSUME NEW S, Fits(S)
  PROVE  Newest(S) = S
BY DEF Fits, Newest
-----------------------------------------------------------------------------
\* The store that was never started satisfies the invariant.
LEMMA InitIInv == Init => IInv
<1>1. Fits({}) /\ IsFiniteSet({})
  BY FS_EmptySet DEF Fits
<1>. QED
  BY <1>1 DEF Init, IInv, TypeOK, State, NoFile, IdsBelowNext, UniqueKeys,
       MemoryIsDurable, SeenIsCommitted, CursorNeverSkips, FileBounds,
       MemoryBounds, Retention

\* OpenStore: trimming a file that fits drops nothing, and the ID it resumes
\* from is above every event it kept.
LEMMA OpenStep == IInv /\ Open => IInv'
<1> SUFFICES ASSUME IInv, Open PROVE IInv'
  OBVIOUS
<1>0. TypeOK /\ IdsBelowNext /\ UniqueKeys /\ FileBounds
      /\ SeenIsCommitted /\ CursorNeverSkips
  BY DEF IInv
<1>1. events' = disk.events /\ events' \in SUBSET Event
  BY <1>0, FitsNewest DEF Open, TypeOK, State, FileBounds
<1>2. /\ nextID' > 0 /\ nextID' \in Nat
      /\ nextID' = disk.nextID \/ disk.nextID = 0
  <2>1. CASE disk.nextID > 0
    <3>1. \A e \in events' : e.id < disk.nextID
      BY <1>0, <1>1 DEF IdsBelowNext
    <3>2. nextID' = disk.nextID
      BY <1>0, <1>1, <2>1, <3>1, ResumeAtBound DEF Open, TypeOK, State
    <3>. QED BY <1>0, <2>1, <3>2 DEF TypeOK, State
  <2>2. CASE disk.nextID = 0
    <3>1. events' = {}
      BY <1>0, <1>1, <2>2 DEF FileBounds
    <3>2. \E now \in Seed : nextID' = now
      BY <2>2, <3>1 DEF Open, ResumeAt
    <3>. QED BY <2>2, <3>2, SeedAssumption
  <2>. QED BY <1>0, <2>1, <2>2 DEF TypeOK, State
<1>3. disk.nextID = 0 => disk = NoFile
  BY <1>0 DEF FileBounds, NoFile, TypeOK, State
<1>4. /\ stage = "down" /\ stage' = "idle"
      /\ UNCHANGED <<pending, removing, saved, disk, cursor, seen,
                     acked, committed, removedTo>>
  BY DEF Open, watches, history
<1>5. TypeOK'
  BY <1>0, <1>1, <1>2, <1>4 DEF TypeOK
<1>6. IdsBelowNext'
  BY <1>0, <1>1, <1>2, <1>4 DEF IdsBelowNext, FileBounds
<1>7. UniqueKeys' /\ MemoryIsDurable' /\ SeenIsCommitted' /\ CursorNeverSkips'
  BY <1>0, <1>1, <1>2, <1>3, <1>4
     DEF UniqueKeys, MemoryIsDurable, SeenIsCommitted, CursorNeverSkips
<1>8. FileBounds'
  BY <1>0, <1>4 DEF FileBounds, Fits, Newer
<1>9. MemoryBounds'
  BY <1>0, <1>1, <1>2, <1>4 DEF IInv, MemoryBounds, FileBounds, Fits, Newer
<1>10. Retention'
  BY <1>4 DEF IInv, Retention, Newer
<1>. QED BY <1>5, <1>6, <1>7, <1>8, <1>9, <1>10 DEF IInv

\* Losing memory loses nothing the invariant says of the file.
LEMMA CrashStep == IInv /\ Crash => IInv'
<1> SUFFICES ASSUME IInv, Crash PROVE IInv'
  OBVIOUS
<1>1. Fits({})
  BY FS_EmptySet DEF Fits
<1>2. TypeOK'
  BY DEF IInv, Crash, TypeOK, NoFile, State, watches, history
<1>3. (IdsBelowNext /\ UniqueKeys /\ MemoryIsDurable)'
  BY DEF IInv, Crash, IdsBelowNext, UniqueKeys, MemoryIsDurable
<1>4. (SeenIsCommitted /\ CursorNeverSkips)'
  BY DEF IInv, Crash, SeenIsCommitted, CursorNeverSkips, watches, history
<1>5. FileBounds'
  BY DEF IInv, Crash, FileBounds, Fits, Newer, watches, history
<1>6. MemoryBounds'
  BY <1>1 DEF Crash, MemoryBounds, Fits, Newer
<1>7. Retention'
  BY DEF IInv, Crash, Retention, Newer, watches, history
<1>. QED BY <1>2, <1>3, <1>4, <1>5, <1>6, <1>7 DEF IInv

\* The call started a change in memory and is about to persist it: nothing
\* that relates the file to the watches and to the past has moved.
LEMMA CallStep ==
  ASSUME IInv, stage' = "persist", TypeOK', IdsBelowNext', UniqueKeys',
         MemoryBounds', UNCHANGED <<disk, watches, history>>
  PROVE  IInv'
<1>1. (MemoryIsDurable /\ SeenIsCommitted /\ CursorNeverSkips)'
  BY DEF IInv, MemoryIsDurable, SeenIsCommitted, CursorNeverSkips, watches,
         history
<1>2. FileBounds'
  BY DEF IInv, FileBounds, Fits, Newer, watches, history
<1>3. Retention'
  BY DEF IInv, Retention, Newer, history
<1>. QED BY <1>1, <1>2, <1>3 DEF IInv

\* AppendUnique up to persistLocked: the new event is the newest and the only
\* one with its key, and trimming it in keeps the newest MaxEvents.
LEMMA AppendNewStep ==
  ASSUME IInv, NEW c \in Channel, NEW k \in Key \union {NoKey}, AppendNew(c, k)
  PROVE  IInv'
<1> DEFINE new == [id |-> nextID, channel |-> c, key |-> k]
<1>0. TypeOK /\ IdsBelowNext /\ UniqueKeys /\ MemoryIsDurable /\ MemoryBounds
  BY DEF IInv
<1>1. /\ stage = "idle" /\ stage' = "persist"
      /\ Duplicates(c, k) = {}
      /\ pending' = {new}
      /\ events' = Newest(events \union {new})
      /\ nextID' = nextID + 1
      /\ saved' = [events |-> events, nextID |-> nextID]
      /\ UNCHANGED <<removing, disk, watches, history>>
  BY DEF AppendNew
<1>2. nextID \in Nat \ {0} /\ new \in Event
  BY <1>0, <1>1 DEF MemoryBounds, TypeOK, Event
<1>3. /\ events' \subseteq events \union {new}
      /\ new.id = nextID /\ new.channel = c /\ new.key = k
  BY <1>1, NewestSubset
<1> HIDE DEF new
<1>4. TypeOK'
  <2>1. events' \in SUBSET Event /\ pending' \in SUBSET Event
    BY <1>0, <1>1, <1>2, <1>3 DEF TypeOK
  <2>2. nextID' \in Nat /\ saved' \in State
    BY <1>0, <1>1, <1>2 DEF TypeOK, State
  <2>. QED BY <1>0, <1>1, <2>1, <2>2 DEF TypeOK, watches, history
<1>5. IdsBelowNext'
  <2>1. \A e \in events : e.id \in Nat /\ e.id < nextID
    BY <1>0, <1>1 DEF IdsBelowNext, TypeOK, Event
  <2>2. ASSUME NEW e \in events' PROVE e.id < nextID'
    <3>1. e.id \in Nat /\ e.id <= nextID
      BY <1>2, <1>3, <2>1
    <3>2. nextID' = nextID + 1
      BY <1>1
    <3>. QED BY <1>2, <3>1, <3>2
  <2>3. disk' = disk
    BY <1>1
  <2>. QED BY <1>0, <2>2, <2>3 DEF IdsBelowNext
<1>6. UniqueKeys'
  <2>1. \A e \in events : ~(e.channel = c /\ e.key = k /\ k # NoKey)
    BY <1>1 DEF Duplicates
  <2>2. ASSUME NEW e \in events', NEW f \in events', e.channel = f.channel,
               e.key = f.key, e.key # NoKey
        PROVE  e = f
    <3>1. e \in events \union {new} /\ f \in events \union {new}
      BY <1>3
    <3>2. CASE e \in events /\ f \in events
      BY <1>0, <2>2, <3>2 DEF UniqueKeys
    <3>. QED BY <1>3, <2>1, <2>2, <3>1, <3>2
  <2>3. disk' = disk
    BY <1>1
  <2>. QED BY <1>0, <2>2, <2>3 DEF UniqueKeys
<1>7. MemoryBounds'
  <2>1. IsFiniteSet(events \union {new})
    BY <1>0, FS_AddElement DEF MemoryBounds, Fits
  <2>2. Fits(events')
    BY <1>1, <2>1, NewestFits
  <2>3. events' = {e \in Newest(saved'.events \union pending') : e.channel \notin removing'}
    BY <1>0, <1>1 DEF MemoryBounds
  <2>4. /\ disk'.nextID <= saved'.nextID
        /\ saved'.events = disk'.events /\ saved'.nextID = nextID
        /\ saved'.nextID = disk'.nextID \/ disk' = NoFile
    BY <1>0, <1>1 DEF MemoryBounds, MemoryIsDurable
  <2>5. disk'.nextID \in Nat
    BY <1>0, <1>1 DEF TypeOK, State
  <2>6. IsFiniteSet(pending') /\ \A e \in pending' : e.id = nextID
    BY <1>1, <1>3, FS_Singleton
  <2>7. nextID' = nextID + 1 /\ stage' = "persist"
    BY <1>1
  <2>8. nextID' > 0 /\ disk'.nextID <= nextID' /\ saved'.nextID <= nextID'
    BY <1>2, <2>4, <2>5, <2>7
  <2>. QED
    BY <1>2, <2>2, <2>3, <2>4, <2>6, <2>7, <2>8 DEF MemoryBounds
<1>. QED BY <1>1, <1>4, <1>5, <1>6, <1>7, CallStep

\* RemoveForChannel up to persistLocked.
LEMMA RemoveStep ==
  ASSUME IInv, NEW c \in Channel, RemoveForChannel(c)
  PROVE  IInv'
<1>0. TypeOK /\ IdsBelowNext /\ UniqueKeys /\ MemoryIsDurable /\ MemoryBounds
  BY DEF IInv
<1>1. /\ stage = "idle" /\ stage' = "persist"
      /\ removing' = {c}
      /\ events' = {e \in events : e.channel # c}
      /\ saved' = [events |-> events, nextID |-> nextID]
      /\ UNCHANGED <<nextID, pending, disk, watches, history>>
  BY DEF RemoveForChannel
<1>2. TypeOK'
  BY <1>0, <1>1 DEF TypeOK, State, watches, history
<1>3. (IdsBelowNext /\ UniqueKeys)'
  BY <1>0, <1>1 DEF IdsBelowNext, UniqueKeys
<1>4. MemoryBounds'
  <2>1. Fits(events')
    BY <1>0, <1>1, FitsSubset DEF MemoryBounds
  <2>2. events' = {e \in Newest(saved'.events \union pending') : e.channel \notin removing'}
    <3>1. Newest(events) = events
      BY <1>0, FitsNewest DEF MemoryBounds
    <3>2. saved'.events \union pending' = events
      BY <1>0, <1>1 DEF MemoryBounds
    <3>. QED BY <1>1, <3>1, <3>2
  <2>3. pending' = {} /\ IsFiniteSet(pending')
    BY <1>0, <1>1, FS_EmptySet DEF MemoryBounds
  <2>. QED
    BY <1>0, <1>1, <2>1, <2>2, <2>3
       DEF MemoryBounds, MemoryIsDurable, TypeOK, Fits, Newer, Newest
<1>. QED BY <1>1, <1>2, <1>3, <1>4, CallStep

\* The rename: what memory holds becomes the file, and an event that leaves
\* the file has MaxEvents newer ones or was removed with its channel.
LEMMA PersistStep == IInv /\ Persist => IInv'
<1> SUFFICES ASSUME IInv, Persist PROVE IInv'
  OBVIOUS
<1>0. /\ TypeOK /\ IdsBelowNext /\ UniqueKeys /\ SeenIsCommitted
      /\ CursorNeverSkips /\ FileBounds /\ MemoryBounds /\ Retention
  BY DEF IInv
<1>1. /\ stage = "persist" /\ stage' = "return"
      /\ disk' = [events |-> events, nextID |-> nextID]
      /\ disk'.events = events /\ disk'.nextID = nextID
      /\ committed' = committed \union pending
      /\ removedTo' = [c \in Channel |->
                          IF c \in removing THEN nextID ELSE removedTo[c]]
      /\ UNCHANGED <<events, nextID, pending, removing, saved, cursor, seen, acked>>
  BY DEF Persist, memory, watches
<1>2. /\ saved.events = disk.events
      /\ nextID \in Nat /\ disk.nextID \in Nat /\ saved.nextID \in Nat
      /\ disk.nextID <= saved.nextID /\ saved.nextID <= nextID /\ 0 < nextID
      /\ events = {e \in Newest(disk.events \union pending) : e.channel \notin removing}
      /\ \A e \in pending : e.id = saved.nextID /\ nextID = e.id + 1
  BY <1>0, <1>1 DEF MemoryBounds, TypeOK, State
<1>3. events \subseteq disk.events \union pending
  BY <1>2, NewestSubset
<1>4. TypeOK'
  BY <1>0, <1>1 DEF TypeOK, State
<1>5. (IdsBelowNext /\ UniqueKeys /\ MemoryIsDurable)'
  BY <1>0, <1>1 DEF IdsBelowNext, UniqueKeys, MemoryIsDurable
<1>6. SeenIsCommitted'
  BY <1>0, <1>1 DEF SeenIsCommitted
<1>7. CursorNeverSkips'
  <2> SUFFICES ASSUME NEW e \in events, e.id <= cursor[e.channel]
               PROVE  e \in seen
    BY <1>1 DEF CursorNeverSkips
  <2>1. CASE e \in disk.events
    BY <1>0, <2>1 DEF CursorNeverSkips
  <2>2. CASE e \in pending
    <3>1. /\ e.channel \in Channel /\ e.id \in Nat \ {0}
          /\ cursor[e.channel] \in Nat
      BY <1>0, <2>2 DEF TypeOK, Event
    <3>2. e.id = saved.nextID
      BY <1>2, <2>2
    <3>3. cursor[e.channel] = 0 \/ cursor[e.channel] < disk.nextID
      BY <1>0, <3>1 DEF FileBounds
    <3>. QED BY <1>2, <3>1, <3>2, <3>3
  <2>. QED BY <1>3, <2>1, <2>2
<1>8. FileBounds'
  <2>1. Fits(disk'.events)
    BY <1>0, <1>1 DEF MemoryBounds
  <2>2. disk'.events \subseteq committed'
    BY <1>0, <1>1, <1>3 DEF FileBounds
  <2>3. ASSUME NEW e \in committed' PROVE e.id < disk'.nextID
    <3>1. CASE e \in committed
      <4>1. e.id < disk.nextID /\ e.id \in Nat
        BY <1>0, <3>1 DEF FileBounds, TypeOK, Event
      <4>. QED BY <1>1, <1>2, <4>1
    <3>2. CASE e \in pending
      BY <1>1, <1>2, <3>2
    <3>. QED BY <1>1, <3>1, <3>2
  <2>4. ASSUME NEW c \in Channel PROVE cursor[c] = 0 \/ cursor[c] < disk'.nextID
    <3>1. cursor[c] \in Nat /\ (cursor[c] = 0 \/ cursor[c] < disk.nextID)
      BY <1>0 DEF FileBounds, TypeOK
    <3>. QED BY <1>1, <1>2, <3>1
  <2>5. cursor' = cursor /\ disk'.nextID # 0
    BY <1>1, <1>2
  <2>. QED BY <2>1, <2>2, <2>3, <2>4, <2>5 DEF FileBounds
<1>9. MemoryBounds'
  <2>1. Fits(events')
    BY <1>0, <1>1 DEF MemoryBounds
  <2>. QED BY <1>1, <1>2, <2>1 DEF MemoryBounds
<1>10. Retention'
  <2>1. IsFiniteSet(committed')
    BY <1>0, <1>1, FS_Union DEF Retention, MemoryBounds
  <2>2. ASSUME NEW c \in Channel
        PROVE  /\ removedTo'[c] = 0 \/ removedTo'[c] <= disk'.nextID
               /\ removedTo[c] <= removedTo'[c]
               /\ c \in removing => removedTo'[c] = nextID
    <3>1. removedTo[c] \in Nat /\ (removedTo[c] = 0 \/ removedTo[c] <= disk.nextID)
      BY <1>0 DEF Retention, TypeOK
    <3>2. removedTo'[c] = IF c \in removing THEN nextID ELSE removedTo[c]
      BY <1>1
    <3>. QED BY <1>1, <1>2, <3>1, <3>2
  <2>3. ASSUME NEW e \in committed'
        PROVE  \/ e \in disk'.events
               \/ e.id < removedTo'[e.channel]
               \/ Cardinality(Newer(committed', e)) >= MaxEvents
    <3>1. e.channel \in Channel /\ e.id \in Nat
      BY <1>0, <1>1 DEF TypeOK, Event
    <3>2. ASSUME NEW S \in SUBSET committed', Cardinality(Newer(S, e)) >= MaxEvents
          PROVE  Cardinality(Newer(committed', e)) >= MaxEvents
      BY <2>1, <3>2, NewerMonotone, MaxEventsAssumption
    <3>3. CASE e \in disk.events \union pending
      <4>1. disk.events \union pending \in SUBSET committed'
        BY <1>0, <1>1 DEF FileBounds
      <4>2. CASE e \notin Newest(disk.events \union pending)
        <5>1. ~(Cardinality(Newer(disk.events \union pending, e)) < MaxEvents)
          BY <3>3, <4>2 DEF Newest
        <5>2. Cardinality(Newer(disk.events \union pending, e)) \in Nat
          BY <2>1, <4>1, NewerMonotone
        <5>. QED BY <3>2, <4>1, <5>1, <5>2, MaxEventsAssumption
      <4>3. CASE e.channel \in removing
        <5>1. removedTo'[e.channel] = nextID
          BY <2>2, <3>1, <4>3
        <5>2. e.id < nextID
          <6>1. CASE e \in disk.events
            <7>1. e.id < disk.nextID
              BY <1>0, <6>1 DEF IdsBelowNext
            <7>. QED BY <1>2, <3>1, <7>1
          <6>2. CASE e \in pending
            BY <1>2, <3>1, <6>2
          <6>. QED BY <3>3, <6>1, <6>2
        <5>. QED BY <5>1, <5>2
      <4>. QED BY <1>1, <1>2, <4>2, <4>3
    <3>4. CASE e \in committed /\ e \notin disk.events
      <4>1. CASE e.id < removedTo[e.channel]
        <5>1. removedTo[e.channel] <= removedTo'[e.channel]
          BY <2>2, <3>1
        <5>2. removedTo[e.channel] \in Nat /\ removedTo'[e.channel] \in Nat
          BY <1>0, <1>4, <3>1 DEF TypeOK
        <5>. QED BY <3>1, <4>1, <5>1, <5>2
      <4>2. CASE Cardinality(Newer(committed, e)) >= MaxEvents
        BY <1>1, <3>2, <4>2
      <4>. QED BY <1>0, <3>4, <4>1, <4>2 DEF Retention
    <3>. QED BY <1>1, <3>3, <3>4
  <2>4. acked' \subseteq committed' /\ pending' \subseteq committed'
    BY <1>0, <1>1 DEF Retention
  <2>. QED BY <2>1, <2>2, <2>3, <2>4 DEF Retention
<1>. QED BY <1>4, <1>5, <1>6, <1>7, <1>8, <1>9, <1>10 DEF IInv

\* A failed write restores the copies, which are what the file holds.
LEMMA PersistFailsStep == IInv /\ PersistFails => IInv'
<1> SUFFICES ASSUME IInv, PersistFails PROVE IInv'
  OBVIOUS
<1>0. /\ TypeOK /\ IdsBelowNext /\ UniqueKeys /\ SeenIsCommitted
      /\ CursorNeverSkips /\ FileBounds /\ MemoryBounds /\ Retention
  BY DEF IInv
<1>1. /\ stage = "persist" /\ stage' = "idle"
      /\ events' = saved.events /\ nextID' = saved.nextID
      /\ pending' = {} /\ removing' = {} /\ saved' = NoFile
      /\ UNCHANGED <<disk, cursor, seen, acked, committed, removedTo>>
  BY DEF PersistFails, watches, history
<1>2. /\ saved.events = disk.events
      /\ saved.nextID = disk.nextID \/ disk = NoFile
      /\ saved.nextID > 0 /\ disk.nextID <= saved.nextID
      /\ saved.nextID \in Nat /\ disk.nextID \in Nat
  BY <1>0, <1>1 DEF MemoryBounds, TypeOK, State
<1>3. TypeOK'
  BY <1>0, <1>1 DEF TypeOK, State, NoFile
<1>4. IdsBelowNext'
  <2> SUFFICES ASSUME NEW e \in disk.events PROVE e.id < saved.nextID
    BY <1>0, <1>1, <1>2 DEF IdsBelowNext
  <2>1. e.id \in Nat /\ e.id < disk.nextID
    BY <1>0 DEF IdsBelowNext, TypeOK, State, Event
  <2>. QED BY <1>2, <2>1
<1>5. (UniqueKeys /\ MemoryIsDurable /\ SeenIsCommitted /\ CursorNeverSkips)'
  BY <1>0, <1>1, <1>2
     DEF UniqueKeys, MemoryIsDurable, SeenIsCommitted, CursorNeverSkips
<1>6. (FileBounds /\ Retention)'
  BY <1>0, <1>1 DEF FileBounds, Retention, Fits, Newer
<1>7. MemoryBounds'
  BY <1>0, <1>1, <1>2 DEF MemoryBounds, FileBounds, Fits, Newer
<1>. QED BY <1>3, <1>4, <1>5, <1>6, <1>7 DEF IInv

\* An event that is acknowledged is in the file when the call returns.
LEMMA ReturnStep == IInv /\ Return => IInv'
<1> SUFFICES ASSUME IInv, Return PROVE IInv'
  OBVIOUS
<1>0. /\ TypeOK /\ IdsBelowNext /\ UniqueKeys /\ MemoryIsDurable
      /\ SeenIsCommitted /\ CursorNeverSkips /\ FileBounds /\ MemoryBounds
      /\ Retention
  BY DEF IInv
<1>1. /\ stage = "return" /\ stage' = "idle"
      /\ acked' = acked \union pending
      /\ pending' = {} /\ removing' = {} /\ saved' = NoFile
      /\ UNCHANGED <<events, nextID, disk, cursor, seen, committed, removedTo>>
  BY DEF Return, memory, watches
<1>2. TypeOK'
  BY <1>0, <1>1 DEF TypeOK, State, NoFile
<1>3. (IdsBelowNext /\ UniqueKeys /\ MemoryIsDurable /\ SeenIsCommitted
       /\ CursorNeverSkips)'
  BY <1>0, <1>1 DEF IdsBelowNext, UniqueKeys, MemoryIsDurable,
                    SeenIsCommitted, CursorNeverSkips
<1>4. (FileBounds /\ MemoryBounds /\ Retention)'
  BY <1>0, <1>1 DEF FileBounds, MemoryBounds, Retention, Fits, Newer
<1>. QED BY <1>2, <1>3, <1>4 DEF IInv

\* A duplicate is acknowledged with an event the file holds.
LEMMA AppendDuplicateStep ==
  ASSUME IInv, NEW c \in Channel, NEW k \in Key \union {NoKey},
         AppendDuplicate(c, k)
  PROVE  IInv'
<1>0. /\ TypeOK /\ IdsBelowNext /\ UniqueKeys /\ MemoryIsDurable
      /\ SeenIsCommitted /\ CursorNeverSkips /\ FileBounds /\ MemoryBounds
      /\ Retention
  BY DEF IInv
<1>1. /\ stage = "idle"
      /\ acked' \subseteq acked \union events
      /\ UNCHANGED <<events, nextID, stage, pending, removing, saved, disk,
                     cursor, seen, committed, removedTo>>
  BY DEF AppendDuplicate, Duplicates, memory, request, watches
<1>2. events \subseteq committed
  BY <1>0, <1>1 DEF MemoryIsDurable, FileBounds
<1>3. TypeOK'
  BY <1>0, <1>1 DEF TypeOK
<1>4. (IdsBelowNext /\ UniqueKeys /\ MemoryIsDurable /\ SeenIsCommitted
       /\ CursorNeverSkips)'
  BY <1>0, <1>1 DEF IdsBelowNext, UniqueKeys, MemoryIsDurable,
                    SeenIsCommitted, CursorNeverSkips
<1>5. (FileBounds /\ MemoryBounds)'
  BY <1>0, <1>1 DEF FileBounds, MemoryBounds, Fits, Newer
<1>6. Retention'
  BY <1>0, <1>1, <1>2 DEF Retention, Newer
<1>. QED BY <1>3, <1>4, <1>5, <1>6 DEF IInv

\* A poll sends what is above the cursor and moves it to the last event sent.
LEMMA PollStep ==
  ASSUME IInv, NEW c \in Channel, Poll(c)
  PROVE  IInv'
<1> DEFINE out == SinceForChannel(c, cursor[c])
<1>0. /\ TypeOK /\ IdsBelowNext /\ UniqueKeys /\ MemoryIsDurable
      /\ SeenIsCommitted /\ CursorNeverSkips /\ FileBounds /\ MemoryBounds
      /\ Retention
  BY DEF IInv
<1>1. /\ seen' = seen \union out
      /\ UNCHANGED <<events, nextID, stage, pending, removing, saved, disk,
                     acked, committed, removedTo>>
      /\ events = disk.events
  BY <1>0 DEF Poll, MemoryIsDurable, memory, request, history
<1>2. PICK last \in out : cursor' = [cursor EXCEPT ![c] = last.id]
  BY DEF Poll
<1>3. out \subseteq disk.events
  BY <1>1 DEF SinceForChannel
<1>4. disk.events \subseteq Event /\ disk.nextID \in Nat
  BY <1>0 DEF TypeOK, State
<1>5. last.id \in Nat /\ last.id < disk.nextID
  BY <1>0, <1>2, <1>3, <1>4 DEF IdsBelowNext, Event
<1>6. TypeOK'
  BY <1>0, <1>1, <1>2, <1>3, <1>4, <1>5 DEF TypeOK
<1>7. (IdsBelowNext /\ UniqueKeys /\ MemoryIsDurable)'
  BY <1>0, <1>1 DEF IdsBelowNext, UniqueKeys, MemoryIsDurable
<1>8. SeenIsCommitted'
  BY <1>0, <1>1, <1>3 DEF SeenIsCommitted, FileBounds
<1>9. CursorNeverSkips'
  <2> SUFFICES ASSUME NEW e \in disk.events, e.id <= cursor'[e.channel]
               PROVE  e \in seen'
    BY <1>1 DEF CursorNeverSkips
  <2>1. e.id \in Nat /\ e.channel \in Channel
    BY <1>4 DEF Event
  <2>2. CASE e.id <= cursor[e.channel]
    BY <1>0, <1>1, <2>2 DEF CursorNeverSkips
  <2>3. CASE ~(e.id <= cursor[e.channel])
    <3>1. e.channel = c
      BY <1>0, <1>2, <2>1, <2>3 DEF TypeOK
    <3>2. cursor[c] \in Nat
      BY <1>0 DEF TypeOK
    <3>3. e \in out
      BY <1>1, <2>1, <2>3, <3>1, <3>2 DEF SinceForChannel
    <3>. QED BY <1>1, <3>3
  <2>. QED BY <2>2, <2>3
<1>10. FileBounds'
  BY <1>0, <1>1, <1>2, <1>5 DEF FileBounds, TypeOK, Fits, Newer
<1>11. MemoryBounds' /\ Retention'
  BY <1>0, <1>1 DEF MemoryBounds, Retention, Fits, Newer
<1>. QED BY <1>6, <1>7, <1>8, <1>9, <1>10, <1>11 DEF IInv

\* Every step of the store preserves the invariant.
LEMMA IInvStep == IInv /\ [Next]_vars => IInv'
<1> SUFFICES ASSUME IInv, [Next]_vars PROVE IInv'
  OBVIOUS
<1>1. CASE UNCHANGED vars
  BY <1>1 DEF IInv, TypeOK, IdsBelowNext, UniqueKeys, MemoryIsDurable,
              SeenIsCommitted, CursorNeverSkips, FileBounds, MemoryBounds,
              Retention, Fits, Newer, Newest, vars, memory, request, watches,
              history
<1>. QED
  BY <1>1, OpenStep, CrashStep, PersistStep, PersistFailsStep, ReturnStep,
     AppendDuplicateStep, AppendNewStep, RemoveStep, PollStep DEF Next
-----------------------------------------------------------------------------
\* The inductive invariant holds of every behaviour of the store.
LEMMA Invariance == Spec => []IInv
BY InitIInv, IInvStep, PTL DEF Spec

\* The store's variables keep their types (TypeOK).
THEOREM TypeCorrect == Spec => []TypeOK
<1>1. IInv => TypeOK
  BY DEF IInv
<1>. QED BY <1>1, Invariance, PTL

\* Every retained ID stays below the next one, in memory and in the file.
THEOREM IdsStayBelowNext == Spec => []IdsBelowNext
<1>1. IInv => IdsBelowNext
  BY DEF IInv
<1>. QED BY <1>1, Invariance, PTL

\* AppendUnique: at most one retained event per channel and key.
THEOREM KeysAreUnique == Spec => []UniqueKeys
<1>1. IInv => UniqueKeys
  BY DEF IInv
<1>. QED BY <1>1, Invariance, PTL

\* Between calls, memory is what a restart would read back.
THEOREM RestartReadsBack == Spec => []MemoryIsDurable
<1>1. IInv => MemoryIsDurable
  BY DEF IInv
<1>. QED BY <1>1, Invariance, PTL

\* A watch is sent nothing that a restart could take back.
THEOREM NothingIsTakenBack == Spec => []SeenIsCommitted
<1>1. IInv => SeenIsCommitted
  BY DEF IInv
<1>. QED BY <1>1, Invariance, PTL

\* A watch that polls above its cursor is sent every event the log still
\* holds, over crashes, failed writes and clock changes.
THEOREM PollingLosesNothing == Spec => []CursorNeverSkips
<1>1. IInv => CursorNeverSkips
  BY DEF IInv
<1>. QED BY <1>1, Invariance, PTL

\* An acknowledged event is lost to eviction or removal only.
THEOREM AcknowledgedEventsAreKept == Spec => []AckedIsRetained
<1>1. IInv => AckedIsRetained
  BY DEF IInv, Retention, AckedIsRetained
<1>. QED BY <1>1, Invariance, PTL
-----------------------------------------------------------------------------
(***************************************************************************)
(* The store implements EventLog: the step that replaces the file is an    *)
(* Append or a Remove of the abstract log, and every other step leaves it. *)
(***************************************************************************)
\* The call that is persisting adds one event with a new key, or clears one
\* channel; the two never overlap.
CallShape ==
    stage = "persist" =>
        \/ /\ removing = {}
           /\ \E c \in Channel, k \in Key \union {NoKey} :
                 LET new == [id |-> saved.nextID, channel |-> c, key |-> k]
                 IN  /\ pending = {new}
                     /\ \A e \in disk.events :
                           ~(e.channel = c /\ e.key = k /\ k # NoKey)
           /\ nextID = saved.nextID + 1
        \/ /\ pending = {}
           /\ \E c \in Channel : removing = {c}
           /\ nextID = saved.nextID /\ saved.nextID = disk.nextID

\* The copies of a running call, its pending event and the channel it clears
\* account for the difference between memory and the file.
LEMMA CallShapeStep == IInv /\ CallShape /\ [Next]_vars => CallShape'
<1> SUFFICES ASSUME IInv, CallShape, [Next]_vars PROVE CallShape'
  OBVIOUS
<1>0. TypeOK /\ MemoryIsDurable /\ MemoryBounds
  BY DEF IInv
<1>1. CASE UNCHANGED vars
  BY <1>1 DEF CallShape, vars, memory, request
<1>2. CASE Open \/ Crash \/ Persist \/ PersistFails \/ Return
  BY <1>2 DEF CallShape, Open, Crash, Persist, PersistFails, Return
<1>3. ASSUME NEW c \in Channel, NEW k \in Key \union {NoKey}, AppendDuplicate(c, k)
      PROVE  CallShape'
  BY <1>3 DEF CallShape, AppendDuplicate, request
<1>4. ASSUME NEW c \in Channel, NEW k \in Key \union {NoKey}, AppendNew(c, k)
      PROVE  CallShape'
  <2>1. /\ stage = "idle" /\ removing' = removing /\ disk' = disk
        /\ saved'.nextID = nextID /\ nextID' = nextID + 1
        /\ pending' = {[id |-> nextID, channel |-> c, key |-> k]}
    BY <1>4 DEF AppendNew
  <2>2. \A e \in disk.events : ~(e.channel = c /\ e.key = k /\ k # NoKey)
    BY <1>0, <1>4, <2>1 DEF AppendNew, Duplicates, MemoryIsDurable
  <2>. QED BY <1>0, <2>1, <2>2 DEF CallShape, MemoryBounds
<1>5. ASSUME NEW c \in Channel, RemoveForChannel(c)
      PROVE  CallShape'
  <2>1. /\ stage = "idle" /\ removing' = {c}
        /\ UNCHANGED <<pending, disk, nextID>>
        /\ saved'.nextID = nextID
        /\ events # {}
    BY <1>5 DEF RemoveForChannel
  <2>2. disk # NoFile
    BY <1>0, <2>1 DEF MemoryIsDurable, NoFile
  <2>. QED BY <1>0, <2>1, <2>2 DEF CallShape, MemoryBounds, MemoryIsDurable
<1>6. ASSUME NEW c \in Channel, Poll(c) PROVE CallShape'
  BY <1>6 DEF CallShape, Poll, memory, request
<1>. QED BY <1>1, <1>2, <1>3, <1>4, <1>5, <1>6 DEF Next

\* The log and the store keep the same events of a set.
LEMMA SameNewest == \A S : Log!Newest(S) = Newest(S)
<1>1. \A S : Log!Cardinality(S) = Cardinality(S)
  BY Zenon DEF Log!Cardinality, Cardinality, Log!IsFiniteSet, IsFiniteSet
<1>. QED BY <1>1 DEF Log!Newest, Newest, Newer

\* The step that replaces the file is a step of the log.
LEMMA PersistIsLogStep ==
  ASSUME IInv, CallShape, Persist
  PROVE  Log!Next
<1> DEFINE high == IF disk.nextID > 0 THEN disk.nextID - 1 ELSE 0
<1>0. TypeOK /\ FileBounds /\ MemoryBounds
  BY DEF IInv
<1>1. /\ stage = "persist"
      /\ disk'.events = events /\ disk'.nextID = nextID
  BY DEF Persist
<1>2. /\ saved.events = disk.events
      /\ nextID \in Nat /\ disk.nextID \in Nat /\ saved.nextID \in Nat
      /\ disk.nextID <= saved.nextID /\ saved.nextID <= nextID /\ 0 < nextID
      /\ 0 < saved.nextID
      /\ events = {e \in Newest(disk.events \union pending) : e.channel \notin removing}
  BY <1>0, <1>1 DEF MemoryBounds, TypeOK, State
<1>3. high \in Nat /\ high' = nextID - 1 /\ high' \in Nat
  BY <1>1, <1>2
<1>4. ASSUME removing = {}, NEW c \in Channel, NEW k \in Key \union {NoKey},
             pending = {[id |-> saved.nextID, channel |-> c, key |-> k]},
             \A e \in disk.events : ~(e.channel = c /\ e.key = k /\ k # NoKey),
             nextID = saved.nextID + 1
      PROVE  Log!Append(c, k)
  <2>1. high' > high /\ high' = saved.nextID
    BY <1>2, <1>3, <1>4
  <2>2. disk'.events = Log!Newest(disk.events \union pending)
    BY <1>1, <1>2, <1>4, SameNewest
  <2>3. \A e \in disk.events :
          ~Log!SameKey(e, [id |-> saved.nextID, channel |-> c, key |-> k])
    BY <1>4 DEF Log!SameKey
  <2>. QED BY <1>3, <1>4, <2>1, <2>2, <2>3 DEF Log!Append
<1>5. ASSUME NEW c \in Channel, removing = {c}, pending = {},
             nextID = saved.nextID, saved.nextID = disk.nextID
      PROVE  Log!Remove(c)
  <2>1. Newest(disk.events) = disk.events
    BY <1>0, FitsNewest DEF FileBounds
  <2>2. disk.events \union pending = disk.events
    BY <1>5
  <2>3. disk'.events = {e \in disk.events : e.channel # c}
    BY <1>1, <1>2, <1>5, <2>1, <2>2
  <2>4. high' = high
    BY <1>2, <1>3, <1>5
  <2>. QED BY <2>3, <2>4 DEF Log!Remove
<1>. QED BY <1>1, <1>4, <1>5 DEF CallShape, Log!Next

\* The state file implements the bounded log (ImplementsEventLog): each append
\* and removal takes effect once and whole, and an ID is never given again.
THEOREM StoreImplementsLog == Spec => ImplementsEventLog
<1>1. Init => Log!Init
  BY DEF Init, NoFile, Log!Init
<1>2. Init => CallShape
  BY DEF Init, CallShape
<1>3. IInv /\ CallShape /\ [Next]_vars => [Log!Next]_<<disk.events, IF disk.nextID > 0 THEN disk.nextID - 1 ELSE 0>>
  <2> SUFFICES ASSUME IInv, CallShape, [Next]_vars, ~Persist
               PROVE  disk' = disk
    BY PersistIsLogStep
  <2>. QED
    BY DEF Next, vars, Open, Crash, PersistFails, Return, AppendDuplicate,
           AppendNew, RemoveForChannel, Poll
<1>. QED
  BY <1>1, <1>2, <1>3, Invariance, CallShapeStep, PTL
     DEF Spec, ImplementsEventLog, Log!Spec
===========================================================================
