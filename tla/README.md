# Taphaptic: models and proofs

Taphaptic tells a person's Apple Watch that a coding agent (Claude Code or
Codex) has finished or needs attention. Hooks on the Mac post events to a relay
written in Go; the relay stores them, pushes them through APNs, and serves them
to the watch app, which polls. This directory models the parts whose behaviour
depends on the order of steps, on failures and on restarts, checks the models
with TLC, and proves theorems about each of them with TLAPS.

## The system

| Component | State it keeps | Operations | What is hard about it |
| --- | --- | --- | --- |
| Event store `internal/events` | a bounded log of events of all channels, the next ID, a JSON file | `AppendUnique`, `RemoveForChannel`, `SinceForChannel`, `OpenStore` | deduplication, eviction and rollback together; IDs over restarts and clock changes; watches that poll by ID |
| Pairing codes `internal/watchpairings` | codes by ID, a file | `Create`, `Claim`, `RemoveForInstallation` | single use over crashes; equal digits; expiry; a code replaced by a newer one |
| Installations, channels, devices (`internal/...`) | identities; channels with a producer and a watch token; one push registration per watch; a file each | create, ensure, rotate, upsert, remove | no transaction spans two of them |
| Handlers `internal/api` | requests in flight | nine kinds of requests | a token is checked once and used later; deletion spans five stores; pushes go to a copy of the registrations |
| Request limiter, in `internal/api` | a bucket per key | `Allow` | it reads the clock before it takes its mutex |
| APNs client `internal/apns` | the cached signing token | `Send` | late "unregistered" answers |
| Process `cmd/taphaptic-api` | configuration | start, stop | restarts |
| Command line tool `cmd/taphapticctl`, `scripts/uninstall.sh` | the relay's URL, token files, the wrapper, hook files of other tools and their backups | install, patch, remove, emit, delete, uninstall | every command is a series of writes and requests that may end anywhere; foreign configuration must survive |
| Discovery `TaphapticServiceDiscovery` | the URLs it has reported | start, stop, results | a URL is reported once |
| Watch app `watch-app` | session (Keychain), cursor and relay URL (defaults), polling tasks, the alert on display | activate, pair, reset, poll, apply events, discovery | everything may happen at an `await`: late answers, overlapping polls, a relay that changes |
| Shared Swift `shared` | - | the poll guard; an event policy used by tests | agreement with the app |

Hooks run `taphapticctl emit`, which posts to the relay with the producer token.
The Mac's installer asks for a pairing code with the installation token; the
watch claims it and gets a session token; it then registers its push token and
polls `GET /v1/events?since=<cursor>`. Deleting the installation revokes all of it.
The stores share nothing; the handlers run concurrently and call them in turn.
Each store holds its mutex over its own change and write, so a call is atomic
for other calls, but not for a crash.

What makes each part correct:

* event store: no acknowledged event is lost before its time, none is stored
  twice under one key, no watch's cursor passes an event it was not sent, and
  nothing a reader saw is taken back;
* pairing codes: one grant per code, only the code given last, and a code the
  user holds is not blocked by others;
* handlers: a deletion that was answered is complete, one that failed can be
  repeated, an event is pushed once, tokens stay valid until they are revoked;
* limiter: a burst is bounded by two windows' worth, and nobody is refused who is below the
  limit;
* Mac: the user's own hooks survive every command, no agent runs a hook twice or
  one whose wrapper is gone, an install that succeeds leaves tokens that agree,
  and a token is given up only when its installation is gone;
* watch app: every event is applied and alerted once, a session ends only when
  its relay or the user ends it, polling stops when the app is closed and never
  stops while it is open, and an open app finds its relay.

## Modules

| Module | Models | State and actions |
| --- | --- | --- |
| `EventLog` | what the event store promises: a bounded log whose IDs only grow | `log`, `high`; `Append`, `Remove` |
| `EventStore` | `internal/events/store.go` and the watches that poll it | `events`, `nextID` are the fields in memory, `disk` is the file. A call is split where a crash matters: up to `persistLocked` (`AppendNew`, `RemoveForChannel`), the write (`Persist`, `PersistFails`), the `Return`. `Poll` is a watch |
| `EventStoreProofs` | - | theorems about `EventStore` |
| `WatchPairings` | `internal/watchpairings/store.go` | the same split; `Create`, and `Claim` by its outcomes |
| `WatchPairingsProofs` | - | theorems about `WatchPairings` |
| `RateLimiter` | `requestLimiter` in `internal/api/server.go` | `buckets`; `Ask` is `Allow` up to the mutex, `OpenWindow`, `CountRequest` and `Deny` its outcomes; `allowed` is the history of what was let through |
| `RateLimiterProofs` | - | theorems about `RateLimiter` |
| `ChannelStore` | `internal/channels/store.go` | operators on a record of the store's maps; a call is one of them or, when it cannot persist, nothing; `Opened` is what a start rebuilds from the file |
| `ChannelStoreProofs` | - | lemmas about those operators: what each keeps of the store's soundness |
| `Relay` | `internal/api/server.go` over the five stores | extends `ChannelStore`; a store is a variable; a handler is a program counter (`req[h].at`) and a step is one store call; `StoreFails` and `Crash` may come at any step; `Send` and `RemoveByToken` are the push loop |
| `RelayProofs`, `RelayDeletionProofs` | - | theorems about `Relay`, with any number of requests at a time and with one |
| `WatchClient` | `watch-app/TaphapticModel.swift` | a polling task is a slot that is ready, sent, answered or asleep; between two awaits everything is one action; a relay is the session it honours and the IDs it has |
| `WatchClientProofs` | - | theorems about `WatchClient` |
| `HookConfig` | the functions of `cmd/taphapticctl/main.go` on hook files | operators; a file is, per event, a sequence of entries, and an entry a sequence of handlers |
| `TaphapticCtl` | the commands of `cmd/taphapticctl/main.go`, `scripts/uninstall.sh`, and hooks that run meanwhile | extends `HookConfig`; `cmd` is the command that runs and where it is, a step is one file or one request, `Abort` may come at any step; `hook` is an `emit` in flight; `known` is what relays know |
| `TaphapticCtlProofs` | - | theorems about the token files and the hook files of `TaphapticCtl`, and lemmas about `HookConfig` |
| `MC...` | - | symmetry and constant sets for TLC |

`EventStore` is used by `Relay` as an abstraction: its theorem of refinement
says that an append or a removal happens once or not at all, and this is what
`Relay` takes a store call to be. `WatchClient` uses what `CursorNeverSkips`
says of `SinceForChannel`. To `TaphapticCtl` a relay is the set of installations it
knows: `CreateInstallation` and a complete deletion of `Relay` in one step each, with
or without their answer.

An operator named after another with an underscore (`Newest_OffByOne`) is a
wrong variant: replacing the real one by it makes a property fail. They show
that the property depends on the code, and are used nowhere.

## Runs

| Run | Configuration | What it shows |
| --- | --- | --- |
| `event_store` | `MCEventStore.cfg` | all invariants of the event store and that it implements `EventLog` |
| `watch_pairings` | `MCWatchPairings.cfg` | single use, replacement and expiry of codes |
| `rate_limiter` | `MCRateLimiter.cfg` | how large a burst the limiter lets through, and whom it refuses |
| `relay_serial` | `RelaySerial.cfg` | all nine kinds of requests one at a time, with failures and crashes: deletion is complete or can be repeated; the channel store's indexes agree with its file, and a revoked token never opens anything again |
| `relay_concurrent` | `RelayConcurrent.cfg` | two requests at a time, without deletion: pushes and tokens |
| `watch_local` | `WatchLocal.cfg` | safety of the watch with a local relay, where discovery may find another one first: events, sessions, timers, polling, discovery |
| `watch_polling` | `WatchPolling.cfg` | liveness of its polling |
| `mac_hooks` | `MacHooks.cfg` | hook files: foreign hooks, repeated hooks, hooks without a wrapper; patch commands also run where nothing is installed |
| `mac_tokens` | `MacTokens.cfg` | token files over two relays: what an install repairs, what a deletion may forget |
| `relay_vs_delete`, `watch_reopened`, `uninstall_restore` | `RelayVsDelete.cfg`, `WatchReopened.cfg`, `UninstallRestore.cfg` | disagreements between the code and its documents, below |

### Bounds, and why they are enough

* `event_store`: a log of 2 events, 2 channels, one key and the empty one, IDs up
  to 4, clock seeds 1 and 3. Eviction, a duplicate of an evicted, a retained and
  a rolled back event, and a restart before and after the first write all occur.
  The theorems remove these bounds.
* `watch_pairings`: codes live 3 ticks of 6, two digits' hashes, two attempts. A code
  can expire, be claimed, collide with another's and be replaced, in any order.
  The clock never goes back; if it did, a claimed code of the same digits could
  count as newer than an active one and hide it until it is pruned.
* `rate_limiter`: limits of 1 and 2, two requests at a time, windows of 3 ticks of 6, and a
  wait of at most one tick for the mutex: three windows meet, and a late request falls into
  each. The wait is a bound of the model, not of the code; the properties are stated with
  it. The clock does not go back here: the limiter measures by the wall clock, and after
  a step back a key that is used up stays refused until the clock has caught up.
* `relay_serial`: 2 installations, 1 watch that may move between them, 2 push
  tokens, 5 IDs drawn. `relay_concurrent`: 1 installation, 2 handlers, 2 keys, a
  log of 2. Two requests suffice because a handler carries over only what it read
  at its start and its copy of the registrations. Deletion is left out of the second
  because what the documents say of it fails there (`relay_vs_delete`). The log of the
  second holds both keys: an event whose key was evicted (by 64 others, of any
  installations) is stored and pushed again when its hook repeats it, so `OnePushPerKey`
  speaks of keys that are retained; `PushedOnce` has this as its hypothesis. The push history
  saturates at 2.
* `watch_local`: 2 polling tasks at once, 2 events, 2 sessions: an old task that was
  cancelled and its successor, or a loop and a push. Two relays, so that the report of
  one cancels the probe of the other, which may be unhealthy, and so that one takes the
  other's place. State constraints in `MCWatchClient` keep this finite:
  - the second relay issues no session, and is met only before the first pairing
    (`OneRelayOnceInUse`): what a change of relay does to a paired watch is described
    below, and here would only refute `SessionIsKept`;
  - at most one timer outlives its alert, and while it does discovery is quiet and no
    push is answered (`OldTimerAlone`): one such timer is what it takes to forget the
    newer alert's, and the loop brings the events;
  - discovery reports nothing once the watch was paired a second time
    (`DiscoveryInFirstSession`), and a cancelled probe's answer comes before the first
    pairing (`LateBeforePairing`): what was reported, and whose probe was cut short, does
    not depend on which session it is, and deactivations, resets and failed submissions
    come after the first pairing as before it.
  The theorems have none of these bounds.
* `watch_polling`: 1 relay, 1 event, 2 sessions, no timer that outlives its alert
  (`NoOldTimer`), no report in the second session (`ReportsInFirstSession`; a probe of an
  earlier one may still answer in it and start polling) and cancelled probes' answers before
  the first pairing (`LateBeforePairing`). None of these is assumed to come, and the display
  enables no poll, so that a behaviour which is cut off here has a sister that stays within
  the bound.
* `mac_hooks`: one relay and one installation, since hook files do not depend on them;
  Claude's file has what older versions left beside a command of the user's, alone or in
  one entry, Codex's is missing or has a command; the user adds one command per file, in
  an entry of its own or in the last one, so that entries are shared and emptied. A hook
  file is edited in user scope only. A command's reading of a hook file and its rename
  are one step, so an edit falls between steps: the window inside one, in which the code
  would overwrite the edit, is outside of `ForeignHooksSurvive`.
* `mac_tokens`: two relays and three installations, so that a token can be unknown, of
  another relay, or replaced; one agent without a file, since tokens do not depend on
  it. `Connected` does not count an install next to which a hook asks for its producer
  token: the hook writes the file when it likes, and a token of an older installation
  may stay until the next install. Restoring a backup is enabled here because the
  property does not depend on it, and left out of `mac_hooks`, where it is the disagreement.
* Symmetry is used only in runs without liveness.

### Fairness

Only `watch_polling` assumes any: the main actor runs a task that can run, sleeps
and requests end (`URLSession` has a timeout of five seconds), and a request made
again and again is answered at last. Nothing is assumed of the user, of hooks, of
discovery or of pushes; the property speaks of a watch that stays open.

### Disagreements

* `relay_vs_delete`: an event that was authenticated before a deletion is appended
  after the channel's events were removed, and stays; the README says the deletion
  removes event records and all tokens. Without events among the kinds of requests the
  same property fails because a pairing request that overlaps the deletion creates
  the channel again, and its code pairs a watch with an installation that is gone.
* `watch_reopened`: the end of an old HTTPS poll forgets the task of a newer local
  loop, which then goes on polling while the app is inactive.
* `uninstall_restore`: the latest backup of Claude's settings was made by an install
  that found Taphaptic's hooks there already; `--restore-claude-settings` brings them
  back after the wrapper was removed.

Some behaviours weaken what could be promised, and no document speaks of them. The models
have them, and the properties name them:

* Discovery (`RelayIsFound`). The report of one URL cancels the probe of another
  (`considerResolvedURL`), which still counts as reported: if the second is unhealthy, the
  app has no relay, and asks the first again only when it is reopened or the network was
  empty. The same is left of a URL whose place another took, when that one is dropped; and
  a failed health check of a submission drops whatever URL is there by then
  (`cloudBaseURL = nil` after the `await`). `displaced` records the URLs this happens to:
  without that part TLC finds the property violated in `watch_local`. With one URL it
  cannot happen, which is the theorem `LoneRelayIsUsed`.
* Timers (`ShownToTheEnd`). A timer that wakes under a newer alert sets `pendingResetTask`
  to nil, so that nothing can cancel the newer alert's timer; nor can anything cancel one
  that has woken already. When the pairing is then
  reset or lost and a new session shows the same event, the old timer finds the ID it
  expects and ends the alert early. The property excepts exactly that timer; without the
  exception TLC finds it violated in `watch_local`.
* Patching (`HooksHaveWrapper`). `patch-settings` and `patch-codex-hooks` do not look for
  the wrapper, and `scripts/patch-claude-settings.sh` runs the first from the repository: before
  an install or after an uninstall it leaves hooks that run nothing, and says nothing.
  `bare` records the files this happened to, until their hooks are removed or the wrapper
  is installed; what installs and uninstalls leave is not excused by it.

One more behaviour of `WatchClient` has no run, because the documents only plan to change
it ("Keep Bonjour discovery under a clearly separated local/self-hosted mode"): discovery
replaces the relay of a paired watch by any healthy one, also that of a build with a
hosted URL. The session is then sent to a relay that did not issue it, and its 401
ends a session that its own relay still honours: with a second relay TLC finds
`SessionIsKept` violated. In the run the second relay is met only before the first pairing
(`OneRelayOnceInUse`), and the theorem of that property has one relay.

## Proofs

`EventStoreProofs` proves, for all sets of channels and keys, every capacity, every
set of clock readings and every bound on IDs (the assumptions are the named ones of
`EventStore` only):

| Theorem | States |
| --- | --- |
| `TypeCorrect` | `Spec => []TypeOK` |
| `IdsStayBelowNext` | `[]IdsBelowNext` |
| `KeysAreUnique` | `[]UniqueKeys` |
| `RestartReadsBack` | `[]MemoryIsDurable` |
| `NothingIsTakenBack` | `[]SeenIsCommitted` |
| `PollingLosesNothing` | `[]CursorNeverSkips` |
| `AcknowledgedEventsAreKept` | `[]AckedIsRetained` |
| `StoreImplementsLog` | `ImplementsEventLog` |

None of these is inductive alone. A failed write restores `saved`, so `saved` must
satisfy what memory does, and equal the file; a call that is about to return will
add its event to `acked`, so that event must be in the file already; a cursor stays
below the next ID because every event sent was in the file. The invariant `IInv` collects these
facts in named parts (types, bounds of the file and of memory, what a running call
has saved, retention, uniqueness), each preserved by every action; the theorems
follow from it. `AckedIsRetained` needs an argument about cardinalities: an
event evicted from a set is older than `MaxEvents` events of it, all of which were
committed. Refinement adds that a step of `EventStore` changes the file only in
`Persist`, where it is the `Append` or the `Remove` of the call that is running.

`WatchPairingsProofs` proves, for all sets of installations and hashes, every lifetime of
a code and every limit of attempts above zero:

| Theorem | States |
| --- | --- |
| `TypeCorrect` | `Spec => []TypeOK` |
| `CodesAreSingleUse` | `[]SingleUse` |
| `LatestCodeIsGranted` | `[]OnlyLatestIsGranted` |
| `OneActiveCode` | `[]OneActivePerInstallation` |
| `ActiveCodesAreClaimable` | `[]ActiveIsClaimable` |
| `CodesAreDurable` | `[]MemoryIsDurable` |

A code is granted when its call returns, two steps after `Claim` chose it, so
`SingleUse` needs that no code which was granted is unclaimed anywhere a later `Claim`
or a restart could find it. `IInv` says so of memory and of the file alike (`Sound`:
one code per time of creation, one unclaimed code per installation, newer than every
other with its hash), that an unclaimed code of the file is the one its installation was
given last (`FileIsLatest`), that memory goes back to the file when a write fails
(`MemoryFollowsFile`), and that a code which is being claimed is claimed in memory and
not yet granted (`OneCall`). `Sound` has lemmas of its own: it is kept when codes are
dropped, when time passes, when a code is created and when one is claimed.

`RateLimiterProofs` proves, for all keys and callers, every limit and window, and every
bound on the wait for the mutex:

| Theorem | States |
| --- | --- |
| `TypeCorrect` | `Spec => []TypeOK` |
| `BurstsAreBounded` | `[]AtMostTwiceTheLimit` |
| `RefusalsAreDue` | `DeniedOnlyOverLimit` |

Its invariant places the history relative to the current window (`Follow`): the last
`count` requests came in it, those before came before it, and all but the last `Limit` of
those came a whole window before it. Opening a window shifts this by one window
(`NewWindow`), counting a request extends it (`SameWindow`); both are lemmas
about sequences of times, without the state of the limiter.

`RelayProofs` proves, for all sets of installations, watches, push tokens and keys,
every size of the log, every number of IDs drawn, and any number of requests at a time:

| Theorem | States |
| --- | --- |
| `TypeCorrect` | `Spec => []TypeOK` |
| `IndexesAreExact` | `[]RestartChangesNothing` |
| `HooksAreScoped` | `[]HooksOpenTheirOwn`: a hook's producer token opens its installation's channel or none |
| `RevokedForGood` | `RevokedStaysRevoked` |
| `ChannelIsStable` | `ProducerTokenIsStable` |
| `OnlyDeadTokensAreForgotten` | `LateAnswerKeepsNewToken` |
| `PushedOnce` | `Spec /\ NothingIsForgotten => []OnePushPerKey` |

The channel store's part of the invariant is `Sound`, in `ChannelStoreProofs`: numbers of
channels and tokens are at most `drawn`, every token and every installation names one
channel, and each index is exactly the inverse of the field it indexes. Every call keeps
it because it enters only a number drawn just then. From it follow that the indexes are
those of a restart, and that a token which opens nothing opens nothing later. A handler
looks something up in one step and uses it in a later one, so `IInv` says of every request
in flight what it holds at its stage (`Ready`): the token it forgets is one that APNs
rejects, the number it answers with is a channel of its installation or of none
any more. No other handler's step may take that back; `Grows` names what steps only add
to, and one lemma (`OneRequestMoves`) covers the requests that do not move.

`PushedOnce` has an invariant of its own, `PushInv`: every event that was pushed is in the
log, a request that delivers an event is the only one that does, and no watch still in its
queue was sent it. It is kept as long as no event leaves the log, which
`NothingIsForgotten` assumes. Without it the property is false: an event that retention
evicted and whose hook repeats it is pushed again, which is what the code does.

`RelayDeletionProofs` assumes that requests are served one at a time
(`OneAtATime == \A g, h \in Handler : g = h`), with failing stores and crashes between any
two calls, and every other constant free:

| Theorem | States |
| --- | --- |
| `DeletionCanBeRepeated` | `[]NothingIsStranded` |
| `DeletionIsComplete` | `[]DeletedRecordsAreGone` |
| `DeletionRevokes` | `[]DeletedTokensAreRevoked` |

The hypothesis is the boundary of what the code keeps: with a request that overlaps the deletion
either of the last two can fail (`relay_vs_delete`). `SerialInv` adds to `IInv` that the owner of
every record exists (`OwnersExist`), that what is deleted is not there, and
how far the one request is (`Served`): a deletion has left nothing of its installation in the
stores it has been through. That an event cannot outlive its channel needs what
`Without` returns for a log of any length, which is proved from its recursive definition
by taking the least length at which it would fail (`WithoutFilters`).

`WatchClientProofs` proves, for any number of polls, sessions and events:

| Theorem | States | Assumes |
| --- | --- | --- |
| `TypeCorrect` | `Spec => []TypeOK` | - |
| `NoEventIsAlertedTwice` | `[]AlertedOnce` | - |
| `ReportedRelayIsUsed` | `[]RelayIsFound` | - |
| `LoneRelayIsUsed` | `[]LoneRelayIsFound`: a reported URL is the base, is being probed, or was not healthy when last asked | one relay |
| `AlertsAreShownToTheEnd` | `ShownToTheEnd` | - |
| `CursorHidesNothing` | `[]NothingIsHidden` | one relay |
| `SessionsAreKept` | `SessionIsKept` | one relay |
| `ClosedAppAsksNothing` | `PollsOnlyWhileActive` | no hosted relay (`Https = {}`) |

Without an assumption a theorem is for any set of relays. Those that are there mark where
the code stops keeping the promise: the report of a second URL cancels the probe of the first, a 401 of a relay that did not issue the session ends it,
a cursor is taken from one relay to the next, and a hosted relay's poll clears the task of a
newer loop (`watch_reopened`). `IInv` says that the session a claim brings is not
in use yet (`SessionsAreFresh`), that an alerted event was alerted once and
is passed by the cursor of the session in use (`AlertsArePassed`), and that what discovery
reported is accounted for (`RelayIsFound`, which is inductive). `LoneRelayIsUsed` adds that nothing is
displaced where there is one URL. The last three theorems add parts of their own: the cursor has passed only
what was applied and every poll of the session starts at or below it (`CursorIsApplied`); a
session that was refused stays refused (`RefusedForGood`); a loop that was not cancelled is
the one `pollTask` names (`LoopIsHeld`).

`TaphapticCtlProofs` proves, for any set of relays, any number of installations, hook files
of any length and any mixture of commands, hooks, edits and losses (the assumptions are the
named ones of `TaphapticCtl` and `HookConfig`; of the agents a command is given it takes only
that there is one, as `parseProviders` makes sure):

| Theorem | States |
| --- | --- |
| `InstallsConnect` | `[]Connected` |
| `DeletionKeepsItsToken` | `TokenOutlivesInstallation` |
| `TypesHold` | `[]TypeOK` |
| `HandlersRunOnce` | `[]OneHandlerPerAction`, if the files have no handler of Taphaptic's twice to begin with |
| `UserHandlersSurvive` | `[]ForeignHooksSurvive`, without `--restore-claude-settings` |
| `WrapperStays` | `[]HooksHaveWrapper`, without `--restore-claude-settings` |

The first two are about steps that were read at one time and written at another. `IInv` says
that no token file, command or hook holds the number of an installation that was not created
yet (`Numbers`, `CommandIsSound`, `HookIsSound`), so that an installation a relay creates next
to a deletion is never the deleted one; that a deletion about to remove its first file was
granted (`Granted`); and what an install has already written, while no hook next to it has
asked for a producer token (`Agreement`).

The others are about hook files. Their hypotheses are needed: a file that has a handler twice
keeps it twice, since an install does not look for second copies in Codex's file, and a
restored backup brings back what was removed (`uninstall_restore`) and loses what was added since. The proof goes in
three parts:

* What `FlattenSeq` returns when a sequence is appended (`FlattenAppend`), from the recursive
  function it is defined by: a function that satisfies the equations exists (`SumsExist`) and
  is the only one (`SumsUnique`). A statement about all sequences is then shown of a set that
  has the empty sequence and is closed under `Append` (`SequencesByAppend`), which stands for
  the induction.
* What an edit keeps of an event's entries (`Keeps`): the user's handlers in their order, and
  each of Taphaptic's once if it was. It is shown of removing and pruning (`WithoutKeeps`), of
  installing a command (`AddCommandKeeps`), and so of merging and cleaning a whole file
  (`MergeClaudeKeeps`, `MergeCodexKeeps`, `RemoveKeeps`). The two facts the rest hangs on are
  that removing handlers from the entries, and then the entries left empty, is removing them
  from the handlers in the order they run (`FlattenWithout`), and that a command is found in
  some entry exactly when it is one of these handlers (`HasFlatten`).
* Every step rewrites a file by such an edit, or is the user's edit, or restores the backup
  (`ConfigStep`). `SoundInv` has what this needs: the types of the files and of the backup, and
  that a command which edits files has an agent left (`AgentsAreSound`). `HandlersRunOnce` also
  needs the backup to be free of copies (`EachOnce`). `WrapperStays` needs the order of the
  steps (`WrapperOutlivesHooks`): an install past its first step has its wrapper; an uninstall
  cleans Claude's file, then Codex's, and has warned, or left no hook but those that a patch
  command wrote without an install, when it removes the wrapper (`UninstallOrder`).

TLC checked these invariants on the instances of `mac_hooks` before they were proved.

Only model-checked:

* `DeletionIsFinal`, `PollsOnlyWhileActive` with a hosted relay and `HooksHaveWrapper`
  with a restored backup, which the runs refute;
* `WatchCatchesUp`, as all liveness under fairness, which is outside of what the prover handles.

## Not modelled

* Input validation, JSON and the texts of notifications.
* `TouchToken`'s time stamp, which nothing reads; `RotatePhoneSession`, which
  nothing calls.
* An event's payload and its deduplication key: which fields the agents send is not in
  the repository, and the key is a value in `EventStore` and `Relay`.
* Of the command line tool: hooks in project scope, code signing, `health` and
  `smoke-local-e2e`, the environment's overrides of URL and token, and keys of a hook file
  beside its hooks. Of its files, only whole ones are seen: hook files, tokens and the URL
  are written by a rename; the tool and the backups are copied in place (`copyFile`), and a
  copy that was cut short is left out.
* What a second installation leaves behind when the answer to a restore is lost
  (`createOrRestoreInstallation`): the first stays on its relay. `TaphapticCtl` has the
  step; no document says what should become of it.
* Power loss between a write and its rename: the stores do not sync the
  file, and a crash here is the end of the process, not of the machine.
* The inside of Bonjour, `URLSession`, Keychain and notification delivery.
* The screens, the packaging, the scripts other than the uninstaller, which run one
  command after the other; the legacy installer.

## Plan

1. `WatchPolicy`: the shared event policy against the app's own `applyEvent`.
2. `ResetAndPair`: a watch's reset and new pairing over `Relay`'s steps: its withdrawn
   registration, the lost answer, pushes after a reset.
3. `ApnsToken`: the cached token, with a clock that may step.
