---------------------------- MODULE TaphapticCtl ----------------------------
(***************************************************************************)
(* The Mac's side of Taphaptic: the commands of cmd/taphapticctl/main.go,  *)
(* scripts/uninstall.sh, and the hooks that the agents run meanwhile.      *)
(*                                                                         *)
(* A command is a sequence of steps on files and of requests to a relay.   *)
(* An error or a kill ends it between two steps, and nothing is rolled     *)
(* back.  The hook files, the URL and the tokens are each written by a     *)
(* rename; the tool and the backups are copied in place (copyFile), and a  *)
(* copy that was cut short is not modelled.  The user runs one command at  *)
(* a time; a hook may be in flight next to it.  A relay is the set of      *)
(* installations it knows (module Relay has its inside): installation n    *)
(* has the installation token n and the producer token n.                  *)
(*                                                                         *)
(* An operator with an underscore in its name is a wrong variant of the    *)
(* one before the underscore, kept to show which property notices.         *)
(***************************************************************************)
EXTENDS HookConfig

CONSTANTS
    Relay,            \* base URLs
    Default,          \* the local relay, whose state uninstall.sh removes
    InitialHooks,     \* per agent, what may be in its hook file before
    Kinds,            \* what happens in this model: commands, hooks, edits, losses
    Selections,       \* the agents the user connects or disconnects, in order
    Edited,           \* events whose hooks the user edits
    Settings,         \* options of uninstall.sh: {} or {"restore"}
    MaxDrawn,         \* model bound: installations created
    None

File == [readable : BOOLEAN, hooks : Hooks]

ASSUME DefaultAssumption == Default \in Relay /\ None \notin Relay
ASSUME MaxDrawnAssumption == MaxDrawn \in Nat \ {0}
ASSUME NoneAssumption == None \notin File

VARIABLES
    url,       \* the file api-base-url, or None
    token,     \* the token files, 0 where there is none
    installed, \* the tool and the hook wrapper are in InstallRoot/bin
    config,    \* per agent, its user-scope hook file, or None
    backup,    \* the latest backup of Claude's settings, or None
    cmd,       \* the command that runs
    hook,      \* the hook in flight
    known,     \* per relay, the installations of this Mac it knows
    drawn,     \* how many installations were created
    \* History.
    mine,      \* per agent, the commands the user has in its hook file
    settled,   \* whether the last command was an install that succeeded
    warned,    \* uninstall.sh has warned, since the last install, that it could
               \* not remove hook entries
    bare       \* the agents whose hooks a patch command wrote where there was no
               \* wrapper

files == <<url, token, installed>>
configs == <<config, backup, mine>>
relays == <<known, drawn>>
excuses == <<warned, bare>>
history == <<settled, excuses>>
vars == <<files, configs, cmd, hook, relays, history>>

Agent == {"claude", "codex"}
ASSUME SelectionsAssumption == Selections \subseteq Seq(Agent) \ {<<>>}
ASSUME InitialHooksAssumption == \A p \in Agent : InitialHooks[p] \subseteq Hooks
ASSUME EditedAssumption == Edited \subseteq Event

TokenFile == {"installation", "id", "producer", "legacy"}
NoTokens == [f \in TokenFile |-> 0]
DeletedFiles == <<"installation", "id", "producer", "legacy">>

Idle == [name |-> "none", at |-> "idle", relay |-> None, agents |-> <<>>,
         notify |-> TRUE, token |-> 0, left |-> <<>>]
NoHook == [at |-> "idle", relay |-> None, token |-> 0]

\* The commands in an event's entries that Taphaptic has nothing to do with.
Foreign(entries) == Kept(FlattenSeq(entries), Legacy)

HooksIn(p) == IF config[p] = None THEN NoHooks ELSE config[p].hooks

TypeOK ==
    /\ url \in Relay \union {None}
    /\ token \in [TokenFile -> 0..MaxDrawn]
    /\ installed \in BOOLEAN
    /\ config \in [Agent -> File \union {None}] /\ backup \in File \union {None}
    /\ cmd.name \in {"none", "install", "delete", "patch", "unpatch", "uninstall"}
    /\ cmd.name = "none" <=> cmd = Idle
    /\ cmd.token \in 0..MaxDrawn /\ hook.token \in 0..MaxDrawn
    /\ hook.at \in {"idle", "read", "resolve", "save"}
    /\ known \in [Relay -> SUBSET (1..drawn)] /\ drawn \in 0..MaxDrawn
    /\ bare \subseteq Agent
    /\ \A q, r \in Relay : q # r => known[q] \intersect known[r] = {}

\* A Mac without Taphaptic, or one where an older version connected Claude:
\* it stored the producer's token as claude-session-token.
Init ==
    /\ \E h \in [Agent -> UNION {InitialHooks[p] : p \in Agent}] :
         /\ \A p \in Agent : h[p] \in InitialHooks[p]
         /\ config = [p \in Agent |->
               IF h[p] = NoHooks THEN None ELSE [readable |-> TRUE, hooks |-> h[p]]]
         /\ mine = [p \in Agent |-> [e \in Event |-> Foreign(h[p][e])]]
    /\ backup = None
    /\ cmd = Idle /\ hook = NoHook
    /\ \/ /\ url = None /\ token = NoTokens /\ installed = FALSE
          /\ known = [r \in Relay |-> {}] /\ drawn = 0
       \/ /\ url = Default /\ installed = TRUE
          /\ token = [NoTokens EXCEPT !["installation"] = 1, !["id"] = 1, !["legacy"] = 1]
          /\ known = [r \in Relay |-> IF r = Default THEN {1} ELSE {}] /\ drawn = 1
    /\ \A p \in Agent, e \in Event : ~installed =>
          removeTaphapticEntries(HooksIn(p)[e]) = HooksIn(p)[e]
    /\ settled = "no" /\ warned = FALSE /\ bare = {}
-----------------------------------------------------------------------------
(***************************************************************************)
(* Commands begin, fail and end.                                           *)
(***************************************************************************)
Begin(c) ==
    /\ cmd = Idle /\ c.name \in Kinds
    /\ cmd' = c
    /\ settled' = IF c.name = "install" /\ hook.at \in {"idle", "read"}
                  THEN "installing" ELSE "no"
    /\ UNCHANGED <<files, configs, hook, relays, excuses>>

GoTo(at) == cmd' = [cmd EXCEPT !.at = at]
End == cmd' = Idle

\* What follows a part of uninstall.sh, whether it succeeded or not.
Finish(next) ==
    IF cmd.name = "uninstall" THEN cmd' = [cmd EXCEPT !.at = next, !.left = <<>>] ELSE End

\* An error or a kill: what was done stays done.
Abort ==
    /\ cmd # Idle /\ End
    /\ settled' = "no"
    /\ UNCHANGED <<files, configs, hook, relays, excuses>>

\* The relay to ask: the stored one, or the default.
Configured == IF url = None THEN Default ELSE url

\* POST /v1/installations: a token the relay knows restores its installation,
\* any other creates one.
Registers(r, bearer, n) ==
    IF bearer \in known[r]
    THEN n = bearer /\ UNCHANGED relays
    ELSE /\ drawn < MaxDrawn /\ n = drawn + 1 /\ drawn' = n
         /\ known' = [known EXCEPT ![r] = @ \union {n}]
-----------------------------------------------------------------------------
(***************************************************************************)
(* install-consumer: the wrapper and the URL, the hook files, the tokens,  *)
(* a pairing code.                                                         *)
(***************************************************************************)
InstallConsumer == \E r \in Relay, a \in Selections :
    Begin([Idle EXCEPT !.name = "install", !.at = "wrapper", !.relay = r, !.agents = a])

InstallHookWrapper ==
    /\ cmd.at = "wrapper"
    /\ installed' = TRUE /\ warned' = FALSE /\ bare' = {}
    /\ GoTo("url")
    /\ UNCHANGED <<url, token, configs, hook, relays, settled>>

WriteBaseURL ==
    /\ cmd.at = "url"
    /\ url' = cmd.relay
    /\ GoTo("backup")
    /\ UNCHANGED <<token, installed, configs, hook, relays, history>>

\* Only Claude's latest backup is ever read, by uninstall.sh --restore-claude-settings,
\* and it is recorded only in a model that has this option.
BackupFile ==
    /\ cmd.at = "backup"
    /\ backup' = IF /\ "restore" \in Settings /\ Head(cmd.agents) = "claude"
                    /\ config["claude"] # None
                 THEN config["claude"] ELSE backup
    /\ GoTo("patch")
    /\ UNCHANGED <<files, config, mine, hook, relays, history>>

Readable(p) == IF config[p] = None THEN TRUE ELSE config[p].readable

\* A file that cannot be parsed is left alone and ends the command.  Reading the
\* file, without a lock, and replacing it are one step.
PatchHooks ==
    LET p == Head(cmd.agents)
        hooks == IF p = "claude" THEN mergeClaudeHooks(HooksIn(p), cmd.notify)
                 ELSE mergeCodexHooks(HooksIn(p))
    IN  /\ cmd.at = "patch" /\ Readable(p)
        /\ config' = [config EXCEPT ![p] = [readable |-> TRUE, hooks |-> hooks]]
        /\ IF Len(cmd.agents) > 1
           THEN cmd' = [cmd EXCEPT !.at = "backup", !.agents = Tail(@)]
           ELSE IF cmd.name = "install" THEN cmd' = [cmd EXCEPT !.at = "restore", !.agents = <<>>]
           ELSE End
        /\ bare' = IF cmd.name = "patch" /\ ~installed THEN bare \union {p} ELSE bare
        /\ UNCHANGED <<files, backup, mine, hook, relays, settled, warned>>

\* createOrRestoreInstallation: whatever went wrong with the stored token, and
\* also when only the answer was lost, a new installation is created.
RestoreInstallation ==
    /\ cmd.at = "restore"
    /\ \/ token["installation"] = 0 /\ GoTo("create") /\ UNCHANGED relays
       \/ /\ token["installation"] # 0
          /\ \/ GoTo("create") /\ UNCHANGED relays
             \/ \E n \in 1..MaxDrawn :
                  /\ Registers(cmd.relay, token["installation"], n)
                  /\ \/ cmd' = [cmd EXCEPT !.at = "installation", !.token = n]
                     \/ GoTo("create")
    /\ UNCHANGED <<files, configs, hook, history>>

CreateInstallation ==
    /\ cmd.at = "create"
    /\ \E n \in 1..MaxDrawn :
         /\ Registers(cmd.relay, 0, n)
         /\ \/ cmd' = [cmd EXCEPT !.at = "installation", !.token = n]
            \/ End
    /\ settled' = IF cmd' = Idle THEN "no" ELSE settled
    /\ UNCHANGED <<files, configs, hook, excuses>>

SaveTokens_KeepsProducer ==
    /\ cmd.at \in {"installation", "id", "producer"}
    /\ token' = [token EXCEPT ![cmd.at] =
                    IF cmd.at = "producer" /\ @ # 0 THEN @ ELSE cmd.token]
    /\ GoTo(CASE cmd.at = "installation" -> "id" [] cmd.at = "id" -> "producer"
              [] OTHER -> "code")
    /\ UNCHANGED <<url, installed, configs, hook, relays, settled, excuses>>

\* The three token files, one after the other.
SaveTokens ==
    /\ cmd.at \in {"installation", "id", "producer"}
    /\ token' = [token EXCEPT ![cmd.at] = cmd.token]
    /\ GoTo(CASE cmd.at = "installation" -> "id" [] cmd.at = "id" -> "producer"
              [] OTHER -> "code")
    /\ UNCHANGED <<url, installed, configs, hook, relays, settled, excuses>>

CreatePairingCode ==
    /\ cmd.at = "code" /\ cmd.token \in known[cmd.relay]
    /\ End
    /\ settled' = IF settled = "installing" THEN "yes" ELSE "no"
    /\ UNCHANGED <<files, configs, hook, relays, excuses>>
-----------------------------------------------------------------------------
(***************************************************************************)
(* patch-settings, patch-codex-hooks and remove-hooks, which the user runs *)
(* on their own.  None looks for the wrapper: run from the repository      *)
(* (scripts/patch-claude-settings.sh) they work before any install.        *)
(***************************************************************************)
PatchSettings == \E notify \in BOOLEAN :
    Begin([Idle EXCEPT !.name = "patch", !.at = "patch", !.agents = <<"claude">>,
                       !.notify = notify])

PatchCodexHooks ==
    Begin([Idle EXCEPT !.name = "patch", !.at = "backup", !.agents = <<"codex">>])

RemoveHooks == \E a \in Selections :
    Begin([Idle EXCEPT !.name = "unpatch", !.at = "unpatch", !.agents = a])

RemoveHooksAtPath_First ==
    LET p == Head(cmd.agents)
    IN  /\ cmd.at = "unpatch" /\ Readable(p)
        /\ config' = [config EXCEPT ![p] = IF @ = None THEN None ELSE
                         [readable |-> TRUE, hooks |-> removeTaphapticHooks(HooksIn(p))]]
        /\ bare' = bare \ {p}
        /\ Finish("files")
        /\ UNCHANGED <<files, backup, mine, hook, relays, settled, warned>>

\* One agent's file after the other.
RemoveHooksAtPath ==
    LET p == Head(cmd.agents)
    IN  /\ cmd.at = "unpatch" /\ Readable(p)
        /\ config' = [config EXCEPT ![p] = IF @ = None THEN None ELSE
                         [readable |-> TRUE, hooks |-> removeTaphapticHooks(HooksIn(p))]]
        /\ IF Len(cmd.agents) > 1 THEN cmd' = [cmd EXCEPT !.agents = Tail(@)]
           ELSE Finish("files")
        /\ bare' = bare \ {p}
        /\ UNCHANGED <<files, backup, mine, hook, relays, settled, warned>>

\* The first file that cannot be parsed or written ends the command; uninstall.sh
\* warns and goes on.
RemoveHooksFails ==
    /\ cmd.name = "uninstall" /\ cmd.at = "unpatch"
    /\ warned' = TRUE
    /\ Finish("files")
    /\ UNCHANGED <<files, configs, hook, relays, settled, bare>>
-----------------------------------------------------------------------------
(***************************************************************************)
(* delete-installation: 204, or 401 for a token the relay does not know,   *)
(* and only then the local tokens are removed, one file after the other.   *)
(***************************************************************************)
DeleteInstallation == Begin([Idle EXCEPT !.name = "delete", !.at = "ask"])

NothingToDelete ==
    /\ cmd.at = "ask" /\ token["installation"] = 0
    /\ Finish("unpatch")
    /\ UNCHANGED <<files, configs, hook, relays, history>>

Forgets(r, n) == known' = [known EXCEPT ![r] = @ \ {n}]

AskDeletion_AnyAnswer ==
    /\ cmd.at = "ask" /\ token["installation"] # 0
    /\ \/ Forgets(Configured, token["installation"])
       \/ UNCHANGED known
    /\ cmd' = [cmd EXCEPT !.at = "drop", !.left = DeletedFiles]
    /\ UNCHANGED <<files, configs, hook, drawn, history>>

\* The relay forgets the installation, if it knows it, and the answer arrives or
\* is lost; or the request never reaches it.
AskDeletion ==
    /\ cmd.at = "ask" /\ token["installation"] # 0
    /\ \/ /\ Forgets(Configured, token["installation"])
          /\ \/ cmd' = [cmd EXCEPT !.at = "drop", !.left = DeletedFiles]
             \/ Finish("unpatch")
       \/ Finish("unpatch") /\ UNCHANGED known
    /\ UNCHANGED <<files, configs, hook, drawn, history>>

\* A file that cannot be removed ends the command, and uninstall.sh goes on.
DropToken ==
    /\ cmd.at = "drop"
    /\ \/ /\ token' = [token EXCEPT ![Head(cmd.left)] = 0]
          /\ IF Len(cmd.left) > 1 THEN cmd' = [cmd EXCEPT !.left = Tail(@)]
             ELSE Finish("unpatch")
       \/ UNCHANGED token /\ Finish("unpatch")
    /\ UNCHANGED <<url, installed, configs, hook, relays, history>>
-----------------------------------------------------------------------------
(***************************************************************************)
(* scripts/uninstall.sh                                                    *)
(***************************************************************************)
\* Where the tool is not installed, deletion and hooks are skipped (which the script
\* says; warned is only about hooks that it tried to remove).
Uninstall ==
    Begin([Idle EXCEPT !.name = "uninstall", !.at = IF installed THEN "ask" ELSE "files",
                       !.agents = <<"claude", "codex">>])

RemoveRuntimeFiles ==
    /\ cmd.at = "files"
    /\ url' = None /\ token' = NoTokens /\ installed' = FALSE
    /\ GoTo("state")
    /\ UNCHANGED <<configs, hook, relays, history>>

\* The API is stopped and its state removed.
RemoveRelayState ==
    /\ cmd.at = "state"
    /\ known' = [known EXCEPT ![Default] = {}]
    /\ IF "restore" \in Settings THEN GoTo("settings") ELSE End
    /\ UNCHANGED <<files, configs, hook, drawn, history>>

\* --restore-claude-settings
RestoreSettings ==
    /\ cmd.at = "settings"
    /\ config' = IF backup = None THEN config ELSE [config EXCEPT !["claude"] = backup]
    /\ bare' = IF backup = None THEN bare ELSE bare \ {"claude"}
    /\ End
    /\ UNCHANGED <<files, backup, mine, hook, relays, settled, warned>>
-----------------------------------------------------------------------------
(***************************************************************************)
(* emit: an agent runs the wrapper.                                        *)
(***************************************************************************)
HasHooks(p) == \E e \in Event : \E n \in DOMAIN HooksIn(p)[e] :
    \E m \in DOMAIN HooksIn(p)[e][n] : IsTaphaptic(HooksIn(p)[e][n][m])

BeginEmit ==
    /\ hook = NoHook /\ "emit" \in Kinds
    /\ installed /\ \E p \in Agent : Readable(p) /\ HasHooks(p)
    /\ hook' = [hook EXCEPT !.at = "read", !.relay = Configured]
    /\ UNCHANGED <<files, configs, cmd, relays, history>>

\* With a producer token, old or new, the event is posted, once, and its
\* answer ignored (Relay's BeginEvent); without one, but with an installation
\* token, the producer token is asked for first.
ReadTokens ==
    /\ hook.at = "read"
    /\ IF token["producer"] = 0 /\ token["legacy"] = 0 /\ token["installation"] # 0
       THEN /\ hook' = [hook EXCEPT !.at = "resolve", !.token = token["installation"]]
            /\ settled' = "no"
       ELSE /\ hook' = NoHook
            /\ UNCHANGED settled
    /\ UNCHANGED <<files, configs, cmd, relays, excuses>>

ResolveProducer ==
    /\ hook.at = "resolve"
    /\ \/ hook' = NoHook /\ UNCHANGED relays
       \/ \E n \in 1..MaxDrawn :
            /\ Registers(hook.relay, hook.token, n)
            /\ \/ hook' = [hook EXCEPT !.at = "save", !.token = n]
               \/ hook' = NoHook
    /\ UNCHANGED <<files, configs, cmd, history>>

\* Only the producer token of the answer is kept, and the event is posted.
SaveProducer ==
    /\ hook.at = "save"
    /\ \/ token' = [token EXCEPT !["producer"] = hook.token]
       \/ UNCHANGED token
    /\ hook' = NoHook
    /\ UNCHANGED <<url, installed, configs, cmd, relays, history>>
-----------------------------------------------------------------------------
(***************************************************************************)
(* The user edits a hook file; a relay loses its data.                     *)
(***************************************************************************)
Added == Runs("other", "added")
ASSUME AddedAssumption == "added" \in Action

\* A handler in an entry of its own or in the last entry there is.  (Model
\* bound: one per file.)
UserAdds(p, e) ==
    /\ "edit" \in Kinds
    /\ Readable(p) /\ \A f \in Event : Added \notin ToSet(mine[p][f])
    /\ LET entries == HooksIn(p)[e]
           last == Len(entries)
       IN  \E changed \in {Append(entries, <<Added>>)} \union
                          (IF last = 0 THEN {}
                           ELSE {[entries EXCEPT ![last] = Append(@, Added)]}) :
             config' = [config EXCEPT ![p] =
                           [readable |-> TRUE, hooks |-> [HooksIn(p) EXCEPT ![e] = changed]]]
    /\ mine' = [mine EXCEPT ![p][e] = Append(@, Added)]
    /\ UNCHANGED <<files, backup, cmd, hook, relays, history>>

\* The file stops being JSON, or is again.
UserSlips(p) ==
    /\ "edit" \in Kinds /\ config[p] # None
    /\ config' = [config EXCEPT ![p].readable = ~@]
    /\ UNCHANGED <<files, backup, mine, cmd, hook, relays, history>>

RelayLosesData(r) ==
    /\ "lose" \in Kinds /\ known[r] # {}
    /\ known' = [known EXCEPT ![r] = {}]
    /\ settled' = "no"
    /\ UNCHANGED <<files, configs, cmd, hook, drawn, excuses>>

Command ==
    \/ InstallConsumer \/ PatchSettings \/ PatchCodexHooks \/ RemoveHooks
    \/ DeleteInstallation \/ Uninstall

Step ==
    \/ InstallHookWrapper \/ WriteBaseURL \/ BackupFile \/ PatchHooks
    \/ RestoreInstallation \/ CreateInstallation \/ SaveTokens \/ CreatePairingCode
    \/ NothingToDelete \/ AskDeletion \/ DropToken
    \/ RemoveHooksAtPath \/ RemoveHooksFails
    \/ RemoveRuntimeFiles \/ RemoveRelayState \/ RestoreSettings

Emit == BeginEmit \/ ReadTokens \/ ResolveProducer \/ SaveProducer

Next ==
    \/ Command \/ Step \/ Abort \/ Emit
    \/ \E p \in Agent, e \in Edited : UserAdds(p, e)
    \/ \E p \in Agent : UserSlips(p)
    \/ \E r \in Relay : RelayLosesData(r)

Spec == Init /\ [][Next]_vars
-----------------------------------------------------------------------------
(***************************************************************************)
(* Properties.                                                             *)
(***************************************************************************)
\* Installing, patching, removing and uninstalling, in any order, with the
\* user's edits between two steps, keep every command of the user's, in its
\* order ("preserve every existing hook definition").  An edit between a
\* step's reading of the file and its rename is overwritten: not covered.
ForeignHooksSurvive ==
    \A p \in Agent, e \in Event : Foreign(HooksIn(p)[e]) = mine[p][e]

\* However often hooks are installed, and wherever the user moved them to, an
\* agent runs each of them once per event: a second copy would notify twice.
OneHandlerPerAction ==
    \A p \in Agent, e \in Event :
        LET handlers == FlattenSeq(HooksIn(p)[e])
        IN  \A n, m \in DOMAIN handlers :
              IsTaphaptic(handlers[n]) /\ handlers[n] = handlers[m] => n = m

\* Installing and uninstalling leave no agent with a hook that has no wrapper, in
\* whatever order files are written and wherever a command ends, unless
\* uninstall.sh has warned that it could not remove hooks.  What is excused, and
\* only in the file it wrote, is a patch command that ran without an install:
\* it says nothing.
HooksHaveWrapper ==
    \A p \in Agent : HasHooks(p) => installed \/ warned \/ p \in bare

\* An install that succeeds leaves files that agree: the stored relay knows
\* the installation, and what hooks send goes to the channel that its
\* pairing code opens.  So it repairs whatever failed before, and later hooks
\* do not disturb it.  (An install next to which a hook asks for its
\* producer token is not counted: see the README.)
Connected ==
    settled = "yes" =>
        /\ url # None /\ token["installation"] \in known[url]
        /\ token["producer"] = token["installation"]
        /\ token["id"] = token["installation"]

\* delete-installation gives up the token only once the relay it asks no longer
\* knows the installation: until then it can be repeated.
TokenOutlivesInstallation ==
    [][token["installation"] # 0 /\ token'["installation"] = 0 /\ cmd.at = "drop" =>
          token["installation"] \notin known[Configured]]_vars
=============================================================================
