------------------------- MODULE TaphapticCtlProofs -------------------------
(***************************************************************************)
(* Theorems about the token files and the hook files of TaphapticCtl, for  *)
(* any set of relays, any number of installations, any hook files to begin *)
(* with and any mixture of commands, hooks and edits.                      *)
(***************************************************************************)
EXTENDS TaphapticCtl, TLAPS, SequenceTheorems, WellFoundedInduction


InstallSteps == {"wrapper", "url", "backup", "patch", "restore", "create", "installation",
                 "id", "producer", "code"}

\* Where a command can be.
Place(name) ==
    CASE name = "none" -> {"idle"}
      [] name = "install" -> InstallSteps
      [] name = "patch" -> {"backup", "patch"}
      [] name = "unpatch" -> {"unpatch"}
      [] name = "delete" -> {"ask", "drop"}
      [] OTHER -> {"ask", "drop", "unpatch", "files", "state", "settings"}

Name == {"none", "install", "patch", "unpatch", "delete", "uninstall"}
Places == InstallSteps \union {"idle", "unpatch", "ask", "drop", "files", "state", "settings"}

\* The files a deletion has still to remove.
Left == {<<>>, DeletedFiles, <<"id", "producer", "legacy">>, <<"producer", "legacy">>, <<"legacy">>}

Cmd == [name : Name, at : Places, relay : Relay \union {None}, agents : Seq(Agent),
        notify : BOOLEAN, token : Nat, left : Left]

Hook == [at : {"idle", "read", "resolve", "save"}, relay : Relay \union {None}, token : Nat]

\* The URL, the relays, and the numbers of installations: none is of the future.
Numbers ==
    /\ url \in Relay \union {None}
    /\ drawn \in Nat /\ known \in [Relay -> SUBSET (1..drawn)]
    /\ token \in [TokenFile -> 0..drawn]

\* The command in progress is at one of its steps, and an install has its relay.
CommandIsSound ==
    /\ cmd \in Cmd /\ cmd.at \in Place(cmd.name) /\ cmd.token <= drawn
    /\ cmd.name = "none" => cmd = Idle
    /\ cmd.name = "install" => cmd.relay \in Relay
    /\ cmd.at = "drop" => cmd.left # <<>>

HookIsSound ==
    /\ hook \in Hook /\ hook.token <= drawn
    /\ hook.at # "idle" => hook.relay \in Relay

\* A deletion that starts to remove the files was granted.
Granted ==
    cmd.at = "drop" /\ cmd.left = DeletedFiles =>
        /\ token["installation"] # 0
        /\ token["installation"] \notin known[Configured]

\* What an install has written so far agrees with what it was told, and no hook
\* next to it has yet asked for a producer token.
Agreement ==
    /\ settled \in {"no", "installing", "yes"}
    /\ settled # "no" => hook.at \in {"idle", "read"}
    /\ settled = "yes" => cmd = Idle
    /\ settled = "installing" => cmd.name = "install"
    /\ cmd.name = "install" /\ cmd.at \notin {"wrapper", "url"} => url = cmd.relay
    /\ settled = "installing" =>
         /\ cmd.at \in {"id", "producer", "code"} => token["installation"] = cmd.token
         /\ cmd.at \in {"producer", "code"} => token["id"] = cmd.token
         /\ cmd.at = "code" => token["producer"] = cmd.token

IInv ==
    /\ Numbers
    /\ CommandIsSound
    /\ HookIsSound
    /\ Granted
    /\ Agreement
    /\ Connected
-----------------------------------------------------------------------------
(***************************************************************************)
(* What the steps make of the command.                                     *)
(***************************************************************************)
LEMMA IdleType == Idle \in Cmd
BY DEF Idle, Cmd, Name, Places, Left

\* c goes on at a as d, the same command to the same relay, with token n and files l.
Continues(c, d, a, n, l) ==
    /\ d \in Cmd /\ d.name = c.name /\ d.relay = c.relay
    /\ d.at = a /\ d.token = n /\ d.left = l

LEMMA AtType ==
  ASSUME NEW c \in Cmd, NEW a \in Places, NEW d, d = [c EXCEPT !.at = a]
  PROVE  Continues(c, d, a, c.token, c.left)
BY DEF Cmd, Continues

LEMMA TokenType ==
  ASSUME NEW c \in Cmd, NEW n \in Nat, NEW d, d = [c EXCEPT !.at = "installation", !.token = n]
  PROVE  Continues(c, d, "installation", n, c.left)
BY DEF Cmd, Continues, Places, InstallSteps

LEMMA LeftType ==
  ASSUME NEW c \in Cmd, NEW a \in Places, NEW l \in Left,
         NEW d, d = [c EXCEPT !.at = a, !.left = l]
  PROVE  Continues(c, d, a, c.token, l)
BY DEF Cmd, Continues

LEMMA NextLeftType ==
  ASSUME NEW c \in Cmd, NEW l \in Left, NEW d, d = [c EXCEPT !.left = l]
  PROVE  Continues(c, d, c.at, c.token, l)
BY DEF Cmd, Continues

LEMMA AgentsType ==
  ASSUME NEW c \in Cmd, NEW a \in Places, NEW s \in Seq(Agent),
         NEW d, d = [c EXCEPT !.at = a, !.agents = s]
  PROVE  Continues(c, d, a, c.token, c.left)
BY DEF Cmd, Continues

LEMMA NextAgentsType ==
  ASSUME NEW c \in Cmd, NEW s \in Seq(Agent), NEW d, d = [c EXCEPT !.agents = s]
  PROVE  Continues(c, d, c.at, c.token, c.left)
BY DEF Cmd, Continues

\* The files after the first.
LEMMA LeftTail ==
  ASSUME NEW l \in Left, Len(l) > 1
  PROVE  Tail(l) \in Left /\ Tail(l) # <<>> /\ Tail(l) # DeletedFiles
<1>1. CASE l = DeletedFiles
  <2>1. Tail(l) = <<"id", "producer", "legacy">>
    BY <1>1 DEF DeletedFiles
  <2>. QED BY <2>1 DEF Left, DeletedFiles
<1>2. CASE l = <<"id", "producer", "legacy">>
  <2>1. Tail(l) = <<"producer", "legacy">>
    BY <1>2
  <2>. QED BY <2>1 DEF Left, DeletedFiles
<1>3. CASE l = <<"producer", "legacy">>
  <2>1. Tail(l) = <<"legacy">>
    BY <1>3
  <2>. QED BY <2>1 DEF Left, DeletedFiles
<1>4. CASE l = <<>> \/ l = <<"legacy">>
  <2>1. Len(<<>>) = 0 /\ Len(<<"legacy">>) = 1
    OBVIOUS
  <2>2. Len(l) = 0 \/ Len(l) = 1
    BY <1>4, <2>1, Zenon
  <2>3. ~(0 > 1) /\ ~(1 > 1)
    OBVIOUS
  <2>. QED BY <2>2, <2>3, Zenon
<1>5. \/ l = <<>> \/ l = DeletedFiles \/ l = <<"id", "producer", "legacy">>
      \/ l = <<"producer", "legacy">> \/ l = <<"legacy">>
  BY Zenon DEF Left
<1>. QED BY <1>1, <1>2, <1>3, <1>4, <1>5, Zenon

LEMMA LeftHead ==
  ASSUME NEW l \in Left, l # <<>>, Head(l) = "installation"
  PROVE  l = DeletedFiles
BY DEF Left, DeletedFiles

\* The relay's answer: an installation it knows, and no other of the past.
LEMMA RegistersFacts ==
  ASSUME Numbers, NEW r \in Relay, NEW b, NEW n \in 1..MaxDrawn, Registers(r, b, n)
  PROVE  /\ drawn' \in Nat /\ drawn' >= drawn /\ known' \in [Relay -> SUBSET (1..drawn')]
         /\ n \in Nat /\ n <= drawn' /\ n \in known'[r]
         /\ \A q \in Relay : known[q] \subseteq known'[q]
         /\ \A q \in Relay : known'[q] \intersect (1..drawn) \subseteq known[q]
<1>1. CASE b \in known[r]
  BY <1>1 DEF Registers, relays, Numbers
<1>2. CASE b \notin known[r]
  <2>1. /\ n = drawn + 1 /\ drawn' = n
        /\ known' = [known EXCEPT ![r] = known[r] \union {n}]
    BY <1>2 DEF Registers
  <2>2. \A q \in Relay : known'[q] = IF q = r THEN known[q] \union {n} ELSE known[q]
    BY <2>1 DEF Numbers
  <2>3. \A q \in Relay : known'[q] \subseteq 1..drawn'
    BY <2>1, <2>2 DEF Numbers
  <2>. QED BY <2>1, <2>2, <2>3 DEF Numbers
<1>. QED BY <1>1, <1>2

\* A request that a hook or an install makes.
Asks == \E r \in Relay, b \in Nat, n \in 1..MaxDrawn : Registers(r, b, n)

\* The steps that reach a relay, and what the others leave alone.
LEMMA NumbersStep ==
  ASSUME Numbers, CommandIsSound, HookIsSound, Next
  PROVE  /\ Numbers' /\ drawn' >= drawn
         /\ \A r \in Relay : known'[r] \intersect (1..drawn) \subseteq known[r]
<1> DEFINE Goal == /\ Numbers' /\ drawn' >= drawn
                   /\ \A r \in Relay : known'[r] \intersect (1..drawn) \subseteq known[r]
<1> SUFFICES Goal
  OBVIOUS
<1>1. ASSUME UNCHANGED drawn, url' \in Relay \union {None},
             known' \in [Relay -> SUBSET (1..drawn)],
             \A r \in Relay : known'[r] \subseteq known[r],
             token' \in [TokenFile -> 0..drawn]
      PROVE  Goal
  BY <1>1 DEF Numbers
<1>2. ASSUME UNCHANGED <<url, token>>, UNCHANGED relays \/ Asks
      PROVE  Goal
  <2>1. CASE UNCHANGED relays
    BY <1>1, <1>2, <2>1 DEF relays, Numbers
  <2>2. CASE Asks
    <3>1. PICK r \in Relay, b \in Nat, n \in 1..MaxDrawn : Registers(r, b, n)
      BY <2>2 DEF Asks
    <3>2. /\ drawn' \in Nat /\ drawn' >= drawn /\ known' \in [Relay -> SUBSET (1..drawn')]
          /\ \A q \in Relay : known'[q] \intersect (1..drawn) \subseteq known[q]
      BY <3>1, RegistersFacts
    <3>3. token' \in [TokenFile -> 0..drawn']
      BY <1>2, <3>2 DEF Numbers
    <3>. QED BY <1>2, <3>2, <3>3 DEF Numbers
  <2>. QED BY <1>2, <2>1, <2>2
<1>3. CASE Command \/ Abort
  BY <1>2, <1>3 DEF Command, Abort, InstallConsumer, PatchSettings, PatchCodexHooks, RemoveHooks,
     DeleteInstallation, Uninstall, Begin, files
<1>4. CASE \/ InstallHookWrapper \/ BackupFile \/ PatchHooks \/ CreatePairingCode
           \/ NothingToDelete \/ RemoveHooksAtPath \/ RemoveHooksFails \/ RestoreSettings
           \/ BeginEmit \/ ReadTokens
           \/ \E p \in Agent, e \in Edited : UserAdds(p, e)
           \/ \E p \in Agent : UserSlips(p)
  BY <1>2, <1>4 DEF InstallHookWrapper, BackupFile, PatchHooks, CreatePairingCode, NothingToDelete,
     RemoveHooksAtPath, RemoveHooksFails, RestoreSettings, BeginEmit, ReadTokens, UserAdds, UserSlips,
     files
<1>5. CASE WriteBaseURL
  <2>1. cmd.relay \in Relay
    BY <1>5 DEF WriteBaseURL, CommandIsSound, Place, Cmd, Name
  <2>2. UNCHANGED <<token, known, drawn>> /\ url' = cmd.relay
    BY <1>5 DEF WriteBaseURL, relays
  <2>. QED BY <1>1, <2>1, <2>2 DEF Numbers
<1>6. CASE RestoreInstallation
  <2>1. cmd.relay \in Relay
    BY <1>6 DEF RestoreInstallation, CommandIsSound, Place, Cmd, Name
  <2>2. token["installation"] \in Nat
    BY DEF Numbers, TokenFile
  <2>3. UNCHANGED <<url, token>> /\ (UNCHANGED relays \/ Asks)
    BY <1>6, <2>1, <2>2 DEF RestoreInstallation, files, Asks
  <2>. QED BY <1>2, <2>3
<1>7. CASE CreateInstallation
  <2>1. cmd.relay \in Relay
    BY <1>7 DEF CreateInstallation, CommandIsSound, Place, Cmd, Name
  <2>2. UNCHANGED <<url, token>> /\ Asks
    BY <1>7, <2>1 DEF CreateInstallation, files, Asks
  <2>. QED BY <1>2, <2>2
<1>8. CASE SaveTokens
  <2>1. cmd.token \in 0..drawn
    BY DEF CommandIsSound, Cmd, Numbers
  <2>2. UNCHANGED <<url, known, drawn>> /\ token' = [token EXCEPT ![cmd.at] = cmd.token]
    BY <1>8 DEF SaveTokens, relays
  <2>. QED BY <1>1, <2>1, <2>2 DEF Numbers
<1>9. CASE AskDeletion
  <2>1. UNCHANGED <<url, token, drawn>> /\ (UNCHANGED known \/ Forgets(Configured, token["installation"]))
    BY <1>9 DEF AskDeletion, files
  <2>2. known' \in [Relay -> SUBSET (1..drawn)] /\ \A r \in Relay : known'[r] \subseteq known[r]
    BY <2>1 DEF Forgets, Numbers
  <2>. QED BY <1>1, <2>1, <2>2 DEF Numbers
<1>10. CASE DropToken
  <2>1. /\ UNCHANGED <<url, known, drawn>>
        /\ token' = token \/ token' = [token EXCEPT ![Head(cmd.left)] = 0]
    BY <1>10 DEF DropToken, relays
  <2>. QED BY <1>1, <2>1 DEF Numbers
<1>11. CASE RemoveRuntimeFiles
  <2>1. UNCHANGED <<known, drawn>> /\ url' = None /\ token' = NoTokens
    BY <1>11 DEF RemoveRuntimeFiles, relays
  <2>. QED BY <1>1, <2>1 DEF Numbers, NoTokens
<1>12. CASE RemoveRelayState \/ \E r \in Relay : RelayLosesData(r)
  <2>1. UNCHANGED <<url, token, drawn>> /\ \E r : known' = [known EXCEPT ![r] = {}]
    BY <1>12 DEF RemoveRelayState, RelayLosesData, files
  <2>. QED BY <1>1, <2>1 DEF Numbers
<1>13. CASE ResolveProducer
  <2>1. hook.relay \in Relay /\ hook.token \in Nat
    BY <1>13 DEF ResolveProducer, HookIsSound, Hook
  <2>2. UNCHANGED <<url, token>> /\ (UNCHANGED relays \/ Asks)
    BY <1>13, <2>1 DEF ResolveProducer, files, Asks
  <2>. QED BY <1>2, <2>2
<1>14. CASE SaveProducer
  <2>1. hook.token \in 0..drawn
    BY DEF HookIsSound, Hook, Numbers
  <2>2. /\ UNCHANGED <<url, known, drawn>>
        /\ token' = token \/ token' = [token EXCEPT !["producer"] = hook.token]
    BY <1>14 DEF SaveProducer, relays
  <2>. QED BY <1>1, <2>1, <2>2 DEF Numbers
<1>. QED
  BY <1>3, <1>4, <1>5, <1>6, <1>7, <1>8, <1>9, <1>10, <1>11, <1>12, <1>13, <1>14
     DEF Next, Step, Emit

\* The steps of uninstall.sh are also those of other commands, which end there.
LEMMA FinishStep ==
  ASSUME CommandIsSound, NEW next \in {"unpatch", "files"}, Finish(next)
  PROVE  /\ cmd' \in Cmd /\ cmd'.token \in 0..cmd.token
         /\ cmd' = Idle \/ (cmd'.name = "uninstall" /\ cmd'.at = next)
<1>1. CASE cmd.name = "uninstall"
  <2>1. cmd' = [cmd EXCEPT !.at = next, !.left = <<>>]
    BY <1>1 DEF Finish
  <2>2. next \in Places /\ <<>> \in Left /\ cmd \in Cmd
    BY DEF Places, Left, CommandIsSound
  <2>3. Continues(cmd, cmd', next, cmd.token, <<>>)
    BY <2>1, <2>2, LeftType, Zenon
  <2>. QED BY <1>1, <2>2, <2>3 DEF Cmd, Continues
<1>2. CASE cmd.name # "uninstall"
  <2>1. cmd' = Idle /\ cmd.token \in Nat
    BY <1>2 DEF Finish, End, CommandIsSound, Cmd
  <2>2. Idle.token = 0
    BY DEF Idle
  <2>. QED BY <2>1, <2>2, IdleType
<1>. QED BY <1>1, <1>2

LEMMA CommandStep ==
  ASSUME Numbers, CommandIsSound, HookIsSound, Next
  PROVE  CommandIsSound'
<1> DEFINE Sound(c) == /\ c \in Cmd /\ c.at \in Place(c.name) /\ c.token <= drawn'
                       /\ c.name = "none" => c = Idle
                       /\ c.name = "install" => c.relay \in Relay
                       /\ c.at = "drop" => c.left # <<>>
<1> SUFFICES Sound(cmd')
  BY DEF CommandIsSound
<1>0. /\ cmd \in Cmd /\ cmd.at \in Place(cmd.name) /\ cmd.token \in 0..drawn /\ cmd.token <= drawn'
      /\ drawn \in Nat /\ drawn' \in Nat /\ cmd.name \in Name
  BY NumbersStep DEF CommandIsSound, Numbers, Cmd
<1>1. Sound(Idle)
  BY <1>0, IdleType DEF Idle, Place
<1>2. CASE UNCHANGED cmd
  BY <1>0, <1>2 DEF CommandIsSound
<1>3. CASE cmd' = Idle
  BY <1>1, <1>3
<1>4. CASE Command
  <2>1. CASE InstallConsumer
    <3>1. PICK r \in Relay, a \in Selections :
            cmd' = [Idle EXCEPT !.name = "install", !.at = "wrapper", !.relay = r, !.agents = a]
      BY <2>1 DEF InstallConsumer, Begin
    <3>2. a \in Seq(Agent)
      BY SelectionsAssumption
    <3>4. cmd' = [name |-> "install", at |-> "wrapper", relay |-> r, agents |-> a,
                    notify |-> TRUE, token |-> 0, left |-> <<>>]
      BY <3>1 DEF Idle
    <3>. QED BY <1>0, <3>2, <3>4 DEF Idle, Cmd, Name, Places, InstallSteps, Left, Place
  <2>2. CASE PatchSettings
    <3>1. PICK notify \in BOOLEAN :
            cmd' = [Idle EXCEPT !.name = "patch", !.at = "patch", !.agents = <<"claude">>,
                                !.notify = notify]
      BY <2>2 DEF PatchSettings, Begin
    <3>2. <<"claude">> \in Seq(Agent)
      BY DEF Agent
    <3>4. cmd' = [name |-> "patch", at |-> "patch", relay |-> None, agents |-> <<"claude">>,
                    notify |-> notify, token |-> 0, left |-> <<>>]
      BY <3>1 DEF Idle
    <3>. QED BY <1>0, <3>2, <3>4 DEF Idle, Cmd, Name, Places, InstallSteps, Left, Place
  <2>3. CASE PatchCodexHooks
    <3>1. cmd' = [Idle EXCEPT !.name = "patch", !.at = "backup", !.agents = <<"codex">>]
      BY <2>3 DEF PatchCodexHooks, Begin
    <3>2. <<"codex">> \in Seq(Agent)
      BY DEF Agent
    <3>4. cmd' = [name |-> "patch", at |-> "backup", relay |-> None, agents |-> <<"codex">>,
                    notify |-> TRUE, token |-> 0, left |-> <<>>]
      BY <3>1 DEF Idle
    <3>. QED BY <1>0, <3>2, <3>4 DEF Idle, Cmd, Name, Places, InstallSteps, Left, Place
  <2>4. CASE RemoveHooks
    <3>1. PICK a \in Selections :
            cmd' = [Idle EXCEPT !.name = "unpatch", !.at = "unpatch", !.agents = a]
      BY <2>4 DEF RemoveHooks, Begin
    <3>2. a \in Seq(Agent)
      BY SelectionsAssumption
    <3>4. cmd' = [name |-> "unpatch", at |-> "unpatch", relay |-> None, agents |-> a,
                    notify |-> TRUE, token |-> 0, left |-> <<>>]
      BY <3>1 DEF Idle
    <3>. QED BY <1>0, <3>2, <3>4 DEF Idle, Cmd, Name, Places, InstallSteps, Left, Place
  <2>5. CASE DeleteInstallation
    <3>1. cmd' = [Idle EXCEPT !.name = "delete", !.at = "ask"]
      BY <2>5 DEF DeleteInstallation, Begin
    <3>4. cmd' = [name |-> "delete", at |-> "ask", relay |-> None, agents |-> <<>>,
                    notify |-> TRUE, token |-> 0, left |-> <<>>]
      BY <3>1 DEF Idle
    <3>. QED BY <1>0, <3>4 DEF Idle, Cmd, Name, Places, InstallSteps, Left, Place
  <2>6. CASE Uninstall
    <3>1. PICK a \in {"ask", "files"} :
            cmd' = [Idle EXCEPT !.name = "uninstall", !.at = a, !.agents = <<"claude", "codex">>]
      BY <2>6 DEF Uninstall, Begin
    <3>2. <<"claude", "codex">> \in Seq(Agent)
      BY DEF Agent
    <3>4. cmd' = [name |-> "uninstall", at |-> a, relay |-> None, agents |-> <<"claude", "codex">>,
                    notify |-> TRUE, token |-> 0, left |-> <<>>]
      BY <3>1 DEF Idle
    <3>. QED BY <1>0, <3>2, <3>4 DEF Idle, Cmd, Name, Places, InstallSteps, Left, Place
  <2>. QED BY <1>4, <2>1, <2>2, <2>3, <2>4, <2>5, <2>6 DEF Command
<1>5. ASSUME NEW a \in Place(cmd.name), GoTo(a), cmd.name # "none", a # "drop"
      PROVE  Sound(cmd')
  <2>1. a \in Places
    BY DEF Place, Places, InstallSteps
  <2>2. Continues(cmd, cmd', a, cmd.token, cmd.left)
    BY <1>0, <1>5, <2>1, AtType, Zenon DEF GoTo
  <2>. QED BY <1>0, <1>5, <2>2 DEF CommandIsSound, Continues
<1>6. ASSUME NEW next \in {"unpatch", "files"}, Finish(next) PROVE Sound(cmd')
  <2>1. CASE cmd' = Idle
    BY <1>1, <2>1
  <2>2. CASE cmd' # Idle
    BY <1>0, <1>6, <2>2, FinishStep DEF Place
  <2>. QED BY <2>1, <2>2
<1>7. ASSUME cmd.at \in InstallSteps \ {"backup", "patch"} PROVE cmd.name = "install"
  BY <1>0, <1>7 DEF Place, Name, InstallSteps
<1>8. CASE InstallHookWrapper \/ WriteBaseURL \/ SaveTokens
  <2>1. cmd.name = "install" /\ \E a \in InstallSteps : GoTo(a)
    BY <1>7, <1>8 DEF InstallHookWrapper, WriteBaseURL, SaveTokens, InstallSteps
  <2>. QED BY <1>5, <2>1 DEF Place, InstallSteps
<1>9. CASE BackupFile
  <2>1. cmd.name \in {"install", "patch"} /\ GoTo("patch")
    BY <1>0, <1>9 DEF BackupFile, Place, Name
  <2>. QED BY <1>5, <2>1 DEF Place, InstallSteps
<1>10. CASE PatchHooks
  <2>1. cmd.name \in {"install", "patch"}
    BY <1>0, <1>10 DEF PatchHooks, Place, Name
  <2>2. CASE Len(cmd.agents) > 1
    <3>0. "backup" \in Places
      BY DEF Places, InstallSteps
    <3>1. cmd' = [cmd EXCEPT !.at = "backup", !.agents = Tail(cmd.agents)]
      BY <1>10, <2>2 DEF PatchHooks
    <3>2. Tail(cmd.agents) \in Seq(Agent)
      BY <1>0, <2>2 DEF Cmd
    <3>3. Continues(cmd, cmd', "backup", cmd.token, cmd.left)
      BY <1>0, <3>0, <3>1, <3>2, AgentsType, Zenon
    <3>. QED BY <1>0, <2>1, <3>3 DEF Continues, CommandIsSound, Place, InstallSteps
  <2>3. CASE ~(Len(cmd.agents) > 1) /\ cmd.name = "install"
    <3>1. cmd' = [cmd EXCEPT !.at = "restore", !.agents = <<>>]
      BY <1>10, <2>3 DEF PatchHooks
    <3>3. "restore" \in Places /\ <<>> \in Seq(Agent)
      BY DEF Places, InstallSteps
    <3>2. Continues(cmd, cmd', "restore", cmd.token, cmd.left)
      BY <1>0, <3>1, <3>3, AgentsType, Zenon
    <3>. QED BY <1>0, <2>3, <3>2 DEF Continues, CommandIsSound, Place, InstallSteps
  <2>4. CASE ~(Len(cmd.agents) > 1) /\ cmd.name # "install"
    BY <1>3, <1>10, <2>4 DEF PatchHooks, End
  <2>. QED BY <2>2, <2>3, <2>4
<1>11. CASE RestoreInstallation \/ CreateInstallation
  <2>1. cmd.name = "install" /\ cmd.relay \in Relay
    BY <1>7, <1>11 DEF RestoreInstallation, CreateInstallation, InstallSteps, CommandIsSound
  <2>2. \/ GoTo("create")
        \/ cmd' = Idle
        \/ \E b \in Nat, n \in 1..MaxDrawn :
             /\ Registers(cmd.relay, b, n)
             /\ cmd' = [cmd EXCEPT !.at = "installation", !.token = n]
    <3>1. token["installation"] \in Nat /\ 0 \in Nat
      BY DEF Numbers, TokenFile
    <3>. QED BY <1>11, <3>1, Zenon DEF RestoreInstallation, CreateInstallation, End
  <2>3. CASE GoTo("create")
    BY <1>5, <2>1, <2>3 DEF Place, InstallSteps
  <2>4. ASSUME NEW b \in Nat, NEW n \in 1..MaxDrawn, Registers(cmd.relay, b, n),
               cmd' = [cmd EXCEPT !.at = "installation", !.token = n]
        PROVE  Sound(cmd')
    <3>1. n \in Nat /\ n <= drawn'
      BY <2>1, <2>4, RegistersFacts
    <3>2. Continues(cmd, cmd', "installation", n, cmd.left)
      BY <1>0, <2>4, <3>1, TokenType, Zenon
    <3>. QED BY <2>1, <3>1, <3>2 DEF Continues, Place, InstallSteps
  <2>. QED BY <1>3, <2>2, <2>3, <2>4
<1>12. CASE CreatePairingCode \/ Abort \/ RestoreSettings
  BY <1>3, <1>12 DEF CreatePairingCode, Abort, RestoreSettings, End
<1>13. CASE NothingToDelete \/ RemoveHooksFails
  BY <1>6, <1>13 DEF NothingToDelete, RemoveHooksFails
<1>14. CASE AskDeletion
  <2>1. CASE Finish("unpatch")
    BY <1>6, <2>1
  <2>2. CASE ~Finish("unpatch")
    <3>1. cmd.at = "ask" /\ cmd' = [cmd EXCEPT !.at = "drop", !.left = DeletedFiles]
      BY <1>14, <2>2 DEF AskDeletion
    <3>2. cmd.name \in {"delete", "uninstall"}
      BY <1>0, <3>1 DEF Place, Name, InstallSteps
    <3>3. DeletedFiles \in Left /\ DeletedFiles # <<>> /\ "drop" \in Places
      BY DEF Left, DeletedFiles, Places
    <3>4. Continues(cmd, cmd', "drop", cmd.token, DeletedFiles)
      BY <1>0, <3>1, <3>3, LeftType, Zenon
    <3>. QED BY <1>0, <3>2, <3>3, <3>4 DEF Continues, Place
  <2>. QED BY <2>1, <2>2
<1>15. CASE DropToken
  <2>1. CASE Finish("unpatch")
    BY <1>6, <2>1
  <2>2. CASE ~Finish("unpatch")
    <3>1. cmd.at = "drop" /\ Len(cmd.left) > 1 /\ cmd' = [cmd EXCEPT !.left = Tail(cmd.left)]
      BY <1>15, <2>2 DEF DropToken
    <3>2. cmd.left \in Left
      BY <1>0 DEF Cmd
    <3>3. Tail(cmd.left) \in Left /\ Tail(cmd.left) # <<>>
      BY <3>1, <3>2, LeftTail
    <3>4. Continues(cmd, cmd', cmd.at, cmd.token, Tail(cmd.left))
      BY <1>0, <3>1, <3>3, NextLeftType, Zenon
    <3>. QED BY <1>0, <3>3, <3>4 DEF Continues, CommandIsSound, Idle
  <2>. QED BY <2>1, <2>2
<1>16. CASE RemoveHooksAtPath
  <2>1. CASE Finish("files")
    BY <1>6, <2>1
  <2>2. CASE ~Finish("files")
    <3>1. cmd.at = "unpatch" /\ Len(cmd.agents) > 1
          /\ cmd' = [cmd EXCEPT !.agents = Tail(cmd.agents)]
      BY <1>16, <2>2 DEF RemoveHooksAtPath
    <3>2. Tail(cmd.agents) \in Seq(Agent)
      BY <1>0, <3>1 DEF Cmd
    <3>3. Continues(cmd, cmd', cmd.at, cmd.token, cmd.left)
      BY <1>0, <3>1, <3>2, NextAgentsType, Zenon
    <3>. QED BY <1>0, <3>1, <3>3 DEF Continues, CommandIsSound, Idle
  <2>. QED BY <2>1, <2>2
<1>17. CASE RemoveRuntimeFiles \/ RemoveRelayState
  <2>1. cmd.name = "uninstall"
    BY <1>0, <1>17 DEF RemoveRuntimeFiles, RemoveRelayState, Place, Name, InstallSteps
  <2>2. GoTo("state") \/ GoTo("settings") \/ cmd' = Idle
    BY <1>17 DEF RemoveRuntimeFiles, RemoveRelayState, End
  <2>. QED BY <1>3, <1>5, <2>1, <2>2 DEF Place
<1>18. CASE \/ Emit
            \/ \E p \in Agent, e \in Edited : UserAdds(p, e)
            \/ \E p \in Agent : UserSlips(p)
            \/ \E r \in Relay : RelayLosesData(r)
  BY <1>2, <1>18 DEF Emit, BeginEmit, ReadTokens, ResolveProducer, SaveProducer, UserAdds, UserSlips,
     RelayLosesData
<1>. QED
  BY <1>4, <1>8, <1>9, <1>10, <1>11, <1>12, <1>13, <1>14, <1>15, <1>16, <1>17, <1>18 DEF Next, Step

LEMMA HookStep ==
  ASSUME Numbers, CommandIsSound, HookIsSound, Next
  PROVE  HookIsSound'
<1>0. /\ hook \in Hook /\ hook.token \in 0..drawn /\ hook.token <= drawn'
      /\ drawn \in Nat /\ drawn' \in Nat /\ Configured \in Relay
  BY NumbersStep, DefaultAssumption DEF HookIsSound, Hook, Numbers, Configured
<1>1. CASE UNCHANGED hook
  BY <1>0, <1>1 DEF HookIsSound
<1>2. CASE hook' = NoHook
  BY <1>0, <1>2 DEF HookIsSound, NoHook, Hook
<1>3. CASE BeginEmit
  <2>1. hook' = [at |-> "read", relay |-> Configured, token |-> 0]
    BY <1>3 DEF BeginEmit, NoHook
  <2>. QED BY <1>0, <2>1 DEF HookIsSound, Hook
<1>4. ASSUME hook.at \in {"read", "resolve"}, NEW a \in {"resolve", "save"}, NEW n \in Nat, n <= drawn',
             hook' = [hook EXCEPT !.at = a, !.token = n]
      PROVE  HookIsSound'
  BY <1>0, <1>4 DEF HookIsSound, Hook
<1>5. CASE ReadTokens
  <2>1. token["installation"] \in Nat /\ token["installation"] <= drawn'
    <3>1. token["installation"] \in 0..drawn
      BY DEF Numbers, TokenFile
    <3>. QED BY <1>0, <1>5, <3>1 DEF ReadTokens, relays
  <2>. QED BY <1>2, <1>4, <1>5, <2>1 DEF ReadTokens
<1>6. CASE ResolveProducer
  <2>1. CASE hook' = NoHook
    BY <1>2, <2>1
  <2>2. CASE hook' # NoHook
    <3>1. PICK n \in 1..MaxDrawn :
            Registers(hook.relay, hook.token, n) /\ hook' = [hook EXCEPT !.at = "save", !.token = n]
      BY <1>6, <2>2 DEF ResolveProducer
    <3>2. hook.relay \in Relay /\ hook.at = "resolve"
      BY <1>6 DEF ResolveProducer, HookIsSound
    <3>3. n \in Nat /\ n <= drawn'
      BY <3>1, <3>2, RegistersFacts
    <3>. QED BY <1>4, <3>1, <3>2, <3>3
  <2>. QED BY <2>1, <2>2
<1>7. CASE SaveProducer
  BY <1>2, <1>7 DEF SaveProducer
<1>8. CASE \/ Command \/ Abort
           \/ \E p \in Agent, e \in Edited : UserAdds(p, e)
           \/ \E p \in Agent : UserSlips(p)
           \/ \E r \in Relay : RelayLosesData(r)
  BY <1>1, <1>8 DEF Command, InstallConsumer, PatchSettings, PatchCodexHooks, RemoveHooks,
     DeleteInstallation, Uninstall, Begin, Abort, UserAdds, UserSlips, RelayLosesData
<1>9. CASE Step
  BY <1>1, <1>9 DEF Step, InstallHookWrapper, WriteBaseURL, BackupFile, PatchHooks,
     RestoreInstallation, CreateInstallation, SaveTokens, CreatePairingCode, NothingToDelete,
     AskDeletion, DropToken, RemoveHooksAtPath, RemoveHooksFails, RemoveRuntimeFiles,
     RemoveRelayState, RestoreSettings
<1>. QED
  BY <1>3, <1>5, <1>6, <1>7, <1>8, <1>9 DEF Next, Emit
-----------------------------------------------------------------------------
(***************************************************************************)
(* Deletions.                                                              *)
(***************************************************************************)
\* No step next to a granted deletion brings the installation back: relays create
\* new ones only, and only the deletion itself writes the token.
LEMMA GrantedStep ==
  ASSUME Numbers, CommandIsSound, HookIsSound, Granted, Next
  PROVE  Granted'
<1>0. /\ \A r \in Relay : known'[r] \intersect (1..drawn) \subseteq known[r]
      /\ token["installation"] \in 0..drawn /\ drawn \in Nat /\ Configured \in Relay
      /\ known[Configured] \subseteq 1..drawn
  BY NumbersStep, DefaultAssumption DEF Numbers, TokenFile, Configured
<1>1. ASSUME UNCHANGED url, token'["installation"] = token["installation"], UNCHANGED cmd
      PROVE  Granted'
  <2>1. Configured' = Configured
    BY <1>1 DEF Configured
  <2>. QED BY <1>0, <1>1, <2>1 DEF Granted
<1>2. ASSUME cmd'.at # "drop" PROVE Granted'
  BY <1>2 DEF Granted
<1>3. CASE AskDeletion
  <2>1. CASE Finish("unpatch")
    BY <1>2, <2>1, FinishStep DEF Idle
  <2>2. CASE ~Finish("unpatch")
    <3>1. /\ token["installation"] # 0 /\ UNCHANGED <<url, token>>
          /\ known' = [known EXCEPT ![Configured] = known[Configured] \ {token["installation"]}]
      BY <1>3, <2>2 DEF AskDeletion, Forgets, files
    <3>2. Configured' = Configured /\ token["installation"] \notin known'[Configured]
      BY <1>0, <3>1 DEF Configured, Numbers
    <3>. QED BY <3>1, <3>2 DEF Granted
  <2>. QED BY <2>1, <2>2
<1>4. CASE DropToken
  <2>1. CASE Finish("unpatch")
    BY <1>2, <2>1, FinishStep DEF Idle
  <2>2. CASE ~Finish("unpatch")
    <3>1. Len(cmd.left) > 1 /\ cmd' = [cmd EXCEPT !.left = Tail(cmd.left)]
      BY <1>4, <2>2 DEF DropToken
    <3>2. cmd.left \in Left /\ cmd \in Cmd
      BY DEF CommandIsSound, Cmd
    <3>3. Tail(cmd.left) \in Left /\ Tail(cmd.left) # DeletedFiles
      BY <3>1, <3>2, LeftTail
    <3>4. Continues(cmd, cmd', cmd.at, cmd.token, Tail(cmd.left))
      BY <3>1, <3>2, <3>3, NextLeftType, Zenon
    <3>. QED BY <3>3, <3>4 DEF Granted, Continues
  <2>. QED BY <2>1, <2>2
<1>5. CASE Command
  <2>1. cmd'.at # "drop"
    BY <1>5 DEF Command, InstallConsumer, PatchSettings, PatchCodexHooks, RemoveHooks,
       DeleteInstallation, Uninstall, Begin, Idle
  <2>. QED BY <1>2, <2>1
<1>6. CASE Step /\ ~AskDeletion /\ ~DropToken
  <2>1. cmd.at # "drop"
    BY <1>6 DEF Step, InstallHookWrapper, WriteBaseURL, BackupFile, PatchHooks,
       RestoreInstallation, CreateInstallation, SaveTokens, CreatePairingCode, NothingToDelete,
       RemoveHooksAtPath, RemoveHooksFails, RemoveRuntimeFiles, RemoveRelayState, RestoreSettings
  <2>2. cmd'.at # "drop"
    <3>1. cmd \in Cmd /\ Idle.at = "idle"
      BY DEF CommandIsSound, Idle
    <3>. QED BY <1>6, <2>1, <3>1, FinishStep
         DEF Step, InstallHookWrapper, WriteBaseURL, BackupFile, PatchHooks,
             RestoreInstallation, CreateInstallation, SaveTokens, CreatePairingCode, NothingToDelete,
             RemoveHooksAtPath, RemoveHooksFails, RemoveRuntimeFiles, RemoveRelayState, RestoreSettings,
             GoTo, End, Cmd
  <2>. QED BY <1>2, <2>2
<1>7. CASE Abort
  BY <1>2, <1>7 DEF Abort, End, Idle
<1>8. CASE \/ Emit
           \/ \E p \in Agent, e \in Edited : UserAdds(p, e)
           \/ \E p \in Agent : UserSlips(p)
           \/ \E r \in Relay : RelayLosesData(r)
  <2>1. UNCHANGED <<url, cmd>>
    BY <1>8 DEF Emit, BeginEmit, ReadTokens, ResolveProducer, SaveProducer, UserAdds, UserSlips,
       RelayLosesData, files
  <2>2. token'["installation"] = token["installation"]
    BY <1>8 DEF Emit, BeginEmit, ReadTokens, ResolveProducer, SaveProducer, UserAdds, UserSlips,
       RelayLosesData, files, Numbers, TokenFile
  <2>. QED BY <1>1, <2>1, <2>2
<1>. QED
  BY <1>3, <1>4, <1>5, <1>6, <1>7, <1>8 DEF Next
-----------------------------------------------------------------------------
(***************************************************************************)
(* Installs.                                                               *)
(***************************************************************************)
\* Only an install counts, and only as long as no hook interferes: whatever else
\* changes the files or the relays does so when no install counts.
LEMMA AgreementStep ==
  ASSUME Numbers, CommandIsSound, HookIsSound, Agreement, Connected, Next
  PROVE  Agreement' /\ Connected'
<1> DEFINE Goal == Agreement' /\ Connected'
           UrlAgrees == cmd'.name = "install" /\ cmd'.at \notin {"wrapper", "url"} => url' = cmd'.relay
<1> SUFFICES Goal
  OBVIOUS
<1>0. /\ cmd \in Cmd /\ cmd.at \in Place(cmd.name) /\ cmd.name \in Name
      /\ Idle.name = "none" /\ Idle.at = "idle"
      /\ token["installation"] \in Nat /\ token["id"] \in Nat /\ token["producer"] \in Nat
      /\ cmd.token \in Nat /\ settled \in {"no", "installing", "yes"}
      /\ NoHook.at = "idle"
  BY DEF CommandIsSound, Cmd, Idle, Numbers, TokenFile, Agreement, NoHook
<1>1. ASSUME settled' = "no", UrlAgrees PROVE Goal
  BY <1>1 DEF Agreement, Connected
<1>2. ASSUME UNCHANGED <<url, token, known, settled>>, cmd' = cmd,
             settled = "no" \/ hook'.at \in {"idle", "read"}
      PROVE  Goal
  BY <1>2 DEF Agreement, Connected
\* An install goes on, with the tokens it found.
<1>3. ASSUME UNCHANGED <<token, settled, hook>>, cmd.at # "idle", UrlAgrees,
             cmd'.name = cmd.name, cmd'.at \notin {"id", "producer", "code"}
      PROVE  Goal
  <2>1. settled # "yes"
    BY <1>0, <1>3 DEF Agreement
  <2>. QED BY <1>3, <2>1 DEF Agreement, Connected
<1>4. ASSUME cmd.at \in InstallSteps \ {"backup", "patch"} PROVE cmd.name = "install" /\ cmd.relay \in Relay
  BY <1>0, <1>4 DEF Place, Name, InstallSteps, CommandIsSound
<1>5. CASE InstallConsumer
  <2>1. PICK r \in Relay, a \in Selections :
          Begin([Idle EXCEPT !.name = "install", !.at = "wrapper", !.relay = r, !.agents = a])
    BY <1>5 DEF InstallConsumer
  <2>2. cmd'.name = "install" /\ cmd'.at = "wrapper" /\ UNCHANGED hook
    BY <2>1 DEF Begin, Idle
  <2>3. settled' \in {"no", "installing"} /\ (settled' # "no" => hook.at \in {"idle", "read"})
    BY <2>1 DEF Begin
  <2>. QED BY <2>2, <2>3 DEF Agreement, Connected
<1>6. CASE PatchSettings \/ PatchCodexHooks \/ RemoveHooks \/ DeleteInstallation \/ Uninstall
  <2>1. cmd'.name # "install" /\ settled' = "no"
    BY <1>6 DEF PatchSettings, PatchCodexHooks, RemoveHooks, DeleteInstallation, Uninstall, Begin, Idle
  <2>. QED BY <1>1, <2>1
<1>7. CASE InstallHookWrapper
  <2>1. UNCHANGED <<token, settled, hook>> /\ GoTo("url") /\ cmd.at = "wrapper"
    BY <1>7 DEF InstallHookWrapper
  <2>2. cmd'.at = "url" /\ cmd'.name = cmd.name
    BY <1>0, <2>1 DEF GoTo, Cmd
  <2>. QED BY <1>3, <2>1, <2>2
<1>8. CASE WriteBaseURL
  <2>1. UNCHANGED <<token, settled, hook>> /\ GoTo("backup") /\ cmd.at = "url" /\ url' = cmd.relay
    BY <1>8 DEF WriteBaseURL, history
  <2>2. cmd'.at = "backup" /\ cmd'.name = cmd.name /\ cmd'.relay = cmd.relay
    BY <1>0, <2>1 DEF GoTo, Cmd
  <2>. QED BY <1>3, <2>1, <2>2
<1>9. CASE BackupFile
  <2>1. UNCHANGED <<url, token, settled, hook>> /\ GoTo("patch") /\ cmd.at = "backup"
    BY <1>9 DEF BackupFile, files, history
  <2>2. cmd'.at = "patch" /\ cmd'.name = cmd.name /\ cmd'.relay = cmd.relay
    BY <1>0, <2>1 DEF GoTo, Cmd
  <2>3. UrlAgrees
    BY <2>1, <2>2 DEF Agreement
  <2>. QED BY <1>3, <2>1, <2>2, <2>3
<1>10. CASE PatchHooks
  <2>1. UNCHANGED <<url, token, settled, hook>> /\ cmd.at = "patch"
    BY <1>10 DEF PatchHooks, files, history
  <2>2. CASE cmd' = Idle /\ cmd.name # "install"
    <3>1. settled = "no"
      BY <1>0, <2>1, <2>2 DEF Agreement
    <3>. QED BY <1>0, <1>1, <2>1, <2>2, <3>1
  <2>3. CASE ~(cmd' = Idle /\ cmd.name # "install")
    <3>1. \/ cmd' = [cmd EXCEPT !.at = "backup", !.agents = Tail(cmd.agents)]
          \/ cmd' = [cmd EXCEPT !.at = "restore", !.agents = <<>>]
      BY <1>10, <2>3 DEF PatchHooks, End
    <3>2. cmd'.at \in {"backup", "restore"} /\ cmd'.name = cmd.name /\ cmd'.relay = cmd.relay
      BY <1>0, <3>1 DEF Cmd
    <3>3. UrlAgrees
      BY <2>1, <3>2 DEF Agreement
    <3>. QED BY <1>3, <2>1, <3>2, <3>3
  <2>. QED BY <2>2, <2>3
<1>11. CASE RestoreInstallation \/ CreateInstallation
  <2>1. UNCHANGED <<url, token, hook>> /\ cmd.at \in {"restore", "create"}
    BY <1>11 DEF RestoreInstallation, CreateInstallation, files, history
  <2>2. CASE cmd' = Idle
    <3>1. CreateInstallation
      BY <1>0, <1>11, <2>2 DEF RestoreInstallation, GoTo, Cmd
    <3>. QED BY <1>0, <1>1, <2>2, <3>1 DEF CreateInstallation
  <2>3. CASE cmd' # Idle
    <3>1. UNCHANGED settled /\ \/ GoTo("create")
                               \/ \E n : cmd' = [cmd EXCEPT !.at = "installation", !.token = n]
      BY <1>11, <2>3 DEF RestoreInstallation, CreateInstallation, End, history
    <3>2. cmd'.at \in {"create", "installation"} /\ cmd'.name = cmd.name /\ cmd'.relay = cmd.relay
      BY <1>0, <3>1 DEF GoTo, Cmd
    <3>3. UrlAgrees
      BY <2>1, <3>2 DEF Agreement
    <3>. QED BY <1>3, <2>1, <3>1, <3>2, <3>3
  <2>. QED BY <2>2, <2>3
<1>12. CASE SaveTokens
  <2>1. /\ cmd.at \in {"installation", "id", "producer"} /\ UNCHANGED <<url, hook, settled>>
        /\ \E a \in {"id", "producer", "code"} : GoTo(a)
        /\ token' = [token EXCEPT ![cmd.at] = cmd.token]
    BY <1>12 DEF SaveTokens
  <2>2. /\ cmd'.at = CASE cmd.at = "installation" -> "id" [] cmd.at = "id" -> "producer"
                       [] OTHER -> "code"
        /\ cmd'.name = cmd.name /\ cmd'.relay = cmd.relay /\ cmd'.token = cmd.token
    BY <1>0, <1>12 DEF SaveTokens, GoTo, Cmd
  <2>3. /\ token'[cmd.at] = cmd.token
        /\ \A f \in {"installation", "id", "producer"} : f # cmd.at => token'[f] = token[f]
    BY <2>1 DEF Numbers, TokenFile
  <2>4. settled # "yes"
    BY <1>0, <2>1 DEF Agreement
  <2>5. UrlAgrees
    BY <2>1, <2>2 DEF Agreement
  <2>6. settled = "installing" =>
          /\ cmd'.at \in {"id", "producer", "code"} => token'["installation"] = cmd'.token
          /\ cmd'.at \in {"producer", "code"} => token'["id"] = cmd'.token
          /\ cmd'.at = "code" => token'["producer"] = cmd'.token
    <3>1. CASE cmd.at = "installation"
      BY <2>2, <2>3, <3>1
    <3>2. CASE cmd.at = "id"
      BY <2>2, <2>3, <3>2 DEF Agreement
    <3>3. CASE cmd.at = "producer"
      BY <2>2, <2>3, <3>3 DEF Agreement
    <3>. QED BY <2>1, <3>1, <3>2, <3>3
  <2>. QED BY <2>1, <2>2, <2>4, <2>5, <2>6 DEF Agreement, Connected
<1>13. CASE CreatePairingCode
  <2>1. /\ cmd.at = "code" /\ cmd.token \in known[cmd.relay] /\ cmd' = Idle
        /\ settled' = IF settled = "installing" THEN "yes" ELSE "no"
        /\ UNCHANGED <<url, token, known, hook>>
    BY <1>13 DEF CreatePairingCode, End, files, relays
  <2>2. cmd.name = "install" /\ cmd.relay \in Relay /\ url = cmd.relay /\ url # None
    BY <1>4, <2>1, DefaultAssumption DEF InstallSteps, Agreement
  <2>3. Connected'
    BY <2>1, <2>2 DEF Agreement, Connected
  <2>4. Agreement'
    BY <1>0, <2>1 DEF Agreement
  <2>. QED BY <2>3, <2>4
<1>14. CASE Abort
  BY <1>0, <1>1, <1>14 DEF Abort, End
<1>15. CASE \/ NothingToDelete \/ AskDeletion \/ DropToken \/ RemoveHooksAtPath \/ RemoveHooksFails
            \/ RemoveRuntimeFiles \/ RemoveRelayState \/ RestoreSettings
  <2>1. cmd.at \in {"ask", "drop", "unpatch", "files", "state", "settings"} /\ UNCHANGED settled
    BY <1>15 DEF NothingToDelete, AskDeletion, DropToken, RemoveHooksAtPath, RemoveHooksFails,
       RemoveRuntimeFiles, RemoveRelayState, RestoreSettings, history
  <2>2. cmd.name # "install" /\ settled = "no"
    BY <1>0, <2>1 DEF Place, InstallSteps, Agreement
  <2>3. cmd'.name # "install"
    BY <1>0, <1>15, <2>2, FinishStep
       DEF NothingToDelete, AskDeletion, DropToken, RemoveHooksAtPath, RemoveHooksFails,
           RemoveRuntimeFiles, RemoveRelayState, RestoreSettings, GoTo, End, Cmd
  <2>. QED BY <1>1, <2>1, <2>2, <2>3
<1>16. CASE BeginEmit
  BY <1>2, <1>16 DEF BeginEmit, NoHook, files, relays, history
<1>17. CASE ReadTokens
  <2>1. CASE settled' = "no"
    <3>1. UrlAgrees
      BY <1>17 DEF ReadTokens, files, Agreement
    <3>. QED BY <1>1, <2>1, <3>1
  <2>2. CASE settled' # "no"
    BY <1>0, <1>2, <1>17, <2>2 DEF ReadTokens, files, relays
  <2>. QED BY <2>1, <2>2
<1>18. CASE ResolveProducer \/ SaveProducer
  <2>1. settled' = "no" /\ UNCHANGED <<url, cmd>>
    BY <1>18 DEF ResolveProducer, SaveProducer, Agreement, files, history
  <2>2. UrlAgrees
    BY <2>1 DEF Agreement
  <2>. QED BY <1>1, <2>1, <2>2
<1>19. CASE \/ \E p \in Agent, e \in Edited : UserAdds(p, e)
            \/ \E p \in Agent : UserSlips(p)
  <2>1. UNCHANGED <<url, token, known, settled, cmd, hook>>
    BY <1>19 DEF UserAdds, UserSlips, files, relays, history
  <2>. QED BY <1>2, <2>1 DEF Agreement
<1>20. CASE \E r \in Relay : RelayLosesData(r)
  <2>1. settled' = "no" /\ UNCHANGED <<url, cmd>>
    BY <1>20 DEF RelayLosesData, files
  <2>2. UrlAgrees
    BY <2>1 DEF Agreement
  <2>. QED BY <1>1, <2>1, <2>2
<1>. QED
  BY <1>5, <1>6, <1>7, <1>8, <1>9, <1>10, <1>11, <1>12, <1>13, <1>14, <1>15, <1>16, <1>17, <1>18,
     <1>19, <1>20
     DEF Next, Command, Step, Emit
-----------------------------------------------------------------------------
LEMMA InitIInv == Init => IInv
<1> SUFFICES ASSUME Init PROVE IInv
  OBVIOUS
<1>1. Numbers
  <2>1. CASE url = None /\ token = NoTokens /\ known = [r \in Relay |-> {}] /\ drawn = 0
    BY <2>1 DEF Numbers, NoTokens, TokenFile
  <2>2. CASE /\ url = Default /\ drawn = 1
             /\ token = [NoTokens EXCEPT !["installation"] = 1, !["id"] = 1, !["legacy"] = 1]
             /\ known = [r \in Relay |-> IF r = Default THEN {1} ELSE {}]
    BY <2>2, DefaultAssumption DEF Numbers, NoTokens, TokenFile
  <2>. QED BY <2>1, <2>2 DEF Init
<1>2. CommandIsSound
  BY <1>1, IdleType DEF Init, CommandIsSound, Idle, Place, Numbers
<1>3. HookIsSound
  BY <1>1 DEF Init, HookIsSound, NoHook, Hook, Numbers
<1>4. Granted /\ Agreement /\ Connected
  BY DEF Init, Granted, Agreement, Connected, Idle, NoHook
<1>. QED BY <1>1, <1>2, <1>3, <1>4 DEF IInv

LEMMA StutterIInv == IInv /\ UNCHANGED vars => IInv'
BY DEF IInv, Numbers, CommandIsSound, HookIsSound, Granted, Agreement, Connected, Configured,
   vars, files, relays, history

\* IInv holds in every state, wherever commands end and hooks come in.
THEOREM IInvHolds == Spec => []IInv
<1>1. IInv /\ [Next]_vars => IInv'
  <2>1. IInv /\ Next => IInv'
    BY NumbersStep, CommandStep, HookStep, GrantedStep, AgreementStep DEF IInv
  <2>. QED BY <2>1, StutterIInv
<1>. QED BY InitIInv, <1>1, PTL DEF Spec

\* An install that succeeds leaves a URL and tokens that agree with the relay's
\* channel, whatever went wrong before and whichever hooks run later.
THEOREM InstallsConnect == Spec => []Connected
<1>1. IInv => Connected
  BY DEF IInv
<1>. QED BY <1>1, IInvHolds, PTL

\* A deletion removes the installation's token only when the relay has forgotten
\* the installation.
THEOREM DeletionKeepsItsToken == Spec => TokenOutlivesInstallation
<1> DEFINE A == token["installation"] # 0 /\ token'["installation"] = 0 /\ cmd.at = "drop" =>
                  token["installation"] \notin known[Configured]
<1>1. IInv /\ Next => A
  <2> SUFFICES ASSUME IInv, Next, token["installation"] # 0, token'["installation"] = 0,
                      cmd.at = "drop"
               PROVE  cmd.left = DeletedFiles
    BY DEF IInv, Granted
  <2>1. CASE DropToken
    <3>1. token' = [token EXCEPT ![Head(cmd.left)] = 0]
      BY <2>1 DEF DropToken
    <3>2. Head(cmd.left) = "installation"
      BY <3>1 DEF IInv, Numbers
    <3>3. cmd.left \in Left /\ cmd.left # <<>>
      BY DEF IInv, CommandIsSound, Cmd
    <3>. QED BY <3>2, <3>3, LeftHead
  <2>2. CASE ~DropToken
    <3>1. token'["installation"] = token["installation"]
      BY <2>2 DEF Next, Command, InstallConsumer, PatchSettings, PatchCodexHooks, RemoveHooks,
         DeleteInstallation, Uninstall, Begin, Step, InstallHookWrapper, WriteBaseURL, BackupFile,
         PatchHooks, RestoreInstallation, CreateInstallation, SaveTokens, CreatePairingCode,
         NothingToDelete, AskDeletion, RemoveHooksAtPath, RemoveHooksFails, RemoveRuntimeFiles,
         RemoveRelayState, RestoreSettings, Abort, Emit, BeginEmit, ReadTokens, ResolveProducer,
         SaveProducer, UserAdds, UserSlips, RelayLosesData, files, IInv, Numbers, TokenFile
    <3>. QED BY <3>1
  <2>. QED BY <2>1, <2>2
<1>2. IInv /\ [Next]_vars => [A]_vars
  BY <1>1
<1>. QED BY IInvHolds, <1>2, PTL DEF Spec, TokenOutlivesInstallation
-----------------------------------------------------------------------------
(***************************************************************************)
(* What SequencesExt's FlattenSeq returns. A property of sequences is      *)
(* proved by a set, of those that have it, that contains the empty one and *)
(* is closed under Append.                                                 *)
(***************************************************************************)
\* Induction on sequences: a set that has the empty sequence and, with a sequence,
\* every extension of it by one element, has them all.
LEMMA SequencesByAppend ==
  ASSUME NEW T, NEW S, <<>> \in S,
         \A s \in Seq(T) : s \in S => \A x \in T : Append(s, x) \in S
  PROVE  Seq(T) \subseteq S
<1> SUFFICES ASSUME NEW r \in Seq(T), r \notin S PROVE FALSE
  OBVIOUS
<1> DEFINE Lens == {n \in Nat : \E s \in Seq(T) : s \notin S /\ Len(s) = n}
           R == OpToRel(<, Nat)
<1>1. Lens # {} /\ Lens \subseteq Nat
  <2>1. Len(r) \in Lens
    BY LenProperties
  <2>. QED BY <2>1
<1>2. PICK n \in Lens : \A m \in Lens : ~(<<m, n>> \in R)
  <2>1. IsWellFoundedOn(R, Nat)
    BY NatLessThanWellFounded
  <2> HIDE DEF Lens, R
  <2>. QED BY <1>1, <2>1, WFMin
<1>3. PICK s \in Seq(T) : s \notin S /\ Len(s) = n
  OBVIOUS
<1>4. PICK t \in Seq(T), x \in T : s = Append(t, x)
  <2>1. s # <<>>
    BY <1>3
  <2>. QED BY <2>1, SequenceEmptyOrAppend
<1>5. Len(t) \in Nat /\ Len(s) = Len(t) + 1 /\ t \notin S
  BY <1>3, <1>4, LenProperties, AppendProperties
<1>6. Len(t) \in Lens
  BY <1>5
<1>7. <<Len(t), n>> \in R
  BY <1>3, <1>5 DEF OpToRel
<1>. QED BY <1>2, <1>6, <1>7

\* f concatenates the first sequences of s, step by step.
Sums(f, s) == f = [i \in 1..Len(s) |-> IF i = 1 THEN s[i] ELSE f[i - 1] \o s[i]]

LEMMA SumsExtend ==
  ASSUME NEW T, NEW s \in Seq(T), NEW x \in T, NEW f, Sums(f, s)
  PROVE  Sums([i \in 1..(Len(s) + 1) |->
                 IF i <= Len(s) THEN f[i] ELSE IF i = 1 THEN x ELSE f[i - 1] \o x], Append(s, x))
<1> DEFINE N == Len(s)
           g == [i \in 1..(N + 1) |-> IF i <= N THEN f[i] ELSE IF i = 1 THEN x ELSE f[i - 1] \o x]
           u == Append(s, x)
<1>1. /\ N \in Nat /\ Len(u) = N + 1 /\ u[N + 1] = x
      /\ \A i \in 1..N : u[i] = s[i]
  BY LenProperties, AppendProperties
<1>2. \A i \in 1..N : f[i] = IF i = 1 THEN s[i] ELSE f[i - 1] \o s[i]
  BY DEF Sums
<1>3. ASSUME NEW i \in 1..(N + 1)
      PROVE  g[i] = IF i = 1 THEN u[i] ELSE g[i - 1] \o u[i]
  <2>1. i # 1 => i - 1 \in 1..N
    BY <1>1
  <2>2. i # 1 => g[i - 1] = f[i - 1]
    BY <1>1, <2>1
  <2>3. CASE i <= N
    <3>1. i \in 1..N
      BY <1>1, <2>3
    <3>2. g[i] = f[i] /\ u[i] = s[i]
      BY <1>1, <3>1
    <3> HIDE DEF g, u
    <3>. QED BY <1>2, <2>2, <3>1, <3>2
  <2>4. CASE ~(i <= N)
    <3>1. i = N + 1 /\ u[i] = x
      BY <1>1, <2>4
    <3>2. g[i] = IF i = 1 THEN x ELSE f[i - 1] \o x
      BY <2>4
    <3> HIDE DEF g, u
    <3>. QED BY <2>2, <3>1, <3>2
  <2>. QED BY <2>3, <2>4
<1>4. g = [i \in 1..(N + 1) |-> g[i]]
  OBVIOUS
<1> HIDE DEF g, u, N
<1>5. Sums(g, u)
  BY <1>1, <1>3, <1>4 DEF Sums
<1>. QED BY <1>5 DEF g, u, N

LEMMA SumsExist ==
  ASSUME NEW T, NEW s \in Seq(Seq(T)), s # <<>>
  PROVE  \E f : Sums(f, s) /\ f[Len(s)] \in Seq(T)
<1> DEFINE S == {u \in Seq(Seq(T)) : \E f : Sums(f, u) /\ (u # <<>> => f[Len(u)] \in Seq(T))}
<1>1. <<>> \in S
  <2>1. Sums([i \in 1..0 |-> <<>>], <<>>)
    BY DEF Sums
  <2>. QED BY <2>1
<1>2. ASSUME NEW u \in Seq(Seq(T)), u \in S, NEW x \in Seq(T)
      PROVE  Append(u, x) \in S
  <2>1. PICK f : Sums(f, u) /\ (u # <<>> => f[Len(u)] \in Seq(T))
    BY <1>2
  <2> DEFINE g == [i \in 1..(Len(u) + 1) |->
                     IF i <= Len(u) THEN f[i] ELSE IF i = 1 THEN x ELSE f[i - 1] \o x]
  <2>2. Sums(g, Append(u, x))
    BY <2>1, SumsExtend
  <2>3. /\ Len(u) \in Nat /\ Len(Append(u, x)) = Len(u) + 1 /\ Append(u, x) \in Seq(Seq(T))
        /\ Len(u) = 0 => u = <<>>
    BY LenProperties, AppendProperties, EmptySeq
  <2>4. g[Len(u) + 1] \in Seq(T)
    <3>1. CASE Len(u) = 0
      BY <3>1
    <3>2. CASE Len(u) # 0
      <4>1. f[Len(u)] \in Seq(T)
        BY <2>1, <3>2
      <4>2. g[Len(u) + 1] = f[Len(u)] \o x
        BY <2>3, <3>2
      <4>. QED BY <4>1, <4>2, ConcatProperties
    <3>. QED BY <3>1, <3>2
  <2> HIDE DEF g
  <2>. QED BY <2>2, <2>3, <2>4
<1>3. Seq(Seq(T)) \subseteq S
  <2> HIDE DEF S
  <2>. QED BY <1>1, <1>2, SequencesByAppend
<1>. QED BY <1>3

\* There is one such function.
LEMMA SumsUnique ==
  ASSUME NEW T, NEW s \in Seq(T), NEW f, Sums(f, s), NEW g, Sums(g, s)
  PROVE  f = g
<1> DEFINE N == Len(s)
           Differ == {n \in 1..N : f[n] # g[n]}
           R == OpToRel(<, Nat)
<1>1. N \in Nat
  BY LenProperties
<1>2. /\ \A i \in 1..N : f[i] = IF i = 1 THEN s[i] ELSE f[i - 1] \o s[i]
      /\ \A i \in 1..N : g[i] = IF i = 1 THEN s[i] ELSE g[i - 1] \o s[i]
  BY DEF Sums
<1>3. Differ = {}
  <2> SUFFICES ASSUME Differ # {} PROVE FALSE
    OBVIOUS
  <2>1. PICK n \in Differ : \A m \in Differ : ~(<<m, n>> \in R)
    <3>1. IsWellFoundedOn(R, Nat)
      BY NatLessThanWellFounded
    <3>2. Differ \subseteq Nat
      BY <1>1
    <3> HIDE DEF Differ, R
    <3>. QED BY <3>1, <3>2, WFMin
  <2>2. n \in 1..N /\ n # 1
    BY <1>2
  <2>3. n - 1 \in 1..N /\ n - 1 \in Nat /\ n \in Nat /\ n - 1 < n
    BY <1>1, <2>2
  <2>4. <<n - 1, n>> \in R
    BY <2>3 DEF OpToRel
  <2>5. n - 1 \notin Differ
    BY <2>1, <2>4
  <2>6. f[n - 1] = g[n - 1]
    BY <2>3, <2>5
  <2>7. f[n] = g[n]
    BY <1>2, <2>2, <2>6
  <2>. QED BY <2>7
<1>4. \A i \in 1..N : f[i] = g[i]
  BY <1>3
<1>5. f = [i \in 1..N |-> f[i]] /\ g = [i \in 1..N |-> g[i]]
  BY DEF Sums
<1>. QED BY <1>4, <1>5

LEMMA FlattenSums ==
  ASSUME NEW T, NEW s \in Seq(T), s # <<>>, NEW f, Sums(f, s)
  PROVE  FlattenSeq(s) = f[Len(s)]
<1> DEFINE flatten == CHOOSE g : g = [i \in 1..Len(s) |-> IF i = 1 THEN s[i] ELSE g[i - 1] \o s[i]]
<1>1. Len(s) # 0
  BY EmptySeq
<1>2. FlattenSeq(s) = flatten[Len(s)]
  BY <1>1 DEF FlattenSeq
<1>3. Sums(flatten, s)
  BY DEF Sums
<1> HIDE DEF flatten
<1>4. flatten = f
  BY <1>3, SumsUnique
<1>. QED BY <1>2, <1>4

LEMMA FlattenEmpty == FlattenSeq(<<>>) = <<>>
BY DEF FlattenSeq

\* What FlattenSeq returns.
LEMMA FlattenType ==
  ASSUME NEW T, NEW s \in Seq(Seq(T))
  PROVE  FlattenSeq(s) \in Seq(T)
<1>1. CASE s = <<>>
  BY <1>1, FlattenEmpty, EmptySeq
<1>2. CASE s # <<>>
  <2>1. PICK f : Sums(f, s) /\ f[Len(s)] \in Seq(T)
    BY <1>2, SumsExist
  <2>. QED BY <1>2, <2>1, FlattenSums
<1>. QED BY <1>1, <1>2

LEMMA FlattenAppend ==
  ASSUME NEW T, NEW s \in Seq(Seq(T)), NEW x \in Seq(T)
  PROVE  FlattenSeq(Append(s, x)) = FlattenSeq(s) \o x
<1>1. /\ Len(s) \in Nat /\ Len(Append(s, x)) = Len(s) + 1 /\ Append(s, x) \in Seq(Seq(T))
      /\ Append(s, x) # <<>>
  BY LenProperties, AppendProperties
<1>2. PICK f : Sums(f, s) /\ (s # <<>> => FlattenSeq(s) = f[Len(s)])
  <2>1. CASE s = <<>>
    <3>1. Sums([i \in 1..0 |-> <<>>], <<>>)
      BY DEF Sums
    <3>. QED BY <2>1, <3>1
  <2>2. CASE s # <<>>
    BY <2>2, SumsExist, FlattenSums
  <2>. QED BY <2>1, <2>2
<1> DEFINE g == [i \in 1..(Len(s) + 1) |->
                   IF i <= Len(s) THEN f[i] ELSE IF i = 1 THEN x ELSE f[i - 1] \o x]
<1>3. FlattenSeq(Append(s, x)) = g[Len(s) + 1]
  <2>1. Sums(g, Append(s, x))
    BY <1>2, SumsExtend
  <2> HIDE DEF g
  <2>. QED BY <1>1, <2>1, FlattenSums
<1>4. CASE s = <<>>
  <2>1. g[Len(s) + 1] = x
    BY <1>4
  <2>2. <<>> \o x = x
    BY ConcatEmptySeq
  <2>. QED BY <1>3, <1>4, <2>1, <2>2, FlattenEmpty
<1>5. CASE s # <<>>
  <2>1. Len(s) # 0
    BY <1>5, EmptySeq
  <2>2. g[Len(s) + 1] = f[Len(s)] \o x
    BY <1>1, <2>1
  <2>. QED BY <1>2, <1>3, <1>5, <2>2
<1>. QED BY <1>4, <1>5
-----------------------------------------------------------------------------
(***************************************************************************)
(* What the edits of HookConfig are made of: the handlers that are kept,   *)
(* and the entries, in the order of the file.                              *)
(***************************************************************************)
\* The handlers, or entries, that are kept, each as a sequence of its own.
KeptOf(handlers, programs) ==
    [n \in DOMAIN handlers |->
        IF handlers[n].program \in programs THEN <<>> ELSE <<handlers[n]>>]

LEMMA KeptEmpty == ASSUME NEW P PROVE Kept(<<>>, P) = <<>>
<1>1. KeptOf(<<>>, P) = <<>>
  BY DEF KeptOf
<1>. QED BY <1>1, FlattenEmpty DEF Kept, KeptOf

LEMMA KeptOfType ==
  ASSUME NEW T, NEW s \in Seq(T), NEW P
  PROVE  KeptOf(s, P) \in Seq(Seq(T))
<1>1. \A c \in T : <<c>> \in Seq(T) /\ <<>> \in Seq(T)
  OBVIOUS
<1>2. DOMAIN s = 1..Len(s) /\ Len(s) \in Nat /\ \A n \in 1..Len(s) : s[n] \in T
  BY LenProperties, ElementOfSeq
<1>3. \A n \in 1..Len(s) : KeptOf(s, P)[n] \in Seq(T)
  BY <1>1, <1>2 DEF KeptOf
<1>4. KeptOf(s, P) = [n \in 1..Len(s) |-> KeptOf(s, P)[n]]
  BY <1>2 DEF KeptOf
<1> HIDE DEF KeptOf
<1>. QED BY <1>2, <1>3, <1>4, SeqDef

LEMMA KeptAppend ==
  ASSUME NEW T, NEW s \in Seq(T), NEW c \in T, NEW P
  PROVE  Kept(Append(s, c), P) = IF c.program \in P THEN Kept(s, P) ELSE Append(Kept(s, P), c)
<1> DEFINE piece == IF c.program \in P THEN <<>> ELSE <<c>>
           all == Append(s, c)
<1>1. piece \in Seq(T) /\ KeptOf(s, P) \in Seq(Seq(T)) /\ KeptOf(all, P) \in Seq(Seq(T))
  <2>1. piece \in Seq(T)
    OBVIOUS
  <2>2. all \in Seq(T)
    BY AppendProperties
  <2> HIDE DEF all, piece
  <2>. QED BY <2>1, <2>2, KeptOfType
<1>2. KeptOf(all, P) = Append(KeptOf(s, P), piece)
  <2>1. /\ DOMAIN s = 1..Len(s) /\ Len(s) \in Nat /\ DOMAIN all = 1..(Len(s) + 1)
        /\ all[Len(s) + 1] = c /\ \A n \in 1..Len(s) : all[n] = s[n]
    BY LenProperties, AppendProperties
  <2>2. /\ Len(KeptOf(s, P)) = Len(s) /\ Len(KeptOf(all, P)) = Len(s) + 1
    BY <2>1 DEF KeptOf
  <2>3. /\ Append(KeptOf(s, P), piece) \in Seq(Seq(T))
        /\ Len(Append(KeptOf(s, P), piece)) = Len(s) + 1
        /\ \A n \in 1..Len(s) : Append(KeptOf(s, P), piece)[n] = KeptOf(s, P)[n]
        /\ Append(KeptOf(s, P), piece)[Len(s) + 1] = piece
    BY <1>1, <2>2, AppendProperties
  <2>4. /\ \A n \in 1..Len(s) : KeptOf(all, P)[n] = KeptOf(s, P)[n]
        /\ KeptOf(all, P)[Len(s) + 1] = piece
    BY <2>1 DEF KeptOf
  <2>5. \A n \in 1..(Len(s) + 1) : KeptOf(all, P)[n] = Append(KeptOf(s, P), piece)[n]
    <3>1. \A n \in 1..(Len(s) + 1) : n \in 1..Len(s) \/ n = Len(s) + 1
      BY <2>1
    <3> HIDE DEF all, piece
    <3>. QED BY <2>3, <2>4, <3>1
  <2> HIDE DEF all, piece
  <2>. QED BY <1>1, <2>2, <2>3, <2>5, SeqEqual
<1>3. Kept(all, P) = Kept(s, P) \o piece
  <2>1. FlattenSeq(Append(KeptOf(s, P), piece)) = FlattenSeq(KeptOf(s, P)) \o piece
    BY <1>1, FlattenAppend
  <2>. QED BY <1>2, <2>1 DEF Kept, KeptOf
<1>4. Kept(s, P) \in Seq(T)
  BY <1>1, FlattenType DEF Kept, KeptOf
<1>. QED BY <1>3, <1>4, ConcatEmptySeq, AppendIsConcat

LEMMA KeptType ==
  ASSUME NEW T, NEW s \in Seq(T), NEW P
  PROVE  Kept(s, P) \in Seq(T)
BY KeptOfType, FlattenType DEF Kept, KeptOf

\* Every element of s is in S.
AllIn(s, S) == \A n \in DOMAIN s : s[n] \in S

LEMMA AllInAppend ==
  ASSUME NEW T, NEW s \in Seq(T), NEW c \in T, NEW S
  PROVE  AllIn(Append(s, c), S) <=> AllIn(s, S) /\ c \in S
<1> DEFINE u == Append(s, c)
<1>1. /\ DOMAIN s = 1..Len(s) /\ Len(s) \in Nat /\ DOMAIN u = 1..(Len(s) + 1)
      /\ u[Len(s) + 1] = c /\ \A n \in 1..Len(s) : u[n] = s[n]
  BY LenProperties, AppendProperties
<1> HIDE DEF u
<1>. QED BY <1>1 DEF AllIn, u

\* None of the programs is left.
LEMMA KeptAvoids ==
  ASSUME NEW T, NEW s \in Seq(T), NEW P
  PROVE  AllIn(Kept(s, P), {c \in T : c.program \notin P})
<1> DEFINE Others == {c \in T : c.program \notin P}
           S == {u \in Seq(T) : AllIn(Kept(u, P), Others)}
<1>1. <<>> \in S
  BY KeptEmpty DEF AllIn
<1>2. ASSUME NEW u \in Seq(T), u \in S, NEW c \in T
      PROVE  Append(u, c) \in S
  <2>1. Append(u, c) \in Seq(T) /\ Kept(u, P) \in Seq(T) /\ AllIn(Kept(u, P), Others)
    BY <1>2, AppendProperties, KeptType
  <2>2. CASE c.program \in P
    <3>1. Kept(Append(u, c), P) = Kept(u, P)
      BY <2>2, KeptAppend
    <3>. QED BY <2>1, <3>1
  <2>3. CASE c.program \notin P
    <3>1. Kept(Append(u, c), P) = Append(Kept(u, P), c) /\ c \in Others
      BY <2>3, KeptAppend
    <3> HIDE DEF Others
    <3>2. AllIn(Append(Kept(u, P), c), Others)
      BY <2>1, <3>1, AllInAppend
    <3>. QED BY <2>1, <3>1, <3>2
  <2>. QED BY <2>2, <2>3
<1>3. Seq(T) \subseteq S
  <2> HIDE DEF S
  <2>. QED BY <1>1, <1>2, SequencesByAppend
<1>. QED BY <1>3

LEMMA ConcatAppend ==
  ASSUME NEW T, NEW s \in Seq(T), NEW t \in Seq(T), NEW c \in T
  PROVE  s \o Append(t, c) = Append(s \o t, c)
<1>1. s \o t \in Seq(T) /\ <<c>> \in Seq(T)
  BY ConcatProperties
<1>2. Append(t, c) = t \o <<c>> /\ Append(s \o t, c) = (s \o t) \o <<c>>
  BY <1>1, AppendIsConcat
<1>. QED BY <1>1, <1>2, ConcatAssociative

\* Keeping commutes with concatenation.
LEMMA KeptConcat ==
  ASSUME NEW T, NEW s \in Seq(T), NEW t \in Seq(T), NEW P
  PROVE  Kept(s \o t, P) = Kept(s, P) \o Kept(t, P)
<1> DEFINE S == {u \in Seq(T) : Kept(s \o u, P) = Kept(s, P) \o Kept(u, P)}
<1>1. <<>> \in S
  BY KeptEmpty, KeptType, ConcatEmptySeq, EmptySeq
<1>2. ASSUME NEW u \in Seq(T), u \in S, NEW c \in T
      PROVE  Append(u, c) \in S
  <2>1. /\ Append(u, c) \in Seq(T) /\ Kept(u, P) \in Seq(T) /\ Kept(s, P) \in Seq(T)
        /\ s \o u \in Seq(T) /\ <<c>> \in Seq(T) /\ Kept(s, P) \o Kept(u, P) \in Seq(T)
    BY AppendProperties, KeptType, ConcatProperties
  <2>2. s \o Append(u, c) = Append(s \o u, c)
    BY ConcatAppend
  <2>3. Kept(s \o u, P) = Kept(s, P) \o Kept(u, P)
    BY <1>2
  <2>4. CASE c.program \in P
    <3>1. Kept(Append(s \o u, c), P) = Kept(s \o u, P) /\ Kept(Append(u, c), P) = Kept(u, P)
      BY <2>1, <2>4, KeptAppend
    <3>2. Kept(s \o Append(u, c), P) = Kept(s, P) \o Kept(Append(u, c), P)
      BY <2>2, <2>3, <3>1, Zenon
    <3>. QED BY <2>1, <3>2
  <2>5. CASE c.program \notin P
    <3>1. Kept(Append(s \o u, c), P) = Append(Kept(s \o u, P), c)
      <4>1. s \o u \in Seq(T)
        BY <2>1
      <4>2. \A r \in Seq(T) : Kept(Append(r, c), P) =
                                IF c.program \in P THEN Kept(r, P) ELSE Append(Kept(r, P), c)
        BY KeptAppend
      <4>. QED BY <4>1, <4>2, <2>5
    <3>2. Kept(Append(u, c), P) = Append(Kept(u, P), c)
      BY <2>5, KeptAppend
    <3>3. Kept(s, P) \o Append(Kept(u, P), c) = Append(Kept(s, P) \o Kept(u, P), c)
      <4>1. Kept(s, P) \in Seq(T) /\ Kept(u, P) \in Seq(T)
        BY <2>1
      <4>. QED BY <4>1, ConcatAppend
    <3>. QED BY <2>1, <2>2, <2>3, <3>1, <3>2, <3>3
  <2>. QED BY <2>4, <2>5
<1>3. Seq(T) \subseteq S
  <2> HIDE DEF S
  <2>. QED BY <1>1, <1>2, SequencesByAppend
<1>. QED BY <1>3

\* Removing some programs first changes nothing when more are removed later.
LEMMA KeptTwice ==
  ASSUME NEW T, NEW s \in Seq(T), NEW P, NEW Q, P \subseteq Q
  PROVE  Kept(Kept(s, P), Q) = Kept(s, Q)
<1> DEFINE S == {u \in Seq(T) : Kept(Kept(u, P), Q) = Kept(u, Q)}
<1>1. <<>> \in S
  BY KeptEmpty, EmptySeq
<1>2. ASSUME NEW u \in Seq(T), u \in S, NEW c \in T
      PROVE  Append(u, c) \in S
  <2>1. /\ Append(u, c) \in Seq(T) /\ Kept(u, P) \in Seq(T)
        /\ Kept(Kept(u, P), Q) = Kept(u, Q)
    BY <1>2, AppendProperties, KeptType
  <2>2. Kept(Append(u, c), Q) = IF c.program \in Q THEN Kept(u, Q) ELSE Append(Kept(u, Q), c)
    BY KeptAppend
  <2>3. CASE c.program \in P
    <3>1. Kept(Append(u, c), P) = Kept(u, P) /\ c.program \in Q
      BY <2>3, KeptAppend
    <3>. QED BY <2>1, <2>2, <3>1
  <2>4. CASE c.program \notin P
    <3>1. Kept(Append(u, c), P) = Append(Kept(u, P), c)
      BY <2>4, KeptAppend
    <3>2. Kept(Append(Kept(u, P), c), Q) =
            IF c.program \in Q THEN Kept(Kept(u, P), Q) ELSE Append(Kept(Kept(u, P), Q), c)
      BY <2>1, KeptAppend
    <3>. QED BY <2>1, <2>2, <3>1, <3>2
  <2>. QED BY <2>3, <2>4
<1>3. Seq(T) \subseteq S
  <2> HIDE DEF S
  <2>. QED BY <1>1, <1>2, SequencesByAppend
<1>. QED BY <1>3

Entry == Seq(Handler) \ {<<>>}

LEMMA EntriesAreSeqs ==
  ASSUME NEW es \in Seq(Entry)
  PROVE  es \in Seq(Seq(Handler))
<1>1. Entry \subseteq Seq(Handler)
  BY DEF Entry
<1>. QED BY <1>1, SeqMonotonic

\* The entries that Without keeps, each as a sequence of its own.
Cleaned(entry, programs) ==
    LET cleaned == Kept(entry, programs)
    IN  IF cleaned = <<>> THEN <<>> ELSE <<cleaned>>

CleanedOf(entries, programs) == [n \in DOMAIN entries |-> Cleaned(entries[n], programs)]

LEMMA WithoutEmpty == ASSUME NEW P PROVE Without(<<>>, P) = <<>>
<1>1. CleanedOf(<<>>, P) = <<>>
  BY DEF CleanedOf
<1>. QED BY <1>1, FlattenEmpty DEF Without, CleanedOf, Cleaned

LEMMA CleanedType ==
  ASSUME NEW x \in Seq(Handler), NEW P
  PROVE  Cleaned(x, P) \in Seq(Entry)
<1>1. Kept(x, P) \in Seq(Handler)
  BY KeptType
<1>2. CASE Kept(x, P) = <<>>
  BY <1>2, EmptySeq DEF Cleaned
<1>3. CASE Kept(x, P) # <<>>
  <2>1. Kept(x, P) \in Entry
    BY <1>1, <1>3 DEF Entry
  <2>2. \A y \in Entry : <<y>> \in Seq(Entry)
    OBVIOUS
  <2>3. <<Kept(x, P)>> \in Seq(Entry)
    BY <2>1, <2>2
  <2>. QED BY <1>3, <2>3 DEF Cleaned
<1>. QED BY <1>2, <1>3

LEMMA CleanedOfType ==
  ASSUME NEW es \in Seq(Seq(Handler)), NEW P
  PROVE  CleanedOf(es, P) \in Seq(Seq(Entry))
<1>1. DOMAIN es = 1..Len(es) /\ Len(es) \in Nat /\ \A n \in 1..Len(es) : es[n] \in Seq(Handler)
  BY LenProperties, ElementOfSeq
<1>2. \A n \in 1..Len(es) : CleanedOf(es, P)[n] \in Seq(Entry)
  BY <1>1, CleanedType DEF CleanedOf
<1>3. CleanedOf(es, P) = [n \in 1..Len(es) |-> CleanedOf(es, P)[n]]
  BY <1>1 DEF CleanedOf
<1> HIDE DEF CleanedOf
<1>. QED BY <1>1, <1>2, <1>3, SeqDef

LEMMA WithoutType ==
  ASSUME NEW es \in Seq(Entry), NEW P
  PROVE  Without(es, P) \in Seq(Entry)
<1>1. CleanedOf(es, P) \in Seq(Seq(Entry))
  BY EntriesAreSeqs, CleanedOfType
<1>2. FlattenSeq(CleanedOf(es, P)) \in Seq(Entry)
  BY <1>1, FlattenType
<1>. QED BY <1>2 DEF Without, CleanedOf, Cleaned

LEMMA WithoutAppend ==
  ASSUME NEW es \in Seq(Seq(Handler)), NEW x \in Seq(Handler), NEW P
  PROVE  Without(Append(es, x), P) = Without(es, P) \o Cleaned(x, P)
<1> DEFINE all == Append(es, x)
           piece == Cleaned(x, P)
<1>1. piece \in Seq(Entry) /\ CleanedOf(es, P) \in Seq(Seq(Entry)) /\ CleanedOf(all, P) \in Seq(Seq(Entry))
  <2>1. all \in Seq(Seq(Handler))
    BY AppendProperties
  <2> HIDE DEF all
  <2>. QED BY <2>1, CleanedOfType, CleanedType
<1>2. CleanedOf(all, P) = Append(CleanedOf(es, P), piece)
  <2>1. /\ DOMAIN es = 1..Len(es) /\ Len(es) \in Nat /\ DOMAIN all = 1..(Len(es) + 1)
        /\ all[Len(es) + 1] = x /\ \A n \in 1..Len(es) : all[n] = es[n]
    BY LenProperties, AppendProperties
  <2>2. /\ Len(CleanedOf(es, P)) = Len(es) /\ Len(CleanedOf(all, P)) = Len(es) + 1
    BY <2>1 DEF CleanedOf
  <2>3. /\ Append(CleanedOf(es, P), piece) \in Seq(Seq(Entry))
        /\ Len(Append(CleanedOf(es, P), piece)) = Len(es) + 1
        /\ \A n \in 1..Len(es) : Append(CleanedOf(es, P), piece)[n] = CleanedOf(es, P)[n]
        /\ Append(CleanedOf(es, P), piece)[Len(es) + 1] = piece
    BY <1>1, <2>2, AppendProperties
  <2>4. /\ \A n \in 1..Len(es) : CleanedOf(all, P)[n] = CleanedOf(es, P)[n]
        /\ CleanedOf(all, P)[Len(es) + 1] = piece
    BY <2>1 DEF CleanedOf
  <2>5. \A n \in 1..(Len(es) + 1) : CleanedOf(all, P)[n] = Append(CleanedOf(es, P), piece)[n]
    <3>1. \A n \in 1..(Len(es) + 1) : n \in 1..Len(es) \/ n = Len(es) + 1
      BY <2>1
    <3> HIDE DEF all, piece
    <3>. QED BY <2>3, <2>4, <3>1
  <2> HIDE DEF all, piece
  <2>. QED BY <1>1, <2>2, <2>3, <2>5, SeqEqual
<1>3. FlattenSeq(Append(CleanedOf(es, P), piece)) = FlattenSeq(CleanedOf(es, P)) \o piece
  <2> HIDE DEF piece
  <2>. QED BY <1>1, FlattenAppend
<1>. QED BY <1>2, <1>3 DEF Without, CleanedOf, Cleaned

\* Without removes from the handlers, in the order they run, those of the programs
\* and no others.
LEMMA FlattenWithout ==
  ASSUME NEW es \in Seq(Seq(Handler)), NEW P
  PROVE  FlattenSeq(Without(es, P)) = Kept(FlattenSeq(es), P)
<1> DEFINE S == {u \in Seq(Seq(Handler)) : /\ Without(u, P) \in Seq(Seq(Handler))
                                           /\ FlattenSeq(Without(u, P)) = Kept(FlattenSeq(u), P)}
<1>1. <<>> \in S
  BY WithoutEmpty, KeptEmpty, FlattenEmpty, EmptySeq
<1>2. ASSUME NEW u \in Seq(Seq(Handler)), u \in S, NEW x \in Seq(Handler)
      PROVE  Append(u, x) \in S
  <2>1. /\ Without(u, P) \in Seq(Seq(Handler))
        /\ FlattenSeq(Without(u, P)) = Kept(FlattenSeq(u), P)
    BY <1>2
  <2>2. /\ Append(u, x) \in Seq(Seq(Handler)) /\ FlattenSeq(u) \in Seq(Handler)
        /\ Kept(x, P) \in Seq(Handler)
    BY AppendProperties, FlattenType, KeptType
  <2>3. /\ Without(Append(u, x), P) = Without(u, P) \o Cleaned(x, P)
        /\ FlattenSeq(Append(u, x)) = FlattenSeq(u) \o x
    BY WithoutAppend, FlattenAppend
  <2>4. Kept(FlattenSeq(u) \o x, P) = Kept(FlattenSeq(u), P) \o Kept(x, P)
    BY <2>2, KeptConcat
  <2>5. Kept(FlattenSeq(u), P) \in Seq(Handler)
    BY <2>2, KeptType
  <2>6. CASE Kept(x, P) = <<>>
    <3>1. Without(Append(u, x), P) = Without(u, P)
      BY <2>1, <2>3, <2>6, ConcatEmptySeq DEF Cleaned
    <3>2. Kept(FlattenSeq(Append(u, x)), P) = Kept(FlattenSeq(u), P)
      BY <2>3, <2>4, <2>5, <2>6, ConcatEmptySeq
    <3>. QED BY <2>1, <2>2, <3>1, <3>2
  <2>7. CASE Kept(x, P) # <<>>
    <3>1. Without(Append(u, x), P) = Append(Without(u, P), Kept(x, P))
      <4>1. Without(Append(u, x), P) = Without(u, P) \o <<Kept(x, P)>>
        BY <2>3, <2>7 DEF Cleaned
      <4>. QED BY <2>1, <2>2, <4>1, AppendIsConcat
    <3>2. Append(Without(u, P), Kept(x, P)) \in Seq(Seq(Handler))
      BY <2>1, <2>2, AppendProperties
    <3>3. FlattenSeq(Append(Without(u, P), Kept(x, P))) = FlattenSeq(Without(u, P)) \o Kept(x, P)
      BY <2>1, <2>2, FlattenAppend
    <3>. QED BY <2>1, <2>2, <2>3, <2>4, <3>1, <3>2, <3>3, Zenon
  <2>. QED BY <2>6, <2>7
<1>3. Seq(Seq(Handler)) \subseteq S
  <2> HIDE DEF S
  <2>. QED BY <1>1, <1>2, SequencesByAppend
<1>. QED BY <1>3
-----------------------------------------------------------------------------
(***************************************************************************)
(* What each edit of HookConfig keeps: the user's handlers in their order, *)
(* and one of each of Taphaptic's.                                         *)
(***************************************************************************)
\* Some handler of s is c.
Has(s, c) == \E n \in DOMAIN s : s[n] = c

LEMMA HasConcat ==
  ASSUME NEW T, NEW s \in Seq(T), NEW t \in Seq(T), NEW c
  PROVE  Has(s \o t, c) <=> Has(s, c) \/ Has(t, c)
<1> DEFINE u == s \o t
<1>1. /\ DOMAIN s = 1..Len(s) /\ Len(s) \in Nat /\ DOMAIN t = 1..Len(t) /\ Len(t) \in Nat
      /\ DOMAIN u = 1..(Len(s) + Len(t))
      /\ \A i \in 1..(Len(s) + Len(t)) : u[i] = IF i <= Len(s) THEN s[i] ELSE t[i - Len(s)]
  BY LenProperties, ConcatProperties
<1> HIDE DEF u
<1>2. ASSUME Has(s, c) PROVE Has(u, c)
  BY <1>1, <1>2 DEF Has
<1>3. ASSUME Has(t, c) PROVE Has(u, c)
  <2>1. PICK n \in 1..Len(t) : t[n] = c
    BY <1>1, <1>3 DEF Has
  <2>2. n + Len(s) \in 1..(Len(s) + Len(t)) /\ ~(n + Len(s) <= Len(s)) /\ (n + Len(s)) - Len(s) = n
    BY <1>1
  <2>. QED BY <1>1, <2>1, <2>2 DEF Has
<1>4. ASSUME Has(u, c) PROVE Has(s, c) \/ Has(t, c)
  <2>1. PICK n \in 1..(Len(s) + Len(t)) : u[n] = c
    BY <1>1, <1>4 DEF Has
  <2>2. CASE n <= Len(s)
    BY <1>1, <2>1, <2>2 DEF Has
  <2>3. CASE ~(n <= Len(s))
    <3>1. n - Len(s) \in 1..Len(t)
      BY <1>1, <2>3
    <3>. QED BY <1>1, <2>1, <2>3, <3>1 DEF Has
  <2>. QED BY <2>2, <2>3
<1>. QED BY <1>2, <1>3, <1>4 DEF u

\* A handler of some entry is one of the handlers, in the order they run, and
\* conversely.
LEMMA HasFlatten ==
  ASSUME NEW es \in Seq(Seq(Handler)), NEW c
  PROVE  Has(FlattenSeq(es), c) <=> hasCommand(es, c)
<1> DEFINE S == {u \in Seq(Seq(Handler)) : Has(FlattenSeq(u), c) <=> hasCommand(u, c)}
<1>1. <<>> \in S
  BY FlattenEmpty, EmptySeq DEF Has, hasCommand
<1>2. ASSUME NEW u \in Seq(Seq(Handler)), u \in S, NEW x \in Seq(Handler)
      PROVE  Append(u, x) \in S
  <2> DEFINE all == Append(u, x)
  <2>1. all \in Seq(Seq(Handler)) /\ FlattenSeq(u) \in Seq(Handler)
    BY AppendProperties, FlattenType
  <2>2. Has(FlattenSeq(all), c) <=> Has(FlattenSeq(u), c) \/ Has(x, c)
    <3>1. FlattenSeq(all) = FlattenSeq(u) \o x
      BY FlattenAppend
    <3>2. Has(FlattenSeq(u) \o x, c) <=> Has(FlattenSeq(u), c) \/ Has(x, c)
      BY <2>1, HasConcat
    <3>. QED BY <3>1, <3>2, Zenon
  <2>3. hasCommand(all, c) <=> hasCommand(u, c) \/ Has(x, c)
    <3>1. /\ DOMAIN u = 1..Len(u) /\ Len(u) \in Nat /\ DOMAIN all = 1..(Len(u) + 1)
          /\ all[Len(u) + 1] = x /\ \A n \in 1..Len(u) : all[n] = u[n]
      BY LenProperties, AppendProperties
    <3> HIDE DEF all
    <3>2. ASSUME hasCommand(u, c) \/ Has(x, c) PROVE hasCommand(all, c)
      <4>1. CASE hasCommand(u, c)
        <5>1. PICK n \in 1..Len(u) : \E m \in DOMAIN u[n] : u[n][m] = c
          BY <3>1, <4>1 DEF hasCommand
        <5>2. n \in DOMAIN all /\ all[n] = u[n]
          BY <3>1
        <5>. QED BY <5>1, <5>2 DEF hasCommand
      <4>2. CASE Has(x, c)
        <5>1. Len(u) + 1 \in DOMAIN all
          BY <3>1
        <5>. QED BY <3>1, <4>2, <5>1 DEF hasCommand, Has
      <4>. QED BY <3>2, <4>1, <4>2
    <3>3. ASSUME hasCommand(all, c) PROVE hasCommand(u, c) \/ Has(x, c)
      <4>1. PICK n \in DOMAIN all : \E m \in DOMAIN all[n] : all[n][m] = c
        BY <3>3 DEF hasCommand
      <4>2. n \in 1..Len(u) \/ n = Len(u) + 1
        BY <3>1
      <4>3. CASE n \in 1..Len(u)
        BY <3>1, <4>1, <4>3 DEF hasCommand
      <4>4. CASE n = Len(u) + 1
        BY <3>1, <4>1, <4>4 DEF Has
      <4>. QED BY <4>2, <4>3, <4>4
    <3>. QED BY <3>2, <3>3
  <2>4. Has(FlattenSeq(u), c) <=> hasCommand(u, c)
    BY <1>2
  <2> HIDE DEF all
  <2>5. all \in S
    BY <2>1, <2>2, <2>3, <2>4
  <2>. QED BY <2>5 DEF all
<1>3. Seq(Seq(Handler)) \subseteq S
  <2> HIDE DEF S
  <2>. QED BY <1>1, <1>2, SequencesByAppend
<1>. QED BY <1>3

\* Each of Taphaptic's handlers is there once.
Once(s) == \A n, m \in DOMAIN s : IsTaphaptic(s[n]) /\ s[n] = s[m] => n = m

LEMMA OnceAppend ==
  ASSUME NEW T, NEW s \in Seq(T), NEW c \in T, Once(s), ~IsTaphaptic(c) \/ ~Has(s, c)
  PROVE  Once(Append(s, c))
<1> DEFINE u == Append(s, c)
<1>1. /\ DOMAIN s = 1..Len(s) /\ Len(s) \in Nat /\ DOMAIN u = 1..(Len(s) + 1)
      /\ u[Len(s) + 1] = c /\ \A n \in 1..Len(s) : u[n] = s[n]
  BY LenProperties, AppendProperties
<1>2. \A n \in 1..(Len(s) + 1) : n \in 1..Len(s) \/ n = Len(s) + 1
  BY <1>1
<1> HIDE DEF u
<1>3. ASSUME NEW n \in DOMAIN u, NEW m \in DOMAIN u, IsTaphaptic(u[n]), u[n] = u[m]
      PROVE  n = m
  <2>1. CASE n \in 1..Len(s) /\ m \in 1..Len(s)
    BY <1>1, <1>3, <2>1 DEF Once
  <2>2. CASE n \in 1..Len(s) /\ m = Len(s) + 1
    <3>1. s[n] = c /\ IsTaphaptic(c) /\ Has(s, c)
      BY <1>1, <1>3, <2>2 DEF Has
    <3>. QED BY <3>1
  <2>3. CASE n = Len(s) + 1 /\ m \in 1..Len(s)
    <3>1. s[m] = c /\ IsTaphaptic(c) /\ Has(s, c)
      BY <1>1, <1>3, <2>3 DEF Has
    <3>. QED BY <3>1
  <2>. QED BY <1>1, <1>2, <2>1, <2>2, <2>3
<1>. QED BY <1>3 DEF Once, u

\* What an edit of an event's entries keeps: the user's handlers in their order, and
\* one of each of Taphaptic's.
Keeps(es, fs) ==
    /\ fs \in Seq(Entry)
    /\ Kept(FlattenSeq(fs), Legacy) = Kept(FlattenSeq(es), Legacy)
    /\ Once(FlattenSeq(es)) => Once(FlattenSeq(fs))

LEMMA KeepsTransitive ==
  ASSUME NEW es, NEW fs, NEW gs, Keeps(es, fs), Keeps(fs, gs)
  PROVE  Keeps(es, gs)
BY DEF Keeps

LEMMA WithoutKeeps ==
  ASSUME NEW es \in Seq(Entry), NEW P \in {Taphaptic, Legacy}
  PROVE  Keeps(es, Without(es, P)) /\ \A c : IsTaphaptic(c) => ~hasCommand(Without(es, P), c)
<1> DEFINE flat == FlattenSeq(es)
           fs == Without(es, P)
<1>1. es \in Seq(Seq(Handler)) /\ fs \in Seq(Entry)
  BY EntriesAreSeqs, WithoutType
<1>2. FlattenSeq(fs) = Kept(flat, P) /\ flat \in Seq(Handler) /\ fs \in Seq(Seq(Handler))
  BY <1>1, FlattenWithout, FlattenType, EntriesAreSeqs
<1> HIDE DEF flat, fs
<1>3. P \subseteq Legacy /\ Taphaptic \subseteq P
  BY DEF Taphaptic, Legacy
<1>4. Kept(Kept(flat, P), Legacy) = Kept(flat, Legacy)
  BY <1>2, <1>3, KeptTwice
<1>5. \A n \in DOMAIN Kept(flat, P) : ~IsTaphaptic(Kept(flat, P)[n])
  <2>1. AllIn(Kept(flat, P), {c \in Handler : c.program \notin P})
    BY <1>2, KeptAvoids
  <2>. QED BY <1>3, <2>1 DEF AllIn, IsTaphaptic
<1>6. Once(FlattenSeq(fs))
  BY <1>2, <1>5 DEF Once
<1>7. ASSUME NEW c, IsTaphaptic(c) PROVE ~hasCommand(fs, c)
  <2>1. ~Has(FlattenSeq(fs), c)
    BY <1>2, <1>5, <1>7 DEF Has
  <2>. QED BY <1>2, <2>1, HasFlatten
<1>8. Keeps(es, fs)
  BY <1>1, <1>2, <1>4, <1>6 DEF Keeps, flat
<1>. QED BY <1>7, <1>8 DEF fs

LEMMA OursType ==
  ASSUME NEW a \in Action
  PROVE  Ours(a) \in Handler /\ Ours(a).program \in Legacy /\ IsTaphaptic(Ours(a))
<1>1. Ours(a) = [program |-> "taphaptic-hook", action |-> a]
  BY DEF Ours, Runs
<1>2. Ours(a).program = "taphaptic-hook"
  BY <1>1
<1>3. Ours(a) \in Handler
  BY <1>1 DEF Handler, Program
<1>. QED BY <1>2, <1>3 DEF Legacy, Taphaptic, IsTaphaptic

LEMMA AddCommandKeeps ==
  ASSUME NEW es \in Seq(Entry), NEW a \in Action
  PROVE  Keeps(es, addCommand(es, Ours(a)))
<1> DEFINE c == Ours(a)
           flat == FlattenSeq(es)
<1>1. es \in Seq(Seq(Handler)) /\ flat \in Seq(Handler) /\ c \in Handler /\ c.program \in Legacy
  BY EntriesAreSeqs, FlattenType, OursType
<1>2. <<c>> \in Entry /\ <<c>> \in Seq(Handler)
  <2>1. \A d \in Handler : <<d>> \in Seq(Handler) /\ <<d>> # <<>>
    OBVIOUS
  <2>. QED BY <1>1, <2>1 DEF Entry
<1> HIDE DEF c
<1>3. CASE hasCommand(es, c)
  BY <1>3 DEF addCommand, Keeps, c
<1>4. CASE ~hasCommand(es, c)
  <2> DEFINE fs == Append(es, <<c>>)
  <2>1. addCommand(es, c) = fs
    BY <1>4 DEF addCommand
  <2>2. fs \in Seq(Entry)
    BY <1>2, AppendProperties
  <2>3. FlattenSeq(fs) = Append(flat, c)
    <3>1. FlattenSeq(fs) = flat \o <<c>>
      BY <1>1, <1>2, FlattenAppend
    <3> HIDE DEF flat, fs
    <3>. QED BY <1>1, <3>1, AppendIsConcat
  <2>4. ~Has(flat, c)
    BY <1>1, <1>4, HasFlatten
  <2> HIDE DEF flat, fs
  <2>5. Kept(Append(flat, c), Legacy) = Kept(flat, Legacy)
    BY <1>1, KeptAppend
  <2>6. Once(flat) => Once(Append(flat, c))
    BY <1>1, <2>4, OnceAppend
  <2>7. Keeps(es, fs)
    BY <2>2, <2>3, <2>5, <2>6 DEF Keeps, flat
  <2>. QED BY <2>1, <2>7 DEF c
<1>. QED BY <1>3, <1>4

\* f adds the actions' commands, step by step.
Adds(f, es, actions) ==
    f = [n \in 0..Len(actions) |->
           IF n = 0 THEN es ELSE addCommand(f[n - 1], Ours(actions[n]))]

LEMMA AddCommandsIs ==
  ASSUME NEW es, NEW actions, NEW g, Adds(g, es, actions)
  PROVE  \E f : Adds(f, es, actions) /\ addCommands(es, actions) = f[Len(actions)]
<1> DEFINE added == CHOOSE f : f = [n \in 0..Len(actions) |->
                      IF n = 0 THEN es ELSE addCommand(f[n - 1], Ours(actions[n]))]
<1>1. Adds(added, es, actions)
  BY DEF Adds
<1>2. addCommands(es, actions) = added[Len(actions)]
  BY DEF addCommands
<1> HIDE DEF added
<1>. QED BY <1>1, <1>2

\* The lists of commands that the tool installs are short.
LEMMA AddNone == ASSUME NEW es PROVE addCommands(es, <<>>) = es
<1>1. Adds([n \in 0..0 |-> es], es, <<>>)
  BY DEF Adds
<1>2. PICK f : Adds(f, es, <<>>) /\ addCommands(es, <<>>) = f[Len(<<>>)]
  BY <1>1, AddCommandsIs
<1>. QED BY <1>2 DEF Adds

LEMMA AddOne ==
  ASSUME NEW es, NEW a
  PROVE  addCommands(es, <<a>>) = addCommand(es, Ours(a))
<1> DEFINE once == addCommand(es, Ours(a))
<1> HIDE DEF once
<1>1. Adds([n \in 0..1 |-> IF n = 0 THEN es ELSE once], es, <<a>>)
  BY DEF once, Adds
<1>2. PICK f : Adds(f, es, <<a>>) /\ addCommands(es, <<a>>) = f[Len(<<a>>)]
  BY <1>1, AddCommandsIs
<1>3. f[0] = es /\ f[1] = addCommand(f[0], Ours(a))
  BY <1>2 DEF Adds
<1>. QED BY <1>2, <1>3

LEMMA AddTwo ==
  ASSUME NEW es, NEW a, NEW b
  PROVE  addCommands(es, <<a, b>>) = addCommand(addCommand(es, Ours(a)), Ours(b))
<1> DEFINE once == addCommand(es, Ours(a))
           twice == addCommand(once, Ours(b))
           g == [n \in 0..2 |-> IF n = 0 THEN es ELSE IF n = 1 THEN once ELSE twice]
<1> HIDE DEF once, twice
<1>0. /\ g[0] = es /\ g[1] = once /\ g[2] = twice
      /\ Len(<<a, b>>) = 2 /\ <<a, b>>[1] = a /\ <<a, b>>[2] = b
  OBVIOUS
<1>1. Adds(g, es, <<a, b>>)
  <2>1. ASSUME NEW n \in 0..2
        PROVE  g[n] = IF n = 0 THEN es ELSE addCommand(g[n - 1], Ours(<<a, b>>[n]))
    <3> HIDE DEF g
    <3>1. n = 0 \/ n = 1 \/ n = 2
      OBVIOUS
    <3>2. CASE n = 0
      BY <1>0, <3>2
    <3>3. CASE n = 1
      BY <1>0, <3>3 DEF once
    <3>4. CASE n = 2
      BY <1>0, <3>4 DEF twice
    <3>. QED BY <3>1, <3>2, <3>3, <3>4
  <2>2. g = [n \in 0..2 |-> g[n]]
    OBVIOUS
  <2> HIDE DEF g
  <2>. QED BY <1>0, <2>1, <2>2 DEF Adds
<1>2. PICK f : Adds(f, es, <<a, b>>) /\ addCommands(es, <<a, b>>) = f[Len(<<a, b>>)]
  <2> HIDE DEF g
  <2>. QED BY <1>1, AddCommandsIs
<1>3. f[0] = es /\ f[1] = addCommand(f[0], Ours(a)) /\ f[2] = addCommand(f[1], Ours(b))
  BY <1>0, <1>2 DEF Adds
<1>. QED BY <1>0, <1>2, <1>3

FewActions(actions) ==
    \/ actions = <<>>
    \/ \E a \in Action : actions = <<a>>
    \/ \E a, b \in Action : actions = <<a, b>>

LEMMA AddCommandsKeeps ==
  ASSUME NEW es \in Seq(Entry), NEW actions, FewActions(actions)
  PROVE  Keeps(es, addCommands(es, actions))
<1>1. CASE actions = <<>>
  BY <1>1, AddNone DEF Keeps
<1>2. CASE \E a \in Action : actions = <<a>>
  <2>1. PICK a \in Action : actions = <<a>>
    BY <1>2
  <2>2. addCommands(es, <<a>>) = addCommand(es, Ours(a))
    BY AddOne
  <2>. QED BY <2>1, <2>2, AddCommandKeeps
<1>3. CASE \E a, b \in Action : actions = <<a, b>>
  <2>1. PICK a \in Action, b \in Action : actions = <<a, b>>
    BY <1>3
  <2>2. Keeps(es, addCommand(es, Ours(a)))
    BY AddCommandKeeps
  <2>3. Keeps(addCommand(es, Ours(a)), addCommand(addCommand(es, Ours(a)), Ours(b)))
    <3>1. addCommand(es, Ours(a)) \in Seq(Entry)
      BY <2>2 DEF Keeps
    <3>. QED BY <3>1, AddCommandKeeps
  <2>4. addCommands(es, actions) = addCommand(addCommand(es, Ours(a)), Ours(b))
    BY <2>1, AddTwo
  <2>. QED BY <2>2, <2>3, <2>4, KeepsTransitive
<1>. QED BY <1>1, <1>2, <1>3 DEF FewActions

\* g keeps, event by event, what it should of h.
KeepsAll(h, g) == g \in Hooks /\ \A e \in Event : Keeps(h[e], g[e])

LEMMA HooksType == Hooks = [Event -> Seq(Entry)]
BY DEF Hooks, Entry

LEMMA ActionsType ==
  ASSUME NEW e \in Event
  PROVE  FewActions(ClaudeActions[e]) /\ FewActions(CodexActions[e])
<1>1. {"stop", "subagent_stop", "permission_prompt", "idle_prompt", "permission_request"} \subseteq Action
  BY ActionAssumption
<1>2. /\ \/ ClaudeActions[e] = <<>> \/ ClaudeActions[e] = <<"stop">>
         \/ ClaudeActions[e] = <<"subagent_stop">>
         \/ ClaudeActions[e] = <<"permission_prompt", "idle_prompt">>
      /\ \/ CodexActions[e] = <<>> \/ CodexActions[e] = <<"stop">>
         \/ CodexActions[e] = <<"subagent_stop">> \/ CodexActions[e] = <<"permission_request">>
  BY DEF ClaudeActions, CodexActions, Event
<1>. QED BY <1>1, <1>2 DEF FewActions

LEMMA MergeClaudeKeeps ==
  ASSUME NEW h \in Hooks, NEW w \in BOOLEAN
  PROVE  KeepsAll(h, mergeClaudeHooks(h, w))
<1> DEFINE g == mergeClaudeHooks(h, w)
           patched == {"Stop", "SubagentStop"} \union (IF w THEN {"Notification"} ELSE {})
<1>1. ASSUME NEW e \in Event PROVE Keeps(h[e], g[e]) /\ g[e] \in Seq(Entry)
  <2>1. h[e] \in Seq(Entry)
    BY HooksType
  <2>2. g[e] = IF e \in patched THEN addCommands(pruneLegacyEntries(h[e]), ClaudeActions[e]) ELSE h[e]
    BY DEF mergeClaudeHooks
  <2> HIDE DEF g, patched
  <2>3. CASE e \in patched
    <3>1. Keeps(h[e], pruneLegacyEntries(h[e]))
      BY <2>1, WithoutKeeps DEF pruneLegacyEntries
    <3>2. Keeps(pruneLegacyEntries(h[e]), addCommands(pruneLegacyEntries(h[e]), ClaudeActions[e]))
      BY <3>1, AddCommandsKeeps, ActionsType DEF Keeps
    <3>3. Keeps(h[e], g[e])
      BY <2>2, <2>3, <3>1, <3>2, KeepsTransitive
    <3>. QED BY <3>3 DEF Keeps
  <2>4. CASE e \notin patched
    BY <2>1, <2>2, <2>4 DEF Keeps
  <2>. QED BY <2>3, <2>4
<1>2. g = [e \in Event |-> g[e]]
  BY DEF mergeClaudeHooks
<1> HIDE DEF g
<1>3. g \in [Event -> Seq(Entry)]
  BY <1>1, <1>2
<1>. QED BY <1>1, <1>3, HooksType DEF KeepsAll, g

LEMMA MergeCodexKeeps ==
  ASSUME NEW h \in Hooks
  PROVE  KeepsAll(h, mergeCodexHooks(h))
<1> DEFINE g == mergeCodexHooks(h)
<1>1. ASSUME NEW e \in Event PROVE Keeps(h[e], g[e]) /\ g[e] \in Seq(Entry)
  <2>1. h[e] \in Seq(Entry)
    BY HooksType
  <2>2. g[e] = addCommands(h[e], CodexActions[e])
    BY DEF mergeCodexHooks
  <2> HIDE DEF g
  <2>3. Keeps(h[e], g[e])
    BY <2>1, <2>2, AddCommandsKeeps, ActionsType
  <2>. QED BY <2>3 DEF Keeps
<1>2. g = [e \in Event |-> g[e]]
  BY DEF mergeCodexHooks
<1> HIDE DEF g
<1>3. g \in [Event -> Seq(Entry)]
  BY <1>1, <1>2
<1>. QED BY <1>1, <1>3, HooksType DEF KeepsAll, g

\* None of Taphaptic's handlers is left.
Clean(h) == \A e \in Event : \A c : IsTaphaptic(c) => ~hasCommand(h[e], c)

LEMMA RemoveKeeps ==
  ASSUME NEW h \in Hooks
  PROVE  KeepsAll(h, removeTaphapticHooks(h)) /\ Clean(removeTaphapticHooks(h))
<1> DEFINE g == removeTaphapticHooks(h)
<1>1. ASSUME NEW e \in Event
      PROVE  /\ Keeps(h[e], g[e]) /\ g[e] \in Seq(Entry)
             /\ \A c : IsTaphaptic(c) => ~hasCommand(g[e], c)
  <2>1. h[e] \in Seq(Entry)
    BY HooksType
  <2>2. g[e] = Without(h[e], Taphaptic)
    BY DEF removeTaphapticHooks, removeTaphapticEntries
  <2> HIDE DEF g
  <2>3. Keeps(h[e], g[e]) /\ \A c : IsTaphaptic(c) => ~hasCommand(g[e], c)
    BY <2>1, <2>2, WithoutKeeps
  <2>. QED BY <2>3 DEF Keeps
<1>2. g = [e \in Event |-> g[e]]
  BY DEF removeTaphapticHooks
<1> HIDE DEF g
<1>3. g \in [Event -> Seq(Entry)]
  BY <1>1, <1>2
<1>. QED BY <1>1, <1>3, HooksType DEF KeepsAll, Clean, g

LEMMA AddedType == Added \in Handler /\ Added.program \notin Legacy /\ ~IsTaphaptic(Added)
BY AddedAssumption DEF Added, Runs, Handler, Program, Legacy, Taphaptic, IsTaphaptic

\* What the user's edit of an event's entries does.
LEMMA UserAddsTo ==
  ASSUME NEW es \in Seq(Entry), NEW fs,
         \/ fs = Append(es, <<Added>>)
         \/ es # <<>> /\ fs = [es EXCEPT ![Len(es)] = Append(es[Len(es)], Added)]
  PROVE  /\ fs \in Seq(Entry) /\ Foreign(fs) = Append(Foreign(es), Added)
         /\ Once(FlattenSeq(es)) => Once(FlattenSeq(fs))
         /\ \A c : IsTaphaptic(c) /\ hasCommand(fs, c) => hasCommand(es, c)
<1>1. es \in Seq(Seq(Handler)) /\ FlattenSeq(es) \in Seq(Handler)
  BY EntriesAreSeqs, FlattenType
<1>2. fs \in Seq(Entry) /\ FlattenSeq(fs) = Append(FlattenSeq(es), Added)
  <2>1. CASE fs = Append(es, <<Added>>)
    <3>1. <<Added>> \in Entry /\ <<Added>> \in Seq(Handler)
      <4>1. \A d \in Handler : <<d>> \in Seq(Handler) /\ <<d>> # <<>>
        OBVIOUS
      <4>. QED BY <4>1, AddedType DEF Entry
    <3>2. FlattenSeq(fs) = FlattenSeq(es) \o <<Added>>
      BY <1>1, <2>1, <3>1, FlattenAppend
    <3>3. Append(FlattenSeq(es), Added) = FlattenSeq(es) \o <<Added>>
      BY <1>1, AddedType, AppendIsConcat
    <3>4. fs \in Seq(Entry)
      BY <2>1, <3>1, AppendProperties
    <3>. QED BY <3>2, <3>3, <3>4
  <2>2. CASE es # <<>> /\ fs = [es EXCEPT ![Len(es)] = Append(es[Len(es)], Added)]
    <3>1. PICK s \in Seq(Entry), x \in Entry : es = Append(s, x)
      BY <2>2, SequenceEmptyOrAppend
    <3> DEFINE y == Append(x, Added)
    <3>2. /\ Len(s) \in Nat /\ Len(es) = Len(s) + 1 /\ es[Len(es)] = x
          /\ \A n \in 1..Len(s) : es[n] = s[n]
      <4>1. /\ Len(Append(s, x)) = Len(s) + 1 /\ Append(s, x)[Len(s) + 1] = x
            /\ \A n \in 1..Len(s) : Append(s, x)[n] = s[n]
        BY AppendProperties
      <4>2. Len(s) \in Nat
        BY LenProperties
      <4>. QED BY <3>1, <4>1, <4>2, Zenon
    <3>3. x \in Seq(Handler) /\ y \in Seq(Handler) /\ y \in Entry
      <4>1. x \in Seq(Handler)
        BY DEF Entry
      <4>2. y \in Seq(Handler) /\ y # <<>>
        BY <4>1, AddedType, AppendProperties
      <4>. QED BY <4>1, <4>2 DEF Entry
    <3> HIDE DEF y
    <3>4. /\ fs \in Seq(Entry) /\ Len(fs) = Len(es)
          /\ \A n \in 1..Len(es) : fs[n] = IF n = Len(es) THEN y ELSE es[n]
      <4>1. fs = [es EXCEPT ![Len(es)] = y] /\ Len(es) \in 1..Len(es)
        BY <2>2, <3>2 DEF y
      <4>. QED BY <3>3, <4>1, ExceptSeq
    <3>5. fs = Append(s, y)
      <4>1. /\ Append(s, y) \in Seq(Entry) /\ Len(Append(s, y)) = Len(s) + 1
            /\ \A n \in 1..Len(s) : Append(s, y)[n] = s[n]
            /\ Append(s, y)[Len(s) + 1] = y
        BY <3>3, AppendProperties
      <4>2. \A n \in 1..Len(es) : n \in 1..Len(s) \/ n = Len(s) + 1
        BY <3>2
      <4>3. \A n \in 1..Len(s) : n # Len(es) /\ n \in 1..Len(es)
        BY <3>2
      <4>4. \A n \in 1..Len(es) : fs[n] = Append(s, y)[n]
        BY <3>2, <3>4, <4>1, <4>2, <4>3
      <4>. QED BY <3>2, <3>4, <4>1, <4>4, SeqEqual
    <3>6. s \in Seq(Seq(Handler)) /\ FlattenSeq(s) \in Seq(Handler)
      BY EntriesAreSeqs, FlattenType
    <3>7. FlattenSeq(fs) = FlattenSeq(s) \o y /\ FlattenSeq(es) = FlattenSeq(s) \o x
      <4>1. FlattenSeq(Append(s, y)) = FlattenSeq(s) \o y
        BY <3>3, <3>6, FlattenAppend
      <4>2. FlattenSeq(Append(s, x)) = FlattenSeq(s) \o x
        BY <3>3, <3>6, FlattenAppend
      <4>. QED BY <3>1, <3>5, <4>1, <4>2, Zenon
    <3>8. FlattenSeq(s) \o y = Append(FlattenSeq(s) \o x, Added)
      BY <3>3, <3>6, AddedType, ConcatAppend DEF y
    <3>. QED BY <3>4, <3>7, <3>8
  <2>. QED BY <2>1, <2>2
<1>3. Foreign(fs) = Append(Foreign(es), Added)
  <2>1. Kept(Append(FlattenSeq(es), Added), Legacy) = Append(Kept(FlattenSeq(es), Legacy), Added)
    BY <1>1, AddedType, KeptAppend
  <2>. QED BY <1>2, <2>1 DEF Foreign
<1>4. Once(FlattenSeq(es)) => Once(FlattenSeq(fs))
  BY <1>1, <1>2, AddedType, OnceAppend
<1>5. ASSUME NEW c, IsTaphaptic(c), hasCommand(fs, c) PROVE hasCommand(es, c)
  <2> DEFINE flat == FlattenSeq(es)
             all == Append(flat, Added)
  <2>1. Has(all, c)
    BY <1>2, <1>5, EntriesAreSeqs, HasFlatten
  <2>2. /\ DOMAIN flat = 1..Len(flat) /\ Len(flat) \in Nat /\ DOMAIN all = 1..(Len(flat) + 1)
        /\ all[Len(flat) + 1] = Added /\ \A n \in 1..Len(flat) : all[n] = flat[n]
    BY <1>1, AddedType, LenProperties, AppendProperties
  <2> HIDE DEF flat, all
  <2>3. PICK n \in 1..(Len(flat) + 1) : all[n] = c
    BY <2>1, <2>2 DEF Has
  <2>4. n # Len(flat) + 1
    BY <1>5, <2>2, <2>3, AddedType
  <2>5. n \in 1..Len(flat)
    BY <2>2, <2>3, <2>4
  <2>6. Has(flat, c)
    BY <2>2, <2>3, <2>5 DEF Has
  <2>. QED BY <1>1, <2>6, HasFlatten DEF flat
<1>. QED BY <1>2, <1>3, <1>4, <1>5
-----------------------------------------------------------------------------
(***************************************************************************)
(* What the hook files are in every state.                                 *)
(***************************************************************************)
FilesAreSound ==
    /\ config \in [Agent -> File \union {None}] /\ backup \in File \union {None}
    /\ mine \in [Agent -> [Event -> Seq(Handler)]]

\* The agents whose files a command has still to edit.
AgentsAreSound ==
    cmd.at \in {"wrapper", "url", "backup", "patch", "unpatch"} \/ cmd.name = "uninstall" =>
        cmd.agents # <<>>

\* Every installation has a number of its own.
DrawnOnce ==
    /\ drawn <= MaxDrawn
    /\ \A q, r \in Relay : q # r => known[q] \intersect known[r] = {}

HooksOf(f) == IF f = None THEN NoHooks ELSE f.hooks

OnceIn(f) == \A e \in Event : Once(FlattenSeq(HooksOf(f)[e]))

\* Also in the backup, which may become the file.
EachOnce == (\A p \in Agent : OnceIn(config[p])) /\ OnceIn(backup)

Both == <<"claude", "codex">>

\* What uninstall.sh has removed of the hooks by the time it removes the wrapper.
UninstallOrder ==
    cmd.name = "uninstall" =>
        /\ cmd.at \in {"ask", "drop"} => cmd.agents = Both
        /\ cmd.at = "unpatch" =>
             cmd.agents = Both \/ (cmd.agents = <<"codex">> /\ ~HasHooks("claude"))
        /\ cmd.at = "files" => \A p \in Agent : HasHooks(p) => warned \/ p \in bare

\* An install puts the wrapper before its hooks, and uninstall.sh removes it after them.
WrapperOutlivesHooks ==
    /\ HooksHaveWrapper
    /\ cmd.name = "install" /\ cmd.at \in {"url", "backup", "patch"} => installed
    /\ UninstallOrder

NothingRestored == cmd.at # "settings"

LEMMA HooksOfType ==
  /\ NoHooks \in Hooks /\ \A e \in Event : FlattenSeq(NoHooks[e]) = <<>>
  /\ \A f \in File : f # None /\ f.hooks \in Hooks /\ HooksOf(f) = f.hooks
  /\ \A f \in File \union {None} : HooksOf(f) \in Hooks
<1>1. NoHooks \in Hooks /\ \A e \in Event : FlattenSeq(NoHooks[e]) = <<>>
  <2>1. \A e \in Event : NoHooks[e] = <<>>
    BY DEF NoHooks
  <2>2. NoHooks \in Hooks
    BY HooksType, EmptySeq DEF NoHooks
  <2>. QED BY <2>1, <2>2, FlattenEmpty
<1>2. ASSUME NEW f \in File PROVE f # None /\ f.hooks \in Hooks /\ HooksOf(f) = f.hooks
  BY NoneAssumption DEF File, HooksOf
<1>. QED BY <1>1, <1>2 DEF HooksOf

\* p's file becomes f, which keeps what it should of it.
Rewrites(p, f) ==
    /\ config' = [config EXCEPT ![p] = f] /\ UNCHANGED mine
    /\ KeepsAll(HooksOf(config[p]), f.hooks)

\* The commands that a step edits p's file for.
LEMMA PatchHooksStep ==
  ASSUME FilesAreSound, CommandIsSound, AgentsAreSound, PatchHooks
  PROVE  \E p \in Agent, f \in File : Rewrites(p, f)
<1> DEFINE p == Head(cmd.agents)
           hooks == IF p = "claude" THEN mergeClaudeHooks(HooksIn(p), cmd.notify)
                    ELSE mergeCodexHooks(HooksIn(p))
           f == [readable |-> TRUE, hooks |-> hooks]
<1>1. p \in Agent /\ cmd.notify \in BOOLEAN
  <2>1. cmd.agents \in Seq(Agent) /\ cmd.agents # <<>> /\ cmd.notify \in BOOLEAN
    BY DEF PatchHooks, AgentsAreSound, CommandIsSound, Cmd
  <2>. QED BY <2>1, HeadTailProperties
<1>2. HooksIn(p) = HooksOf(config[p]) /\ HooksOf(config[p]) \in Hooks
  BY <1>1, HooksOfType DEF HooksIn, HooksOf, FilesAreSound
<1>3. config' = [config EXCEPT ![p] = f] /\ UNCHANGED mine
  BY DEF PatchHooks
<1> HIDE DEF p
<1>4. KeepsAll(HooksOf(config[p]), hooks)
  BY <1>1, <1>2, MergeClaudeKeeps, MergeCodexKeeps
<1> HIDE DEF hooks
<1>5. f \in File
  BY <1>4 DEF File, KeepsAll
<1>6. f.hooks = hooks
  OBVIOUS
<1> HIDE DEF f
<1>. QED BY <1>1, <1>3, <1>4, <1>5, <1>6 DEF Rewrites

LEMMA RemoveHooksStep ==
  ASSUME FilesAreSound, CommandIsSound, AgentsAreSound, RemoveHooksAtPath
  PROVE  /\ UNCHANGED <<config, mine>> \/ \E p \in Agent, f \in File : Rewrites(p, f)
         /\ \E p \in Agent : p = Head(cmd.agents) /\ ~HasHooks(p)'
         /\ \A q \in Agent : HasHooks(q)' => HasHooks(q)
<1>1. PICK p \in Agent : p = Head(cmd.agents)
  <2>1. cmd.agents \in Seq(Agent) /\ cmd.agents # <<>>
    BY DEF RemoveHooksAtPath, AgentsAreSound, CommandIsSound, Cmd
  <2>. QED BY <2>1, HeadTailProperties
<1> DEFINE hooks == removeTaphapticHooks(HooksIn(p))
           f == [readable |-> TRUE, hooks |-> hooks]
<1>2. HooksIn(p) = HooksOf(config[p]) /\ HooksOf(config[p]) \in Hooks
  BY <1>1, HooksOfType DEF HooksIn, HooksOf, FilesAreSound
<1>3. /\ config' = [config EXCEPT ![p] = IF config[p] = None THEN None ELSE f]
      /\ UNCHANGED mine
  BY <1>1 DEF RemoveHooksAtPath
<1>4. KeepsAll(HooksOf(config[p]), hooks) /\ Clean(hooks)
  BY <1>2, RemoveKeeps
<1> HIDE DEF hooks
<1>5. f \in File /\ f # None
  <2>1. f \in File
    BY <1>4 DEF File, KeepsAll
  <2>. QED BY <2>1, NoneAssumption
<1>6. f.hooks = hooks
  OBVIOUS
<1> HIDE DEF f
<1>7. /\ \A q \in Agent : q # p => config'[q] = config[q]
      /\ config'[p] = IF config[p] = None THEN None ELSE f
  BY <1>1, <1>3 DEF FilesAreSound
<1>8. ~HasHooks(p)'
  <2>1. CASE config[p] = None
    <3>1. HooksIn(p)' = NoHooks
      BY <1>7, <2>1 DEF HooksIn
    <3>2. \A e \in Event : NoHooks[e] = <<>>
      BY DEF NoHooks
    <3>. QED BY <3>1, <3>2 DEF HasHooks
  <2>2. CASE config[p] # None
    <3>1. HooksIn(p)' = hooks
      BY <1>5, <1>6, <1>7, <2>2 DEF HooksIn
    <3>. QED BY <1>4, <3>1 DEF HasHooks, Clean, hasCommand
  <2>. QED BY <2>1, <2>2
<1>9. ASSUME NEW q \in Agent, HasHooks(q)' PROVE HasHooks(q)
  <2>1. q # p
    BY <1>8, <1>9
  <2>2. HooksIn(q)' = HooksIn(q)
    BY <1>7, <2>1 DEF HooksIn
  <2>. QED BY <1>9, <2>2 DEF HasHooks
<1>10. CASE config[p] = None
  <2>1. config' = config
    BY <1>3, <1>10 DEF FilesAreSound
  <2>. QED BY <1>1, <1>3, <1>8, <1>9, <2>1
<1>11. CASE config[p] # None
  <2>1. Rewrites(p, f)
    BY <1>3, <1>4, <1>6, <1>11 DEF Rewrites
  <2>. QED BY <1>1, <1>5, <1>8, <1>9, <2>1
<1>. QED BY <1>10, <1>11

LEMMA UserSlipsStep ==
  ASSUME FilesAreSound, NEW p \in Agent, UserSlips(p)
  PROVE  /\ \E f \in File : Rewrites(p, f)
         /\ \A q \in Agent : HasHooks(q)' => HasHooks(q)
<1> DEFINE f == [config[p] EXCEPT !.readable = ~config[p].readable]
<1>1. config[p] \in File /\ config' = [config EXCEPT ![p] = f] /\ UNCHANGED mine
  BY DEF UserSlips, FilesAreSound
<1>2. f \in File /\ f.hooks = config[p].hooks
  BY <1>1 DEF File
<1> HIDE DEF f
<1>3. HooksOf(config[p]) = f.hooks /\ f.hooks \in Hooks /\ f # None
  BY <1>1, <1>2, HooksOfType
<1>4. KeepsAll(HooksOf(config[p]), f.hooks)
  BY <1>3, HooksType DEF KeepsAll, Keeps
<1>5. ASSUME NEW q \in Agent PROVE HooksIn(q)' = HooksIn(q)
  <2>1. config'[q] = IF q = p THEN f ELSE config[q]
    BY <1>1 DEF FilesAreSound
  <2>. QED BY <1>3, <2>1 DEF HooksIn, HooksOf
<1>. QED BY <1>1, <1>2, <1>4, <1>5 DEF Rewrites, HasHooks

LEMMA UserAddsStep ==
  ASSUME FilesAreSound, NEW p \in Agent, NEW e \in Event, UserAdds(p, e)
  PROVE  /\ config' \in [Agent -> File \union {None}]
         /\ mine' = [mine EXCEPT ![p][e] = Append(mine[p][e], Added)]
         /\ \A q \in Agent : q # p => config'[q] = config[q]
         /\ \A d \in Event : d # e => HooksOf(config'[p])[d] = HooksOf(config[p])[d]
         /\ Foreign(HooksOf(config'[p])[e]) = Append(Foreign(HooksOf(config[p])[e]), Added)
         /\ Once(FlattenSeq(HooksOf(config[p])[e])) => Once(FlattenSeq(HooksOf(config'[p])[e]))
         /\ \A q \in Agent : HasHooks(q)' => HasHooks(q)
<1> DEFINE h == HooksOf(config[p])
           es == h[e]
<1>1. h = HooksIn(p) /\ h \in Hooks /\ es \in Seq(Entry)
  BY HooksOfType, HooksType DEF FilesAreSound, HooksIn, HooksOf
<1>2. PICK fs : /\ \/ fs = Append(es, <<Added>>)
                   \/ es # <<>> /\ fs = [es EXCEPT ![Len(es)] = Append(es[Len(es)], Added)]
                /\ config' = [config EXCEPT ![p] = [readable |-> TRUE, hooks |-> [h EXCEPT ![e] = fs]]]
  <2>1. Len(es) # 0 => es # <<>>
    BY <1>1, EmptySeq
  <2> HIDE DEF h
  <2>2. PICK fs \in {Append(es, <<Added>>)} \union
                     (IF Len(es) = 0 THEN {}
                      ELSE {[es EXCEPT ![Len(es)] = Append(es[Len(es)], Added)]}) :
          config' = [config EXCEPT ![p] = [readable |-> TRUE, hooks |-> [h EXCEPT ![e] = fs]]]
    BY <1>1 DEF UserAdds
  <2>. QED BY <2>1, <2>2
<1> DEFINE g == [h EXCEPT ![e] = fs]
           f == [readable |-> TRUE, hooks |-> g]
<1>3. /\ fs \in Seq(Entry) /\ Foreign(fs) = Append(Foreign(es), Added)
      /\ Once(FlattenSeq(es)) => Once(FlattenSeq(fs))
      /\ \A c : IsTaphaptic(c) /\ hasCommand(fs, c) => hasCommand(es, c)
  <2> HIDE DEF h, es
  <2>. QED BY <1>1, <1>2, UserAddsTo
<1>4. g \in Hooks /\ g[e] = fs /\ \A d \in Event : d # e => g[d] = h[d]
  <2> HIDE DEF h
  <2>. QED BY <1>1, <1>3, HooksType
<1>5. f \in File /\ f.hooks = g
  <2> HIDE DEF g
  <2>. QED BY <1>4 DEF File
<1>6. mine' = [mine EXCEPT ![p][e] = Append(mine[p][e], Added)]
  BY DEF UserAdds
<1>7. config' = [config EXCEPT ![p] = f]
  BY <1>2
<1> HIDE DEF f, g, h
<1>8. /\ config' \in [Agent -> File \union {None}] /\ config'[p] = f
      /\ \A q \in Agent : q # p => config'[q] = config[q]
  BY <1>5, <1>7 DEF FilesAreSound
<1>9. HooksOf(config'[p]) = g /\ HooksIn(p)' = g
  BY <1>5, <1>8, HooksOfType DEF HooksIn, HooksOf
<1>10. ASSUME NEW q \in Agent, HasHooks(q)' PROVE HasHooks(q)
  <2>1. CASE q # p
    <3>1. HooksIn(q)' = HooksIn(q)
      BY <1>8, <2>1 DEF HooksIn
    <3>. QED BY <1>10, <3>1 DEF HasHooks
  <2>2. CASE q = p
    <3>1. PICK d \in Event : \E n \in DOMAIN g[d] : \E m \in DOMAIN g[d][n] : IsTaphaptic(g[d][n][m])
      BY <1>9, <1>10, <2>2 DEF HasHooks
    <3>2. PICK c : IsTaphaptic(c) /\ hasCommand(g[d], c)
      BY <3>1 DEF hasCommand
    <3>3. hasCommand(h[d], c)
      BY <1>3, <1>4, <3>2
    <3>. QED BY <1>1, <2>2, <3>2, <3>3 DEF HasHooks, hasCommand
  <2>. QED BY <2>1, <2>2
<1>. QED BY <1>3, <1>4, <1>6, <1>8, <1>9, <1>10 DEF h

\* Whatever changes a hook file is one of these.
ConfigChanges ==
    \/ UNCHANGED <<config, mine>>
    \/ \E p \in Agent, f \in File : Rewrites(p, f)
    \/ \E p \in Agent, e \in Event : UserAdds(p, e)
    \/ RestoreSettings

\* Of the steps only an install or a patch brings hooks of Taphaptic's into a file,
\* and a restored backup.
LEMMA ConfigStep ==
  ASSUME FilesAreSound, CommandIsSound, AgentsAreSound, Next
  PROVE  /\ ConfigChanges
         /\ backup' = backup \/ backup' = config["claude"]
         /\ PatchHooks \/ RestoreSettings \/ \A p \in Agent : HasHooks(p)' => HasHooks(p)
<1> DEFINE Goal == /\ ConfigChanges
                   /\ backup' = backup \/ backup' = config["claude"]
                   /\ PatchHooks \/ RestoreSettings \/ \A p \in Agent : HasHooks(p)' => HasHooks(p)
<1> SUFFICES Goal
  OBVIOUS
<1>1. ASSUME UNCHANGED <<config, mine>>, backup' = backup \/ backup' = config["claude"]
      PROVE  Goal
  BY <1>1 DEF ConfigChanges, HasHooks, HooksIn
<1>2. CASE \/ Command \/ Abort \/ Emit
           \/ InstallHookWrapper \/ WriteBaseURL
           \/ RestoreInstallation \/ CreateInstallation \/ SaveTokens \/ CreatePairingCode
           \/ NothingToDelete \/ AskDeletion \/ DropToken
           \/ RemoveHooksFails \/ RemoveRuntimeFiles \/ RemoveRelayState
           \/ \E r \in Relay : RelayLosesData(r)
  <2>1. UNCHANGED configs
    BY <1>2 DEF Command, InstallConsumer, PatchSettings, PatchCodexHooks, RemoveHooks,
       DeleteInstallation, Uninstall, Begin, Abort, Emit, BeginEmit, ReadTokens, ResolveProducer,
       SaveProducer, InstallHookWrapper, WriteBaseURL, RestoreInstallation, CreateInstallation,
       SaveTokens, CreatePairingCode, NothingToDelete, AskDeletion, DropToken, RemoveHooksFails,
       RemoveRuntimeFiles, RemoveRelayState, RelayLosesData
  <2>. QED BY <1>1, <2>1 DEF configs
<1>3. CASE BackupFile
  BY <1>1, <1>3 DEF BackupFile
<1>4. CASE PatchHooks
  <2>1. UNCHANGED backup
    BY <1>4 DEF PatchHooks
  <2>. QED BY <1>4, <2>1, PatchHooksStep DEF ConfigChanges
<1>5. CASE RemoveHooksAtPath
  <2>1. UNCHANGED backup
    BY <1>5 DEF RemoveHooksAtPath
  <2>. QED BY <1>5, <2>1, RemoveHooksStep DEF ConfigChanges
<1>6. CASE RestoreSettings
  BY <1>6 DEF RestoreSettings, ConfigChanges
<1>7. ASSUME NEW p \in Agent, NEW e \in Edited, UserAdds(p, e) PROVE Goal
  <2>1. UNCHANGED backup /\ e \in Event
    BY <1>7, EditedAssumption DEF UserAdds
  <2>2. \A q \in Agent : HasHooks(q)' => HasHooks(q)
    BY <1>7, <2>1, UserAddsStep
  <2>. QED BY <1>7, <2>1, <2>2 DEF ConfigChanges
<1>8. ASSUME NEW p \in Agent, UserSlips(p) PROVE Goal
  <2>1. UNCHANGED backup
    BY <1>8 DEF UserSlips
  <2>. QED BY <1>8, <2>1, UserSlipsStep DEF ConfigChanges
<1>. QED BY <1>2, <1>3, <1>4, <1>5, <1>6, <1>7, <1>8 DEF Next, Step

\* A file that is rewritten holds what it should.
LEMMA RewritesStep ==
  ASSUME FilesAreSound, NEW p \in Agent, NEW f \in File, Rewrites(p, f)
  PROVE  /\ config' \in [Agent -> File \union {None}] /\ UNCHANGED mine
         /\ config'[p] = f /\ \A q \in Agent : q # p => config'[q] = config[q]
         /\ HooksOf(f) = f.hooks /\ KeepsAll(HooksOf(config[p]), HooksOf(f))
BY HooksOfType DEF FilesAreSound, Rewrites

LEMMA RestoreSettingsStep ==
  ASSUME FilesAreSound, RestoreSettings
  PROVE  /\ config' \in [Agent -> File \union {None}] /\ UNCHANGED mine
         /\ \A q \in Agent : config'[q] = config[q] \/ config'[q] = backup
BY DEF FilesAreSound, RestoreSettings, Agent

LEMMA FilesStep ==
  ASSUME FilesAreSound, CommandIsSound, AgentsAreSound, Next
  PROVE  FilesAreSound'
<1>1. backup' \in File \union {None}
  BY ConfigStep DEF FilesAreSound, Agent
<1>2. ASSUME config' \in [Agent -> File \union {None}], UNCHANGED mine PROVE FilesAreSound'
  BY <1>1, <1>2 DEF FilesAreSound
<1>3. CASE UNCHANGED <<config, mine>>
  BY <1>2, <1>3 DEF FilesAreSound
<1>4. CASE \E p \in Agent, f \in File : Rewrites(p, f)
  BY <1>2, <1>4, RewritesStep
<1>5. ASSUME NEW p \in Agent, NEW e \in Event, UserAdds(p, e) PROVE FilesAreSound'
  <2>1. /\ config' \in [Agent -> File \union {None}]
        /\ mine' = [mine EXCEPT ![p][e] = Append(mine[p][e], Added)]
    BY <1>5, UserAddsStep
  <2>2. Append(mine[p][e], Added) \in Seq(Handler)
    BY AddedType, AppendProperties DEF FilesAreSound
  <2>3. mine' \in [Agent -> [Event -> Seq(Handler)]]
    BY <2>1, <2>2 DEF FilesAreSound
  <2>. QED BY <1>1, <2>1, <2>3 DEF FilesAreSound
<1>6. CASE RestoreSettings
  BY <1>2, <1>6, RestoreSettingsStep
<1>. QED BY <1>3, <1>4, <1>5, <1>6, ConfigStep DEF ConfigChanges

LEMMA EachOnceStep ==
  ASSUME FilesAreSound, CommandIsSound, AgentsAreSound, EachOnce, Next
  PROVE  EachOnce'
<1>1. OnceIn(backup')
  BY ConfigStep DEF EachOnce, Agent
<1>2. ASSUME \A p \in Agent : OnceIn(config'[p]) PROVE EachOnce'
  BY <1>1, <1>2 DEF EachOnce
<1>3. CASE UNCHANGED <<config, mine>>
  BY <1>2, <1>3 DEF EachOnce
<1>4. ASSUME NEW p \in Agent, NEW f \in File, Rewrites(p, f) PROVE EachOnce'
  <2>1. OnceIn(config'[p])
    BY <1>4, RewritesStep DEF EachOnce, OnceIn, KeepsAll, Keeps
  <2>. QED BY <1>2, <1>4, <2>1, RewritesStep DEF EachOnce
<1>5. ASSUME NEW p \in Agent, NEW e \in Event, UserAdds(p, e) PROVE EachOnce'
  <2>1. \A d \in Event : Once(FlattenSeq(HooksOf(config[p])[d]))
    BY DEF EachOnce, OnceIn
  <2>2. ASSUME NEW d \in Event PROVE Once(FlattenSeq(HooksOf(config'[p])[d]))
    <3>1. CASE d = e
      BY <1>5, <2>1, <3>1, UserAddsStep
    <3>2. CASE d # e
      <4>1. HooksOf(config'[p])[d] = HooksOf(config[p])[d]
        BY <1>5, <3>2, UserAddsStep
      <4>. QED BY <2>1, <4>1
    <3>. QED BY <3>1, <3>2
  <2>3. OnceIn(config'[p])
    BY <2>2 DEF OnceIn
  <2>4. \A q \in Agent : q # p => config'[q] = config[q]
    BY <1>5, UserAddsStep
  <2>. QED BY <1>2, <2>3, <2>4 DEF EachOnce
<1>6. CASE RestoreSettings
  <2>1. \A p \in Agent : OnceIn(config'[p])
    BY <1>6, RestoreSettingsStep DEF EachOnce
  <2>. QED BY <1>2, <2>1
<1>. QED BY <1>3, <1>4, <1>5, <1>6, ConfigStep DEF ConfigChanges

LEMMA ForeignStep ==
  ASSUME FilesAreSound, CommandIsSound, AgentsAreSound, ForeignHooksSurvive, Next, ~RestoreSettings
  PROVE  ForeignHooksSurvive'
<1>0. \A p \in Agent, e \in Event : Foreign(HooksOf(config[p])[e]) = mine[p][e]
  BY DEF ForeignHooksSurvive, HooksIn, HooksOf
<1>1. ASSUME \A p \in Agent, e \in Event : Foreign(HooksOf(config'[p])[e]) = mine'[p][e]
      PROVE  ForeignHooksSurvive'
  BY <1>1 DEF ForeignHooksSurvive, HooksIn, HooksOf
<1>3. CASE UNCHANGED <<config, mine>>
  BY <1>0, <1>1, <1>3
<1>4. ASSUME NEW p \in Agent, NEW f \in File, Rewrites(p, f) PROVE ForeignHooksSurvive'
  <2>1. \A e \in Event : Foreign(HooksOf(config'[p])[e]) = Foreign(HooksOf(config[p])[e])
    BY <1>4, RewritesStep DEF KeepsAll, Keeps, Foreign
  <2>2. UNCHANGED mine /\ \A q \in Agent : q # p => config'[q] = config[q]
    BY <1>4, RewritesStep
  <2>. QED BY <1>0, <1>1, <2>1, <2>2
<1>5. ASSUME NEW p \in Agent, NEW e \in Event, UserAdds(p, e) PROVE ForeignHooksSurvive'
  <2>1. /\ mine' = [mine EXCEPT ![p][e] = Append(mine[p][e], Added)]
        /\ \A q \in Agent : q # p => config'[q] = config[q]
        /\ \A d \in Event : d # e => HooksOf(config'[p])[d] = HooksOf(config[p])[d]
        /\ Foreign(HooksOf(config'[p])[e]) = Append(Foreign(HooksOf(config[p])[e]), Added)
    BY <1>5, UserAddsStep
  <2>2. /\ \A q \in Agent : q # p => mine'[q] = mine[q]
        /\ mine'[p][e] = Append(mine[p][e], Added)
        /\ \A d \in Event : d # e => mine'[p][d] = mine[p][d]
    BY <2>1 DEF FilesAreSound
  <2>3. ASSUME NEW d \in Event PROVE Foreign(HooksOf(config'[p])[d]) = mine'[p][d]
    <3>1. Foreign(HooksOf(config[p])[d]) = mine[p][d]
      BY <1>0
    <3>2. CASE d = e
      BY <2>1, <2>2, <3>1, <3>2
    <3>3. CASE d # e
      BY <2>1, <2>2, <3>1, <3>3
    <3>. QED BY <3>2, <3>3
  <2>4. \A q \in Agent, d \in Event : q # p => Foreign(HooksOf(config'[q])[d]) = mine'[q][d]
    BY <1>0, <2>1, <2>2
  <2>. QED BY <1>1, <2>3, <2>4
<1>. QED BY <1>3, <1>4, <1>5, ConfigStep DEF ConfigChanges
-----------------------------------------------------------------------------
(***************************************************************************)
(* What the command's agents and the installations' numbers are after a    *)
(* step.                                                                   *)
(***************************************************************************)
Editing == {"wrapper", "url", "backup", "patch", "unpatch"}

\* What a command's agents are after a step.
LEMMA AgentsTail ==
  ASSUME NEW s \in Seq(Agent), Len(s) > 1
  PROVE  Tail(s) \in Seq(Agent) /\ Tail(s) # <<>>
<1>1. s # <<>> /\ Len(s) \in Nat
  BY LenProperties, EmptySeq
<1>2. Tail(s) \in Seq(Agent) /\ Len(Tail(s)) = Len(s) - 1
  BY <1>1, HeadTailProperties
<1>3. Len(Tail(s)) # 0
  BY <1>1, <1>2
<1>. QED BY <1>2, <1>3, EmptySeq

LEMMA AgentsStep ==
  ASSUME CommandIsSound, AgentsAreSound, Next
  PROVE  AgentsAreSound'
<1> DEFINE A(c) == c.at \in Editing \/ c.name = "uninstall" => c.agents # <<>>
<1> SUFFICES A(cmd')
  BY DEF AgentsAreSound, Editing
<1>0. A(cmd) /\ cmd \in Cmd /\ cmd.at \in Place(cmd.name) /\ cmd.name \in Name /\ cmd.agents \in Seq(Agent)
  BY DEF AgentsAreSound, Editing, CommandIsSound, Cmd
<1>1. A(Idle)
  BY DEF Idle, Editing
<1>2. ASSUME NEW a, GoTo(a), a \in Editing => cmd.at \in Editing PROVE A(cmd')
  <2>1. cmd'.at = a /\ cmd'.name = cmd.name /\ cmd'.agents = cmd.agents
    BY <1>0, <1>2 DEF GoTo, Cmd
  <2>. QED BY <1>0, <1>2, <2>1
<1>3. ASSUME NEW next, Finish(next) PROVE A(cmd')
  <2>1. CASE cmd.name = "uninstall"
    <3>1. cmd' = [cmd EXCEPT !.at = next, !.left = <<>>]
      BY <1>3, <2>1 DEF Finish
    <3>2. cmd'.agents = cmd.agents
      BY <1>0, <3>1 DEF Cmd
    <3>. QED BY <1>0, <2>1, <3>2
  <2>2. CASE cmd.name # "uninstall"
    BY <1>1, <1>3, <2>2 DEF Finish, End
  <2>. QED BY <2>1, <2>2
<1>4. CASE Command
  <2>1. \A a \in Selections : a # <<>>
    BY SelectionsAssumption
  <2>2. <<"claude">> # <<>> /\ <<"codex">> # <<>> /\ <<"claude", "codex">> # <<>>
    OBVIOUS
  <2>. QED BY <1>4, <2>1, <2>2
       DEF Command, InstallConsumer, PatchSettings, PatchCodexHooks, RemoveHooks,
           DeleteInstallation, Uninstall, Begin, Idle, Editing
<1>5. CASE InstallHookWrapper \/ WriteBaseURL \/ BackupFile
  BY <1>2, <1>5 DEF InstallHookWrapper, WriteBaseURL, BackupFile, Editing
<1>6. CASE PatchHooks
  <2>1. CASE Len(cmd.agents) > 1
    <3>1. cmd' = [cmd EXCEPT !.at = "backup", !.agents = Tail(cmd.agents)]
      BY <1>6, <2>1 DEF PatchHooks
    <3>2. cmd'.agents = Tail(cmd.agents)
      BY <1>0, <3>1 DEF Cmd
    <3>. QED BY <1>0, <2>1, <3>2, AgentsTail
  <2>2. CASE ~(Len(cmd.agents) > 1) /\ cmd.name = "install"
    <3>1. cmd' = [cmd EXCEPT !.at = "restore", !.agents = <<>>]
      BY <1>6, <2>2 DEF PatchHooks
    <3>2. cmd'.at = "restore" /\ cmd'.name = "install"
      BY <1>0, <2>2, <3>1 DEF Cmd
    <3>. QED BY <3>2 DEF Editing
  <2>3. CASE ~(Len(cmd.agents) > 1) /\ cmd.name # "install"
    BY <1>1, <1>6, <2>3 DEF PatchHooks, End
  <2>. QED BY <2>1, <2>2, <2>3
<1>7. CASE RestoreInstallation \/ CreateInstallation
  <2>1. \/ GoTo("create") \/ cmd' = Idle
        \/ \E n \in 1..MaxDrawn : cmd' = [cmd EXCEPT !.at = "installation", !.token = n]
    BY <1>7 DEF RestoreInstallation, CreateInstallation, End
  <2>2. ASSUME NEW n \in 1..MaxDrawn, cmd' = [cmd EXCEPT !.at = "installation", !.token = n]
        PROVE  A(cmd')
    <3>1. cmd'.at = "installation" /\ cmd'.name = cmd.name /\ cmd'.agents = cmd.agents
      BY <1>0, <2>2 DEF Cmd
    <3>. QED BY <1>0, <3>1 DEF Editing
  <2>. QED BY <1>1, <1>2, <2>1, <2>2 DEF Editing
<1>8. CASE SaveTokens
  <2>1. \E a \in {"id", "producer", "code"} : GoTo(a)
    BY <1>8 DEF SaveTokens
  <2>. QED BY <1>2, <2>1 DEF Editing
<1>9. CASE CreatePairingCode \/ Abort \/ RestoreSettings
  BY <1>1, <1>9 DEF CreatePairingCode, Abort, RestoreSettings, End
<1>10. CASE NothingToDelete \/ RemoveHooksFails
  BY <1>3, <1>10 DEF NothingToDelete, RemoveHooksFails
<1>11. CASE AskDeletion
  <2>1. CASE cmd' = [cmd EXCEPT !.at = "drop", !.left = DeletedFiles]
    <3>1. cmd'.at = "drop" /\ cmd'.name = cmd.name /\ cmd'.agents = cmd.agents
      BY <1>0, <2>1 DEF Cmd
    <3>. QED BY <1>0, <3>1 DEF Editing
  <2>2. CASE Finish("unpatch")
    BY <1>3, <2>2
  <2>. QED BY <1>11, <2>1, <2>2 DEF AskDeletion
<1>12. CASE DropToken
  <2>1. CASE cmd' = [cmd EXCEPT !.left = Tail(cmd.left)]
    <3>1. cmd'.at = cmd.at /\ cmd'.name = cmd.name /\ cmd'.agents = cmd.agents
      BY <1>0, <2>1 DEF Cmd
    <3>. QED BY <1>0, <3>1
  <2>2. CASE Finish("unpatch")
    BY <1>3, <2>2
  <2>. QED BY <1>12, <2>1, <2>2 DEF DropToken
<1>13. CASE RemoveHooksAtPath
  <2>1. CASE Len(cmd.agents) > 1
    <3>1. cmd' = [cmd EXCEPT !.agents = Tail(cmd.agents)]
      BY <1>13, <2>1 DEF RemoveHooksAtPath
    <3>2. cmd'.agents = Tail(cmd.agents)
      BY <1>0, <3>1 DEF Cmd
    <3>. QED BY <1>0, <2>1, <3>2, AgentsTail
  <2>2. CASE ~(Len(cmd.agents) > 1)
    BY <1>3, <1>13, <2>2 DEF RemoveHooksAtPath
  <2>. QED BY <2>1, <2>2
<1>14. CASE RemoveRuntimeFiles \/ RemoveRelayState
  <2>1. GoTo("state") \/ GoTo("settings") \/ cmd' = Idle
    BY <1>14 DEF RemoveRuntimeFiles, RemoveRelayState, End
  <2>. QED BY <1>1, <1>2, <2>1 DEF Editing
<1>15. CASE \/ Emit
            \/ \E p \in Agent, e \in Edited : UserAdds(p, e)
            \/ \E p \in Agent : UserSlips(p)
            \/ \E r \in Relay : RelayLosesData(r)
  <2>1. UNCHANGED cmd
    BY <1>15 DEF Emit, BeginEmit, ReadTokens, ResolveProducer, SaveProducer, UserAdds, UserSlips,
       RelayLosesData
  <2>. QED BY <1>0, <2>1
<1>. QED
  BY <1>4, <1>5, <1>6, <1>7, <1>8, <1>9, <1>10, <1>11, <1>12, <1>13, <1>14, <1>15 DEF Next, Step

LEMMA RegistersOnce ==
  ASSUME Numbers, DrawnOnce, NEW r \in Relay, NEW b, NEW n \in 1..MaxDrawn, Registers(r, b, n)
  PROVE  DrawnOnce'
<1>1. CASE b \in known[r]
  BY <1>1 DEF Registers, relays, DrawnOnce
<1>2. CASE b \notin known[r]
  <2>1. /\ drawn < MaxDrawn /\ n = drawn + 1 /\ drawn' = n
        /\ known' = [known EXCEPT ![r] = known[r] \union {n}]
    BY <1>2 DEF Registers
  <2>2. \A q \in Relay : known'[q] = IF q = r THEN known[q] \union {n} ELSE known[q]
    BY <2>1 DEF Numbers
  <2>3. \A q \in Relay : n \notin known[q]
    BY <2>1 DEF Numbers
  <2>4. drawn' <= MaxDrawn
    BY <2>1
  <2>. QED BY <2>2, <2>3, <2>4 DEF DrawnOnce
<1>. QED BY <1>1, <1>2

LEMMA DrawnStep ==
  ASSUME Numbers, CommandIsSound, HookIsSound, DrawnOnce, Next
  PROVE  DrawnOnce'
<1>1. CASE UNCHANGED relays
  BY <1>1 DEF relays, DrawnOnce
<1>2. ASSUME Asks PROVE DrawnOnce'
  BY <1>2, RegistersOnce DEF Asks
<1>3. ASSUME UNCHANGED drawn, known' \in [Relay -> SUBSET (1..drawn)],
             \A r \in Relay : known'[r] \subseteq known[r]
      PROVE  DrawnOnce'
  BY <1>3 DEF DrawnOnce
<1>4. CASE RestoreInstallation \/ CreateInstallation
  <2>1. cmd.relay \in Relay /\ token["installation"] \in Nat
    <3>1. cmd.at \in {"restore", "create"}
      BY <1>4 DEF RestoreInstallation, CreateInstallation
    <3>2. cmd.relay \in Relay
      BY <3>1 DEF CommandIsSound, Place, Cmd, Name
    <3>. QED BY <3>2 DEF Numbers, TokenFile
  <2>2. UNCHANGED relays \/ Asks
    BY <1>4, <2>1 DEF RestoreInstallation, CreateInstallation, Asks
  <2>. QED BY <1>1, <1>2, <2>2
<1>5. CASE ResolveProducer
  <2>1. hook.relay \in Relay /\ hook.token \in Nat
    BY <1>5 DEF ResolveProducer, HookIsSound, Hook
  <2>2. UNCHANGED relays \/ Asks
    BY <1>5, <2>1 DEF ResolveProducer, Asks
  <2>. QED BY <1>1, <1>2, <2>2
<1>6. CASE AskDeletion
  <2>1. UNCHANGED drawn /\ (UNCHANGED known \/ Forgets(Configured, token["installation"]))
    BY <1>6 DEF AskDeletion
  <2>. QED BY <1>3, <2>1 DEF Forgets, Numbers
<1>7. CASE RemoveRelayState \/ \E r \in Relay : RelayLosesData(r)
  <2>1. UNCHANGED drawn /\ \E r : known' = [known EXCEPT ![r] = {}]
    BY <1>7 DEF RemoveRelayState, RelayLosesData
  <2>. QED BY <1>3, <2>1 DEF Numbers
<1>8. CASE \/ Command \/ Abort
           \/ InstallHookWrapper \/ WriteBaseURL \/ BackupFile \/ PatchHooks \/ SaveTokens
           \/ CreatePairingCode \/ NothingToDelete \/ DropToken \/ RemoveHooksAtPath
           \/ RemoveHooksFails \/ RemoveRuntimeFiles \/ RestoreSettings
           \/ BeginEmit \/ ReadTokens \/ SaveProducer
           \/ \E p \in Agent, e \in Edited : UserAdds(p, e)
           \/ \E p \in Agent : UserSlips(p)
  BY <1>1, <1>8 DEF Command, InstallConsumer, PatchSettings, PatchCodexHooks, RemoveHooks,
     DeleteInstallation, Uninstall, Begin, Abort, InstallHookWrapper, WriteBaseURL, BackupFile,
     PatchHooks, SaveTokens, CreatePairingCode, NothingToDelete, DropToken, RemoveHooksAtPath,
     RemoveHooksFails, RemoveRuntimeFiles, RestoreSettings, BeginEmit, ReadTokens, SaveProducer,
     UserAdds, UserSlips
<1>. QED
  BY <1>4, <1>5, <1>6, <1>7, <1>8 DEF Next, Step, Emit
-----------------------------------------------------------------------------
(***************************************************************************)
(* The order in which wrapper and hooks come and go.                       *)
(***************************************************************************)
LEMMA BothAgents ==
  /\ Len(Both) > 1 /\ Head(Both) = "claude" /\ Tail(Both) = <<"codex">>
  /\ ~(Len(<<"codex">>) > 1) /\ Head(<<"codex">>) = "codex"
<1>1. Len(Both) = 2 /\ Head(Both) = "claude"
  BY DEF Both
<1>2. Tail(Both) = <<"codex">>
  BY DEF Both
<1>3. Len(<<"codex">>) = 1 /\ Head(<<"codex">>) = "codex"
  OBVIOUS
<1>. QED BY <1>1, <1>2, <1>3

LEMMA WrapperStep ==
  ASSUME "restore" \notin Settings,
         FilesAreSound, CommandIsSound, AgentsAreSound, WrapperOutlivesHooks, NothingRestored, Next
  PROVE  WrapperOutlivesHooks' /\ NothingRestored'
<1> DEFINE Goal == WrapperOutlivesHooks' /\ NothingRestored'
           W1 == \A p \in Agent : HasHooks(p)' => installed' \/ warned' \/ p \in bare'
           W2 == cmd'.name = "install" /\ cmd'.at \in {"url", "backup", "patch"} => installed'
           W3 == UninstallOrder'
<1> SUFFICES Goal
  OBVIOUS
<1>a. ASSUME W1, W2, W3, cmd'.at # "settings" PROVE Goal
  BY <1>a DEF WrapperOutlivesHooks, NothingRestored, HooksHaveWrapper
<1>b. /\ \A p \in Agent : HasHooks(p) => installed \/ warned \/ p \in bare
      /\ cmd.name = "install" /\ cmd.at \in {"url", "backup", "patch"} => installed
      /\ UninstallOrder /\ cmd.at # "settings"
  BY DEF WrapperOutlivesHooks, NothingRestored, HooksHaveWrapper
<1>c. cmd \in Cmd /\ cmd.at \in Place(cmd.name) /\ cmd.name \in Name
  BY DEF CommandIsSound, Cmd
<1>d. Idle.at = "idle" /\ Idle.name = "none"
  BY DEF Idle
<1>0. PatchHooks \/ \A p \in Agent : HasHooks(p)' => HasHooks(p)
  BY <1>b, ConfigStep DEF RestoreSettings
\* Nothing changes but where another command is.
<1>1. ASSUME UNCHANGED <<installed, warned, bare>>, ~PatchHooks,
             cmd'.name # "uninstall", cmd'.at # "settings",
             cmd'.name = "install" /\ cmd'.at \in {"url", "backup", "patch"} => installed
      PROVE  Goal
  BY <1>0, <1>1, <1>a, <1>b DEF UninstallOrder
\* Nor does the command.
<1>2. ASSUME UNCHANGED <<installed, warned, bare, cmd>>, ~PatchHooks PROVE Goal
  <2>1. W3
    BY <1>0, <1>2, <1>b DEF UninstallOrder, Agent
  <2>. QED BY <1>0, <1>2, <1>a, <1>b, <2>1
\* uninstall.sh goes on.
<1>3. ASSUME UNCHANGED <<installed, bare, config>>, warned => warned',
             cmd.name = "uninstall", cmd'.name = "uninstall", cmd'.agents = cmd.agents,
             cmd.at \in {"ask", "drop"}, cmd'.at \in {"drop", "unpatch"}, ~PatchHooks
      PROVE  Goal
  <2>1. W3
    BY <1>3, <1>b DEF UninstallOrder
  <2>. QED BY <1>0, <1>3, <1>a, <1>b, <2>1
<1>4. ASSUME NEW next, Finish(next)
      PROVE  \/ cmd' = Idle /\ cmd.name # "uninstall"
             \/ /\ cmd.name = "uninstall" /\ cmd'.name = "uninstall" /\ cmd'.agents = cmd.agents
                /\ cmd'.at = next
  <2>1. CASE cmd.name = "uninstall"
    <3>1. cmd' = [cmd EXCEPT !.at = next, !.left = <<>>]
      BY <1>4, <2>1 DEF Finish
    <3>. QED BY <1>c, <2>1, <3>1 DEF Cmd
  <2>2. CASE cmd.name # "uninstall"
    BY <1>4, <2>2 DEF Finish, End
  <2>. QED BY <2>1, <2>2
<1>5. CASE InstallConsumer \/ PatchSettings \/ PatchCodexHooks \/ RemoveHooks \/ DeleteInstallation
  <2>1. /\ UNCHANGED <<installed, warned, bare>> /\ cmd'.name # "uninstall" /\ cmd'.at # "settings"
        /\ cmd'.name = "install" => cmd'.at = "wrapper"
    BY <1>5 DEF InstallConsumer, PatchSettings, PatchCodexHooks, RemoveHooks, DeleteInstallation,
       Begin, Idle, files, excuses
  <2>2. cmd.at = "idle"
    BY <1>5, <1>d DEF InstallConsumer, PatchSettings, PatchCodexHooks, RemoveHooks,
       DeleteInstallation, Begin
  <2>3. ~PatchHooks
    BY <2>2 DEF PatchHooks
  <2>. QED BY <1>1, <2>1, <2>3
<1>6. CASE Uninstall
  <2>1. /\ UNCHANGED <<installed, warned, bare>> /\ UNCHANGED config
        /\ cmd = Idle /\ cmd'.name = "uninstall" /\ cmd'.agents = Both
        /\ cmd'.at = IF installed THEN "ask" ELSE "files"
    BY <1>6 DEF Uninstall, Begin, Idle, files, configs, excuses, Both
  <2>2. ~PatchHooks
    BY <1>d, <2>1 DEF PatchHooks
  <2>3. W3
    BY <1>0, <1>b, <2>1, <2>2 DEF UninstallOrder
  <2>. QED BY <1>0, <1>a, <1>b, <2>1, <2>2, <2>3
<1>7. CASE Abort
  <2>1. UNCHANGED <<installed, warned, bare, config>> /\ cmd' = Idle
    BY <1>7 DEF Abort, End, files, configs, excuses
  <2>2. \A p \in Agent : HasHooks(p)' => HasHooks(p)
    BY <2>1 DEF HasHooks, HooksIn
  <2>3. W3
    BY <1>d, <2>1 DEF UninstallOrder
  <2>. QED BY <1>a, <1>b, <1>d, <2>1, <2>2, <2>3
<1>8. CASE InstallHookWrapper
  <2>1. cmd.at = "wrapper" /\ installed' = TRUE /\ GoTo("url")
    BY <1>8 DEF InstallHookWrapper
  <2>2. cmd.name = "install" /\ cmd'.name = "install" /\ cmd'.at = "url"
    BY <1>c, <2>1 DEF Place, Name, GoTo, Cmd
  <2>3. W3
    BY <2>2 DEF UninstallOrder
  <2>. QED BY <1>a, <2>1, <2>2, <2>3
<1>9. CASE WriteBaseURL \/ BackupFile
  <2>1. /\ UNCHANGED <<installed, warned, bare>> /\ cmd.at \in {"url", "backup"}
        /\ GoTo("backup") \/ GoTo("patch")
    BY <1>9 DEF WriteBaseURL, BackupFile, files, history, excuses
  <2>2. cmd.name # "uninstall" /\ cmd'.name = cmd.name /\ cmd'.at # "settings"
    BY <1>c, <2>1 DEF Place, Name, GoTo, Cmd
  <2>3. ~PatchHooks
    BY <2>1 DEF PatchHooks
  <2>. QED BY <1>1, <1>b, <2>1, <2>2, <2>3
<1>10. CASE PatchHooks
  <2>1. /\ cmd.at = "patch" /\ UNCHANGED <<installed, warned>>
        /\ bare' = IF cmd.name = "patch" /\ ~installed
                   THEN bare \union {Head(cmd.agents)} ELSE bare
    BY <1>10 DEF PatchHooks, files
  <2>2. \/ cmd' = Idle \/ cmd' = [cmd EXCEPT !.at = "backup", !.agents = Tail(cmd.agents)]
        \/ cmd' = [cmd EXCEPT !.at = "restore", !.agents = <<>>]
    BY <1>10 DEF PatchHooks, End
  <2>3. cmd.name \in {"install", "patch"}
    BY <1>c, <2>1 DEF Place, Name, InstallSteps
  <2>4. /\ cmd'.name # "uninstall" /\ cmd'.at # "settings"
        /\ cmd'.name = "install" => cmd.name = "install"
    BY <1>c, <1>d, <2>2, <2>3 DEF Cmd
  <2>5. W3
    BY <2>4 DEF UninstallOrder
  <2>6. ASSUME NEW p \in Agent, p # Head(cmd.agents), HasHooks(p)' PROVE HasHooks(p)
    <3>1. config'[p] = config[p]
      BY <1>10, <2>6 DEF PatchHooks, FilesAreSound
    <3>. QED BY <2>6, <3>1 DEF HasHooks, HooksIn
  <2>7. ASSUME NEW p \in Agent, HasHooks(p)' PROVE installed' \/ warned' \/ p \in bare'
    <3>1. CASE installed
      BY <2>1, <3>1
    <3>2. CASE ~installed
      <4>1. bare' = bare \union {Head(cmd.agents)}
        BY <1>b, <2>1, <2>3, <3>2
      <4>. QED BY <1>b, <2>1, <2>6, <2>7, <3>2, <4>1
    <3>. QED BY <3>1, <3>2
  <2>. QED BY <1>a, <1>b, <2>1, <2>4, <2>5, <2>7
<1>11. CASE RestoreInstallation \/ CreateInstallation \/ SaveTokens \/ CreatePairingCode
  <2>1. /\ UNCHANGED <<installed, warned, bare>>
        /\ cmd.at \in {"restore", "create", "installation", "id", "producer", "code"}
    BY <1>11 DEF RestoreInstallation, CreateInstallation, SaveTokens, CreatePairingCode, files, history, excuses
  <2>2. cmd.name = "install"
    BY <1>c, <2>1 DEF Place, Name
  <2>3. \/ cmd' = Idle \/ (\E a \in {"create", "id", "producer", "code"} : GoTo(a))
        \/ \E n : cmd' = [cmd EXCEPT !.at = "installation", !.token = n]
    BY <1>11 DEF RestoreInstallation, CreateInstallation, SaveTokens, CreatePairingCode, End
  <2>4. /\ cmd'.name # "uninstall"
        /\ cmd'.at \in {"idle", "create", "id", "producer", "code", "installation"}
    BY <1>c, <1>d, <2>2, <2>3 DEF GoTo, Cmd
  <2>5. ~PatchHooks
    BY <2>1 DEF PatchHooks
  <2>. QED BY <1>1, <2>1, <2>4, <2>5
<1>12. CASE NothingToDelete \/ AskDeletion \/ DropToken
  <2>1. /\ UNCHANGED <<installed, warned, bare, config>> /\ cmd.at \in {"ask", "drop"}
    BY <1>12 DEF NothingToDelete, AskDeletion, DropToken, files, history, excuses, configs
  <2>2. ~PatchHooks
    BY <2>1 DEF PatchHooks
  <2>3. CASE Finish("unpatch")
    <3>1. CASE cmd' = Idle
      BY <1>1, <1>d, <2>1, <2>2, <3>1
    <3>2. CASE cmd' # Idle
      BY <1>3, <1>4, <2>1, <2>2, <2>3, <3>2
    <3>. QED BY <3>1, <3>2
  <2>4. CASE ~Finish("unpatch")
    <3>1. /\ cmd' = [cmd EXCEPT !.at = "drop", !.left = DeletedFiles]
             \/ (cmd.at = "drop" /\ cmd' = [cmd EXCEPT !.left = Tail(cmd.left)])
      BY <1>12, <2>4 DEF NothingToDelete, AskDeletion, DropToken
    <3>2. cmd'.name = cmd.name /\ cmd'.agents = cmd.agents /\ cmd'.at = "drop"
      BY <1>c, <3>1 DEF Cmd
    <3>3. CASE cmd.name = "uninstall"
      BY <1>3, <2>1, <2>2, <3>2, <3>3
    <3>4. CASE cmd.name # "uninstall"
      BY <1>1, <2>1, <2>2, <3>2, <3>4
    <3>. QED BY <3>3, <3>4
  <2>. QED BY <2>3, <2>4
<1>13. CASE RemoveHooksAtPath
  <2>1. /\ cmd.at = "unpatch" /\ UNCHANGED <<installed, warned>> /\ cmd.agents \in Seq(Agent)
        /\ bare' = bare \ {Head(cmd.agents)}
        /\ \A p \in Agent : HasHooks(p)' => HasHooks(p)
    BY <1>13, RemoveHooksStep DEF RemoveHooksAtPath, files, CommandIsSound, Cmd
  <2>2. ~PatchHooks
    BY <2>1 DEF PatchHooks
  <2>3. PICK p \in Agent : p = Head(cmd.agents) /\ ~HasHooks(p)'
    BY <1>13, RemoveHooksStep
  <2>4. W1
    BY <1>b, <2>1, <2>3
  <2>5. CASE Len(cmd.agents) > 1
    <3>1. cmd' = [cmd EXCEPT !.agents = Tail(cmd.agents)]
      BY <1>13, <2>5 DEF RemoveHooksAtPath
    <3>2. cmd'.name = cmd.name /\ cmd'.at = "unpatch" /\ cmd'.agents = Tail(cmd.agents)
      BY <1>c, <2>1, <3>1 DEF Cmd
    <3>3. CASE cmd.name = "uninstall"
      <4>1. cmd.agents = Both
        BY <1>b, <2>1, <2>5, <3>3, BothAgents DEF UninstallOrder
      <4>2. p = "claude" /\ cmd'.agents = <<"codex">>
        BY <2>3, <3>2, <4>1, BothAgents
      <4>3. W3
        BY <2>3, <3>2, <4>2 DEF UninstallOrder
      <4>. QED BY <1>a, <2>1, <2>4, <3>2, <4>3
    <3>4. CASE cmd.name # "uninstall"
      <4>1. W3
        BY <3>2, <3>4 DEF UninstallOrder
      <4>. QED BY <1>a, <2>4, <3>2, <4>1
    <3>. QED BY <3>3, <3>4
  <2>6. CASE ~(Len(cmd.agents) > 1)
    <3>1. Finish("files")
      BY <1>13, <2>6 DEF RemoveHooksAtPath
    <3>2. CASE cmd' = Idle
      <4>1. W3
        BY <1>d, <3>2 DEF UninstallOrder
      <4>. QED BY <1>a, <1>d, <2>4, <3>2, <4>1
    <3>3. CASE cmd' # Idle
      <4>1. cmd.name = "uninstall" /\ cmd'.name = "uninstall" /\ cmd'.at = "files"
        BY <1>4, <3>1, <3>3
      <4>2. cmd.agents = <<"codex">> /\ ~HasHooks("claude")
        BY <1>b, <2>1, <2>6, <4>1, BothAgents DEF UninstallOrder
      <4>3. p = "codex"
        BY <2>3, <4>2, BothAgents
      <4>4. \A q \in Agent : ~HasHooks(q)'
        BY <2>1, <2>3, <4>2, <4>3 DEF Agent
      <4>5. W3
        BY <4>1, <4>4 DEF UninstallOrder
      <4>. QED BY <1>a, <2>4, <4>1, <4>5
    <3>. QED BY <3>2, <3>3
  <2>. QED BY <2>5, <2>6
<1>14. CASE RemoveHooksFails
  <2>1. /\ UNCHANGED <<installed, bare, config>> /\ warned' = TRUE /\ cmd.name = "uninstall"
        /\ Finish("files")
    BY <1>14 DEF RemoveHooksFails, files, configs
  <2>2. cmd'.name = "uninstall" /\ cmd'.at = "files"
    BY <1>4, <2>1
  <2>3. W3
    BY <2>1, <2>2 DEF UninstallOrder
  <2>. QED BY <1>a, <2>1, <2>2, <2>3
<1>15. CASE RemoveRuntimeFiles
  <2>1. cmd.at = "files" /\ GoTo("state") /\ UNCHANGED <<warned, bare, config>>
    BY <1>15 DEF RemoveRuntimeFiles, configs, history, excuses
  <2>2. cmd.name = "uninstall" /\ cmd'.name = "uninstall" /\ cmd'.at = "state"
    BY <1>c, <2>1 DEF Place, Name, InstallSteps, GoTo, Cmd
  <2>3. ~PatchHooks
    BY <2>1 DEF PatchHooks
  <2>4. W1
    BY <1>0, <1>b, <2>1, <2>2, <2>3 DEF UninstallOrder
  <2>5. W3
    BY <2>2 DEF UninstallOrder
  <2>. QED BY <1>a, <2>2, <2>4, <2>5
<1>16. CASE RemoveRelayState
  <2>1. UNCHANGED <<installed, warned, bare>> /\ cmd' = Idle /\ cmd.at = "state"
    BY <1>16 DEF RemoveRelayState, End, files, history, excuses
  <2>2. ~PatchHooks
    BY <2>1 DEF PatchHooks
  <2>. QED BY <1>1, <1>d, <2>1, <2>2
<1>17. CASE RestoreSettings
  BY <1>17, <1>b DEF RestoreSettings
<1>18. CASE \/ Emit
            \/ \E p \in Agent, e \in Edited : UserAdds(p, e)
            \/ \E p \in Agent : UserSlips(p)
            \/ \E r \in Relay : RelayLosesData(r)
  <2>1. UNCHANGED <<installed, warned, bare, cmd>>
    BY <1>18 DEF Emit, BeginEmit, ReadTokens, ResolveProducer, SaveProducer, UserAdds, UserSlips,
       RelayLosesData, files, history, excuses
  <2>2. CASE PatchHooks
    BY <1>10, <2>2
  <2>3. CASE ~PatchHooks
    BY <1>2, <2>1, <2>3
  <2>. QED BY <2>2, <2>3
<1>. QED
  BY <1>5, <1>6, <1>7, <1>8, <1>9, <1>10, <1>11, <1>12, <1>13, <1>14, <1>15, <1>16, <1>17, <1>18
     DEF Next, Command, Step
-----------------------------------------------------------------------------
(***************************************************************************)
(* The theorems about the hook files.                                      *)
(***************************************************************************)
\* The type invariant, made inductive.
FlagTypes == installed \in BOOLEAN /\ bare \subseteq Agent
SoundInv == IInv /\ FilesAreSound /\ AgentsAreSound /\ DrawnOnce /\ FlagTypes

\* The files there are at first hold the hooks that the model starts from.
LEMMA InitFiles ==
  ASSUME Init
  PROVE  /\ FilesAreSound /\ backup = None
         /\ \A p \in Agent : HooksOf(config[p]) \in InitialHooks[p]
         /\ \A p \in Agent, e \in Event : Foreign(HooksOf(config[p])[e]) = mine[p][e]
<1>1. PICK h \in [Agent -> UNION {InitialHooks[p] : p \in Agent}] :
         /\ \A p \in Agent : h[p] \in InitialHooks[p]
         /\ config = [p \in Agent |->
               IF h[p] = NoHooks THEN None ELSE [readable |-> TRUE, hooks |-> h[p]]]
         /\ mine = [p \in Agent |-> [e \in Event |-> Foreign(h[p][e])]]
  BY DEF Init
<1>2. backup = None
  BY DEF Init
<1>3. \A p \in Agent : h[p] \in Hooks
  BY <1>1, InitialHooksAssumption
<1>4. ASSUME NEW p \in Agent
      PROVE  config[p] \in File \union {None} /\ HooksOf(config[p]) = h[p]
  <2>1. CASE h[p] = NoHooks
    BY <1>1, <2>1 DEF HooksOf
  <2>2. CASE h[p] # NoHooks
    <3>1. config[p] = [readable |-> TRUE, hooks |-> h[p]]
      BY <1>1, <2>2
    <3>2. config[p] \in File /\ config[p].hooks = h[p]
      BY <1>3, <3>1 DEF File
    <3>. QED BY <3>2, HooksOfType
  <2>. QED BY <2>1, <2>2
<1>5. config \in [Agent -> File \union {None}]
  <2>1. config = [p \in Agent |-> config[p]]
    BY <1>1
  <2>. QED BY <1>4, <2>1
<1>6. \A p \in Agent, e \in Event : mine[p][e] = Foreign(h[p][e])
  BY <1>1
<1>7. ASSUME NEW p \in Agent, NEW e \in Event PROVE Foreign(h[p][e]) \in Seq(Handler)
  <2>1. h[p][e] \in Seq(Entry)
    BY <1>3, HooksType
  <2>2. FlattenSeq(h[p][e]) \in Seq(Handler)
    BY <2>1, EntriesAreSeqs, FlattenType
  <2>. QED BY <2>2, KeptType DEF Foreign
<1>8. mine \in [Agent -> [Event -> Seq(Handler)]]
  BY <1>1, <1>7
<1>. QED BY <1>1, <1>2, <1>4, <1>5, <1>6, <1>8 DEF FilesAreSound

LEMMA InitSound == ASSUME Init PROVE SoundInv
<1>1. IInv /\ FilesAreSound
  BY InitIInv, InitFiles
<1>2. AgentsAreSound
  BY DEF Init, AgentsAreSound, Idle
<1>3. DrawnOnce
  <2>1. CASE known = [r \in Relay |-> {}] /\ drawn = 0
    BY <2>1, MaxDrawnAssumption DEF DrawnOnce
  <2>2. CASE known = [r \in Relay |-> IF r = Default THEN {1} ELSE {}] /\ drawn = 1
    BY <2>2, MaxDrawnAssumption DEF DrawnOnce
  <2>. QED BY <2>1, <2>2 DEF Init
<1>4. FlagTypes
  BY DEF Init, FlagTypes
<1>. QED BY <1>1, <1>2, <1>3, <1>4 DEF SoundInv

LEMMA FlagsStep ==
  ASSUME FlagTypes, CommandIsSound, AgentsAreSound, Next
  PROVE  FlagTypes'
<1>1. CASE InstallHookWrapper \/ RemoveRuntimeFiles
  BY <1>1 DEF InstallHookWrapper, RemoveRuntimeFiles, FlagTypes, history, excuses
<1>2. CASE PatchHooks \/ RemoveHooksAtPath \/ RestoreSettings
  <2>1. UNCHANGED installed
    BY <1>2 DEF PatchHooks, RemoveHooksAtPath, RestoreSettings, files
  <2>2. CASE PatchHooks
    <3>1. cmd.agents \in Seq(Agent) /\ cmd.agents # <<>>
      BY <2>2 DEF PatchHooks, AgentsAreSound, CommandIsSound, Cmd
    <3>2. Head(cmd.agents) \in Agent
      BY <3>1, HeadTailProperties
    <3>. QED BY <2>1, <2>2, <3>2 DEF PatchHooks, FlagTypes
  <2>3. CASE RemoveHooksAtPath \/ RestoreSettings
    BY <2>1, <2>3 DEF RemoveHooksAtPath, RestoreSettings, FlagTypes
  <2>. QED BY <1>2, <2>2, <2>3
<1>3. CASE \/ InstallHookWrapper \/ RemoveRuntimeFiles
           \/ PatchHooks \/ RemoveHooksAtPath \/ RestoreSettings
  BY <1>1, <1>2, <1>3
<1>4. CASE ~ \/ InstallHookWrapper \/ RemoveRuntimeFiles
             \/ PatchHooks \/ RemoveHooksAtPath \/ RestoreSettings
  <2>1. UNCHANGED <<installed, bare>>
    BY <1>4 DEF Next, Command, InstallConsumer, PatchSettings, PatchCodexHooks, RemoveHooks,
       DeleteInstallation, Uninstall, Begin, Step, WriteBaseURL, BackupFile,
       RestoreInstallation, CreateInstallation, SaveTokens, CreatePairingCode, NothingToDelete,
       AskDeletion, DropToken, RemoveHooksFails, RemoveRelayState,
       Abort, Emit, BeginEmit, ReadTokens, ResolveProducer, SaveProducer,
       UserAdds, UserSlips, RelayLosesData, files, history, excuses
  <2>. QED BY <2>1 DEF FlagTypes
<1>. QED BY <1>3, <1>4

LEMMA SoundStep == SoundInv /\ [Next]_vars => SoundInv'
<1>1. ASSUME SoundInv, Next PROVE SoundInv'
  <2>1. IInv'
    BY <1>1, NumbersStep, CommandStep, HookStep, GrantedStep, AgreementStep DEF IInv, SoundInv
  <2>2. FilesAreSound' /\ AgentsAreSound' /\ DrawnOnce'
    BY <1>1, FilesStep, AgentsStep, DrawnStep DEF IInv, SoundInv
  <2>3. FlagTypes'
    BY <1>1, FlagsStep DEF IInv, SoundInv
  <2>. QED BY <2>1, <2>2, <2>3 DEF SoundInv
<1>2. ASSUME SoundInv, UNCHANGED vars PROVE SoundInv'
  <2>1. IInv'
    BY <1>2, StutterIInv DEF SoundInv
  <2>2. FilesAreSound' /\ AgentsAreSound' /\ DrawnOnce'
    BY <1>2 DEF SoundInv, FilesAreSound, AgentsAreSound, DrawnOnce, vars, configs, relays
  <2>3. FlagTypes'
    BY <1>2 DEF SoundInv, FlagTypes, vars, files, history, excuses
  <2>. QED BY <2>1, <2>2, <2>3 DEF SoundInv
<1>. QED BY <1>1, <1>2

\* SoundInv holds in every state, wherever commands end and whatever the user edits.
THEOREM SoundHolds == Spec => []SoundInv
BY InitSound, SoundStep, PTL DEF Spec

\* Every variable keeps its type; in particular a hook file that is parsed, edited and
\* written again is one its agent accepts, with no entry left empty, and no two relays
\* know an installation by the same number.
THEOREM TypesHold == Spec => []TypeOK
<1>1. ASSUME SoundInv PROVE TypeOK
  <2>1. /\ Numbers /\ CommandIsSound /\ HookIsSound /\ FilesAreSound /\ DrawnOnce
        /\ FlagTypes
    BY <1>1 DEF SoundInv, IInv
  <2>2. MaxDrawn \in Nat /\ drawn \in 0..MaxDrawn /\ 0..drawn \subseteq 0..MaxDrawn
    BY <2>1, MaxDrawnAssumption DEF Numbers, DrawnOnce
  <2>3. token \in [TokenFile -> 0..MaxDrawn] /\ url \in Relay \union {None}
    BY <2>1, <2>2 DEF Numbers
  <2>4. /\ known \in [Relay -> SUBSET (1..drawn)] /\ drawn \in 0..MaxDrawn
        /\ \A q, r \in Relay : q # r => known[q] \intersect known[r] = {}
    BY <2>1, <2>2 DEF Numbers, DrawnOnce
  <2>5. cmd \in Cmd /\ cmd.token <= drawn /\ hook \in Hook /\ hook.token <= drawn
    BY <2>1 DEF CommandIsSound, HookIsSound
  <2>6. cmd.token \in 0..MaxDrawn /\ hook.token \in 0..MaxDrawn
    BY <2>2, <2>5 DEF Cmd, Hook
  <2>7. /\ cmd.name \in {"none", "install", "delete", "patch", "unpatch", "uninstall"}
        /\ cmd.name = "none" <=> cmd = Idle
    BY <2>1, <2>5 DEF CommandIsSound, Cmd, Name, Idle
  <2>8. hook.at \in {"idle", "read", "resolve", "save"}
    BY <2>5 DEF Hook
  <2>. QED BY <2>1, <2>3, <2>4, <2>6, <2>7, <2>8 DEF TypeOK, FilesAreSound, FlagTypes
<1>. QED BY <1>1, SoundHolds, PTL

\* However often hooks are installed and removed, and whichever entries they share with the
\* user's handlers, an agent runs each of Taphaptic's once per event, if it did at first.
THEOREM HandlersRunOnce ==
  ASSUME \A p \in Agent : \A h \in InitialHooks[p] : \A e \in Event : Once(FlattenSeq(h[e]))
  PROVE  Spec => []OneHandlerPerAction
<1>1. Init => EachOnce
  <2> SUFFICES ASSUME Init PROVE EachOnce
    OBVIOUS
  <2>1. \A p \in Agent : OnceIn(config[p])
    BY InitFiles DEF OnceIn
  <2>2. OnceIn(backup)
    BY InitFiles, HooksOfType DEF OnceIn, HooksOf, Once
  <2>. QED BY <2>1, <2>2 DEF EachOnce
<1>2. SoundInv /\ EachOnce /\ [Next]_vars => EachOnce'
  <2>1. ASSUME SoundInv, EachOnce, Next PROVE EachOnce'
    BY <2>1, EachOnceStep DEF SoundInv, IInv
  <2>2. ASSUME EachOnce, UNCHANGED vars PROVE EachOnce'
    BY <2>2 DEF EachOnce, vars, configs
  <2>. QED BY <2>1, <2>2
<1>3. EachOnce => OneHandlerPerAction
  BY DEF EachOnce, OnceIn, OneHandlerPerAction, HooksIn, HooksOf, Once
<1>. QED BY <1>1, <1>2, <1>3, SoundHolds, PTL DEF Spec

WrapperInv == WrapperOutlivesHooks /\ NothingRestored

LEMMA InitWrapper == ASSUME Init PROVE WrapperInv
<1>1. /\ cmd = Idle /\ Idle.at = "idle" /\ Idle.name = "none"
      /\ \A p \in Agent, e \in Event :
           ~installed => removeTaphapticEntries(HooksIn(p)[e]) = HooksIn(p)[e]
  BY DEF Init, Idle
<1>2. ASSUME NEW p \in Agent, HasHooks(p), ~installed PROVE FALSE
  <2>1. HooksIn(p) \in Hooks
    <3>1. HooksIn(p) = HooksOf(config[p]) /\ config[p] \in File \union {None}
      BY InitFiles DEF HooksIn, HooksOf, FilesAreSound
    <3>. QED BY <3>1, HooksOfType
  <2>2. PICK e \in Event : \E c : IsTaphaptic(c) /\ hasCommand(HooksIn(p)[e], c)
    BY <1>2 DEF HasHooks, hasCommand
  <2>3. HooksIn(p)[e] = Without(HooksIn(p)[e], Taphaptic)
    BY <1>1, <1>2 DEF removeTaphapticEntries
  <2>4. HooksIn(p)[e] \in Seq(Entry)
    BY <2>1, HooksType
  <2>5. \A c : IsTaphaptic(c) => ~hasCommand(Without(HooksIn(p)[e], Taphaptic), c)
    BY <2>4, WithoutKeeps
  <2>. QED BY <2>2, <2>3, <2>5
<1>3. HooksHaveWrapper
  BY <1>2 DEF HooksHaveWrapper
<1>. QED BY <1>1, <1>3 DEF WrapperInv, WrapperOutlivesHooks, UninstallOrder, NothingRestored

\* Without a restored backup, the tool and uninstall.sh keep to their order.
LEMMA WrapperInvHolds ==
  ASSUME "restore" \notin Settings
  PROVE  Spec => []WrapperInv
<1>1. SoundInv /\ WrapperInv /\ [Next]_vars => WrapperInv'
  <2>1. ASSUME SoundInv, WrapperInv, Next PROVE WrapperInv'
    BY <2>1, WrapperStep DEF SoundInv, IInv, WrapperInv
  <2>2. ASSUME WrapperInv, UNCHANGED vars PROVE WrapperInv'
    BY <2>2 DEF WrapperInv, WrapperOutlivesHooks, HooksHaveWrapper, UninstallOrder,
       NothingRestored, HasHooks, HooksIn, vars, files, configs, history, excuses
  <2>. QED BY <2>1, <2>2
<1>. QED BY InitWrapper, <1>1, SoundHolds, PTL DEF Spec

\* Installing and uninstalling leave no agent with a hook that has no wrapper, wherever
\* a command ends, unless uninstall.sh has warned that it could not remove hooks.  A
\* patch command that runs without an install does leave some, in the file it wrote
\* and nowhere else; with --restore-claude-settings, a backup could bring one back.
THEOREM WrapperStays ==
  ASSUME "restore" \notin Settings
  PROVE  Spec => []HooksHaveWrapper
<1>1. WrapperInv => HooksHaveWrapper
  BY DEF WrapperInv, WrapperOutlivesHooks
<1>. QED BY <1>1, WrapperInvHolds, PTL

\* Installing, patching, removing and uninstalling, in any order, keep every handler of
\* the user's and their order, however the user spread them over the entries; with
\* --restore-claude-settings, what the user added since the backup is lost.
THEOREM UserHandlersSurvive ==
  ASSUME "restore" \notin Settings
  PROVE  Spec => []ForeignHooksSurvive
<1>1. Init => ForeignHooksSurvive
  BY InitFiles DEF ForeignHooksSurvive, HooksIn, HooksOf
<1>2. SoundInv /\ WrapperInv /\ ForeignHooksSurvive /\ [Next]_vars => ForeignHooksSurvive'
  <2>1. ASSUME SoundInv, WrapperInv, ForeignHooksSurvive, Next PROVE ForeignHooksSurvive'
    <3>1. ~RestoreSettings
      BY <2>1 DEF WrapperInv, NothingRestored, RestoreSettings
    <3>. QED BY <2>1, <3>1, ForeignStep DEF SoundInv, IInv
  <2>2. ASSUME ForeignHooksSurvive, UNCHANGED vars PROVE ForeignHooksSurvive'
    BY <2>2 DEF ForeignHooksSurvive, HooksIn, vars, configs
  <2>. QED BY <2>1, <2>2
<1>. QED BY <1>1, <1>2, SoundHolds, WrapperInvHolds, PTL DEF Spec
=============================================================================
