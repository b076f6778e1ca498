----------------------------- MODULE HookConfig -----------------------------
(***************************************************************************)
(* cmd/taphapticctl/main.go: how the command line tool edits the hook      *)
(* files of Claude Code (settings.json) and of Codex (hooks.json).         *)
(*                                                                         *)
(* A hook file maps an event to a sequence of entries, and an entry is the *)
(* sequence of its handlers' commands; <<>> is an event without a key.     *)
(* Left out: matchers, which are copied, the handlers' other fields, the   *)
(* keys beside "hooks", and entries no agent accepts (no object, no        *)
(* handlers).  A command is told apart by the program it runs.             *)
(***************************************************************************)
EXTENDS Integers, Sequences, SequencesExt

CONSTANT Action    \* what a hook's command does
ASSUME ActionAssumption ==
    {"stop", "subagent_stop", "permission_prompt", "idle_prompt", "permission_request"}
        \subseteq Action

Event == {"Stop", "SubagentStop", "Notification", "PermissionRequest"}

Program == {"taphaptic-hook", "watch-hook", "other"}
Handler == [program : Program, action : Action]
Hooks == [Event -> Seq(Seq(Handler) \ {<<>>})]

NoHooks == [e \in Event |-> <<>>]

Runs(program, action) == [program |-> program, action |-> action]
Ours(action) == Runs("taphaptic-hook", action)

\* What the tool installs, in order.
ClaudeActions == [e \in Event |->
    CASE e = "Stop" -> <<"stop">>
      [] e = "SubagentStop" -> <<"subagent_stop">>
      [] e = "Notification" -> <<"permission_prompt", "idle_prompt">>
      [] OTHER -> <<>>]

CodexActions == [e \in Event |->
    CASE e = "Stop" -> <<"stop">>
      [] e = "SubagentStop" -> <<"subagent_stop">>
      [] e = "PermissionRequest" -> <<"permission_request">>
      [] OTHER -> <<>>]

\* The programs of the handlers that are removed, and of those an older version
\* installed (shouldDropLegacyHook).
Taphaptic == {"taphaptic-hook"}
Legacy == {"taphaptic-hook", "watch-hook"}

IsTaphaptic(c) == c.program \in Taphaptic

\* The handlers that run none of the programs.
Kept(handlers, programs) ==
    FlattenSeq([n \in DOMAIN handlers |->
        IF handlers[n].program \in programs THEN <<>> ELSE <<handlers[n]>>])

\* The entries without these handlers, and without the entries this leaves empty.
Without(entries, programs) ==
    FlattenSeq([n \in DOMAIN entries |->
        LET cleaned == Kept(entries[n], programs)
        IN  IF cleaned = <<>> THEN <<>> ELSE <<cleaned>>])

removeTaphapticEntries_WholeEntry(entries) ==
    SelectSeq(entries, LAMBDA entry : \A n \in DOMAIN entry : ~IsTaphaptic(entry[n]))

removeTaphapticEntries_KeepsEmpty(entries) ==
    [n \in DOMAIN entries |-> Kept(entries[n], Taphaptic)]

removeTaphapticEntries(entries) == Without(entries, Taphaptic)

pruneLegacyEntries(entries) == Without(entries, Legacy)

hasCommand_OwnEntry(entries, c) == \E n \in DOMAIN entries : entries[n] = <<c>>

hasCommand(entries, c) ==
    \E n \in DOMAIN entries : \E m \in DOMAIN entries[n] : entries[n][m] = c

addCommand(entries, c) ==
    IF hasCommand(entries, c) THEN entries ELSE Append(entries, <<c>>)

addCommands(entries, actions) ==
    LET added[n \in 0..Len(actions)] ==
            IF n = 0 THEN entries ELSE addCommand(added[n - 1], Ours(actions[n]))
    IN  added[Len(actions)]

\* Claude's file is cleaned of what older versions installed, Codex's is not.
mergeClaudeHooks(hooks, withNotifications) ==
    LET patched == {"Stop", "SubagentStop"} \union
                   (IF withNotifications THEN {"Notification"} ELSE {})
    IN  [e \in Event |->
           IF e \in patched
           THEN addCommands(pruneLegacyEntries(hooks[e]), ClaudeActions[e])
           ELSE hooks[e]]

mergeCodexHooks(hooks) ==
    [e \in Event |-> addCommands(hooks[e], CodexActions[e])]

removeTaphapticHooks(hooks) == [e \in Event |-> removeTaphapticEntries(hooks[e])]
=============================================================================
