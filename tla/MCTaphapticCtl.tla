--------------------------- MODULE MCTaphapticCtl ---------------------------
(***************************************************************************)
(* Hook files and choices for TaphapticCtl.                                *)
(***************************************************************************)
EXTENDS TaphapticCtl

Actions == {"stop", "subagent_stop", "permission_prompt", "idle_prompt", "permission_request",
            "older", "lint", "added"}

Lint == Runs("other", "lint")

\* What older versions left next to a command of the user's in Claude's file,
\* and a file of Codex's, or none.
FilesBefore == [p \in Agent |->
    IF p = "claude"
    THEN {[NoHooks EXCEPT !["Stop"] = << <<Runs("watch-hook", "stop")>>, <<Lint>> >>],
          [NoHooks EXCEPT !["Stop"] = << <<Lint, Runs("taphaptic-hook", "older")>> >>]}
    ELSE {NoHooks, [NoHooks EXCEPT !["Stop"] = << <<Lint>> >>]}]

NoFiles == [p \in Agent |-> {NoHooks}]

BothOrOne == {<<"codex">>, <<"claude", "codex">>}
OnlyCodex == {<<"codex">>}
=============================================================================
