------------------------------ MODULE MCRelay ------------------------------
(***************************************************************************)
(* Relay for TLC.  Each run chooses the number of handlers and the kinds   *)
(* of requests that overlap.                                               *)
(***************************************************************************)
EXTENDS Relay, TLC

Symmetry ==
    Permutations(Handler) \union Permutations(Key) \union Permutations(Installation)
      \union Permutations(Watch) \union Permutations(PushToken)

KeepKinds == AllKinds \ {"delete"}
OverlapsDelete == {"install", "event", "pairing", "claim", "delete"}
=============================================================================
