--------------------------- MODULE MCWatchPairings ---------------------------
(***************************************************************************)
(* WatchPairings for TLC: two installations that draw from two codes, a    *)
(* code that lives for three ticks of six, and two attempts, so that codes *)
(* collide, are replaced, expire, and reach the limit.                     *)
(***************************************************************************)
EXTENDS WatchPairings, TLC

Symmetry == Permutations(Installation) \union Permutations(CodeHash)
=============================================================================
