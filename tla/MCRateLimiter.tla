---------------------------- MODULE MCRateLimiter ----------------------------
(***************************************************************************)
(* RateLimiter for TLC: two keys with limits of one and two, and a clock   *)
(* of two windows and more, so that bursts meet at the end of a window.    *)
(***************************************************************************)
EXTENDS RateLimiter, TLC

CONSTANTS k1, k2

Limits == k1 :> 1 @@ k2 :> 2

Symmetry == Permutations(Caller)
=============================================================================
