---------------------------- MODULE MCEventStore ----------------------------
(***************************************************************************)
(* EventStore for TLC.  Two channels share a log of two events, so that    *)
(* each evicts the other's; one key and the empty one; IDs up to 5, from a *)
(* clock that may be set back between starts.                              *)
(***************************************************************************)
EXTENDS EventStore, TLC

MCSeed == {1, 3}
Symmetry == Permutations(Channel)
=============================================================================
