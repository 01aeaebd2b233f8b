---------------------------- MODULE MCAlertIngest ----------------------------
(* Instances of AlertIngest for TLC. *)
EXTENDS AlertIngest, TLC

CONSTANTS a1, a2, c1
SharedCamera == (a1 :> c1) @@ (a2 :> c1)
SessionSymmetry == Permutations(Session) \cup Permutations(RawId) \cup Permutations(Address)
==============================================================================
