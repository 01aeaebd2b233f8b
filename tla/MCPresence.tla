------------------------------ MODULE MCPresence ------------------------------
(* Instances of Presence for TLC. *)
EXTENDS Presence, TLC

Symmetry == Permutations(Pc) \cup Permutations(Sid)
==============================================================================
