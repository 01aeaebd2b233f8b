------------------------------ MODULE MCAccounts ------------------------------
(* Instances of Accounts for TLC. *)
EXTENDS Accounts, TLC

CONSTANTS u1, u2, u3, u4, e1, e2, e3

\* Two super admins, and ids for two more accounts.
TwoFounders == (u1 :> e1) @@ (u2 :> e2) @@ (u3 :> None) @@ (u4 :> None)

\* A demotion, a deactivation, a promotion, and all the fields at once.
Bodies ==
  {[email |-> None, role |-> "user", active |-> None],
   [email |-> None, role |-> None, active |-> FALSE],
   [email |-> e3, role |-> "super_admin", active |-> TRUE]}

Symmetry == Permutations({u3, u4}) \cup Permutations(Token) \cup Permutations(Worker)
==============================================================================
