----------------------------- MODULE MCAlertParse -----------------------------
(* Instances of AlertParse for TLC.  No symmetry: the runs check liveness. *)
EXTENDS AlertParse
==============================================================================
