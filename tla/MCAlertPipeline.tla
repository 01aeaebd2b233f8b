--------------------------- MODULE MCAlertPipeline ---------------------------
(* Instances of AlertPipeline for TLC. *)
EXTENDS AlertPipeline, TLC

CONSTANTS a1, c1, r1, r2
OneAddress == (a1 :> c1)

\* Action constraint: a consumer is registered from the start or never, and with one
\* registered no fault occurs; the keys of the object storage, which are interchangeable,
\* are used in one order. It takes no fair action's last successor away.
OneTrouble ==
  /\ r2 \in objects' => r1 \in objects'
  /\ \A c \in Consumer : IF consumer[c] = "unborn" THEN consumer' = consumer ELSE faults' = faults
==============================================================================
