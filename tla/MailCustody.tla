----------------------------- MODULE MailCustody -----------------------------
(***************************************************************************)
(* What the ingest side promises, without sessions, storage or crashes:    *)
(* somebody always answers for a copy of a mail (one mail addressed to one *)
(* recipient).  The sender keeps it until TrueLive holds the mail durably  *)
(* or refuses it for good.  AlertIngest is shown to implement this.        *)
(***************************************************************************)

CONSTANTS
  Mail,        \* messages the MTA has to hand over
  Address      \* recipients

VARIABLES
  custody,     \* [Mail -> [Address -> CustodyState]]
  stored       \* mails TrueLive can produce again after a restart

custodyVars == <<custody, stored>>

\* "none": the mail is not addressed to that recipient.
CustodyState == {"none", "queued", "sent", "bounced"}

CustodyTypeOK ==
  /\ custody \in [Mail -> [Address -> CustodyState]]
  /\ stored \subseteq Mail

CustodyInit ==
  /\ custody \in [Mail -> [Address -> {"none", "queued"}]]
  /\ stored = {}

\* TrueLive takes a durable copy; the sender does not know yet.
Store(m) ==
  /\ stored' = stored \cup {m}
  /\ UNCHANGED custody

Settle(m, rcpts, verdict) ==
  /\ rcpts \subseteq {a \in Address : custody[m][a] = "queued"}
  /\ custody' = [custody EXCEPT
       ![m] = [a \in Address |-> IF a \in rcpts THEN verdict ELSE custody[m][a]]]
  /\ UNCHANGED stored

\* The sender forgets the mail: only once it is stored.
Release(m, rcpts) == m \in stored /\ Settle(m, rcpts, "sent")

\* TrueLive refuses for good and the sender bounces.
Refuse(m, rcpts) == Settle(m, rcpts, "bounced")

CustodyNext ==
  \E m \in Mail :
    \/ Store(m)
    \/ \E rcpts \in SUBSET Address : Release(m, rcpts) \/ Refuse(m, rcpts)

CustodySpec == CustodyInit /\ [][CustodyNext]_custodyVars

\* Nothing the sender was told 250 for is missing on our side.
NothingLost ==
  \A m \in Mail : (\E a \in Address : custody[m][a] = "sent") => m \in stored
==============================================================================
