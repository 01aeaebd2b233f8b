----------------------------- MODULE AlertIngest -----------------------------
(***************************************************************************)
(* The LMTP ingest service (app/services/smtp_ingest.py): it takes mail    *)
(* from Postfix, checks each recipient, stores the bytes in MinIO, inserts *)
(* the raw_messages row, enqueues the parse task and only then says 250.   *)
(* Beside the sessions run the address API, camera deletion, the rate      *)
(* limiter's minute and crashes of the service.                            *)
(*                                                                         *)
(* Postfix is external: its queue is the variable copy.  Every await of a  *)
(* handler ends a step, so other sessions and requests run in between.     *)
(***************************************************************************)
EXTENDS Integers, FiniteSets

CONSTANTS
  Mail,        \* messages in the queue of Postfix
  Address,     \* alert_addresses rows
  Camera,
  RawId,       \* uuids handle_DATA can draw
  Session,     \* LMTP connections
  None,        \* SQL NULL / Python None
  CameraOf,    \* [Address -> Camera], alert_addresses.camera_id
  Oversized,   \* mails above ALERT_MAX_MESSAGE_SIZE
  RateLimit,   \* ALERT_RATE_LIMIT_PER_MINUTE
  MaxRetries,  \* autoretry budget of the parse task
  QueueCap,    \* bound: copies of one parse task in the broker
  MaxFaults    \* bound: outages, lost replies and crashes in one behaviour

ASSUME IngestAssumption ==
  /\ None \notin Mail \cup Address \cup Camera \cup RawId
  /\ CameraOf \in [Address -> Camera]
  /\ Oversized \subseteq Mail
  /\ RateLimit \in Nat \ {0}
  /\ MaxRetries \in Nat
  /\ QueueCap \in Nat \ {0}
  /\ MaxFaults \in Nat

\* A mail is addressed to rows of a table.
ASSUME AddressesFinite == IsFiniteSet(Address)

VARIABLES
  address,     \* alert_addresses: [st, quarantined] of each row
  hits,        \* Redis counter of the current minute, saturated at RateLimit
  copy,        \* queue of Postfix: state of each mail for each recipient
  session,     \* LMTP sessions of the service
  objects,     \* keys in the raw-mail bucket
  raw,         \* raw_messages rows, None when there is none
  parseQ,      \* alert_parse queue: [RawId -> [0..MaxRetries -> count]]
  faults       \* faults so far (bookkeeping of the bound MaxFaults)

vars == <<address, hits, copy, session, objects, raw, parseQ, faults>>

-----------------------------------------------------------------------------
(* Types *)

AddressRow == [st : {"active", "revoked", "deleted"}, quarantined : BOOLEAN]

CopyState == {"none", "queued", "sent", "bounced"}

\* The table allows "quarantined" too; no code writes it.
RawStatus == {"received", "parsed", "parse_failed", "forwarded", "forward_failed"}

RawRow == [mail : Mail, to : Address, address : Address \cup {None},
           camera : Camera \cup {None}, status : RawStatus]

ASSUME NoneIsNoRow == None \notin RawRow

\* pc names the await the session is at: before the next RCPT or DATA
\* ("rcpt"), the limiter call ("limit"), the address reload ("load"), the
\* insert ("persist"), the enqueue, the reply.
SessionState ==
  [pc : {"idle", "rcpt", "limit", "load", "persist", "enqueue", "reply"},
   mail : Mail \cup {None},
   todo : SUBSET Address,           \* recipients Postfix has yet to name
   cur : Address \cup {None},       \* recipient at the limiter
   first : Address \cup {None},     \* envelope.rcpt_tos[0]
   accepted : SUBSET Address,       \* the recipients in envelope.rcpt_tos
   addr : Address \cup {None},      \* session.alert_address_id
   id : RawId \cup {None},          \* msg_id
   cam : Camera \cup {None}]        \* camera_id of the reloaded row

IdleSession ==
  [pc |-> "idle", mail |-> None, todo |-> {}, cur |-> None, first |-> None,
   accepted |-> {}, addr |-> None, id |-> None, cam |-> None]

TypeOK ==
  /\ address \in [Address -> AddressRow]
  /\ hits \in [Address -> 0..RateLimit]
  /\ copy \in [Mail -> [Address -> CopyState]]
  /\ session \in [Session -> SessionState]
  /\ objects \subseteq RawId
  /\ raw \in [RawId -> RawRow \cup {None}]
  /\ parseQ \in [RawId -> [0..MaxRetries -> 0..QueueCap]]
  /\ faults \in 0..MaxFaults

-----------------------------------------------------------------------------
(* Helpers *)

\* _lookup_alert_address, then the quarantine test of handle_RCPT.
Deliverable(a) == address[a].st = "active" /\ ~address[a].quarantined

Queued(m) == {a \in Address : copy[m][a] = "queued"}

InSession(m) == \E s \in Session : session[s].mail = m

\* Postfix learns the fate of the recipients rcpts of a mail.
Settle(m, rcpts, verdict) ==
  copy' = [copy EXCEPT
    ![m] = [a \in Address |-> IF a \in rcpts THEN verdict ELSE copy[m][a]]]

\* The one reply line to DATA: the recipient named first takes it; the others
\* may stay queued, as LMTP wants a line for each recipient.
Answer(s, verdict) ==
  \E rcpts \in SUBSET session[s].accepted :
    session[s].first \in rcpts /\ Settle(session[s].mail, rcpts, verdict)

Goto(s, label) == session' = [session EXCEPT ![s].pc = label]

EndSession(s) == session' = [session EXCEPT ![s] = IdleSession]

Fault == faults < MaxFaults /\ faults' = faults + 1

\* All recipients were named and at least one was accepted: DATA follows.
DataPhase(s) ==
  /\ session[s].pc = "rcpt"
  /\ session[s].todo = {}
  /\ session[s].accepted # {}

\* INCR; above the limit the counter only has to stay there.
CountHit(h) == IF h < RateLimit THEN h + 1 ELSE h

Put(queue, id) == [queue EXCEPT ![id][0] = IF @ < QueueCap THEN @ + 1 ELSE @]

Init ==
  /\ address = [a \in Address |-> [st |-> "active", quarantined |-> FALSE]]
  /\ hits = [a \in Address |-> 0]
  /\ copy \in [Mail -> [Address -> {"none", "queued"}]]
  /\ session = [s \in Session |-> IdleSession]
  /\ objects = {}
  /\ raw = [r \in RawId |-> None]
  /\ parseQ = [r \in RawId |-> [n \in 0..MaxRetries |-> 0]]
  /\ faults = 0

-----------------------------------------------------------------------------
(* handle_RCPT *)

\* Postfix opens a transaction for the recipients it still has to deliver
\* to; it never works on one mail in two connections at once.
MailFrom(s, m) ==
  /\ session[s].pc = "idle"
  /\ Queued(m) # {}
  /\ ~InSession(m)
  /\ session' = [session EXCEPT ![s] =
       [IdleSession EXCEPT !.pc = "rcpt", !.mail = m, !.todo = Queued(m)]]
  /\ UNCHANGED <<address, hits, copy, objects, raw, parseQ, faults>>

\* The address is known, active and not quarantined: on to the limiter.
RcptKnown(s, a) ==
  /\ session[s].pc = "rcpt"
  /\ a \in session[s].todo
  /\ Deliverable(a)
  /\ session' = [session EXCEPT ![s].pc = "limit", ![s].cur = a,
                                ![s].todo = @ \ {a}]
  /\ UNCHANGED <<address, hits, copy, objects, raw, parseQ, faults>>

\* 550: unknown, revoked or quarantined.
RcptRefused(s, a) ==
  /\ session[s].pc = "rcpt"
  /\ a \in session[s].todo
  /\ ~Deliverable(a)
  /\ session' = [session EXCEPT ![s].todo = @ \ {a}]
  /\ Settle(session[s].mail, {a}, "bounced")
  /\ UNCHANGED <<address, hits, objects, raw, parseQ, faults>>

\* The database is down: the exception leaves the handler and aiosmtpd
\* answers 500, which Postfix takes for a permanent refusal.
RcptLookupFails(s, a) ==
  /\ session[s].pc = "rcpt"
  /\ a \in session[s].todo
  /\ Fault
  /\ session' = [session EXCEPT ![s].todo = @ \ {a}]
  /\ Settle(session[s].mail, {a}, "bounced")
  /\ UNCHANGED <<address, hits, objects, raw, parseQ>>

\* Mutant: alert_address_id is not kept on the session.
AcceptForgetsAddress(s) ==
  LET a == session[s].cur IN
  session' = [session EXCEPT
    ![s].pc = "rcpt", ![s].cur = None,
    ![s].first = IF @ = None THEN a ELSE @,
    ![s].accepted = @ \cup {a}]

\* rcpt_tos grows; alert_address_id is the recipient accepted last.
Accept(s) ==
  LET a == session[s].cur IN
  session' = [session EXCEPT
    ![s].pc = "rcpt", ![s].cur = None,
    ![s].first = IF @ = None THEN a ELSE @,
    ![s].accepted = @ \cup {a}, ![s].addr = a]

RcptAdmitted(s) ==
  LET a == session[s].cur IN
  /\ session[s].pc = "limit"
  /\ hits[a] < RateLimit
  /\ hits' = [hits EXCEPT ![a] = CountHit(@)]
  /\ Accept(s)
  /\ UNCHANGED <<address, copy, objects, raw, parseQ, faults>>

\* 451 4.7.1: the copy stays queued; the refused call was counted too.
RcptLimited(s) ==
  LET a == session[s].cur IN
  /\ session[s].pc = "limit"
  /\ hits[a] >= RateLimit
  /\ hits' = [hits EXCEPT ![a] = CountHit(@)]
  /\ session' = [session EXCEPT ![s].pc = "rcpt", ![s].cur = None]
  /\ UNCHANGED <<address, copy, objects, raw, parseQ, faults>>

\* Redis is down: the limiter fails open.
RcptFailOpen(s) ==
  /\ session[s].pc = "limit"
  /\ Fault
  /\ Accept(s)
  /\ UNCHANGED <<address, hits, copy, objects, raw, parseQ>>

\* No recipient was accepted: Postfix quits without DATA.
Quit(s) ==
  /\ session[s].pc = "rcpt"
  /\ session[s].todo = {}
  /\ session[s].accepted = {}
  /\ EndSession(s)
  /\ UNCHANGED <<address, hits, copy, objects, raw, parseQ, faults>>

-----------------------------------------------------------------------------
(* handle_DATA *)

\* 552
TooLarge(s) ==
  /\ DataPhase(s)
  /\ session[s].mail \in Oversized
  /\ Answer(s, "bounced")
  /\ EndSession(s)
  /\ UNCHANGED <<address, hits, objects, raw, parseQ, faults>>

\* Mutant: the upload is started and not waited for.
PutRawMailNotAwaited(s, id) ==
  /\ DataPhase(s)
  /\ session[s].mail \notin Oversized
  /\ id \notin objects
  /\ session' = [session EXCEPT ![s].pc = "load", ![s].id = id]
  /\ UNCHANGED <<address, hits, copy, objects, raw, parseQ, faults>>

PutRawMail(s, id) ==
  /\ DataPhase(s)
  /\ session[s].mail \notin Oversized
  /\ id \notin objects
  /\ objects' = objects \cup {id}
  /\ session' = [session EXCEPT ![s].pc = "load", ![s].id = id]
  /\ UNCHANGED <<address, hits, copy, raw, parseQ, faults>>

\* S3Error becomes MinioClientError: 451, the copies stay queued.
PutRejected(s) ==
  /\ DataPhase(s)
  /\ session[s].mail \notin Oversized
  /\ Fault
  /\ EndSession(s)
  /\ UNCHANGED <<address, hits, copy, objects, raw, parseQ>>

\* Any other exception of the SDK (connection refused, a gateway error) is
\* not wrapped by _put and not caught by handle_DATA: aiosmtpd answers 500.
PutUnreachable(s) ==
  /\ DataPhase(s)
  /\ session[s].mail \notin Oversized
  /\ Fault
  /\ Answer(s, "bounced")
  /\ EndSession(s)
  /\ UNCHANGED <<address, hits, objects, raw, parseQ>>

\* db.get of the address: gone is 550, revoked or quarantined is not looked at.
LoadAddress(s) ==
  LET a == session[s].addr IN
  /\ session[s].pc = "load"
  /\ IF address[a].st = "deleted"
       THEN /\ Answer(s, "bounced")
            /\ EndSession(s)
       ELSE /\ session' = [session EXCEPT ![s].pc = "persist", ![s].cam = CameraOf[a]]
            /\ UNCHANGED copy
  /\ UNCHANGED <<address, hits, objects, raw, parseQ, faults>>

NewRow(s) ==
  [mail |-> session[s].mail, to |-> session[s].first, address |-> session[s].addr,
   camera |-> session[s].cam, status |-> "received"]

\* The insert commits; a foreign key whose target is gone makes it fail (451).
PersistRow(s) ==
  /\ session[s].pc = "persist"
  /\ IF address[session[s].addr].st # "deleted"
       THEN /\ raw' = [raw EXCEPT ![session[s].id] = NewRow(s)]
            /\ Goto(s, "enqueue")
       ELSE /\ EndSession(s)
            /\ UNCHANGED raw
  /\ UNCHANGED <<address, hits, copy, objects, parseQ, faults>>

\* Mutant: the failed insert is logged and left to the sweep, like a failed enqueue.
PersistFailsSwallowed(s) ==
  /\ session[s].pc \in {"load", "persist"}
  /\ Fault
  /\ Goto(s, "enqueue")
  /\ UNCHANGED <<address, hits, copy, objects, raw, parseQ>>

\* The database fails during the reload or the insert: 451.
PersistFails(s) ==
  /\ session[s].pc \in {"load", "persist"}
  /\ Fault
  /\ EndSession(s)
  /\ UNCHANGED <<address, hits, copy, objects, raw, parseQ>>

EnqueueParse(s) ==
  /\ session[s].pc = "enqueue"
  /\ parseQ' = Put(parseQ, session[s].id)
  /\ Goto(s, "reply")
  /\ UNCHANGED <<address, hits, copy, objects, raw, faults>>

\* The broker is down: logged and left to the reconciliation sweep.
EnqueueFails(s) ==
  /\ session[s].pc = "enqueue"
  /\ Fault
  /\ Goto(s, "reply")
  /\ UNCHANGED <<address, hits, copy, objects, raw, parseQ>>

\* Mutant: 451 after the row was inserted.
ReplyDeferred(s) ==
  /\ session[s].pc = "reply"
  /\ EndSession(s)
  /\ UNCHANGED <<address, hits, copy, objects, raw, parseQ, faults>>

\* 250 reaches Postfix.
Reply(s) ==
  /\ session[s].pc = "reply"
  /\ Answer(s, "sent")
  /\ EndSession(s)
  /\ UNCHANGED <<address, hits, objects, raw, parseQ, faults>>

-----------------------------------------------------------------------------
(* Environment *)

\* The connection breaks before the last reply: Postfix tries again later.
ConnectionLost(s) ==
  /\ session[s].pc # "idle"
  /\ Fault
  /\ EndSession(s)
  /\ UNCHANGED <<address, hits, copy, objects, raw, parseQ>>

\* The service dies and is restarted; its sessions are gone.
Crash ==
  /\ \E s \in Session : session[s].pc # "idle"
  /\ Fault
  /\ session' = [s \in Session |-> IdleSession]
  /\ UNCHANGED <<address, hits, copy, objects, raw, parseQ>>

\* The next minute has its own Redis keys.
NextMinute ==
  /\ \E a \in Address : hits[a] > 0
  /\ hits' = [a \in Address |-> 0]
  /\ UNCHANGED <<address, copy, session, objects, raw, parseQ, faults>>

\* DELETE /alert-addresses/{id}, and the first half of rotate.
Revoke(a) ==
  /\ address[a].st = "active"
  /\ address' = [address EXCEPT ![a].st = "revoked"]
  /\ UNCHANGED <<hits, copy, session, objects, raw, parseQ, faults>>

SetQuarantine(a, on) ==
  /\ address[a].st # "deleted"
  /\ address[a].quarantined # on
  /\ address' = [address EXCEPT ![a].quarantined = on]
  /\ UNCHANGED <<hits, copy, session, objects, raw, parseQ, faults>>

\* Deleting a camera cascades to its addresses; the rows it received lose
\* camera and address (SET NULL) but stay.
DeleteCamera(c) ==
  LET gone == {a \in Address : CameraOf[a] = c} IN
  /\ \E a \in gone : address[a].st # "deleted"
  /\ address' = [a \in Address |->
       IF a \in gone THEN [address[a] EXCEPT !.st = "deleted"] ELSE address[a]]
  /\ raw' = [r \in RawId |->
       IF raw[r] = None THEN None
       ELSE [raw[r] EXCEPT !.camera = IF @ = c THEN None ELSE @,
                           !.address = IF @ \in gone THEN None ELSE @]]
  /\ UNCHANGED <<hits, copy, session, objects, parseQ, faults>>

-----------------------------------------------------------------------------
Rcpt(s) ==
  \/ \E a \in Address : RcptKnown(s, a) \/ RcptRefused(s, a)
  \/ RcptAdmitted(s) \/ RcptLimited(s) \/ Quit(s)

Data(s) ==
  \/ TooLarge(s)
  \/ \E id \in RawId : PutRawMail(s, id)
  \/ LoadAddress(s) \/ PersistRow(s) \/ EnqueueParse(s) \/ Reply(s)

SessionFault(s) ==
  \/ \E a \in Address : RcptLookupFails(s, a)
  \/ RcptFailOpen(s) \/ PutRejected(s) \/ PutUnreachable(s)
  \/ PersistFails(s) \/ EnqueueFails(s) \/ ConnectionLost(s)

IngestStage ==
  \/ \E s \in Session :
       \/ \E m \in Mail : MailFrom(s, m)
       \/ Rcpt(s) \/ Data(s) \/ SessionFault(s)
  \/ Crash \/ NextMinute
  \/ \E a \in Address : Revoke(a) \/ \E on \in BOOLEAN : SetQuarantine(a, on)

Next == IngestStage \/ \E c \in Camera : DeleteCamera(c)

Spec == Init /\ [][Next]_vars

-----------------------------------------------------------------------------
(* Properties *)

StoredMails == {m \in Mail : \E r \in objects : raw[r] # None /\ raw[r].mail = m}

\* Persist before ACK (smtp_ingest.py, handle_DATA): a mail Postfix was told
\* 250 for has a row whose bytes are in MinIO, whatever crashed since.
AckedIsDurable ==
  \A m \in Mail : (\E a \in Address : copy[m][a] = "sent") => m \in StoredMails

\* A raw_messages row never points at a key that was not written: the put
\* completes before the insert, for every interleaving of the sessions.
RowsHaveObjects == \A r \in RawId : raw[r] # None => r \in objects

\* A session between its put and its reply.
Holding(s) == session[s].pc \in {"load", "persist", "enqueue", "reply"}

\* What a session remembers is what its place in the protocol needs.
SessionsComplete ==
  \A s \in Session :
    /\ session[s].pc = "idle" <=> session[s].mail = None
    /\ session[s].pc = "limit" => session[s].cur # None
    /\ session[s].accepted # {} => session[s].first # None /\ session[s].addr # None
    /\ Holding(s) => session[s].accepted # {} /\ session[s].id \in objects

\* Two sessions never hold one key or work on one mail.
SessionsApart ==
  \A s, t \in Session : s # t =>
    /\ Holding(s) /\ Holding(t) => session[s].id # session[t].id
    /\ session[s].pc # "idle" => session[s].mail # session[t].mail

\* Every recipient of a running transaction is still in the queue of Postfix,
\* and in one phase of the transaction only.
RecipientsQueued ==
  \A s \in Session : LET t == session[s] IN
    t.pc # "idle" =>
      /\ t.todo \cup t.accepted \subseteq Queued(t.mail)
      /\ t.todo \cap t.accepted = {}
      /\ t.pc = "limit" => t.cur \in Queued(t.mail) \ (t.todo \cup t.accepted)

\* The row of a session exists from its insert on, and not before.
RowsOfSessions ==
  \A s \in Session : LET t == session[s] IN
    /\ t.pc \in {"load", "persist"} => raw[t.id] = None
    /\ t.pc \in {"enqueue", "reply"} => raw[t.id] # None /\ raw[t.id].mail = t.mail

\* Inductive: what makes AckedIsDurable true through every interleaving.
IngestInv ==
  /\ TypeOK
  /\ SessionsComplete
  /\ SessionsApart
  /\ RecipientsQueued
  /\ RowsOfSessions
  /\ RowsHaveObjects
  /\ AckedIsDurable

\* A second row for a mail (a duplicate alert) has a cause: a recipient
\* deferred by the limiter, or a reply, process or connection that was lost
\* after the insert.
NoDuplicateWithoutFault ==
  \A m \in Mail :
    Cardinality({r \in RawId : raw[r] # None /\ raw[r].mail = m})
      <= Cardinality({a \in Address : copy[m][a] # "none"}) + faults

\* The custody contract of MailCustody, with the queue of Postfix as custody
\* and the mails that have a row and an object as the stored ones.
Custody == INSTANCE MailCustody WITH custody <- copy, stored <- StoredMails
CustodyHolds == Custody!CustodySpec

==============================================================================
