------------------------------ MODULE AlertParse ------------------------------
(***************************************************************************)
(* The parse stage: the Celery task process_inbound_alert                  *)
(* (app/tasks/process_inbound_alert.py) turns a raw_messages row into an   *)
(* alerts row and hands it to the delivery queue; the beat job             *)
(* reconcile_smtp_ingest re-enqueues what is still "received".             *)
(*                                                                         *)
(* Workers run concurrently on READ COMMITTED sessions: what a task read   *)
(* (status, camera, absence of an alert) may be stale when it commits.     *)
(* Celery acknowledges a task when it is taken, so a crash loses it.       *)
(***************************************************************************)
EXTENDS Integers, FiniteSets

CONSTANTS
  Mail,        \* contents of messages
  RawId,       \* raw_messages rows
  AlertId,     \* keys a task can draw for an alert (uuids in the code)
  Camera,
  Worker,      \* parse worker processes
  None,
  Malformed,   \* contents email.message_from_bytes raises on
  Poison,      \* contents passthrough raises on: a Subject with raw 8-bit bytes
  MaxRetries,  \* autoretry_for=(MinioClientError,), max_retries
  QueueCap,    \* bound: copies of one task in the broker
  MaxFaults    \* bound: outages and crashes in one behaviour

ASSUME ParseAssumption ==
  /\ None \notin RawId \cup AlertId \cup Camera
  /\ AlertId \subseteq Nat
  /\ Malformed \subseteq Mail
  /\ Poison \subseteq Mail
  /\ MaxRetries \in Nat
  /\ QueueCap \in Nat \ {0}
  /\ MaxFaults \in Nat

VARIABLES
  raw,         \* raw_messages: [RawId -> row or None]
  alert,       \* alerts: [AlertId -> row or None]
  drawn,       \* alert ids with their attachments in the media bucket
  parseQ,      \* alert_parse queue: [RawId -> [0..MaxRetries -> count]]
  deliverQ,    \* alert_deliver queue: [AlertId -> count]
  parser,      \* what each worker holds of the task it runs
  faults

parseVars == <<raw, alert, drawn, parseQ, deliverQ, parser, faults>>

-----------------------------------------------------------------------------
(* Types *)

RawStatus == {"received", "parsed", "parse_failed", "forwarded", "forward_failed"}

\* The columns of raw_messages this stage reads or writes; mail stands for the
\* bytes storage_uri leads to.
RawRow == [mail : Mail, camera : Camera \cup {None}, status : RawStatus]

AlertRow == [raw : RawId, camera : Camera]

ASSUME NoneIsNoRawRow == None \notin RawRow \cup AlertRow

ParserState ==
  [pc : {"idle", "check", "fetch", "build", "commit", "enqueue"},
   raw : RawId \cup {None},
   retries : 0..MaxRetries,
   seen : RawStatus,                \* raw.status when the row was loaded
   cam : Camera \cup {None},        \* raw.camera_id when the row was loaded
   id : AlertId \cup {None}]        \* the alert to insert or to hand over

IdleParser ==
  [pc |-> "idle", raw |-> None, retries |-> 0, seen |-> "received",
   cam |-> None, id |-> None]

ParseTypeOK ==
  /\ raw \in [RawId -> RawRow \cup {None}]
  /\ alert \in [AlertId -> AlertRow \cup {None}]
  /\ drawn \subseteq AlertId
  /\ parseQ \in [RawId -> [0..MaxRetries -> 0..QueueCap]]
  /\ deliverQ \in [AlertId -> 0..QueueCap]
  /\ parser \in [Worker -> ParserState]
  /\ faults \in 0..MaxFaults

-----------------------------------------------------------------------------
(* Helpers *)

\* The least key not drawn yet: a fresh one, and a unique choice.
IsFresh(a) == a \notin drawn /\ \A b \in AlertId \ drawn : a <= b

AlertsOf(r) == {a \in AlertId : alert[a] # None /\ alert[a].raw = r}

Content(w) == raw[parser[w].raw].mail

Put(queue, r, n) == [queue EXCEPT ![r][n] = IF @ < QueueCap THEN @ + 1 ELSE @]

HandOver(a) == deliverQ' = [deliverQ EXCEPT ![a] = IF @ < QueueCap THEN @ + 1 ELSE @]

\* Assigning raw.status writes it only where it differs from the loaded value.
SetStatus(r, seen, new) ==
  IF seen = new THEN raw ELSE [raw EXCEPT ![r].status = new]

Stop(w) == parser' = [parser EXCEPT ![w] = IdleParser]

Fault == faults < MaxFaults /\ faults' = faults + 1

ParseInit ==
  /\ raw = [r \in RawId |-> None]
  /\ alert = [a \in AlertId |-> None]
  /\ drawn = {}
  /\ parseQ = [r \in RawId |-> [n \in 0..MaxRetries |-> 0]]
  /\ deliverQ = [a \in AlertId |-> 0]
  /\ parser = [w \in Worker |-> IdleParser]
  /\ faults = 0

-----------------------------------------------------------------------------
(* process_inbound_alert *)

\* The task is taken and loads its row; a row that is gone ends it.
TakeParse(w, r, n) ==
  /\ parser[w].pc = "idle"
  /\ parseQ[r][n] > 0
  /\ parseQ' = [parseQ EXCEPT ![r][n] = @ - 1]
  /\ parser' = [parser EXCEPT ![w] =
       IF raw[r] = None THEN IdleParser
       ELSE [pc |-> "check", raw |-> r, retries |-> n, seen |-> raw[r].status,
             cam |-> raw[r].camera, id |-> None]]
  /\ UNCHANGED <<raw, alert, drawn, deliverQ, faults>>

\* No alert yet: fetch the bytes.  One: only hand it over again.  More than
\* one: one_or_none raises and the task ends.
CheckExisting(w) ==
  LET found == AlertsOf(parser[w].raw) IN
  /\ parser[w].pc = "check"
  /\ \/ found = {} /\ parser' = [parser EXCEPT ![w].pc = "fetch"]
     \/ \E a \in found :
          /\ found = {a}
          /\ parser' = [parser EXCEPT ![w].pc = "enqueue", ![w].id = a]
     \/ Cardinality(found) > 1 /\ Stop(w)
  /\ UNCHANGED <<raw, alert, drawn, parseQ, deliverQ, faults>>

Fetch(w) ==
  /\ parser[w].pc = "fetch"
  /\ parser' = [parser EXCEPT ![w].pc = "build"]
  /\ UNCHANGED <<raw, alert, drawn, parseQ, deliverQ, faults>>

\* MinioClientError (no client): Celery queues the task again, a few times.
FetchRetried(w) ==
  LET t == parser[w] IN
  /\ t.pc = "fetch"
  /\ Fault
  /\ parseQ' = IF t.retries < MaxRetries THEN Put(parseQ, t.raw, t.retries + 1) ELSE parseQ
  /\ Stop(w)
  /\ UNCHANGED <<raw, alert, drawn, deliverQ>>

\* Any error of the SDK itself (S3Error, connection) is not a
\* MinioClientError: no retry, the task is over.
FetchFails(w) ==
  /\ parser[w].pc = "fetch"
  /\ Fault
  /\ Stop(w)
  /\ UNCHANGED <<raw, alert, drawn, parseQ, deliverQ>>

\* Mutant: a status the table's CHECK constraint does not list.
MarkFailed(w) ==
  LET t == parser[w] IN
  /\ raw' = SetStatus(t.raw, t.seen, "failed")
  /\ Stop(w)

MarkParseFailed(w) ==
  LET t == parser[w] IN
  /\ raw' = SetStatus(t.raw, t.seen, "parse_failed")
  /\ Stop(w)

MimeFails(w) ==
  /\ parser[w].pc = "build"
  /\ Content(w) \in Malformed
  /\ MarkParseFailed(w)
  /\ UNCHANGED <<alert, drawn, parseQ, deliverQ, faults>>

\* The exception of passthrough leaves the task; the row stays as it was.
PassthroughRaises(w) ==
  /\ parser[w].pc = "build"
  /\ Content(w) \in Poison \ Malformed
  /\ Stop(w)
  /\ UNCHANGED <<raw, alert, drawn, parseQ, deliverQ, faults>>

\* Mutant: the status is committed before the alert.
StoreAttachmentsEarlyStatus(w, a) ==
  /\ parser[w].pc = "build"
  /\ Content(w) \notin Malformed \cup Poison
  /\ IsFresh(a)
  /\ drawn' = drawn \cup {a}
  /\ raw' = SetStatus(parser[w].raw, parser[w].seen, "parsed")
  /\ parser' = [parser EXCEPT ![w].pc = "commit", ![w].id = a]
  /\ UNCHANGED <<alert, parseQ, deliverQ, faults>>

\* A fresh alert id is drawn and the attachments are uploaded under it.
StoreAttachments(w, a) ==
  /\ parser[w].pc = "build"
  /\ Content(w) \notin Malformed \cup Poison
  /\ IsFresh(a)
  /\ drawn' = drawn \cup {a}
  /\ parser' = [parser EXCEPT ![w].pc = "commit", ![w].id = a]
  /\ UNCHANGED <<raw, alert, parseQ, deliverQ, faults>>

CommitWithoutCamera(w) ==
  /\ parser[w].pc = "commit"
  /\ parser[w].cam = None
  /\ MarkParseFailed(w)
  /\ UNCHANGED <<alert, drawn, parseQ, deliverQ, faults>>

\* Mutant: alerts.camera_id without its foreign key.
CommitAlertUnchecked(w) ==
  LET t == parser[w] IN
  /\ t.pc = "commit"
  /\ t.cam # None
  /\ alert' = [alert EXCEPT ![t.id] = [raw |-> t.raw, camera |-> t.cam]]
  /\ raw' = SetStatus(t.raw, t.seen, "parsed")
  /\ parser' = [parser EXCEPT ![w].pc = "enqueue"]
  /\ UNCHANGED <<drawn, parseQ, deliverQ, faults>>

\* Alert, media and status in one transaction.  It fails when the camera read
\* before is gone by now (foreign key); then nothing is written.
CommitAlert(w) ==
  LET t == parser[w] IN
  /\ t.pc = "commit"
  /\ t.cam # None
  /\ IF raw[t.raw].camera = t.cam
       THEN /\ alert' = [alert EXCEPT ![t.id] = [raw |-> t.raw, camera |-> t.cam]]
            /\ raw' = SetStatus(t.raw, t.seen, "parsed")
            /\ parser' = [parser EXCEPT ![w].pc = "enqueue"]
       ELSE /\ Stop(w)
            /\ UNCHANGED <<raw, alert>>
  /\ UNCHANGED <<drawn, parseQ, deliverQ, faults>>

EnqueueDeliver(w) ==
  /\ parser[w].pc = "enqueue"
  /\ HandOver(parser[w].id)
  /\ Stop(w)
  /\ UNCHANGED <<raw, alert, drawn, parseQ, faults>>

\* The exception of apply_async is logged and swallowed.
EnqueueDeliverFails(w) ==
  /\ parser[w].pc = "enqueue"
  /\ Fault
  /\ Stop(w)
  /\ UNCHANGED <<raw, alert, drawn, parseQ, deliverQ>>

\* The worker dies, or the database or an upload fails under it with an error
\* nobody catches: the task is gone.
ParserCrash(w) ==
  /\ parser[w].pc # "idle"
  /\ Fault
  /\ Stop(w)
  /\ UNCHANGED <<raw, alert, drawn, parseQ, deliverQ>>

-----------------------------------------------------------------------------
(* reconcile_smtp_ingest, reconcile_stuck_messages *)

\* Mutant: the sweep looks for what failed to parse.
StuckFailed == {r \in RawId : raw[r] # None /\ raw[r].status = "parse_failed"}

Stuck == {r \in RawId : raw[r] # None /\ raw[r].status = "received"}

Resend(rs) ==
  parseQ' = [r \in RawId |-> [n \in 0..MaxRetries |->
    IF r \in rs /\ n = 0 /\ parseQ[r][n] < QueueCap THEN parseQ[r][n] + 1 ELSE parseQ[r][n]]]

\* The age the filter asks for (a minute) is not modelled: a task may wait in the
\* queue or run for longer than that.
Reconcile ==
  /\ Stuck # {}
  /\ Resend(Stuck)
  /\ UNCHANGED <<raw, alert, drawn, deliverQ, parser, faults>>

\* The beat job does not guard apply_async: the rest waits for the next minute.
ReconcileAborts ==
  /\ Fault
  /\ \E rs \in SUBSET Stuck : rs # Stuck /\ Resend(rs)
  /\ UNCHANGED <<raw, alert, drawn, deliverQ, parser>>

-----------------------------------------------------------------------------
ParseStep(w) ==
  \/ CheckExisting(w) \/ Fetch(w) \/ MimeFails(w) \/ PassthroughRaises(w)
  \/ \E a \in AlertId : StoreAttachments(w, a)
  \/ CommitWithoutCamera(w) \/ CommitAlert(w) \/ EnqueueDeliver(w)

ParseFault(w) ==
  FetchRetried(w) \/ FetchFails(w) \/ EnqueueDeliverFails(w) \/ ParserCrash(w)

ParseStage ==
  \/ \E w \in Worker :
       \/ \E r \in RawId : \E n \in 0..MaxRetries : TakeParse(w, r, n)
       \/ ParseStep(w) \/ ParseFault(w)
  \/ Reconcile \/ ReconcileAborts

(* The neighbours of this stage, as far as it sees them. *)

\* AlertIngest inserts a row and may or may not get its task into the queue.
RowArrives(r) ==
  /\ raw[r] = None
  /\ \E m \in Mail : \E c \in Camera :
       raw' = [raw EXCEPT ![r] = [mail |-> m, camera |-> c, status |-> "received"]]
  /\ parseQ' \in {parseQ, Put(parseQ, r, 0)}
  /\ UNCHANGED <<alert, drawn, deliverQ, parser, faults>>

\* WebhookDelivery takes an alert and may leave its verdict on the raw row.
DeliveryTaken(a) ==
  /\ deliverQ[a] > 0
  /\ deliverQ' = [deliverQ EXCEPT ![a] = @ - 1]
  /\ \/ UNCHANGED raw
     \/ \E verdict \in {"forwarded", "forward_failed"} :
          /\ alert[a] # None
          /\ raw[alert[a].raw].status \notin {"forwarded", verdict}
          /\ verdict = "forwarded" => raw[alert[a].raw].status # "forward_failed"
          /\ raw' = [raw EXCEPT ![alert[a].raw].status = verdict]
  /\ UNCHANGED <<alert, drawn, parseQ, parser, faults>>

\* Deleting a camera clears it on raw_messages and cascades to its alerts.
CascadeAlerts(c) ==
  alert' = [a \in AlertId |->
    IF alert[a] # None /\ alert[a].camera = c THEN None ELSE alert[a]]

DeleteCamera(c) ==
  /\ \E r \in RawId : raw[r] # None /\ raw[r].camera = c
  /\ raw' = [r \in RawId |->
       IF raw[r] # None /\ raw[r].camera = c THEN [raw[r] EXCEPT !.camera = None] ELSE raw[r]]
  /\ CascadeAlerts(c)
  /\ UNCHANGED <<drawn, parseQ, deliverQ, parser, faults>>

ParseNext ==
  \/ ParseStage
  \/ \E c \in Camera : DeleteCamera(c)
  \/ \E r \in RawId : RowArrives(r)
  \/ \E a \in AlertId : DeliveryTaken(a)

ParseSpec == ParseInit /\ [][ParseNext]_parseVars

\* Idle workers take what is queued, a running task goes on, beat fires every
\* minute; faults, arrivals and administrators owe nothing.
ParseFairness ==
  /\ \A w \in Worker : WF_parseVars(ParseStep(w))
  /\ \A r \in RawId : \A n \in 0..MaxRetries :
       SF_parseVars(\E w \in Worker : TakeParse(w, r, n))
  /\ WF_parseVars(Reconcile)
  /\ \A a \in AlertId : WF_parseVars(DeliveryTaken(a))

ParseFairSpec == ParseSpec /\ ParseFairness

-----------------------------------------------------------------------------
(* Properties *)

\* A message whose status says it became an alert has one, unless its camera
\* was deleted: status and alert are committed together.
ParsedHasAlert ==
  \A r \in RawId :
    raw[r] # None /\ raw[r].camera # None
      /\ raw[r].status \in {"parsed", "forwarded", "forward_failed"}
    => AlertsOf(r) # {}

\* An alert belongs to the camera of its message, whatever was deleted
\* between the read of the row and the insert.
AlertOfItsCamera ==
  \A a \in AlertId :
    alert[a] # None => /\ raw[alert[a].raw] # None
                       /\ alert[a].camera = raw[alert[a].raw].camera

Received(r) == raw[r] # None /\ raw[r].status = "received"

\* A message that was acknowledged and can be parsed does not stay
\* "received": the sweep makes up for lost enqueues, failed fetches, crashes.
MessageIsHandled ==
  \A r \in RawId :
    Received(r) /\ raw[r].mail \notin Poison ~> ~Received(r)

==============================================================================
