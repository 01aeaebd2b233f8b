------------------------- MODULE AlertPipelineProofs -------------------------
(***************************************************************************)
(* Proof that the composed pipeline never works on a message whose bytes   *)
(* were not written, for any number of mails, sessions, workers, consumers *)
(* and faults.                                                             *)
(***************************************************************************)
EXTENDS AlertPipeline, TLAPS

-----------------------------------------------------------------------------
(* The invariant.  Of the types only what an assignment needs is in it: that *)
(* the tables have their keys and that what is held has the fields it reads. *)

\* A session past its put holds a key that is stored.
SessionHolds(s) ==
  /\ {"pc", "id"} \subseteq DOMAIN session[s]
  /\ session[s].pc \in {"load", "persist"} => session[s].id \in objects

SessionsHold == DOMAIN session = Session /\ \A s \in Session : SessionHolds(s)

RowsStored == DOMAIN raw = RawId /\ \A r \in RawId : raw[r] # None => r \in objects

ParserHolds(w) ==
  /\ {"pc", "raw"} \subseteq DOMAIN parser[w]
  /\ parser[w].pc # "idle" => parser[w].raw \in objects

ParsersHold == DOMAIN parser = Worker /\ \A w \in Worker : ParserHolds(w)

AlertsStored ==
  DOMAIN alert = AlertId /\ \A a \in AlertId : alert[a] # None => alert[a].raw \in objects

\* A delivery task names an alert; before it writes its verdict it holds the
\* message that the alert named when it was read.
DelivererHolds(w) ==
  /\ {"pc", "alert", "raw"} \subseteq DOMAIN deliverer[w]
  /\ deliverer[w].pc # "idle" => deliverer[w].alert \in AlertId
  /\ deliverer[w].pc = "write" => deliverer[w].raw \in objects

DeliverersHold == DOMAIN deliverer = Deliverer /\ \A w \in Deliverer : DelivererHolds(w)

PipelineInv ==
  SessionsHold /\ RowsStored /\ ParsersHold /\ AlertsStored /\ DeliverersHold

-----------------------------------------------------------------------------
(* The ingest service *)

\* A session that is given another state, with its key stored if it has one,
\* leaves the sessions in order.
LEMMA SessionMoves ==
  ASSUME SessionsHold, objects \subseteq objects', NEW s \in Session, NEW t,
         session' = [session EXCEPT ![s] = t],
         {"pc", "id"} \subseteq DOMAIN t,
         t.pc \in {"load", "persist"} => t.id \in objects'
  PROVE  SessionsHold'
  BY DEF SessionsHold, SessionHolds

\* A transaction that ends holds nothing.
LEMMA SessionEnds ==
  ASSUME SessionsHold, UNCHANGED objects, NEW s \in Session, Ingest!EndSession(s)
  PROVE  SessionsHold'
  BY SessionMoves DEF Ingest!EndSession, Ingest!IdleSession

\* A session goes on at another await.
LEMMA SessionGoes ==
  ASSUME SessionsHold, UNCHANGED objects, NEW s \in Session, NEW label,
         label \notin {"load", "persist"}, Ingest!Goto(s, label)
  PROVE  SessionsHold'
  BY DEF SessionsHold, SessionHolds, Ingest!Goto

\* Accepting a recipient puts the session before the next one.
LEMMA SessionAccepts ==
  ASSUME SessionsHold, UNCHANGED objects, NEW s \in Session, Ingest!Accept(s)
  PROVE  SessionsHold'
  BY SessionMoves DEF SessionsHold, SessionHolds, Ingest!Accept

\* Naming recipients.
LEMMA RcptKeeps ==
  ASSUME SessionsHold, NEW s \in Session, Ingest!Rcpt(s)
  PROVE  SessionsHold' /\ UNCHANGED <<raw, objects>>
  <1>1. ASSUME NEW a \in Address, Ingest!RcptKnown(s, a) \/ Ingest!RcptRefused(s, a)
        PROVE  SessionsHold' /\ UNCHANGED <<raw, objects>>
    BY <1>1 DEF Ingest!RcptKnown, Ingest!RcptRefused, SessionsHold, SessionHolds
  <1>2. CASE Ingest!RcptAdmitted(s)
    BY <1>2, SessionAccepts DEF Ingest!RcptAdmitted
  <1>3. CASE Ingest!RcptLimited(s)
    BY <1>3 DEF Ingest!RcptLimited, SessionsHold, SessionHolds
  <1>4. CASE Ingest!Quit(s)
    BY <1>4, SessionEnds DEF Ingest!Quit
  <1> QED BY <1>1, <1>2, <1>3, <1>4 DEF Ingest!Rcpt

\* What the handler of DATA and the faults of a session may do: bytes are only
\* added, rows only for stored bytes.
IngestSafe == SessionsHold' /\ RowsStored' /\ objects \subseteq objects'

\* Storing and inserting: the row is written under the key of the stored bytes.
LEMMA DataKeeps ==
  ASSUME SessionsHold, RowsStored, NEW s \in Session, Ingest!Data(s)
  PROVE  IngestSafe
  <1> USE DEF IngestSafe
  <1>1. CASE Ingest!TooLarge(s)
    BY <1>1, SessionEnds DEF Ingest!TooLarge, RowsStored
  <1>2. ASSUME NEW id \in RawId, Ingest!PutRawMail(s, id) PROVE IngestSafe
    BY <1>2 DEF Ingest!PutRawMail, SessionsHold, SessionHolds, RowsStored
  <1>3. CASE Ingest!LoadAddress(s)
    <2>1. UNCHANGED <<raw, objects>> /\ session[s].pc = "load"
      BY <1>3 DEF Ingest!LoadAddress
    <2>2. CASE Ingest!EndSession(s)
      BY <2>1, <2>2, SessionEnds DEF RowsStored
    <2>3. CASE ~Ingest!EndSession(s)
      BY <1>3, <2>1, <2>3 DEF Ingest!LoadAddress, SessionsHold, SessionHolds, RowsStored
    <2> QED BY <2>2, <2>3
  <1>4. CASE Ingest!PersistRow(s)
    <2>1. UNCHANGED objects /\ session[s].pc = "persist" /\ session[s].id \in objects
      BY <1>4 DEF Ingest!PersistRow, SessionsHold, SessionHolds
    <2>2. SessionsHold'
      BY <1>4, <2>1, SessionEnds, SessionGoes DEF Ingest!PersistRow
    <2>3. RowsStored'
      BY <1>4, <2>1 DEF Ingest!PersistRow, RowsStored
    <2> QED BY <2>1, <2>2, <2>3
  <1>5. CASE Ingest!EnqueueParse(s)
    BY <1>5, SessionGoes DEF Ingest!EnqueueParse, RowsStored
  <1>6. CASE Ingest!Reply(s)
    BY <1>6, SessionEnds DEF Ingest!Reply, RowsStored
  <1> QED BY <1>1, <1>2, <1>3, <1>4, <1>5, <1>6 DEF Ingest!Data

\* A fault ends the transaction, or the session goes on without a change to the
\* tables.
LEMMA SessionFaultKeeps ==
  ASSUME SessionsHold, RowsStored, NEW s \in Session, Ingest!SessionFault(s)
  PROVE  IngestSafe
  <1> USE DEF IngestSafe
  <1>1. ASSUME NEW a \in Address, Ingest!RcptLookupFails(s, a) PROVE IngestSafe
    BY <1>1 DEF Ingest!RcptLookupFails, SessionsHold, SessionHolds, RowsStored
  <1>2. CASE Ingest!RcptFailOpen(s)
    BY <1>2, SessionAccepts DEF Ingest!RcptFailOpen, RowsStored
  <1>3. CASE Ingest!PutRejected(s) \/ Ingest!PutUnreachable(s)
    BY <1>3, SessionEnds DEF Ingest!PutRejected, Ingest!PutUnreachable, RowsStored
  <1>4. CASE Ingest!PersistFails(s) \/ Ingest!ConnectionLost(s)
    BY <1>4, SessionEnds DEF Ingest!PersistFails, Ingest!ConnectionLost, RowsStored
  <1>5. CASE Ingest!EnqueueFails(s)
    BY <1>5, SessionGoes DEF Ingest!EnqueueFails, RowsStored
  <1> QED BY <1>1, <1>2, <1>3, <1>4, <1>5 DEF Ingest!SessionFault

\* Every step of the ingest service.
LEMMA IngestKeeps ==
  ASSUME SessionsHold, RowsStored, Ingest!IngestStage
  PROVE  IngestSafe
  <1> USE DEF IngestSafe
  <1>1. ASSUME NEW s \in Session, NEW m \in Mail, Ingest!MailFrom(s, m) PROVE IngestSafe
    BY <1>1 DEF Ingest!MailFrom, Ingest!IdleSession, SessionsHold, SessionHolds, RowsStored
  <1>2. ASSUME NEW s \in Session, Ingest!Rcpt(s) PROVE IngestSafe
    BY <1>2, RcptKeeps DEF RowsStored
  <1>3. ASSUME NEW s \in Session, Ingest!Data(s) \/ Ingest!SessionFault(s) PROVE IngestSafe
    BY <1>3, DataKeeps, SessionFaultKeeps
  <1>4. CASE Ingest!Crash
    BY <1>4 DEF Ingest!Crash, Ingest!IdleSession, SessionsHold, SessionHolds, RowsStored
  <1>5. CASE Ingest!NextMinute
    BY <1>5 DEF Ingest!NextMinute, SessionsHold, SessionHolds, RowsStored
  <1>6. ASSUME NEW a \in Address,
               Ingest!Revoke(a) \/ \E on \in BOOLEAN : Ingest!SetQuarantine(a, on)
        PROVE  IngestSafe
    BY <1>6 DEF Ingest!Revoke, Ingest!SetQuarantine, SessionsHold, SessionHolds, RowsStored
  <1> QED BY <1>1, <1>2, <1>3, <1>4, <1>5, <1>6 DEF Ingest!IngestStage

-----------------------------------------------------------------------------
(* The parse workers *)

\* What a parse worker may do: its message and its alerts have their bytes.
ParseSafe == RowsStored' /\ ParsersHold' /\ AlertsStored'

\* A task ends.
LEMMA ParserStops ==
  ASSUME ParsersHold, UNCHANGED objects, NEW w \in Worker, Parse!Stop(w)
  PROVE  ParsersHold'
  BY DEF ParsersHold, ParserHolds, Parse!Stop, Parse!IdleParser

\* A status is written on a row that is there.
LEMMA StatusKeeps ==
  ASSUME RowsStored, UNCHANGED objects, NEW r \in objects, NEW seen, NEW new,
         raw' = Parse!SetStatus(r, seen, new)
  PROVE  RowsStored'
  BY DEF RowsStored, Parse!SetStatus

\* Taking a task reads its row, which has its bytes.
LEMMA TakeKeeps ==
  ASSUME RowsStored, ParsersHold, AlertsStored, UNCHANGED objects,
         NEW w \in Worker, NEW r \in RawId, NEW n \in 0..MaxRetries, Parse!TakeParse(w, r, n)
  PROVE  ParseSafe
  <1>1. UNCHANGED <<raw, alert>>
    BY DEF Parse!TakeParse
  <1>2. ParsersHold'
    BY DEF Parse!TakeParse, Parse!IdleParser, ParsersHold, ParserHolds, RowsStored
  <1> QED BY <1>1, <1>2 DEF ParseSafe, RowsStored, AlertsStored

\* The commit writes alert and status for the message of the task.
LEMMA CommitKeeps ==
  ASSUME RowsStored, ParsersHold, AlertsStored, UNCHANGED objects,
         NEW w \in Worker, Parse!CommitAlert(w)
  PROVE  ParseSafe
  <1> DEFINE t == parser[w]
  <1>1. t.raw \in objects
    BY DEF Parse!CommitAlert, ParsersHold, ParserHolds
  <1>2. CASE raw[t.raw].camera = t.cam
    <2>1. raw' = Parse!SetStatus(t.raw, t.seen, "parsed")
      BY <1>2 DEF Parse!CommitAlert
    <2>2. RowsStored'
      BY <1>1, <2>1, StatusKeeps
    <2>3. alert' = [alert EXCEPT ![t.id] = [raw |-> t.raw, camera |-> t.cam]]
      BY <1>2 DEF Parse!CommitAlert
    <2>4. AlertsStored'
      BY <1>1, <2>3 DEF AlertsStored
    <2>5. parser' = [parser EXCEPT ![w].pc = "enqueue"]
      BY <1>2 DEF Parse!CommitAlert
    <2>6. ParsersHold'
      BY <1>1, <2>5 DEF ParsersHold, ParserHolds
    <2> QED BY <2>2, <2>4, <2>6 DEF ParseSafe
  <1>3. CASE raw[t.raw].camera # t.cam
    <2>1. Parse!Stop(w) /\ UNCHANGED <<raw, alert>>
      BY <1>3 DEF Parse!CommitAlert
    <2> QED BY <2>1, ParserStops DEF ParseSafe, RowsStored, AlertsStored
  <1> QED BY <1>2, <1>3

\* The other steps of a task.
LEMMA ParseStepKeeps ==
  ASSUME RowsStored, ParsersHold, AlertsStored, UNCHANGED objects,
         NEW w \in Worker, Parse!ParseStep(w)
  PROVE  ParseSafe
  <1> USE DEF ParseSafe
  <1>1. CASE Parse!CheckExisting(w)
    <2>1. CASE Parse!Stop(w)
      BY <1>1, <2>1, ParserStops DEF Parse!CheckExisting, RowsStored, AlertsStored
    <2>2. CASE ~Parse!Stop(w)
      BY <1>1, <2>2 DEF Parse!CheckExisting, ParsersHold, ParserHolds, RowsStored, AlertsStored
    <2> QED BY <2>1, <2>2
  <1>2. CASE Parse!Fetch(w)
    BY <1>2 DEF Parse!Fetch, ParsersHold, ParserHolds, RowsStored, AlertsStored
  <1>3. ASSUME Parse!MarkParseFailed(w), parser[w].pc # "idle", UNCHANGED alert PROVE ParseSafe
    <2>1. parser[w].raw \in objects
      BY <1>3 DEF ParsersHold, ParserHolds
    <2>2. RowsStored'
      BY <1>3, <2>1, StatusKeeps DEF Parse!MarkParseFailed
    <2>3. ParsersHold'
      BY <1>3, ParserStops DEF Parse!MarkParseFailed
    <2> QED BY <1>3, <2>2, <2>3 DEF AlertsStored
  <1>4. CASE Parse!MimeFails(w)
    BY <1>4, <1>3 DEF Parse!MimeFails
  <1>5. CASE Parse!PassthroughRaises(w)
    BY <1>5, ParserStops DEF Parse!PassthroughRaises, RowsStored, AlertsStored
  <1>6. ASSUME NEW a \in AlertId, Parse!StoreAttachments(w, a) PROVE ParseSafe
    BY <1>6 DEF Parse!StoreAttachments, ParsersHold, ParserHolds, RowsStored, AlertsStored
  <1>7. CASE Parse!CommitWithoutCamera(w)
    BY <1>7, <1>3 DEF Parse!CommitWithoutCamera
  <1>8. CASE Parse!CommitAlert(w)
    BY <1>8, CommitKeeps
  <1>9. CASE Parse!EnqueueDeliver(w)
    BY <1>9, ParserStops DEF Parse!EnqueueDeliver, RowsStored, AlertsStored
  <1> QED BY <1>1, <1>2, <1>4, <1>5, <1>6, <1>7, <1>8, <1>9 DEF Parse!ParseStep

\* Every step of the parse stage.
LEMMA ParseKeeps ==
  ASSUME RowsStored, ParsersHold, AlertsStored, UNCHANGED objects, Parse!ParseStage
  PROVE  ParseSafe
  <1>1. ASSUME NEW w \in Worker, Parse!ParseFault(w) PROVE ParseSafe
    <2>1. Parse!Stop(w) /\ UNCHANGED <<raw, alert>>
      BY <1>1 DEF Parse!ParseFault, Parse!FetchRetried, Parse!FetchFails,
                  Parse!EnqueueDeliverFails, Parse!ParserCrash
    <2> QED BY <2>1, ParserStops DEF ParseSafe, RowsStored, AlertsStored
  <1>2. CASE Parse!Reconcile \/ Parse!ReconcileAborts
    BY <1>2 DEF Parse!Reconcile, Parse!ReconcileAborts, ParseSafe, RowsStored, AlertsStored,
                ParsersHold, ParserHolds
  <1> QED BY <1>1, <1>2, TakeKeeps, ParseStepKeeps DEF Parse!ParseStage

-----------------------------------------------------------------------------
(* The delivery workers *)

\* What a delivery worker may do: it only writes to a message it has read of an
\* alert.
DeliverSafe == RowsStored' /\ DeliverersHold'

\* A task is given another state that names its alert.
LEMMA DelivererMoves ==
  ASSUME DeliverersHold, UNCHANGED objects, NEW w \in Deliverer, NEW t,
         deliverer' = [deliverer EXCEPT ![w] = t],
         {"pc", "alert", "raw"} \subseteq DOMAIN t,
         t.pc # "idle" => t.alert \in AlertId,
         t.pc # "write"
  PROVE  DeliverersHold'
  BY DEF DeliverersHold, DelivererHolds

\* A task ends.
LEMMA DelivererStops ==
  ASSUME DeliverersHold, UNCHANGED objects, NEW w \in Deliverer, Deliver!Stop(w)
  PROVE  DeliverersHold'
  <1> DEFINE t == Deliver!IdleDeliverer
  <1>1. {"pc", "alert", "raw"} \subseteq DOMAIN t /\ t.pc = "idle"
    BY DEF Deliver!IdleDeliverer
  <1>2. deliverer' = [deliverer EXCEPT ![w] = t]
    BY DEF Deliver!Stop
  <1> QED BY <1>1, <1>2, DelivererMoves

\* A task begins with an alert.
LEMMA DelivererStarts ==
  ASSUME DeliverersHold, UNCHANGED objects, NEW w \in Deliverer, NEW a \in AlertId,
         NEW cs, NEW n, Deliver!Start(w, a, cs, n)
  PROVE  DeliverersHold'
  <1> DEFINE t == [Deliver!IdleDeliverer EXCEPT
                     !.pc = "each", !.alert = a, !.todo = cs, !.attempt = n]
  <1>1. {"pc", "alert", "raw"} \subseteq DOMAIN t
    BY DEF Deliver!IdleDeliverer
  <1>2. t.pc = "each" /\ t.alert = a
    BY DEF Deliver!IdleDeliverer
  <1>3. deliverer' = [deliverer EXCEPT ![w] = t]
    BY DEF Deliver!Start
  <1> HIDE DEF t
  <1> QED BY <1>1, <1>2, <1>3, DelivererMoves

\* A task goes on with its alert.
LEMMA DelivererGoes ==
  ASSUME DeliverersHold, UNCHANGED objects, NEW w \in Deliverer, NEW label,
         label # "write", deliverer[w].pc # "idle", Deliver!Goto(w, label)
  PROVE  DeliverersHold'
  BY DEF DeliverersHold, DelivererHolds, Deliver!Goto

\* The loop over the consumers goes on, or the task ends.
LEMMA DelivererContinues ==
  ASSUME DeliverersHold, UNCHANGED objects, NEW w \in Deliverer,
         deliverer[w].pc # "idle", Deliver!Continue(w)
  PROVE  DeliverersHold'
  <1>1. CASE Deliver!Stop(w)
    BY <1>1, DelivererStops
  <1>2. CASE ~Deliver!Stop(w)
    BY <1>2 DEF Deliver!Continue, DeliverersHold, DelivererHolds
  <1> QED BY <1>1, <1>2

\* Taking a task.
LEMMA DeliverTaskKeeps ==
  ASSUME RowsStored, DeliverersHold, UNCHANGED objects, NEW w \in Deliverer,
         \/ Deliver!DeliverTask(w)
         \/ \E t \in Deliver!RetryTask : Deliver!TakeRestoredRetry(w, t)
  PROVE  DeliverSafe
  <1>1. UNCHANGED raw
    BY DEF Deliver!DeliverTask, Deliver!TakeDeliver, Deliver!TakeRetry, Deliver!TakeRestoredRetry
  <1>2. ASSUME UNCHANGED deliverer PROVE DeliverersHold'
    BY <1>2 DEF DeliverersHold, DelivererHolds
  <1>3. ASSUME NEW a \in AlertId, Deliver!TakeDeliver(w, a) PROVE DeliverersHold'
    BY <1>2, <1>3, DelivererStarts DEF Deliver!TakeDeliver
  <1>4. ASSUME NEW t \in Deliver!RetryTask, Deliver!RunRetry(w, t) PROVE DeliverersHold'
    <2>1. t[1] \in AlertId
      BY DEF Deliver!RetryTask
    <2> QED BY <1>2, <1>4, <2>1, DelivererStarts DEF Deliver!RunRetry
  <1>5. DeliverersHold'
    BY <1>3, <1>4 DEF Deliver!DeliverTask, Deliver!TakeRetry, Deliver!TakeRestoredRetry
  <1> QED BY <1>1, <1>5 DEF DeliverSafe, RowsStored

\* The verdict: what is read of an alert is a stored message, and that is written.
LEMMA VerdictKeeps ==
  ASSUME RowsStored, AlertsStored, DeliverersHold, UNCHANGED objects, NEW w \in Deliverer,
         Deliver!ReadRaw(w) \/ Deliver!WriteRaw(w)
  PROVE  DeliverSafe
  <1> DEFINE t == deliverer[w]
  <1>1. t.pc # "idle" /\ t.alert \in AlertId
    BY DEF Deliver!ReadRaw, Deliver!WriteRaw, DeliverersHold, DelivererHolds
  <1>2. CASE Deliver!ReadRaw(w)
    <2>1. RowsStored'
      BY <1>2 DEF Deliver!ReadRaw, RowsStored
    <2>2. CASE alert[t.alert] = None
      BY <1>2, <2>1, <2>2, DelivererStops DEF Deliver!ReadRaw, DeliverSafe
    <2>3. CASE alert[t.alert] # None /\ Deliver!Continue(w)
      BY <1>1, <2>1, <2>3, DelivererContinues DEF DeliverSafe
    <2>4. CASE alert[t.alert] # None /\ ~Deliver!Continue(w)
      <3>1. deliverer' = [deliverer EXCEPT ![w].pc = "write", ![w].raw = alert[t.alert].raw]
        BY <1>2, <2>4 DEF Deliver!ReadRaw
      <3>2. alert[t.alert].raw \in objects
        BY <1>1, <2>4 DEF AlertsStored
      <3>3. DeliverersHold'
        BY <1>1, <3>1, <3>2 DEF DeliverersHold, DelivererHolds
      <3> QED BY <2>1, <3>3 DEF DeliverSafe
    <2> QED BY <2>2, <2>3, <2>4
  <1>3. CASE Deliver!WriteRaw(w)
    <2>1. t.raw \in objects
      BY <1>3 DEF Deliver!WriteRaw, DeliverersHold, DelivererHolds
    <2>2. RowsStored'
      BY <1>3, <2>1 DEF Deliver!WriteRaw, RowsStored
    <2> QED BY <1>1, <1>3, <2>2, DelivererContinues DEF Deliver!WriteRaw, DeliverSafe
  <1> QED BY <1>2, <1>3

\* The other steps of a delivery task leave the messages alone.
LEMMA AttemptKeeps ==
  ASSUME RowsStored, DeliverersHold, UNCHANGED objects, NEW w \in Deliverer,
         \/ \E c \in Consumer : \E d \in DeliveryId : Deliver!InsertPending(w, c, d)
         \/ Deliver!Post(w) \/ Deliver!RecordSuccess(w) \/ Deliver!RecordFailure(w)
         \/ Deliver!ScheduleRetry(w) \/ Deliver!ScheduleFails(w) \/ Deliver!DelivererCrash(w)
  PROVE  DeliverSafe
  <1>1. UNCHANGED raw
    BY DEF Deliver!InsertPending, Deliver!Post, Deliver!RecordSuccess, Deliver!RecordFailure,
           Deliver!ScheduleRetry, Deliver!ScheduleFails, Deliver!DelivererCrash
  <1>2. DeliverersHold'
    <2>1. CASE Deliver!Stop(w)
      BY <2>1, DelivererStops
    <2>2. ASSUME NEW c \in Consumer, NEW d \in DeliveryId, Deliver!InsertPending(w, c, d),
                 ~Deliver!Stop(w)
          PROVE  DeliverersHold'
      BY <2>2 DEF Deliver!InsertPending, DeliverersHold, DelivererHolds
    <2>3. CASE Deliver!Post(w) /\ ~Deliver!Stop(w)
      BY <2>3, DelivererGoes DEF Deliver!Post
    <2>4. CASE Deliver!RecordSuccess(w) /\ ~Deliver!Stop(w)
      BY <2>4 DEF Deliver!RecordSuccess, DeliverersHold, DelivererHolds
    <2>5. CASE Deliver!RecordFailure(w) /\ ~Deliver!Stop(w)
      <3>1. CASE Deliver!Goto(w, "schedule")
        BY <2>5, <3>1, DelivererGoes DEF Deliver!RecordFailure
      <3>2. CASE ~Deliver!Goto(w, "schedule")
        BY <2>5, <3>2 DEF Deliver!RecordFailure, DeliverersHold, DelivererHolds
      <3> QED BY <3>1, <3>2
    <2>6. CASE Deliver!ScheduleRetry(w) /\ ~Deliver!Stop(w)
      BY <2>6, DelivererContinues DEF Deliver!ScheduleRetry
    <2>7. CASE Deliver!ScheduleFails(w) \/ Deliver!DelivererCrash(w)
      BY <2>1, <2>7 DEF Deliver!ScheduleFails, Deliver!DelivererCrash
    <2> QED BY <2>1, <2>2, <2>3, <2>4, <2>5, <2>6, <2>7
  <1> QED BY <1>1, <1>2 DEF DeliverSafe, RowsStored

\* Every step of the delivery stage.
LEMMA DeliverKeeps ==
  ASSUME RowsStored, AlertsStored, DeliverersHold, UNCHANGED objects, Deliver!DeliveryStage
  PROVE  DeliverSafe
  <1>1. ASSUME UNCHANGED <<raw, deliverer>> PROVE DeliverSafe
    BY <1>1 DEF DeliverSafe, RowsStored, DeliverersHold, DelivererHolds
  <1> QED
    BY <1>1, DeliverTaskKeeps, VerdictKeeps, AttemptKeeps
    DEF Deliver!DeliveryStage, Deliver!DeliverStep, Deliver!ConsumerRequest,
        Deliver!Redeliver, Deliver!TestConsumer, Deliver!CreateConsumer,
        Deliver!UpdateConsumer, Deliver!DeleteConsumer, Deliver!SetConsumer

-----------------------------------------------------------------------------
(* The pipeline *)

\* Before the first mail there is nothing to hold.
LEMMA PipelineStarts == PipelineInit => PipelineInv
  BY DEF PipelineInit, PipelineInv, Ingest!Init, Ingest!IdleSession, Parse!IdleParser,
         Deliver!IdleDeliverer, SessionsHold, SessionHolds, RowsStored, ParsersHold,
         ParserHolds, AlertsStored, DeliverersHold, DelivererHolds

\* A camera that is deleted leaves the rows and takes alerts; bytes stay.
LEMMA DeletionKeeps ==
  ASSUME PipelineInv, NEW c \in Camera, DeleteCamera(c)
  PROVE  PipelineInv'
  <1>1. UNCHANGED <<session, objects, parser, deliverer>>
    BY DEF DeleteCamera, Ingest!DeleteCamera, parseOnly, deliverOnly
  <1>2. SessionsHold' /\ ParsersHold' /\ DeliverersHold'
    BY <1>1 DEF PipelineInv, SessionsHold, SessionHolds, ParsersHold, ParserHolds,
                DeliverersHold, DelivererHolds
  <1>3. RowsStored'
    BY <1>1 DEF DeleteCamera, Ingest!DeleteCamera, PipelineInv, RowsStored
  <1>4. AlertsStored'
    BY <1>1 DEF DeleteCamera, Parse!CascadeAlerts, PipelineInv, AlertsStored
  <1> QED BY <1>2, <1>3, <1>4 DEF PipelineInv

\* Every step of the pipeline.
LEMMA PipelineKeeps == PipelineInv /\ [PipelineNext]_pipelineVars => PipelineInv'
  <1> SUFFICES ASSUME PipelineInv, [PipelineNext]_pipelineVars PROVE PipelineInv'
    OBVIOUS
  <1>1. CASE FromIngest(Ingest!IngestStage)
    <2>1. IngestSafe
      BY <1>1, IngestKeeps DEF FromIngest, PipelineInv
    <2>2. UNCHANGED <<parser, alert, deliverer>>
      BY <1>1 DEF FromIngest, parseOnly, deliverOnly
    <2>3. ParsersHold' /\ AlertsStored' /\ DeliverersHold'
      BY <2>1, <2>2 DEF PipelineInv, IngestSafe, ParsersHold, ParserHolds, AlertsStored,
                        DeliverersHold, DelivererHolds
    <2> QED BY <2>1, <2>3 DEF IngestSafe, PipelineInv
  <1>2. CASE FromParse(Parse!ParseStage)
    <2>1. UNCHANGED <<session, objects, deliverer>>
      BY <1>2 DEF FromParse, ingestOnly, deliverOnly
    <2>2. ParseSafe
      BY <1>2, <2>1, ParseKeeps DEF FromParse, PipelineInv
    <2>3. SessionsHold' /\ DeliverersHold'
      BY <2>1 DEF PipelineInv, SessionsHold, SessionHolds, DeliverersHold, DelivererHolds
    <2> QED BY <2>2, <2>3 DEF ParseSafe, PipelineInv
  <1>3. CASE FromDeliver(Deliver!DeliveryStage)
    <2>1. UNCHANGED <<session, objects, parser>>
      BY <1>3 DEF FromDeliver, ingestOnly, parseOnly
    <2>2. DeliverSafe
      BY <1>3, <2>1, DeliverKeeps DEF FromDeliver, PipelineInv
    <2>3. UNCHANGED alert
      BY <1>3 DEF FromDeliver, Deliver!DeliveryStage, Deliver!DeliverTask, Deliver!DeliverStep,
                  Deliver!ConsumerRequest, Deliver!TakeDeliver, Deliver!TakeRetry,
                  Deliver!TakeRestoredRetry, Deliver!InsertPending, Deliver!Post,
                  Deliver!RecordSuccess, Deliver!RecordFailure, Deliver!ReadRaw,
                  Deliver!WriteRaw, Deliver!ScheduleRetry, Deliver!ScheduleFails,
                  Deliver!DelivererCrash, Deliver!Redeliver, Deliver!TestConsumer,
                  Deliver!CreateConsumer, Deliver!UpdateConsumer, Deliver!DeleteConsumer, Deliver!SetConsumer
    <2>4. SessionsHold' /\ ParsersHold' /\ AlertsStored'
      BY <2>1, <2>3 DEF PipelineInv, SessionsHold, SessionHolds, ParsersHold, ParserHolds,
                        AlertsStored
    <2> QED BY <2>2, <2>4 DEF DeliverSafe, PipelineInv
  <1>4. ASSUME NEW c \in Camera, DeleteCamera(c) PROVE PipelineInv'
    BY <1>4, DeletionKeeps
  <1>5. CASE UNCHANGED pipelineVars
    BY <1>5 DEF pipelineVars, ingestOnly, parseOnly, deliverOnly, PipelineInv, SessionsHold,
                SessionHolds, RowsStored, ParsersHold, ParserHolds, AlertsStored,
                DeliverersHold, DelivererHolds
  <1> QED BY <1>1, <1>2, <1>3, <1>4, <1>5 DEF PipelineNext

\* The invariant of the composition.
THEOREM PipelineInvariant == PipelineSpec => []PipelineInv
  BY PipelineStarts, PipelineKeeps, PTL DEF PipelineSpec

\* Persist before enqueue, across all stages: a parse task works on a message
\* whose bytes are in MinIO (smtp_ingest.py, handle_DATA;
\* process_inbound_alert.py), and every alert comes from stored bytes.
THEOREM AlertsHaveBytes == PipelineSpec => []BytesBehindAlert
  <1>1. PipelineInv => BytesBehindAlert
    BY DEF PipelineInv, ParsersHold, ParserHolds, AlertsStored, BytesBehindAlert
  <1> QED BY <1>1, PipelineInvariant, PTL
==============================================================================
