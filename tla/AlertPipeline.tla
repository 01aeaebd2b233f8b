---------------------------- MODULE AlertPipeline ----------------------------
(***************************************************************************)
(* The alerting pipeline as a whole: the ingest service, the parse workers *)
(* and the delivery workers, with the tables (raw, alert), the two Celery  *)
(* queues (parseQ, deliverQ) and the camera API between them.              *)
(*                                                                         *)
(* Each stage is the module of its own; what the stages assume of their    *)
(* neighbours there is replaced here by the neighbours.                    *)
(***************************************************************************)
EXTENDS Integers, FiniteSets

CONSTANTS
  Mail, Address, Camera, RawId, Session, None, CameraOf, Oversized, RateLimit,
  AlertId, Worker, Malformed, Poison, MaxRetries,
  Consumer, DeliveryId, Deliverer, Slots, LongWait,
  QueueCap, MaxChains, MaxFaults

VARIABLES
  address, hits, copy, session, objects,                      \* ingest
  drawn, parser,                                              \* parse
  retryQ, consumer, delivery, deliverer, received, chains,    \* delivery
  raw, alert, parseQ, deliverQ, faults                        \* shared

Ingest == INSTANCE AlertIngest
Parse == INSTANCE AlertParse
Deliver == INSTANCE WebhookDelivery

ingestOnly == <<address, hits, copy, session, objects>>
parseOnly == <<drawn, parser>>
deliverOnly == <<retryQ, consumer, delivery, deliverer, received, chains>>
pipelineVars == <<ingestOnly, parseOnly, deliverOnly, raw, alert, parseQ, deliverQ, faults>>

PipelineInit ==
  /\ Ingest!Init
  /\ alert = [a \in AlertId |-> None]
  /\ drawn = {}
  /\ deliverQ = [a \in AlertId |-> 0]
  /\ parser = [w \in Worker |-> Parse!IdleParser]
  /\ retryQ = [t \in Deliver!RetryTask |-> 0]
  /\ consumer \in [Consumer -> {"unborn", "active"}]
  /\ delivery = [d \in DeliveryId |-> None]
  /\ deliverer = [w \in Deliverer |-> Deliver!IdleDeliverer]
  /\ received = {}
  /\ chains = [a \in AlertId |-> 0]

\* ON DELETE: addresses and alerts go with their camera, raw_messages rows
\* stay and lose it.
DeleteCamera(c) ==
  /\ Ingest!DeleteCamera(c)
  /\ Parse!CascadeAlerts(c)
  /\ UNCHANGED <<parseOnly, deliverOnly, deliverQ>>

FromIngest(action) == action /\ UNCHANGED <<parseOnly, deliverOnly, alert, deliverQ>>
FromParse(action) == action /\ UNCHANGED <<ingestOnly, deliverOnly>>
FromDeliver(action) == action /\ UNCHANGED <<ingestOnly, parseOnly, parseQ>>

PipelineNext ==
  \/ FromIngest(Ingest!IngestStage)
  \/ FromParse(Parse!ParseStage)
  \/ FromDeliver(Deliver!DeliveryStage)
  \/ \E c \in Camera : DeleteCamera(c)

PipelineSpec == PipelineInit /\ [][PipelineNext]_pipelineVars

\* The fairness of the stages: handlers and tasks run to their end, workers
\* take what is queued, Postfix retries, minutes pass and beat fires.
PipelineFairness ==
  /\ \A s \in Session :
       WF_pipelineVars(FromIngest(Ingest!Rcpt(s) \/ Ingest!Data(s)))
  /\ \A m \in Mail :
       WF_pipelineVars(FromIngest(\E s \in Session : Ingest!MailFrom(s, m)))
  /\ WF_pipelineVars(FromIngest(Ingest!NextMinute))
  /\ \A w \in Worker : WF_pipelineVars(FromParse(Parse!ParseStep(w)))
  /\ \A r \in RawId : \A n \in 0..MaxRetries :
       SF_pipelineVars(FromParse(\E w \in Worker : Parse!TakeParse(w, r, n)))
  /\ WF_pipelineVars(FromParse(Parse!Reconcile))
  /\ \A w \in Deliverer : WF_pipelineVars(FromDeliver(Deliver!DeliverStep(w)))
  /\ WF_pipelineVars(FromDeliver(\E w \in Deliverer : Deliver!DeliverTask(w)))

PipelineFairSpec == PipelineSpec /\ PipelineFairness

-----------------------------------------------------------------------------
(* Properties *)

MailOf(a) == raw[alert[a].raw].mail

AlertsFrom(m) == {a \in AlertId : alert[a] # None /\ MailOf(a) = m}

\* A parse task never looks for bytes that were not written: the row it works
\* on was inserted after the object, and the alert comes from stored bytes.
BytesBehindAlert ==
  /\ \A w \in Worker : parser[w].pc # "idle" => parser[w].raw \in objects
  /\ \A a \in AlertId : alert[a] # None => alert[a].raw \in objects

\* A mail in the queue of Postfix becomes an alert or is answered for: it was
\* refused, its message does not parse, or its camera is gone.  One fault at
\* any point does not change that.
MailBecomesAlert ==
  \A m \in Mail : \A a \in Address :
    copy[m][a] = "queued" ~>
      \/ AlertsFrom(m) # {}
      \/ copy[m][a] = "bounced"
      \/ \E x \in Address : address[x].st = "deleted"

\* End to end, without a fault: a consumer that is always active receives the
\* alert of every mail that is not refused, or its attempts were used up.
MailConcluded ==
  \A m \in Mail : \A a \in Address : \A c \in Consumer :
    [](consumer[c] = "active") =>
      (copy[m][a] = "queued" ~>
         \/ \E n \in AlertsFrom(m) : Deliver!Concluded(n, c)
         \/ copy[m][a] = "bounced"
         \/ \E x \in Address : address[x].st = "deleted")

\* "Idempotent ... handles a previous mid-task crash" (process_inbound_alert):
\* an alert is handed to the consumers that stay active, or is deleted.
AlertReachesDelivery ==
  \A n \in AlertId :
    alert[n] # None ~>
      \/ alert[n] = None
      \/ chains[n] > 0
==============================================================================
