--------------------------- MODULE WebhookDelivery ---------------------------
(***************************************************************************)
(* The delivery stage (app/tasks/deliver_webhook.py): one task POSTs an    *)
(* alert to every active consumer, failed attempts are retried one         *)
(* consumer at a time, and the outcome is noted on the raw_messages row.   *)
(* Beside the workers run the consumer API (app/api/v1/webhook_consumers), *)
(* redelivery (app/api/v1/alerts.py) and the deletion of alerts.           *)
(*                                                                         *)
(* Commits expire what a session has loaded, so every later use of the     *)
(* alert or a consumer reads the database again and raises, ending the     *)
(* task, when the row is gone.                                             *)
(***************************************************************************)
EXTENDS Integers, FiniteSets

CONSTANTS
  RawId, AlertId, Consumer,
  DeliveryId,   \* keys of webhook_deliveries rows
  Deliverer,    \* delivery worker processes
  None,
  Slots,        \* Len(WEBHOOK_RETRY_SCHEDULE_SECONDS)
  LongWait,     \* attempts that wait longer than the broker's visibility timeout
  QueueCap,     \* bound: copies of one task in the broker
  MaxChains,    \* bound: delivery tasks run for one alert
  MaxFaults     \* bound: crashes, broker outages and redeliveries by the broker

ASSUME DeliveryAssumption ==
  /\ None \notin RawId \cup AlertId \cup Consumer
  /\ DeliveryId \subseteq Nat \ {0}
  /\ Slots \in Nat \ {0}
  /\ LongWait \subseteq 1..Slots
  /\ QueueCap \in Nat \ {0}
  /\ MaxChains \in Nat
  /\ MaxFaults \in Nat

VARIABLES
  raw,          \* raw_messages rows; this stage reads and writes .status
  alert,        \* alerts rows; this stage reads .raw
  deliverQ,     \* deliver_webhook tasks: [AlertId -> count]
  retryQ,       \* deliver_webhook_retry tasks: [<<alert, consumer, attempt>> -> count]
  consumer,     \* webhook_consumers: state of each row
  delivery,     \* webhook_deliveries: [DeliveryId -> row or None]
  deliverer,    \* what each worker holds of the task it runs
  received,     \* history: <<alert, consumer>> the consumer has processed
  chains,       \* history: delivery tasks taken for each alert
  faults

localVars == <<retryQ, consumer, delivery, deliverer, received, chains>>
deliveryVars == <<raw, alert, deliverQ, retryQ, consumer, delivery, deliverer,
                  received, chains, faults>>

-----------------------------------------------------------------------------
(* Types *)

\* The first attempt, and one after each wait; how many are made is up to Exhausted.
Attempt == 1..(Slots + 1)
Status == {"pending", "success", "failed", "giving_up"}
Verdict == {"forwarded", "forward_failed"}
RetryTask == AlertId \X Consumer \X Attempt
DeliveryRow == [alert : AlertId, consumer : Consumer, attempt : Attempt, status : Status]

ASSUME NoneIsNoDelivery == None \notin DeliveryRow

\* pc: before the insert of a pending row ("each"), the POST, its bookkeeping
\* ("ok", "bad"), the read and the write of raw.status, the retry's enqueue.
DelivererState ==
  [pc : {"idle", "each", "post", "ok", "bad", "schedule", "read", "write"},
   alert : AlertId \cup {None},
   todo : SUBSET Consumer,            \* consumers the loop has yet to visit
   consumer : Consumer \cup {None},
   attempt : Attempt,
   row : DeliveryId \cup {0},          \* 0: none yet
   verdict : Verdict,                 \* to be noted on the raw row
   raw : RawId \cup {None},           \* the raw row to note it on
   fresh : BOOLEAN]                   \* no commit yet: loaded rows not expired

IdleDeliverer ==
  [pc |-> "idle", alert |-> None, todo |-> {}, consumer |-> None, attempt |-> 1,
   row |-> 0, verdict |-> "forwarded", raw |-> None, fresh |-> TRUE]

DeliveryTypeOK ==
  /\ DOMAIN raw = RawId /\ DOMAIN alert = AlertId
  /\ deliverQ \in [AlertId -> 0..QueueCap]
  /\ retryQ \in [RetryTask -> 0..QueueCap]
  /\ consumer \in [Consumer -> {"unborn", "active", "inactive", "deleted"}]
  /\ delivery \in [DeliveryId -> DeliveryRow \cup {None}]
  /\ deliverer \in [Deliverer -> DelivererState]
  /\ received \subseteq AlertId \X Consumer
  /\ chains \in [AlertId -> 0..MaxChains]
  /\ faults \in 0..MaxFaults

-----------------------------------------------------------------------------
(* Helpers *)

Active == {c \in Consumer : consumer[c] = "active"}

Registered(c) == consumer[c] \in {"active", "inactive"}

Rows(a, c) ==
  {d \in DeliveryId : delivery[d] # None /\ delivery[d].alert = a /\ delivery[d].consumer = c}

RowsWith(a, c, n, status) ==
  {d \in Rows(a, c) : delivery[d].attempt = n /\ delivery[d].status = status}

\* A key no row has and no worker still holds (the code draws a uuid; here
\* the least one, which makes the choice unique).
Unused == {d \in DeliveryId : delivery[d] = None /\ \A w \in Deliverer : deliverer[w].row # d}

IsFresh(d) == d \in Unused /\ \A e \in Unused : d <= e

\* Mutant: every wait of the schedule is used, as the documentation has it.
ExhaustedLate(attempt) == attempt > Slots

\* _retry_delay returns None: no attempt follows this one.  The schedule is indexed
\* from 0 with the number of the attempt just made: its first wait is never used.
Exhausted(attempt) == attempt >= Slots

Stop(w) == deliverer' = [deliverer EXCEPT ![w] = IdleDeliverer]

\* On to the next consumer of the loop, or done.  The log line reads alert
\* and consumer again, which raises when one is gone.
Continue(w) ==
  LET t == deliverer[w] IN
  IF t.todo # {} /\ alert[t.alert] # None /\ Registered(t.consumer)
    THEN deliverer' = [deliverer EXCEPT ![w] =
           [t EXCEPT !.pc = "each", !.consumer = None, !.row = 0, !.raw = None]]
    ELSE Stop(w)

Goto(w, label) == deliverer' = [deliverer EXCEPT ![w].pc = label]

Fault == faults < MaxFaults /\ faults' = faults + 1

Start(w, a, cs, n) ==
  deliverer' = [deliverer EXCEPT ![w] =
    [IdleDeliverer EXCEPT !.pc = "each", !.alert = a, !.todo = cs, !.attempt = n]]

-----------------------------------------------------------------------------
(* deliver_webhook, deliver_webhook_retry *)

\* The alert is gone, or nobody is registered ("alert held"): nothing happens.
TakeDeliver(w, a) ==
  /\ deliverer[w].pc = "idle"
  /\ deliverQ[a] > 0
  /\ chains[a] < MaxChains
  /\ deliverQ' = [deliverQ EXCEPT ![a] = @ - 1]
  /\ chains' = [chains EXCEPT ![a] = @ + 1]
  /\ IF alert[a] # None /\ Active # {} THEN Start(w, a, Active, 1) ELSE UNCHANGED deliverer
  /\ UNCHANGED <<raw, alert, retryQ, consumer, delivery, received, faults>>

\* Mutant: a retry visits every active consumer.
RunRetryForAll(w, t) ==
  /\ deliverer[w].pc = "idle"
  /\ retryQ[t] > 0
  /\ IF alert[t[1]] # None /\ consumer[t[2]] = "active"
       THEN Start(w, t[1], Active, t[3])
       ELSE UNCHANGED deliverer

RunRetry(w, t) ==
  /\ deliverer[w].pc = "idle"
  /\ retryQ[t] > 0
  /\ IF alert[t[1]] # None /\ consumer[t[2]] = "active"
       THEN Start(w, t[1], {t[2]}, t[3])
       ELSE UNCHANGED deliverer

TakeRetry(w, t) ==
  /\ RunRetry(w, t)
  /\ retryQ' = [retryQ EXCEPT ![t] = @ - 1]
  /\ UNCHANGED <<raw, alert, deliverQ, consumer, delivery, received, chains, faults>>

\* Redis hands a task out again when its countdown exceeds the visibility
\* timeout, which celery_app leaves at its default of one hour.
TakeRestoredRetry(w, t) ==
  /\ t[3] \in LongWait
  /\ RunRetry(w, t)
  /\ Fault
  /\ UNCHANGED <<raw, alert, deliverQ, retryQ, consumer, delivery, received, chains>>

\* Mutant: attempts counted from zero.
InsertPendingFromZero(w, c, d) ==
  LET t == deliverer[w] IN
  /\ t.pc = "each"
  /\ c \in t.todo
  /\ IsFresh(d)
  /\ Registered(c)
  /\ delivery' = [delivery EXCEPT ![d] =
       [alert |-> t.alert, consumer |-> c, attempt |-> t.attempt - 1, status |-> "pending"]]
  /\ deliverer' = [deliverer EXCEPT ![w] =
       [t EXCEPT !.pc = "post", !.todo = @ \ {c}, !.consumer = c, !.row = d, !.fresh = FALSE]]
  /\ UNCHANGED <<raw, alert, deliverQ, retryQ, consumer, received, chains, faults>>

\* _deliver_to_consumer: the pending row, committed before the POST.  The
\* consumer row is gone, or the alert was and has to be read again: exception.
InsertPending(w, c, d) ==
  LET t == deliverer[w] IN
  /\ t.pc = "each"
  /\ c \in t.todo
  /\ IsFresh(d)
  /\ IF Registered(c) /\ (t.fresh \/ alert[t.alert] # None)
       THEN /\ delivery' = [delivery EXCEPT ![d] =
                 [alert |-> t.alert, consumer |-> c, attempt |-> t.attempt, status |-> "pending"]]
            /\ deliverer' = [deliverer EXCEPT ![w] =
                 [t EXCEPT !.pc = "post", !.todo = @ \ {c}, !.consumer = c, !.row = d,
                           !.fresh = FALSE]]
       ELSE Stop(w) /\ UNCHANGED delivery
  /\ UNCHANGED <<raw, alert, deliverQ, retryQ, consumer, received, chains, faults>>

\* Mutant: a timeout passes for an answer.
PostOptimistic(w) ==
  LET t == deliverer[w] IN
  /\ t.pc = "post"
  /\ Goto(w, "ok")
  /\ received' \in {received, received \cup {<<t.alert, t.consumer>>}}
  /\ UNCHANGED <<raw, alert, deliverQ, retryQ, consumer, delivery, chains, faults>>

\* The POST answers 2xx, or it does not; a timeout may hide that the consumer
\* did process the alert.
Post(w) ==
  LET t == deliverer[w] IN
  /\ t.pc = "post"
  /\ IF Registered(t.consumer) /\ alert[t.alert] # None
       THEN \/ Goto(w, "ok") /\ received' = received \cup {<<t.alert, t.consumer>>}
            \/ Goto(w, "bad") /\ received' \in {received, received \cup {<<t.alert, t.consumer>>}}
       ELSE Stop(w) /\ UNCHANGED received
  /\ UNCHANGED <<raw, alert, deliverQ, retryQ, consumer, delivery, chains, faults>>

\* Mutant: no return after a success, the retry is scheduled too.
RecordSuccessFallsThrough(w) ==
  LET t == deliverer[w] IN
  /\ t.pc = "ok"
  /\ delivery[t.row] # None
  /\ delivery' = [delivery EXCEPT ![t.row].status = "success"]
  /\ IF Exhausted(t.attempt) THEN Stop(w) ELSE Goto(w, "schedule")
  /\ UNCHANGED <<raw, alert, deliverQ, retryQ, consumer, received, chains, faults>>

\* The row's new status; a row that went with its consumer raises.
RecordSuccess(w) ==
  LET t == deliverer[w] IN
  /\ t.pc = "ok"
  /\ IF delivery[t.row] # None
       THEN /\ delivery' = [delivery EXCEPT ![t.row].status = "success"]
            /\ deliverer' = [deliverer EXCEPT ![w].pc = "read", ![w].verdict = "forwarded"]
       ELSE Stop(w) /\ UNCHANGED delivery
  /\ UNCHANGED <<raw, alert, deliverQ, retryQ, consumer, received, chains, faults>>

\* The failure is on record before its retry is scheduled.
RecordFailure(w) ==
  LET t == deliverer[w] IN
  /\ t.pc = "bad"
  /\ IF delivery[t.row] = None THEN Stop(w) /\ UNCHANGED delivery
     ELSE IF Exhausted(t.attempt)
       THEN /\ delivery' = [delivery EXCEPT ![t.row].status = "giving_up"]
            /\ deliverer' = [deliverer EXCEPT ![w].pc = "read", ![w].verdict = "forward_failed"]
       ELSE /\ delivery' = [delivery EXCEPT ![t.row].status = "failed"]
            /\ Goto(w, "schedule")
  /\ UNCHANGED <<raw, alert, deliverQ, retryQ, consumer, received, chains, faults>>

\* _mark_raw_forwarded and _mark_raw_forward_failed read the status, decide,
\* and write in a second statement.
Noted(verdict) == IF verdict = "forwarded" THEN Verdict ELSE {"forwarded"}

ReadRaw(w) ==
  LET t == deliverer[w]
      r == alert[t.alert].raw IN
  /\ t.pc = "read"
  /\ IF alert[t.alert] = None THEN Stop(w)
     ELSE IF raw[r].status \in Noted(t.verdict) THEN Continue(w)
     ELSE deliverer' = [deliverer EXCEPT ![w].pc = "write", ![w].raw = r]
  /\ UNCHANGED <<raw, alert, deliverQ, retryQ, consumer, delivery, received, chains, faults>>

WriteRaw(w) ==
  LET t == deliverer[w] IN
  /\ t.pc = "write"
  /\ raw' = [raw EXCEPT ![t.raw].status = t.verdict]
  /\ Continue(w)
  /\ UNCHANGED <<alert, deliverQ, retryQ, consumer, delivery, received, chains, faults>>

\* Mutant: the retry is only recorded, not queued.
ScheduleRetryForgotten(w) ==
  /\ deliverer[w].pc = "schedule"
  /\ Continue(w)
  /\ UNCHANGED <<raw, alert, deliverQ, retryQ, consumer, delivery, received, chains, faults>>

\* apply_async(countdown=...) after the commit.
ScheduleRetry(w) ==
  LET t == deliverer[w] IN
  /\ t.pc = "schedule"
  /\ IF Registered(t.consumer) /\ alert[t.alert] # None
       THEN /\ retryQ' = [retryQ EXCEPT ![<<t.alert, t.consumer, t.attempt + 1>>] =
                            IF @ < QueueCap THEN @ + 1 ELSE @]
            /\ Continue(w)
       ELSE Stop(w) /\ UNCHANGED retryQ
  /\ UNCHANGED <<raw, alert, deliverQ, consumer, delivery, received, chains, faults>>

\* The broker refuses: the exception ends the task, the other consumers too.
ScheduleFails(w) ==
  /\ deliverer[w].pc = "schedule"
  /\ Fault
  /\ Stop(w)
  /\ UNCHANGED <<raw, alert, deliverQ, retryQ, consumer, delivery, received, chains>>

DelivererCrash(w) ==
  /\ deliverer[w].pc # "idle"
  /\ Fault
  /\ Stop(w)
  /\ UNCHANGED <<raw, alert, deliverQ, retryQ, consumer, delivery, received, chains>>

-----------------------------------------------------------------------------
(* Requests *)

\* A new delivery task for the alert, for all consumers.
Redeliver(a) ==
  /\ alert[a] # None
  /\ deliverQ[a] < QueueCap
  /\ deliverQ' = [deliverQ EXCEPT ![a] = @ + 1]
  /\ UNCHANGED <<raw, alert, retryQ, consumer, delivery, deliverer, received, chains, faults>>

\* The test of an active consumer sends an alert again, and to the others too.
\* Which alert is the newest is left open.
TestConsumer(c, a) == consumer[c] = "active" /\ Redeliver(a)

SetConsumer(c, st) ==
  /\ consumer' = [consumer EXCEPT ![c] = st]
  /\ UNCHANGED <<raw, alert, deliverQ, retryQ, deliverer, received, chains, faults>>

CreateConsumer(c) ==
  consumer[c] = "unborn" /\ SetConsumer(c, "active") /\ UNCHANGED delivery

UpdateConsumer(c, st) ==
  Registered(c) /\ consumer[c] # st /\ SetConsumer(c, st) /\ UNCHANGED delivery

\* The foreign key of webhook_deliveries cascades.
DeleteConsumer(c) ==
  /\ Registered(c)
  /\ SetConsumer(c, "deleted")
  /\ delivery' = [d \in DeliveryId |->
       IF delivery[d] # None /\ delivery[d].consumer = c THEN None ELSE delivery[d]]

-----------------------------------------------------------------------------
DeliverStep(w) ==
  \/ \E c \in Consumer : \E d \in DeliveryId : InsertPending(w, c, d)
  \/ Post(w) \/ RecordSuccess(w) \/ RecordFailure(w)
  \/ ReadRaw(w) \/ WriteRaw(w) \/ ScheduleRetry(w)

DeliverTask(w) ==
  \/ \E a \in AlertId : TakeDeliver(w, a)
  \/ \E t \in RetryTask : TakeRetry(w, t)

ConsumerRequest ==
  \E c \in Consumer :
    \/ CreateConsumer(c) \/ DeleteConsumer(c)
    \/ \E st \in {"active", "inactive"} : UpdateConsumer(c, st)

DeliveryStage ==
  \/ \E w \in Deliverer :
       \/ DeliverTask(w) \/ DeliverStep(w)
       \/ \E t \in RetryTask : TakeRestoredRetry(w, t)
       \/ ScheduleFails(w) \/ DelivererCrash(w)
  \/ \E a \in AlertId : Redeliver(a) \/ \E c \in Consumer : TestConsumer(c, a)
  \/ ConsumerRequest

\* The neighbour stage: every alert was parsed from a message of its own and
\* its task is queued; an alert goes when its camera is deleted.
DeliveryInit ==
  /\ raw = [r \in RawId |-> [status |-> "parsed"]]
  /\ alert \in {f \in [AlertId -> [raw : RawId]] :
                  \A a, b \in AlertId : a # b => f[a].raw # f[b].raw}
  /\ deliverQ = [a \in AlertId |-> 1]
  /\ retryQ = [t \in RetryTask |-> 0]
  /\ consumer \in [Consumer -> {"unborn", "active"}]
  /\ delivery = [d \in DeliveryId |-> None]
  /\ deliverer = [w \in Deliverer |-> IdleDeliverer]
  /\ received = {}
  /\ chains = [a \in AlertId |-> 0]
  /\ faults = 0

AlertDeleted(a) ==
  /\ alert[a] # None
  /\ alert' = [alert EXCEPT ![a] = None]
  /\ UNCHANGED <<raw, deliverQ, faults>> /\ UNCHANGED localVars

DeliveryNext == DeliveryStage \/ \E a \in AlertId : AlertDeleted(a)

DeliverySpec == DeliveryInit /\ [][DeliveryNext]_deliveryVars

-----------------------------------------------------------------------------
(* Properties *)

\* Attempts form a chain: attempt n + 1, queued or made, follows a failed
\* attempt n of the same consumer, across workers, tasks and restarts.
AttemptsChained ==
  /\ \A d \in DeliveryId :
       delivery[d] # None /\ delivery[d].attempt > 1 =>
         RowsWith(delivery[d].alert, delivery[d].consumer, delivery[d].attempt - 1, "failed") # {}
  /\ \A t \in RetryTask :
       retryQ[t] > 0 /\ consumer[t[2]] # "deleted" =>
         t[3] > 1 /\ RowsWith(t[1], t[2], t[3] - 1, "failed") # {}

\* A chain has as many attempts as the schedule has waits, no fewer and no more:
\* none is made or queued beyond the last, which alone is not followed up when it
\* fails, and gives up with every earlier one on record as failed.
GivingUpEndsTheChain ==
  /\ \A d \in DeliveryId :
       delivery[d] # None =>
         /\ delivery[d].attempt <= Slots
         /\ delivery[d].status = "failed" => delivery[d].attempt < Slots
         /\ delivery[d].status = "giving_up" =>
              /\ delivery[d].attempt = Slots
              /\ \A n \in 1..(Slots - 1) :
                   RowsWith(delivery[d].alert, delivery[d].consumer, n, "failed") # {}
  /\ \A t \in RetryTask : retryQ[t] > 0 => t[3] <= Slots

\* "Retry chain: 1m, 5m, 30m, 2h, 12h. Six attempts total (~15h). On attempt 6
\* failure we mark status=giving_up" (deliver_webhook.py:7): one attempt, and one more
\* after each wait.
GivesUpAfterTheLastWait ==
  \A d \in DeliveryId :
    delivery[d] # None /\ delivery[d].status = "giving_up" => delivery[d].attempt = Slots + 1

\* "success" and "forwarded" are only written after a consumer really
\* answered for the alert.
SuccessWasReceived ==
  /\ \A d \in DeliveryId :
       delivery[d] # None /\ delivery[d].status = "success" =>
         <<delivery[d].alert, delivery[d].consumer>> \in received
  /\ \A r \in RawId :
       raw[r].status = "forwarded" =>
         \E p \in received : alert[p[1]] = None \/ alert[p[1]].raw = r

\* A consumer acknowledges an alert at most once per delivery task, unless
\* the broker repeats a retry: retries stop at the first success.
OneSuccessPerChain ==
  \A a \in AlertId : \A c \in Consumer :
    Cardinality({d \in Rows(a, c) : delivery[d].status = "success"}) <= chains[a] + faults

\* The consumer has the alert, or its attempts were used up.
Concluded(a, c) ==
  \E d \in Rows(a, c) : delivery[d].status \in {"success", "giving_up"}

==============================================================================
