------------------------ MODULE WebhookDeliveryProofs ------------------------
(***************************************************************************)
(* Theorems of WebhookDelivery: types, the chain of attempts at a consumer *)
(* and its length, and what "success", "giving_up" and "forwarded" stand   *)
(* for, for any number of alerts, consumers, workers, waits and faults.    *)
(***************************************************************************)
EXTENDS WebhookDelivery, FiniteSetTheorems, TLAPS

-----------------------------------------------------------------------------
(* The inductive invariant *)

\* Every attempt before the m-th of alert a at consumer c is on record as failed.
Chained(a, c, m) == \A n \in 1..(m - 1) : RowsWith(a, c, n, "failed") # {}

Attempting(w) == deliverer[w].pc \in {"post", "ok", "bad"}

\* The row of an attempt is pending, or gone with its consumer, and no other
\* worker is going to write it.
OwnRow(w) ==
  LET t == deliverer[w] IN
  Attempting(w) =>
    /\ t.row # 0
    /\ delivery[t.row] \in
         {None, [alert |-> t.alert, consumer |-> t.consumer, attempt |-> t.attempt,
                 status |-> "pending"]}
    /\ \A v \in Deliverer \ {w} : Attempting(v) => deliverer[v].row # t.row

\* A task has an alert, and a consumer from the insert of its row on.
OnItsAlert(w) ==
  LET t == deliverer[w] IN
  /\ t.pc # "idle" => t.alert # None
  /\ t.pc \notin {"idle", "each"} => t.consumer # None

\* An attempt that is under way follows a failed one, and so does one to be scheduled.
TaskChained(w) ==
  LET t == deliverer[w] IN
  \A c \in Consumer :
    consumer[c] # "deleted" =>
      /\ t.pc # "idle" /\ (c \in t.todo \/ c = t.consumer) => Chained(t.alert, c, t.attempt)
      /\ t.pc = "schedule" /\ c = t.consumer => Chained(t.alert, c, t.attempt + 1)

\* What is about to be noted as forwarded was answered for.
Answered(w) ==
  LET t == deliverer[w] IN
  /\ t.pc = "ok" \/ (t.pc \in {"read", "write"} /\ t.verdict = "forwarded") =>
       <<t.alert, t.consumer>> \in received
  /\ t.pc = "write" => /\ t.raw # None
                       /\ alert[t.alert] = None \/ alert[t.alert].raw = t.raw

WorkerInv(w) == OnItsAlert(w) /\ OwnRow(w) /\ TaskChained(w) /\ Answered(w)

\* A row is of a consumer that is there and follows failed attempts, and success
\* was answered for.
RowFacts(d) ==
  delivery[d] # None =>
    /\ Registered(delivery[d].consumer)
    /\ Chained(delivery[d].alert, delivery[d].consumer, delivery[d].attempt)
    /\ delivery[d].status = "success" =>
         <<delivery[d].alert, delivery[d].consumer>> \in received

RowsInv == \A d \in DeliveryId : RowFacts(d)

RetriesInv ==
  \A t \in RetryTask :
    retryQ[t] > 0 /\ consumer[t[2]] # "deleted" => t[3] > 1 /\ Chained(t[1], t[2], t[3])

ForwardedInv ==
  \A r \in RawId :
    raw[r].status = "forwarded" =>
      \E p \in received : alert[p[1]] = None \/ alert[p[1]].raw = r

TablesTyped ==
  /\ DeliveryTypeOK
  /\ raw \in [RawId -> [status : Verdict \cup {"parsed"}]]
  /\ alert \in [AlertId -> [raw : RawId] \cup {None}]

DeliveryInv ==
  /\ TablesTyped
  /\ \A w \in Deliverer : WorkerInv(w)
  /\ RowsInv /\ RetriesInv /\ ForwardedInv

\* Consumers stay deleted, and the failed attempts at the others stay on record.
FailuresKept ==
  \A c \in Consumer :
    consumer'[c] # "deleted" =>
      /\ consumer[c] # "deleted"
      /\ \A d \in DeliveryId :
           delivery[d] # None /\ delivery[d].consumer = c /\ delivery[d].status = "failed" =>
             delivery'[d] = delivery[d]

-----------------------------------------------------------------------------
(* Steps by what they write *)

\* A worker without a task is typed.
LEMMA IdleTyped == IdleDeliverer \in DelivererState /\ IdleDeliverer.pc = "idle"
  BY DeliveryAssumption DEF IdleDeliverer, DelivererState, Attempt, Verdict

\* A chain of failed attempts stays while its consumer does.
LEMMA ChainKept ==
  ASSUME FailuresKept, NEW c \in Consumer, consumer'[c] # "deleted",
         NEW a, NEW m, Chained(a, c, m)
  PROVE  Chained(a, c, m)'
  BY DEF FailuresKept, Chained, RowsWith, Rows

\* What a worker knows stays true while the others go on.
LEMMA WorkerKept ==
  ASSUME DeliveryInv, FailuresKept, NEW v \in Deliverer, deliverer'[v] = deliverer[v],
         received \subseteq received', \A a \in AlertId : alert'[a] \in {alert[a], None}
  PROVE  (OnItsAlert(v) /\ TaskChained(v) /\ Answered(v))'
  <1> DEFINE t == deliverer[v]
  <1>1. t \in DelivererState /\ WorkerInv(v)
    BY DEF DeliveryInv, TablesTyped, DeliveryTypeOK
  <1>2. OnItsAlert(v)'
    BY <1>1 DEF WorkerInv, OnItsAlert
  <1>3. TaskChained(v)'
    <2> SUFFICES ASSUME NEW c \in Consumer, consumer'[c] # "deleted"
                 PROVE  /\ t.pc # "idle" /\ (c \in t.todo \/ c = t.consumer) =>
                             Chained(t.alert, c, t.attempt)'
                        /\ t.pc = "schedule" /\ c = t.consumer =>
                             Chained(t.alert, c, t.attempt + 1)'
      BY DEF TaskChained, Chained
    <2>1. consumer[c] # "deleted"
      BY DEF FailuresKept
    <2>2. /\ t.pc # "idle" /\ (c \in t.todo \/ c = t.consumer) => Chained(t.alert, c, t.attempt)
          /\ t.pc = "schedule" /\ c = t.consumer => Chained(t.alert, c, t.attempt + 1)
      BY <1>1, <2>1 DEF WorkerInv, TaskChained
    <2> QED BY <2>2, ChainKept
  <1>4. Answered(v)'
    BY <1>1, DeliveryAssumption DEF WorkerInv, OnItsAlert, Answered, DelivererState
  <1> QED BY <1>2, <1>3, <1>4

\* A step of one worker leaves the others with what they have.
LEMMA WorkerStep ==
  ASSUME DeliveryInv, NEW w \in Deliverer, NEW u, deliverer' = [deliverer EXCEPT ![w] = u],
         FailuresKept, received \subseteq received', UNCHANGED alert,
         \A v \in Deliverer \ {w} : Attempting(v) =>
           /\ delivery'[deliverer[v].row] = delivery[deliverer[v].row]
           /\ u.pc \in {"post", "ok", "bad"} => u.row # deliverer[v].row,
         u.pc \in {"post", "ok", "bad"} =>
           /\ u.row # 0
           /\ delivery'[u.row] \in
                {None, [alert |-> u.alert, consumer |-> u.consumer, attempt |-> u.attempt,
                        status |-> "pending"]},
         (OnItsAlert(w) /\ TaskChained(w) /\ Answered(w))'
  PROVE  \A v \in Deliverer : WorkerInv(v)'
  <1> SUFFICES ASSUME NEW v \in Deliverer PROVE WorkerInv(v)'
    OBVIOUS
  <1>1. deliverer'[w] = u /\ \A x \in Deliverer \ {w} : deliverer'[x] = deliverer[x]
    BY DEF DeliveryInv, TablesTyped, DeliveryTypeOK
  <1>2. CASE v = w
    <2>1. OwnRow(w)'
      BY <1>1 DEF OwnRow, Attempting
    <2> QED BY <1>2, <2>1 DEF WorkerInv
  <1>3. CASE v # w
    <2>1. OwnRow(v)
      BY DEF DeliveryInv, WorkerInv
    <2>2. OwnRow(v)'
      BY <1>1, <1>3, <2>1 DEF OwnRow, Attempting
    <2>3. (OnItsAlert(v) /\ TaskChained(v) /\ Answered(v))'
      BY <1>1, <1>3, WorkerKept
    <2> QED BY <2>2, <2>3 DEF WorkerInv
  <1> QED BY <1>2, <1>3

\* Tables that did not change, or only in what RetriesInv does not look at.
LEMMA TablesKept ==
  ASSUME DeliveryInv, TablesTyped', UNCHANGED <<raw, alert, consumer, delivery>>,
         received \subseteq received', \A t \in RetryTask : retryQ'[t] > 0 => retryQ[t] > 0
  PROVE  FailuresKept /\ (RowsInv /\ RetriesInv /\ ForwardedInv)'
  <1>1. FailuresKept
    BY DEF FailuresKept
  <1>2. RowsInv'
    BY DEF DeliveryInv, RowsInv, RowFacts, Chained, RowsWith, Rows, Registered
  <1>3. RetriesInv'
    BY DEF DeliveryInv, RetriesInv, Chained, RowsWith, Rows
  <1>4. ForwardedInv'
    BY DEF DeliveryInv, ForwardedInv
  <1> QED BY <1>1, <1>2, <1>3, <1>4

\* A worker that reads, queues nothing and has no row to write afterwards.
LEMMA QuietStep ==
  ASSUME DeliveryInv, TablesTyped', NEW w \in Deliverer, NEW u,
         deliverer' = [deliverer EXCEPT ![w] = u],
         UNCHANGED <<raw, alert, consumer, delivery, received>>,
         \A t \in RetryTask : retryQ'[t] > 0 => retryQ[t] > 0,
         u.pc \notin {"post", "ok", "bad"},
         (OnItsAlert(w) /\ TaskChained(w) /\ Answered(w))'
  PROVE  DeliveryInv'
  <1>1. FailuresKept /\ (RowsInv /\ RetriesInv /\ ForwardedInv)'
    BY TablesKept
  <1>2. \A v \in Deliverer : WorkerInv(v)'
    BY <1>1, WorkerStep
  <1> QED BY <1>1, <1>2 DEF DeliveryInv

\* Stopping is such a step.
LEMMA StopStep ==
  ASSUME DeliveryInv, NEW w \in Deliverer, Stop(w), faults' \in 0..MaxFaults,
         UNCHANGED <<raw, alert, consumer, delivery, received, deliverQ, retryQ, chains>>
  PROVE  DeliveryInv'
  <1>1. TablesTyped'
    BY IdleTyped DEF DeliveryInv, TablesTyped, DeliveryTypeOK, Stop
  <1>2. deliverer'[w] = IdleDeliverer
    BY DEF Stop, DeliveryInv, TablesTyped, DeliveryTypeOK
  <1>3. (OnItsAlert(w) /\ TaskChained(w) /\ Answered(w))'
    BY <1>2, IdleTyped DEF OnItsAlert, TaskChained, Answered
  <1> QED BY <1>1, <1>3, QuietStep, IdleTyped DEF Stop

\* Going on with the loop, or stopping.
LEMMA ContinueShape ==
  ASSUME DeliveryInv, NEW w \in Deliverer, deliverer[w].pc # "idle", Continue(w),
         FailuresKept
  PROVE  \E u \in DelivererState :
           /\ deliverer' = [deliverer EXCEPT ![w] = u]
           /\ u.pc \in {"idle", "each"}
           /\ (OnItsAlert(w) /\ TaskChained(w) /\ Answered(w))'
  <1> DEFINE t == deliverer[w]
             u == [t EXCEPT !.pc = "each", !.consumer = None, !.row = 0, !.raw = None]
  <1>1. t \in DelivererState /\ OnItsAlert(w) /\ TaskChained(w)
    BY DEF DeliveryInv, TablesTyped, DeliveryTypeOK, WorkerInv
  <1>2. CASE Stop(w)
    <2>1. deliverer' = [deliverer EXCEPT ![w] = IdleDeliverer] /\ deliverer'[w] = IdleDeliverer
      BY <1>2 DEF Stop, DeliveryInv, TablesTyped, DeliveryTypeOK
    <2>2. (OnItsAlert(w) /\ TaskChained(w) /\ Answered(w))'
      BY <2>1, IdleTyped DEF OnItsAlert, TaskChained, Answered
    <2> QED BY <2>1, <2>2, IdleTyped
  <1>3. CASE deliverer' = [deliverer EXCEPT ![w] = u]
    <2>1. /\ u \in DelivererState
          /\ u.pc = "each" /\ u.consumer = None /\ u.alert = t.alert /\ u.todo = t.todo
          /\ u.attempt = t.attempt
      BY <1>1 DEF DelivererState
    <2>2. deliverer'[w] = u
      BY <1>3 DEF DeliveryInv, TablesTyped, DeliveryTypeOK
    <2>7. t.pc # "idle"
      OBVIOUS
    <2> HIDE DEF u
    <2>3. OnItsAlert(w)'
      BY <1>1, <2>1, <2>2, <2>7 DEF OnItsAlert
    <2>4. TaskChained(w)'
      <3>1. PICK x : x = u
        OBVIOUS
      <3> SUFFICES ASSUME NEW c \in Consumer, consumer'[c] # "deleted", c \in x.todo
                   PROVE  Chained(x.alert, c, x.attempt)'
        BY <2>1, <2>2, <3>1, DeliveryAssumption DEF TaskChained, Chained
      <3>2. consumer[c] # "deleted"
        BY DEF FailuresKept
      <3>3. Chained(x.alert, c, x.attempt)
        BY <1>1, <2>1, <2>7, <3>1, <3>2 DEF TaskChained
      <3> QED BY <3>3, ChainKept
    <2>5. Answered(w)'
      BY <2>1, <2>2 DEF Answered
    <2>6. deliverer' = [deliverer EXCEPT ![w] = u]
      BY <1>3 DEF u
    <2> QED BY <2>6, <2>1, <2>3, <2>4, <2>5
  <1> QED BY <1>2, <1>3 DEF Continue

-----------------------------------------------------------------------------
(* The start of a task *)

\* A task that ends at once changes no table.
LEMMA SkipStep ==
  ASSUME DeliveryInv, NEW w \in Deliverer, deliverer[w].pc = "idle", UNCHANGED deliverer,
         UNCHANGED <<raw, alert, consumer, delivery, received>>,
         deliverQ' \in [AlertId -> 0..QueueCap],
         retryQ' \in [RetryTask -> 0..QueueCap],
         \A t \in RetryTask : retryQ'[t] > 0 => retryQ[t] > 0,
         chains' \in [AlertId -> 0..MaxChains], faults' \in 0..MaxFaults
  PROVE  DeliveryInv'
  <1>1. deliverer' = [deliverer EXCEPT ![w] = deliverer[w]]
    BY DEF DeliveryInv, TablesTyped, DeliveryTypeOK
  <1>2. TablesTyped'
    BY DEF DeliveryInv, TablesTyped, DeliveryTypeOK
  <1>3. (OnItsAlert(w) /\ TaskChained(w) /\ Answered(w))'
    BY DEF OnItsAlert, TaskChained, Answered
  <1> QED BY <1>1, <1>2, <1>3, QuietStep

\* A task that starts makes attempts that follow failed ones.
LEMMA StartStep ==
  ASSUME DeliveryInv, NEW w \in Deliverer, deliverer[w].pc = "idle",
         NEW a \in AlertId, NEW cs \in SUBSET Consumer, NEW n \in Attempt,
         \A c \in cs : Chained(a, c, n), Start(w, a, cs, n),
         UNCHANGED <<raw, alert, consumer, delivery, received>>,
         deliverQ' \in [AlertId -> 0..QueueCap],
         retryQ' \in [RetryTask -> 0..QueueCap],
         \A t \in RetryTask : retryQ'[t] > 0 => retryQ[t] > 0,
         chains' \in [AlertId -> 0..MaxChains], faults' \in 0..MaxFaults
  PROVE  DeliveryInv'
  <1> DEFINE u == [IdleDeliverer EXCEPT !.pc = "each", !.alert = a, !.todo = cs, !.attempt = n]
  <1>1. /\ u \in DelivererState
        /\ u.pc = "each" /\ u.alert = a /\ u.todo = cs /\ u.attempt = n /\ u.consumer = None
    BY DeliveryAssumption DEF IdleDeliverer, DelivererState, Verdict, Attempt
  <1>2. deliverer' = [deliverer EXCEPT ![w] = u] /\ deliverer'[w] = u
    BY DEF Start, DeliveryInv, TablesTyped, DeliveryTypeOK
  <1> HIDE DEF u
  <1>3. TablesTyped'
    BY <1>1, <1>2 DEF DeliveryInv, TablesTyped, DeliveryTypeOK
  <1>4. OnItsAlert(w)' /\ Answered(w)'
    BY <1>1, <1>2, DeliveryAssumption DEF OnItsAlert, Answered
  <1>5. TaskChained(w)'
    BY <1>1, <1>2, DeliveryAssumption DEF TaskChained, Chained, RowsWith, Rows
  <1> QED BY <1>1, <1>2, <1>3, <1>4, <1>5, QuietStep

\* A delivery task starts with first attempts, which follow nothing.
LEMMA TakeDeliverKeeps ==
  ASSUME DeliveryInv, NEW w \in Deliverer, NEW a \in AlertId, TakeDeliver(w, a)
  PROVE  DeliveryInv'
  <1>1. /\ Active \in SUBSET Consumer /\ 1 \in Attempt
        /\ \A c \in Active : Chained(a, c, 1)
    BY DeliveryAssumption DEF Active, Attempt, Chained
  <1>2. deliverQ' \in [AlertId -> 0..QueueCap] /\ chains' \in [AlertId -> 0..MaxChains]
    BY DeliveryAssumption DEF TakeDeliver, DeliveryInv, TablesTyped, DeliveryTypeOK
  <1>3. /\ deliverer[w].pc = "idle"
        /\ Start(w, a, Active, 1) \/ UNCHANGED deliverer
        /\ UNCHANGED <<raw, alert, consumer, delivery, received, retryQ, faults>>
    BY DEF TakeDeliver
  <1>4. retryQ' \in [RetryTask -> 0..QueueCap] /\ faults' \in 0..MaxFaults
    BY <1>3 DEF DeliveryInv, TablesTyped, DeliveryTypeOK
  <1> QED BY <1>1, <1>2, <1>3, <1>4, StartStep, SkipStep

\* A retry starts where its queue entry says, after failed attempts.
LEMMA TakeRetryKeeps ==
  ASSUME DeliveryInv, NEW w \in Deliverer, NEW t \in RetryTask,
         TakeRetry(w, t) \/ TakeRestoredRetry(w, t)
  PROVE  DeliveryInv'
  <1>1. t[1] \in AlertId /\ t[2] \in Consumer /\ t[3] \in Attempt
    BY DEF RetryTask
  <1>2. RunRetry(w, t) /\ UNCHANGED <<raw, alert, consumer, delivery, received, deliverQ, chains>>
    BY DEF TakeRetry, TakeRestoredRetry
  <1>3. /\ retryQ' \in [RetryTask -> 0..QueueCap]
        /\ \A s \in RetryTask : retryQ'[s] > 0 => retryQ[s] > 0
        /\ faults' \in 0..MaxFaults
    BY DeliveryAssumption
    DEF TakeRetry, TakeRestoredRetry, RunRetry, Fault, DeliveryInv, TablesTyped, DeliveryTypeOK
  <1>4. deliverQ' \in [AlertId -> 0..QueueCap] /\ chains' \in [AlertId -> 0..MaxChains]
    BY <1>2 DEF DeliveryInv, TablesTyped, DeliveryTypeOK
  <1>5. CASE consumer[t[2]] = "active"
    <2>1. \A c \in {t[2]} : Chained(t[1], c, t[3])
      BY <1>2, <1>5 DEF RunRetry, DeliveryInv, RetriesInv
    <2>2. deliverer[w].pc = "idle" /\ (Start(w, t[1], {t[2]}, t[3]) \/ UNCHANGED deliverer)
      BY <1>2 DEF RunRetry
    <2>3. {t[2]} \in SUBSET Consumer
      BY <1>1
    <2> QED BY <1>1, <1>2, <1>3, <1>4, <2>1, <2>2, <2>3, StartStep, SkipStep
  <1>6. CASE consumer[t[2]] # "active"
    <2>1. deliverer[w].pc = "idle" /\ UNCHANGED deliverer
      BY <1>2, <1>6 DEF RunRetry
    <2> QED BY <1>2, <1>3, <1>4, <2>1, SkipStep
  <1> QED BY <1>5, <1>6

-----------------------------------------------------------------------------
(* An attempt *)

\* What is true of a row stays true while it is not written.
LEMMA RowKept ==
  ASSUME DeliveryInv, FailuresKept, received \subseteq received',
         NEW d \in DeliveryId, delivery'[d] = delivery[d],
         delivery[d] # None => Registered(delivery[d].consumer)'
  PROVE  RowFacts(d)'
  <1> SUFFICES ASSUME delivery[d] # None PROVE RowFacts(d)'
    BY DEF RowFacts
  <1>1. PICK row : row = delivery[d]
    OBVIOUS
  <1>2. row \in DeliveryRow /\ RowFacts(d)
    BY <1>1 DEF DeliveryInv, TablesTyped, DeliveryTypeOK, RowsInv
  <1>3. row.consumer \in Consumer /\ consumer'[row.consumer] # "deleted"
    BY <1>1, <1>2 DEF DeliveryRow, Registered
  <1>4. Chained(row.alert, row.consumer, row.attempt)'
    BY <1>1, <1>2, <1>3, ChainKept DEF RowFacts
  <1> QED BY <1>1, <1>2, <1>4 DEF RowFacts, Registered

\* What is true of the queued retries stays true while none is added.
LEMMA RetriesKept ==
  ASSUME DeliveryInv, FailuresKept, \A t \in RetryTask : retryQ'[t] > 0 => retryQ[t] > 0
  PROVE  RetriesInv'
  <1> SUFFICES ASSUME NEW t \in RetryTask, retryQ'[t] > 0, consumer'[t[2]] # "deleted"
               PROVE  t[3] > 1 /\ Chained(t[1], t[2], t[3])'
    BY DEF RetriesInv, Chained
  <1>1. t[2] \in Consumer
    BY DEF RetryTask
  <1>2. consumer[t[2]] # "deleted"
    BY <1>1 DEF FailuresKept
  <1>3. t[3] > 1 /\ Chained(t[1], t[2], t[3])
    BY <1>2 DEF DeliveryInv, RetriesInv
  <1> QED BY <1>1, <1>3, ChainKept

\* The insert: the new row is pending, and no other worker has its key.
LEMMA InsertKeeps ==
  ASSUME DeliveryInv, NEW w \in Deliverer, NEW c \in Consumer, NEW d \in DeliveryId,
         InsertPending(w, c, d)
  PROVE  DeliveryInv'
  <1> DEFINE t == deliverer[w]
             row == [alert |-> t.alert, consumer |-> c, attempt |-> t.attempt, status |-> "pending"]
             u == [t EXCEPT !.pc = "post", !.todo = @ \ {c}, !.consumer = c, !.row = d,
                            !.fresh = FALSE]
  <1>1. /\ t \in DelivererState /\ t.pc = "each" /\ t.alert \in AlertId /\ c \in t.todo
        /\ TaskChained(w)
        /\ UNCHANGED <<raw, alert, deliverQ, retryQ, consumer, received, chains, faults>>
    BY DEF InsertPending, DeliveryInv, TablesTyped, DeliveryTypeOK, WorkerInv, OnItsAlert,
           DelivererState
  <1>2. delivery[d] = None /\ \A v \in Deliverer : deliverer[v].row # d
    BY DEF InsertPending, IsFresh, Unused
  <1>3. CASE Stop(w) /\ UNCHANGED delivery
    <2>1. faults' \in 0..MaxFaults
      BY <1>1 DEF DeliveryInv, TablesTyped, DeliveryTypeOK
    <2> QED BY <1>1, <1>3, <2>1, StopStep
  <1>4. CASE /\ Registered(c)
             /\ delivery' = [delivery EXCEPT ![d] = row]
             /\ deliverer' = [deliverer EXCEPT ![w] = u]
    <2>1. row \in DeliveryRow
      BY <1>1 DEF DeliveryRow, DelivererState, Status
    <2>2. /\ u \in DelivererState
          /\ u.pc = "post" /\ u.alert = t.alert /\ u.todo \subseteq t.todo /\ u.consumer = c
          /\ u.attempt = t.attempt /\ u.row = d
      BY <1>1 DEF DelivererState
    <2>3. u.row # 0
      BY <2>2, DeliveryAssumption
    <2>4. /\ deliverer' = [deliverer EXCEPT ![w] = u]
          /\ deliverer'[w] = u
          /\ \A v \in Deliverer \ {w} : deliverer'[v] = deliverer[v]
      BY <1>4 DEF DeliveryInv, TablesTyped, DeliveryTypeOK
    <2>5. delivery'[d] = row /\ \A e \in DeliveryId \ {d} : delivery'[e] = delivery[e]
      BY <1>4 DEF DeliveryInv, TablesTyped, DeliveryTypeOK
    <2>6. row = [alert |-> u.alert, consumer |-> u.consumer, attempt |-> u.attempt,
                 status |-> "pending"]
      BY <2>2
    <2>7. row.alert = t.alert /\ row.consumer = c /\ row.attempt = t.attempt
             /\ row.status = "pending"
      OBVIOUS
    <2> HIDE DEF u, row
    <2>8. TablesTyped'
      BY <1>1, <1>4, <2>1, <2>2, <2>4 DEF DeliveryInv, TablesTyped, DeliveryTypeOK, row, u
    <2>9. FailuresKept
      BY <1>1, <1>2, <2>5 DEF FailuresKept
    <2>10. Chained(t.alert, c, t.attempt)
      BY <1>1, <1>4 DEF TaskChained, Registered
    <2>11. OnItsAlert(w)'
      BY <1>1, <2>2, <2>4, DeliveryAssumption DEF OnItsAlert
    <2>12. TaskChained(w)'
      <3>1. PICK x : x = u
        OBVIOUS
      <3> SUFFICES ASSUME NEW e \in Consumer, consumer'[e] # "deleted", e \in x.todo \/ e = x.consumer
                   PROVE  Chained(x.alert, e, x.attempt)'
        BY <2>2, <2>4, <3>1 DEF TaskChained, Chained
      <3>2. Chained(x.alert, e, x.attempt)
        BY <1>1, <2>2, <3>1 DEF TaskChained
      <3> QED BY <2>9, <3>2, ChainKept
    <2>13. Answered(w)'
      BY <2>2, <2>4 DEF Answered
    <2>14. \A v \in Deliverer \ {w} : Attempting(v) =>
             /\ delivery'[deliverer[v].row] = delivery[deliverer[v].row]
             /\ u.row # deliverer[v].row
      <3> SUFFICES ASSUME NEW v \in Deliverer \ {w}, Attempting(v)
                   PROVE  /\ delivery'[deliverer[v].row] = delivery[deliverer[v].row]
                          /\ u.row # deliverer[v].row
        OBVIOUS
      <3>1. deliverer[v].row \in DeliveryId /\ deliverer[v].row # d
        BY <1>2 DEF DeliveryInv, TablesTyped, DeliveryTypeOK, DelivererState, WorkerInv, OwnRow
      <3> QED BY <2>2, <2>5, <3>1
    <2>15. \A v \in Deliverer : WorkerInv(v)'
      BY <1>1, <2>2, <2>3, <2>4, <2>5, <2>6, <2>9, <2>11, <2>12, <2>13, <2>14, WorkerStep
    <2>16. RowsInv'
      <3> SUFFICES ASSUME NEW e \in DeliveryId PROVE RowFacts(e)'
        BY DEF RowsInv
      <3>1. CASE e = d
        <4>1. PICK x : x = t
          OBVIOUS
        <4>2. Chained(x.alert, c, x.attempt)'
          BY <1>1, <1>4, <2>9, <2>10, <4>1, ChainKept DEF Registered
        <4> QED BY <1>1, <1>4, <2>5, <2>7, <3>1, <4>1, <4>2 DEF RowFacts, Registered
      <3>2. CASE e # d
        <4>1. delivery[e] # None => Registered(delivery[e].consumer)
          BY DEF DeliveryInv, RowsInv, RowFacts
        <4>2. delivery[e] # None => Registered(delivery[e].consumer)'
          BY <1>1, <2>5, <3>2, <4>1 DEF Registered
        <4> QED BY <1>1, <2>5, <2>9, <3>2, <4>2, RowKept
      <3> QED BY <3>1, <3>2
    <2>17. RetriesInv' /\ ForwardedInv'
      BY <1>1, <2>9, RetriesKept DEF DeliveryInv, ForwardedInv
    <2> QED BY <2>8, <2>15, <2>16, <2>17 DEF DeliveryInv
  <1> QED BY <1>3, <1>4 DEF InsertPending

\* The POST: an answer is received before it is recorded.
LEMMA PostKeeps ==
  ASSUME DeliveryInv, NEW w \in Deliverer, Post(w)
  PROVE  DeliveryInv'
  <1> DEFINE t == deliverer[w]
  <1>1. /\ t \in DelivererState /\ t.pc = "post" /\ WorkerInv(w)
        /\ t.alert \in AlertId /\ t.consumer \in Consumer
        /\ UNCHANGED <<raw, alert, deliverQ, retryQ, consumer, delivery, chains, faults>>
    BY DEF Post, DeliveryInv, TablesTyped, DeliveryTypeOK, WorkerInv, OnItsAlert, DelivererState
  <1>2. CASE Stop(w) /\ UNCHANGED received
    <2>1. faults' \in 0..MaxFaults
      BY <1>1 DEF DeliveryInv, TablesTyped, DeliveryTypeOK
    <2> QED BY <1>1, <1>2, <2>1, StopStep
  <1>3. ASSUME NEW label \in {"ok", "bad"}, Goto(w, label),
               received' \in {received, received \cup {<<t.alert, t.consumer>>}},
               label = "ok" => <<t.alert, t.consumer>> \in received'
        PROVE  DeliveryInv'
    <2> DEFINE u == [t EXCEPT !.pc = label]
    <2>1. /\ u \in DelivererState
          /\ u.pc = label /\ u.alert = t.alert /\ u.todo = t.todo /\ u.consumer = t.consumer
          /\ u.attempt = t.attempt /\ u.row = t.row
      BY <1>1 DEF DelivererState
    <2>2. deliverer' = [deliverer EXCEPT ![w] = u] /\ deliverer'[w] = u
      BY <1>3 DEF Goto, DeliveryInv, TablesTyped, DeliveryTypeOK
    <2> HIDE DEF u
    <2>3. TablesTyped'
      BY <1>1, <1>3, <2>1, <2>2 DEF DeliveryInv, TablesTyped, DeliveryTypeOK
    <2>4. received \subseteq received'
      BY <1>3
    <2>5. FailuresKept /\ (RowsInv /\ RetriesInv /\ ForwardedInv)'
      BY <1>1, <2>3, <2>4, TablesKept
    <2>6. OnItsAlert(w)' /\ Answered(w)'
      BY <1>1, <1>3, <2>1, <2>2 DEF WorkerInv, OnItsAlert, Answered
    <2>7. TaskChained(w)'
      BY <1>1, <2>1, <2>2 DEF WorkerInv, TaskChained, Chained, RowsWith, Rows
    <2>8. /\ u.row # 0
          /\ delivery'[u.row] \in
               {None, [alert |-> u.alert, consumer |-> u.consumer, attempt |-> u.attempt,
                       status |-> "pending"]}
          /\ \A v \in Deliverer \ {w} : Attempting(v) => u.row # deliverer[v].row
      BY <1>1, <2>1 DEF WorkerInv, OwnRow, Attempting
    <2>9. \A v \in Deliverer : WorkerInv(v)'
      BY <1>1, <2>2, <2>4, <2>5, <2>6, <2>7, <2>8, WorkerStep
    <2> QED BY <2>3, <2>5, <2>9 DEF DeliveryInv
  <1> QED BY <1>2, <1>3 DEF Post

\* The outcome of an attempt is written on its own row, which was pending.
LEMMA OutcomeWritten ==
  ASSUME DeliveryInv, TablesTyped', NEW w \in Deliverer, Attempting(w),
         delivery[deliverer[w].row] # None,
         NEW st \in {"success", "failed", "giving_up"},
         delivery' = [delivery EXCEPT ![deliverer[w].row].status = st],
         st = "success" => <<deliverer[w].alert, deliverer[w].consumer>> \in received,
         UNCHANGED <<raw, alert, consumer, retryQ, received>>
  PROVE  /\ FailuresKept
         /\ (RowsInv /\ RetriesInv /\ ForwardedInv)'
         /\ \A v \in Deliverer \ {w} : Attempting(v) =>
              delivery'[deliverer[v].row] = delivery[deliverer[v].row]
         /\ deliverer[w].row \in DeliveryId
         /\ delivery'[deliverer[w].row] =
              [alert |-> deliverer[w].alert, consumer |-> deliverer[w].consumer,
               attempt |-> deliverer[w].attempt, status |-> st]
  <1> DEFINE t == deliverer[w]
             d == t.row
             row == [alert |-> t.alert, consumer |-> t.consumer, attempt |-> t.attempt,
                     status |-> "pending"]
  <1>1. /\ t \in DelivererState /\ OwnRow(w) /\ OnItsAlert(w) /\ TaskChained(w)
        /\ d \in DeliveryId /\ delivery[d] = row
        /\ t.alert \in AlertId /\ t.consumer \in Consumer
    BY DEF DeliveryInv, TablesTyped, DeliveryTypeOK, WorkerInv, OwnRow, OnItsAlert, Attempting,
           DelivererState
  <1>2. /\ delivery'[d] = [row EXCEPT !.status = st]
        /\ \A e \in DeliveryId \ {d} : delivery'[e] = delivery[e]
    BY <1>1 DEF DeliveryInv, TablesTyped, DeliveryTypeOK
  <1>3. FailuresKept
    BY <1>1, <1>2 DEF FailuresKept
  <1>4. \A v \in Deliverer \ {w} : Attempting(v) =>
          delivery'[deliverer[v].row] = delivery[deliverer[v].row]
    BY <1>1, <1>2
    DEF DeliveryInv, TablesTyped, DeliveryTypeOK, DelivererState, WorkerInv, OwnRow
  <1>5. RowsInv'
    <2> SUFFICES ASSUME NEW e \in DeliveryId PROVE RowFacts(e)'
      BY DEF RowsInv
    <2>1. RowFacts(e)
      BY DEF DeliveryInv, RowsInv
    <2>2. CASE e = d
      <3>1. PICK r : r = row
        OBVIOUS
      <3>2. /\ r.alert = t.alert /\ r.consumer = t.consumer /\ r.attempt = t.attempt
            /\ r.consumer \in Consumer
            /\ consumer[r.consumer] # "deleted" /\ Chained(r.alert, r.consumer, r.attempt)
            /\ Registered(t.consumer)
        BY <1>1, <2>1, <2>2, <3>1 DEF RowFacts, Registered
      <3>3. Chained(r.alert, r.consumer, r.attempt)'
        BY <1>3, <3>2, ChainKept
      <3>4. delivery'[d].alert = r.alert /\ delivery'[d].consumer = r.consumer
              /\ delivery'[d].attempt = r.attempt /\ delivery'[d].status = st
        BY <1>2, <3>1
      <3>5. consumer'[r.consumer] \in {"active", "inactive"}
        BY <3>2 DEF Registered
      <3>6. Registered(r.consumer)'
        BY <3>5 DEF Registered
      <3>7. st = "success" => <<r.alert, r.consumer>> \in received'
        BY <3>2
      <3>8. /\ delivery'[e].alert = r.alert /\ delivery'[e].consumer = r.consumer
             /\ delivery'[e].attempt = r.attempt /\ delivery'[e].status = st
        BY <2>2, <3>4
      <3> QED BY <3>3, <3>6, <3>7, <3>8 DEF RowFacts
    <2>3. CASE e # d
      <3>1. delivery[e] # None => Registered(delivery[e].consumer)'
        BY <1>2, <2>1, <2>3 DEF RowFacts, Registered
      <3> QED BY <1>2, <1>3, <2>3, <3>1, RowKept
    <2> QED BY <2>2, <2>3
  <1>6. RetriesInv' /\ ForwardedInv'
    BY <1>3, RetriesKept DEF DeliveryInv, ForwardedInv
  <1> QED BY <1>1, <1>2, <1>3, <1>4, <1>5, <1>6

\* A success is recorded for what was received.
LEMMA SuccessKeeps ==
  ASSUME DeliveryInv, NEW w \in Deliverer, RecordSuccess(w)
  PROVE  DeliveryInv'
  <1> DEFINE t == deliverer[w]
  <1>1. /\ t \in DelivererState /\ t.pc = "ok" /\ Attempting(w) /\ WorkerInv(w)
        /\ UNCHANGED <<raw, alert, deliverQ, retryQ, consumer, received, chains, faults>>
    BY DEF RecordSuccess, DeliveryInv, TablesTyped, DeliveryTypeOK, Attempting
  <1>2. CASE delivery[t.row] = None
    <2>1. faults' \in 0..MaxFaults
      BY <1>1 DEF DeliveryInv, TablesTyped, DeliveryTypeOK
    <2> QED BY <1>1, <1>2, <2>1, StopStep DEF RecordSuccess
  <1>3. CASE delivery[t.row] # None
    <2> DEFINE u == [t EXCEPT !.pc = "read", !.verdict = "forwarded"]
    <2>1. /\ u \in DelivererState
          /\ u.pc = "read" /\ u.alert = t.alert /\ u.todo = t.todo /\ u.consumer = t.consumer
          /\ u.attempt = t.attempt
      BY <1>1 DEF DelivererState, Verdict
    <2>2. /\ delivery' = [delivery EXCEPT ![t.row].status = "success"]
          /\ deliverer' = [deliverer EXCEPT ![w] = u] /\ deliverer'[w] = u
      BY <1>3 DEF RecordSuccess, DeliveryInv, TablesTyped, DeliveryTypeOK
    <2> HIDE DEF u
    <2>3. <<t.alert, t.consumer>> \in received
      BY <1>1 DEF WorkerInv, Answered
    <2>4. TablesTyped'
      <3>1. t.row \in DeliveryId
        BY <1>1 DEF WorkerInv, OwnRow, DelivererState
      <3>2. delivery[t.row] \in DeliveryRow
        BY <1>3, <3>1 DEF DeliveryInv, TablesTyped, DeliveryTypeOK
      <3>3. [delivery[t.row] EXCEPT !.status = "success"] \in DeliveryRow
        BY <3>2 DEF DeliveryRow, Status
      <3>4. delivery' \in [DeliveryId -> DeliveryRow \cup {None}]
        BY <2>2, <3>1, <3>3 DEF DeliveryInv, TablesTyped, DeliveryTypeOK
      <3> QED BY <1>1, <2>1, <2>2, <3>4 DEF DeliveryInv, TablesTyped, DeliveryTypeOK
    <2>5. /\ FailuresKept /\ (RowsInv /\ RetriesInv /\ ForwardedInv)'
          /\ \A v \in Deliverer \ {w} : Attempting(v) =>
               delivery'[deliverer[v].row] = delivery[deliverer[v].row]
      BY <1>1, <1>3, <2>2, <2>3, <2>4, OutcomeWritten
    <2>6. (OnItsAlert(w) /\ Answered(w))'
      BY <1>1, <2>1, <2>2, <2>3 DEF WorkerInv, OnItsAlert, Answered
    <2>7. TaskChained(w)'
      <3>1. PICK x : x = u
        OBVIOUS
      <3> SUFFICES ASSUME NEW e \in Consumer, consumer'[e] # "deleted", e \in x.todo \/ e = x.consumer
                   PROVE  Chained(x.alert, e, x.attempt)'
        BY <2>1, <2>2, <3>1 DEF TaskChained, Chained
      <3>2. Chained(x.alert, e, x.attempt)
        BY <1>1, <2>1, <3>1 DEF WorkerInv, TaskChained
      <3> QED BY <2>5, <3>2, ChainKept
    <2>8. \A v \in Deliverer : WorkerInv(v)'
      BY <1>1, <2>1, <2>2, <2>5, <2>6, <2>7, WorkerStep
    <2> QED BY <2>4, <2>5, <2>8 DEF DeliveryInv
  <1> QED BY <1>2, <1>3

\* A failure is recorded before its retry is scheduled, the last one as giving up.
LEMMA FailureKeeps ==
  ASSUME DeliveryInv, NEW w \in Deliverer, RecordFailure(w)
  PROVE  DeliveryInv'
  <1> DEFINE t == deliverer[w]
  <1>1. /\ t \in DelivererState /\ t.pc = "bad" /\ Attempting(w) /\ WorkerInv(w)
        /\ t.attempt \in 1..(Slots + 1) /\ t.alert \in AlertId /\ t.consumer \in Consumer
        /\ UNCHANGED <<raw, alert, deliverQ, retryQ, consumer, received, chains, faults>>
    BY DEF RecordFailure, DeliveryInv, TablesTyped, DeliveryTypeOK, Attempting, DelivererState,
           Attempt, WorkerInv, OnItsAlert
  <1>2. CASE delivery[t.row] = None
    <2>1. faults' \in 0..MaxFaults
      BY <1>1 DEF DeliveryInv, TablesTyped, DeliveryTypeOK
    <2> QED BY <1>1, <1>2, <2>1, StopStep DEF RecordFailure
  <1>3. ASSUME delivery[t.row] # None, NEW label \in {"read", "schedule"},
               NEW st \in {"failed", "giving_up"},
               label = "schedule" => st = "failed",
               delivery' = [delivery EXCEPT ![t.row].status = st],
               NEW u \in DelivererState,
               deliverer' = [deliverer EXCEPT ![w] = u],
               u.pc = label, u.alert = t.alert, u.todo = t.todo, u.consumer = t.consumer,
               u.attempt = t.attempt, label = "read" => u.verdict = "forward_failed"
        PROVE  DeliveryInv'
    <2>1. deliverer'[w] = u
      BY <1>3 DEF DeliveryInv, TablesTyped, DeliveryTypeOK
    <2>2. TablesTyped'
      <3>1. t.row \in DeliveryId
        BY <1>1 DEF WorkerInv, OwnRow, DelivererState
      <3>2. delivery[t.row] \in DeliveryRow
        BY <1>3, <3>1 DEF DeliveryInv, TablesTyped, DeliveryTypeOK
      <3>3. [delivery[t.row] EXCEPT !.status = st] \in DeliveryRow
        BY <3>2 DEF DeliveryRow, Status
      <3>4. delivery' \in [DeliveryId -> DeliveryRow \cup {None}]
        BY <1>3, <3>1, <3>3 DEF DeliveryInv, TablesTyped, DeliveryTypeOK
      <3> QED BY <1>1, <1>3, <3>4 DEF DeliveryInv, TablesTyped, DeliveryTypeOK
    <2>3. /\ FailuresKept /\ (RowsInv /\ RetriesInv /\ ForwardedInv)'
          /\ \A v \in Deliverer \ {w} : Attempting(v) =>
               delivery'[deliverer[v].row] = delivery[deliverer[v].row]
          /\ t.row \in DeliveryId
          /\ delivery'[t.row] = [alert |-> t.alert, consumer |-> t.consumer,
                                 attempt |-> t.attempt, status |-> st]
      BY <1>1, <1>3, <2>2, OutcomeWritten
    <2>4. (OnItsAlert(w) /\ Answered(w))'
      BY <1>1, <1>3, <2>1 DEF WorkerInv, OnItsAlert, Answered
    <2>5. TaskChained(w)'
      <3> SUFFICES ASSUME NEW e \in Consumer, consumer'[e] # "deleted"
                   PROVE  /\ e \in u.todo \/ e = u.consumer => Chained(u.alert, e, u.attempt)'
                          /\ u.pc = "schedule" /\ e = u.consumer =>
                               Chained(u.alert, e, u.attempt + 1)'
        BY <2>1 DEF TaskChained, Chained
      <3>1. e \in u.todo \/ e = u.consumer => Chained(u.alert, e, u.attempt)
        BY <1>1, <1>3 DEF WorkerInv, TaskChained, FailuresKept
      <3>2. e \in u.todo \/ e = u.consumer => Chained(u.alert, e, u.attempt)'
        BY <2>3, <3>1, ChainKept
      <3>3. ASSUME u.pc = "schedule", e = u.consumer
            PROVE  Chained(u.alert, e, u.attempt + 1)'
        <4>1. st = "failed"
          BY <1>3, <3>3
        <4>2. t.row \in RowsWith(u.alert, e, u.attempt, "failed")'
          <5>1. [alert |-> t.alert, consumer |-> t.consumer, attempt |-> t.attempt,
                 status |-> st] \in DeliveryRow
            BY <1>1, <4>1 DEF DeliveryRow, Attempt, Status
          <5>2. delivery'[t.row] # None
            BY <2>3, <5>1, NoneIsNoDelivery
          <5> QED BY <1>3, <2>3, <3>3, <4>1, <5>2 DEF RowsWith, Rows
        <4>3. \A n \in 1..((u.attempt + 1) - 1) : n = u.attempt \/ n \in 1..(u.attempt - 1)
          BY <1>1, <1>3
        <4> QED BY <3>2, <3>3, <4>2, <4>3 DEF Chained
      <3> QED BY <3>2, <3>3
    <2>6. \A v \in Deliverer : WorkerInv(v)'
      BY <1>1, <1>3, <2>3, <2>4, <2>5, WorkerStep
    <2> QED BY <2>2, <2>3, <2>6 DEF DeliveryInv
  <1>4. CASE delivery[t.row] # None /\ Exhausted(t.attempt)
    <2> DEFINE u == [t EXCEPT !.pc = "read", !.verdict = "forward_failed"]
    <2>1. /\ u \in DelivererState
          /\ u.pc = "read" /\ u.alert = t.alert /\ u.todo = t.todo /\ u.consumer = t.consumer
          /\ u.attempt = t.attempt /\ u.verdict = "forward_failed"
      BY <1>1 DEF DelivererState, Verdict
    <2>2. /\ delivery' = [delivery EXCEPT ![t.row].status = "giving_up"]
          /\ deliverer' = [deliverer EXCEPT ![w] = u]
      BY <1>4 DEF RecordFailure, DeliveryInv, TablesTyped, DeliveryTypeOK
    <2> HIDE DEF u
    <2>3. PICK x \in DelivererState : x = u
      BY <2>1
    <2> QED BY <1>3, <1>4, <2>1, <2>2, <2>3
  <1>5. CASE delivery[t.row] # None /\ ~Exhausted(t.attempt)
    <2> DEFINE u == [t EXCEPT !.pc = "schedule"]
    <2>1. /\ u \in DelivererState
          /\ u.pc = "schedule" /\ u.alert = t.alert /\ u.todo = t.todo /\ u.consumer = t.consumer
          /\ u.attempt = t.attempt
      BY <1>1 DEF DelivererState
    <2>2. /\ delivery' = [delivery EXCEPT ![t.row].status = "failed"]
          /\ deliverer' = [deliverer EXCEPT ![w] = u]
      BY <1>5 DEF RecordFailure, Goto, DeliveryInv, TablesTyped, DeliveryTypeOK
    <2> HIDE DEF u
    <2>3. PICK x \in DelivererState : x = u
      BY <2>1
    <2> QED BY <1>3, <1>5, <2>1, <2>2, <2>3
  <1> QED BY <1>2, <1>4, <1>5

-----------------------------------------------------------------------------
(* The verdict on the raw row, the retry, and failures *)

\* The read of the raw row to write the verdict on.
LEMMA ReadRawKeeps ==
  ASSUME DeliveryInv, NEW w \in Deliverer, ReadRaw(w)
  PROVE  DeliveryInv'
  <1> DEFINE t == deliverer[w]
             r == alert[t.alert].raw
  <1>1. /\ t \in DelivererState /\ t.pc = "read" /\ WorkerInv(w) /\ t.alert \in AlertId
        /\ UNCHANGED <<raw, alert, deliverQ, retryQ, consumer, delivery, received, chains, faults>>
    BY DEF ReadRaw, DeliveryInv, TablesTyped, DeliveryTypeOK, WorkerInv, OnItsAlert, DelivererState
  <1>2. CASE Stop(w)
    <2>1. faults' \in 0..MaxFaults
      BY <1>1 DEF DeliveryInv, TablesTyped, DeliveryTypeOK
    <2> QED BY <1>1, <1>2, <2>1, StopStep
  <1>3. CASE Continue(w)
    <2>1. FailuresKept
      BY <1>1 DEF FailuresKept
    <2>2. PICK u \in DelivererState :
            /\ deliverer' = [deliverer EXCEPT ![w] = u]
            /\ u.pc \in {"idle", "each"}
            /\ (OnItsAlert(w) /\ TaskChained(w) /\ Answered(w))'
      BY <1>1, <1>3, <2>1, ContinueShape
    <2>3. TablesTyped'
      BY <1>1, <2>2 DEF DeliveryInv, TablesTyped, DeliveryTypeOK
    <2> QED BY <1>1, <2>2, <2>3, QuietStep
  <1>4. CASE /\ alert[t.alert] # None
             /\ deliverer' = [deliverer EXCEPT ![w].pc = "write", ![w].raw = r]
    <2> DEFINE u == [t EXCEPT !.pc = "write", !.raw = r]
    <2>1. r \in RawId
      BY <1>1, <1>4 DEF DeliveryInv, TablesTyped
    <2>2. /\ u \in DelivererState
          /\ u.pc = "write" /\ u.alert = t.alert /\ u.todo = t.todo /\ u.consumer = t.consumer
          /\ u.attempt = t.attempt /\ u.verdict = t.verdict /\ u.raw = r
      BY <1>1, <2>1 DEF DelivererState
    <2>3. deliverer' = [deliverer EXCEPT ![w] = u] /\ deliverer'[w] = u
      BY <1>4 DEF DeliveryInv, TablesTyped, DeliveryTypeOK
    <2> HIDE DEF u
    <2>4. TablesTyped'
      BY <1>1, <2>2, <2>3 DEF DeliveryInv, TablesTyped, DeliveryTypeOK
    <2>5. (OnItsAlert(w) /\ Answered(w))'
      BY <1>1, <2>1, <2>2, <2>3, DeliveryAssumption DEF WorkerInv, OnItsAlert, Answered
    <2>6. TaskChained(w)'
      BY <1>1, <2>2, <2>3 DEF WorkerInv, TaskChained, Chained, RowsWith, Rows
    <2> QED BY <1>1, <2>2, <2>3, <2>4, <2>5, <2>6, QuietStep
  <1> QED BY <1>2, <1>3, <1>4 DEF ReadRaw

\* The verdict is written on the row of the alert.
LEMMA WriteRawKeeps ==
  ASSUME DeliveryInv, NEW w \in Deliverer, WriteRaw(w)
  PROVE  DeliveryInv'
  <1> DEFINE t == deliverer[w]
  <1>1. /\ t \in DelivererState /\ t.pc = "write" /\ WorkerInv(w)
        /\ t.alert \in AlertId /\ t.consumer \in Consumer /\ t.raw \in RawId
        /\ t.verdict \in Verdict
        /\ raw' = [raw EXCEPT ![t.raw].status = t.verdict]
        /\ Continue(w)
        /\ UNCHANGED <<alert, deliverQ, retryQ, consumer, delivery, received, chains, faults>>
    BY DEF WriteRaw, DeliveryInv, TablesTyped, DeliveryTypeOK, WorkerInv, OnItsAlert, Answered,
           DelivererState
  <1>2. FailuresKept
    BY <1>1 DEF FailuresKept
  <1>3. PICK u \in DelivererState :
          /\ deliverer' = [deliverer EXCEPT ![w] = u]
          /\ u.pc \in {"idle", "each"}
          /\ (OnItsAlert(w) /\ TaskChained(w) /\ Answered(w))'
    BY <1>1, <1>2, ContinueShape
  <1>4. /\ raw' \in [RawId -> [status : Verdict \cup {"parsed"}]]
        /\ raw'[t.raw].status = t.verdict
        /\ \A r \in RawId \ {t.raw} : raw'[r] = raw[r]
    BY <1>1 DEF DeliveryInv, TablesTyped
  <1>5. TablesTyped'
    BY <1>1, <1>3, <1>4 DEF DeliveryInv, TablesTyped, DeliveryTypeOK
  <1>6. \A v \in Deliverer : WorkerInv(v)'
    BY <1>1, <1>2, <1>3, WorkerStep
  <1>7. RowsInv'
    BY <1>1 DEF DeliveryInv, RowsInv, RowFacts, Chained, RowsWith, Rows, Registered
  <1>8. RetriesInv'
    BY <1>1, <1>2, RetriesKept
  <1>9. ForwardedInv'
    <2> SUFFICES ASSUME NEW r \in RawId, raw'[r].status = "forwarded"
                 PROVE  \E p \in received : alert[p[1]] = None \/ alert[p[1]].raw = r
      BY <1>1 DEF ForwardedInv
    <2>1. CASE r = t.raw
      <3>1. /\ <<t.alert, t.consumer>> \in received
            /\ alert[t.alert] = None \/ alert[t.alert].raw = r
        BY <1>1, <1>4, <2>1 DEF WorkerInv, Answered
      <3>2. <<t.alert, t.consumer>>[1] = t.alert
        OBVIOUS
      <3> QED BY <3>1, <3>2
    <2>2. CASE r # t.raw
      BY <1>4, <2>2 DEF DeliveryInv, ForwardedInv
    <2> QED BY <2>1, <2>2
  <1> QED BY <1>5, <1>6, <1>7, <1>8, <1>9 DEF DeliveryInv

\* A retry is queued after the failure it follows.
LEMMA ScheduleKeeps ==
  ASSUME DeliveryInv, NEW w \in Deliverer, ScheduleRetry(w)
  PROVE  DeliveryInv'
  <1> DEFINE t == deliverer[w]
             task == <<t.alert, t.consumer, t.attempt + 1>>
  <1>1. /\ t \in DelivererState /\ t.pc = "schedule" /\ WorkerInv(w)
        /\ t.alert \in AlertId /\ t.consumer \in Consumer /\ t.attempt \in 1..(Slots + 1)
        /\ UNCHANGED <<raw, alert, deliverQ, consumer, delivery, received, chains, faults>>
    BY DEF ScheduleRetry, DeliveryInv, TablesTyped, DeliveryTypeOK, WorkerInv, OnItsAlert,
           DelivererState, Attempt
  <1>2. CASE Stop(w) /\ UNCHANGED retryQ
    <2>1. faults' \in 0..MaxFaults
      BY <1>1 DEF DeliveryInv, TablesTyped, DeliveryTypeOK
    <2> QED BY <1>1, <1>2, <2>1, StopStep
  <1>3. CASE /\ Registered(t.consumer)
             /\ retryQ' = [retryQ EXCEPT ![task] = IF @ < QueueCap THEN @ + 1 ELSE @]
             /\ Continue(w)
    <2>1. FailuresKept
      BY <1>1 DEF FailuresKept
    <2>2. PICK u \in DelivererState :
            /\ deliverer' = [deliverer EXCEPT ![w] = u]
            /\ u.pc \in {"idle", "each"}
            /\ (OnItsAlert(w) /\ TaskChained(w) /\ Answered(w))'
      BY <1>1, <1>3, <2>1, ContinueShape
    <2>3. /\ retryQ' \in [RetryTask -> 0..QueueCap]
          /\ \A s \in RetryTask : s # task => retryQ'[s] = retryQ[s]
      <3>1. retryQ \in [RetryTask -> 0..QueueCap]
        BY DEF DeliveryInv, TablesTyped, DeliveryTypeOK
      <3>2. PICK key : key = task
        OBVIOUS
      <3>3. retryQ' = [retryQ EXCEPT ![key] = IF @ < QueueCap THEN @ + 1 ELSE @]
        BY <1>3, <3>2
      <3> HIDE DEF task
      <3>4. \A s \in RetryTask :
              retryQ'[s] = IF s = key THEN IF retryQ[s] < QueueCap THEN retryQ[s] + 1 ELSE retryQ[s]
                           ELSE retryQ[s]
        BY <3>1, <3>3
      <3>5. \A s \in RetryTask : retryQ'[s] \in 0..QueueCap
        BY <3>1, <3>4, DeliveryAssumption
      <3>6. retryQ' = [s \in RetryTask |-> retryQ'[s]]
        BY <3>1, <3>3
      <3> QED BY <3>2, <3>4, <3>5, <3>6
    <2>4. TablesTyped'
      BY <1>1, <2>2, <2>3 DEF DeliveryInv, TablesTyped, DeliveryTypeOK
    <2>5. \A v \in Deliverer : WorkerInv(v)'
      BY <1>1, <2>1, <2>2, WorkerStep
    <2>6. RowsInv'
      BY <1>1 DEF DeliveryInv, RowsInv, RowFacts, Chained, RowsWith, Rows, Registered
    <2>7. RetriesInv'
      <3> SUFFICES ASSUME NEW s \in RetryTask, retryQ'[s] > 0, consumer'[s[2]] # "deleted"
                   PROVE  s[3] > 1 /\ Chained(s[1], s[2], s[3])'
        BY DEF RetriesInv, Chained
      <3>1. s[2] \in Consumer /\ consumer[s[2]] # "deleted"
        BY <1>1 DEF RetryTask
      <3>2. s[3] > 1 /\ Chained(s[1], s[2], s[3])
        <4>1. CASE s = task
          <5>1. s[1] = t.alert /\ s[2] = t.consumer /\ s[3] = t.attempt + 1
            BY <4>1
          <5>2. Chained(t.alert, t.consumer, t.attempt + 1)
            BY <1>1, <3>1, <5>1 DEF WorkerInv, TaskChained
          <5> QED BY <1>1, <5>1, <5>2, DeliveryAssumption
        <4>2. CASE s # task
          BY <2>3, <3>1, <4>2 DEF DeliveryInv, RetriesInv
        <4> QED BY <4>1, <4>2
      <3> QED BY <2>1, <3>1, <3>2, ChainKept
    <2>8. ForwardedInv'
      BY <1>1 DEF DeliveryInv, ForwardedInv
    <2> QED BY <2>4, <2>5, <2>6, <2>7, <2>8 DEF DeliveryInv
  <1> QED BY <1>2, <1>3 DEF ScheduleRetry

\* The broker refuses a retry, or the worker dies.
LEMMA FaultKeeps ==
  ASSUME DeliveryInv, NEW w \in Deliverer, ScheduleFails(w) \/ DelivererCrash(w)
  PROVE  DeliveryInv'
  <1>1. /\ Stop(w)
        /\ UNCHANGED <<raw, alert, consumer, delivery, received, deliverQ, retryQ, chains>>
    BY DEF ScheduleFails, DelivererCrash
  <1>2. faults' \in 0..MaxFaults
    BY DeliveryAssumption
    DEF ScheduleFails, DelivererCrash, Fault, DeliveryInv, TablesTyped, DeliveryTypeOK
  <1> QED BY <1>1, <1>2, StopStep

-----------------------------------------------------------------------------
(* Requests *)

\* What a request may do to the tables of this stage while the workers hold
\* what they hold.
LEMMA RequestStep ==
  ASSUME DeliveryInv, TablesTyped', UNCHANGED <<deliverer, received, raw, retryQ>>, FailuresKept,
         \A a \in AlertId : alert'[a] \in {alert[a], None},
         \A d \in DeliveryId :
           \/ delivery'[d] = None
           \/ /\ delivery'[d] = delivery[d]
              /\ delivery[d] # None => Registered(delivery[d].consumer)'
  PROVE  DeliveryInv'
  <1>1. \A v \in Deliverer : WorkerInv(v)'
    <2> SUFFICES ASSUME NEW v \in Deliverer PROVE WorkerInv(v)'
      OBVIOUS
    <2>1. (OnItsAlert(v) /\ TaskChained(v) /\ Answered(v))'
      BY WorkerKept
    <2>2. OwnRow(v) /\ deliverer[v] \in DelivererState
      BY DEF DeliveryInv, WorkerInv, TablesTyped, DeliveryTypeOK
    <2>3. OwnRow(v)'
      BY <2>2 DEF OwnRow, Attempting, DelivererState
    <2> QED BY <2>1, <2>3 DEF WorkerInv
  <1>2. RowsInv'
    <2> SUFFICES ASSUME NEW d \in DeliveryId PROVE RowFacts(d)'
      BY DEF RowsInv
    <2>1. CASE delivery'[d] = None
      BY <2>1 DEF RowFacts
    <2>2. CASE delivery'[d] = delivery[d] /\ (delivery[d] # None => Registered(delivery[d].consumer)')
      BY <2>2, RowKept
    <2> QED BY <2>1, <2>2
  <1>3. RetriesInv'
    BY RetriesKept
  <1>4. ForwardedInv'
    <2> SUFFICES ASSUME NEW r \in RawId, raw[r].status = "forwarded"
                 PROVE  \E p \in received : alert'[p[1]] = None \/ alert'[p[1]].raw = r
      BY DEF ForwardedInv
    <2>1. PICK p \in received : alert[p[1]] = None \/ alert[p[1]].raw = r
      BY DEF DeliveryInv, ForwardedInv
    <2>2. p[1] \in AlertId
      BY DEF DeliveryInv, TablesTyped, DeliveryTypeOK
    <2> QED BY <2>1, <2>2
  <1> QED BY <1>1, <1>2, <1>3, <1>4 DEF DeliveryInv

\* A redelivery queues a task and writes nothing.
LEMMA RedeliverKeeps ==
  ASSUME DeliveryInv, NEW a \in AlertId, Redeliver(a)
  PROVE  DeliveryInv'
  <1>1. UNCHANGED <<raw, alert, retryQ, consumer, delivery, deliverer, received, chains, faults>>
    BY DEF Redeliver
  <1>2. deliverQ' \in [AlertId -> 0..QueueCap]
    BY DeliveryAssumption DEF Redeliver, DeliveryInv, TablesTyped, DeliveryTypeOK
  <1>3. TablesTyped' /\ FailuresKept
    BY <1>1, <1>2 DEF DeliveryInv, TablesTyped, DeliveryTypeOK, FailuresKept
  <1>4. \A d \in DeliveryId : delivery[d] # None => Registered(delivery[d].consumer)'
    BY <1>1 DEF DeliveryInv, RowsInv, RowFacts, Registered
  <1> QED BY <1>1, <1>3, <1>4, RequestStep

\* An alert that is deleted is not needed for what is on record.
LEMMA AlertDeletedKeeps ==
  ASSUME DeliveryInv, NEW a \in AlertId, AlertDeleted(a)
  PROVE  DeliveryInv'
  <1>1. UNCHANGED <<raw, retryQ, consumer, delivery, deliverer, received, chains, deliverQ, faults>>
    BY DEF AlertDeleted, localVars
  <1>2. /\ alert' \in [AlertId -> [raw : RawId] \cup {None}]
        /\ \A b \in AlertId : alert'[b] \in {alert[b], None}
    BY DEF AlertDeleted, DeliveryInv, TablesTyped
  <1>3. TablesTyped' /\ FailuresKept
    BY <1>1, <1>2 DEF DeliveryInv, TablesTyped, DeliveryTypeOK, FailuresKept
  <1>4. \A d \in DeliveryId : delivery[d] # None => Registered(delivery[d].consumer)'
    BY <1>1 DEF DeliveryInv, RowsInv, RowFacts, Registered
  <1> QED BY <1>1, <1>2, <1>3, <1>4, RequestStep

\* Consumers come, or change between active and inactive.
LEMMA ConsumerKeeps ==
  ASSUME DeliveryInv, NEW c \in Consumer, NEW st \in {"active", "inactive"},
         CreateConsumer(c) \/ UpdateConsumer(c, st)
  PROVE  DeliveryInv'
  <1>1. PICK x \in {"active", "inactive"} :
          /\ consumer' = [consumer EXCEPT ![c] = x]
          /\ consumer[c] # "deleted"
          /\ UNCHANGED <<raw, alert, deliverQ, retryQ, delivery, deliverer, received, chains, faults>>
    BY DEF CreateConsumer, UpdateConsumer, SetConsumer, Registered
  <1>2. consumer'[c] = x /\ \A e \in Consumer \ {c} : consumer'[e] = consumer[e]
    BY <1>1 DEF DeliveryInv, TablesTyped, DeliveryTypeOK
  <1>3. TablesTyped'
    BY <1>1 DEF DeliveryInv, TablesTyped, DeliveryTypeOK
  <1>4. FailuresKept
    BY <1>1, <1>2 DEF FailuresKept
  <1>5. \A d \in DeliveryId : delivery[d] # None => Registered(delivery[d].consumer)'
    <2> SUFFICES ASSUME NEW d \in DeliveryId, delivery[d] # None
                 PROVE  consumer'[delivery'[d].consumer] \in {"active", "inactive"}
      BY DEF Registered
    <2>1. delivery[d].consumer \in Consumer /\ delivery'[d] = delivery[d]
      BY <1>1 DEF DeliveryInv, TablesTyped, DeliveryTypeOK, DeliveryRow
    <2>2. consumer[delivery[d].consumer] \in {"active", "inactive"}
      BY DEF DeliveryInv, RowsInv, RowFacts, Registered
    <2> QED BY <1>2, <2>1, <2>2
  <1> QED BY <1>1, <1>3, <1>4, <1>5, RequestStep

\* The attempts at a consumer go with it, those at others stay.
LEMMA DeleteConsumerKeeps ==
  ASSUME DeliveryInv, NEW c \in Consumer, DeleteConsumer(c)
  PROVE  DeliveryInv'
  <1>1. /\ consumer' = [consumer EXCEPT ![c] = "deleted"]
        /\ UNCHANGED <<raw, alert, deliverQ, retryQ, deliverer, received, chains, faults>>
    BY DEF DeleteConsumer, SetConsumer
  <1>2. /\ delivery' \in [DeliveryId -> DeliveryRow \cup {None}]
        /\ \A d \in DeliveryId :
             \/ delivery'[d] = None /\ delivery[d].consumer = c
             \/ delivery'[d] = delivery[d] /\ (delivery[d] # None => delivery[d].consumer # c)
    BY DEF DeleteConsumer, DeliveryInv, TablesTyped, DeliveryTypeOK
  <1>3. consumer'[c] = "deleted" /\ \A e \in Consumer \ {c} : consumer'[e] = consumer[e]
    BY <1>1 DEF DeliveryInv, TablesTyped, DeliveryTypeOK
  <1>4. TablesTyped'
    BY <1>1, <1>2 DEF DeliveryInv, TablesTyped, DeliveryTypeOK
  <1>5. FailuresKept
    BY <1>2, <1>3 DEF FailuresKept
  <1>6. \A d \in DeliveryId :
          \/ delivery'[d] = None
          \/ /\ delivery'[d] = delivery[d]
             /\ delivery[d] # None => Registered(delivery[d].consumer)'
    <2> SUFFICES ASSUME NEW d \in DeliveryId, delivery[d] # None, delivery[d].consumer # c
                 PROVE  consumer'[delivery[d].consumer] \in {"active", "inactive"}
      BY <1>2 DEF Registered
    <2>1. delivery[d].consumer \in Consumer
      BY DEF DeliveryInv, TablesTyped, DeliveryTypeOK, DeliveryRow
    <2>2. consumer[delivery[d].consumer] \in {"active", "inactive"}
      BY DEF DeliveryInv, RowsInv, RowFacts, Registered
    <2> QED BY <1>3, <2>1, <2>2
  <1> QED BY <1>1, <1>4, <1>5, <1>6, RequestStep

-----------------------------------------------------------------------------
(* Theorems *)

\* The invariant holds before the first delivery.
LEMMA InitKeeps == DeliveryInit => DeliveryInv
  <1> SUFFICES ASSUME DeliveryInit PROVE DeliveryInv
    OBVIOUS
  <1> USE DEF DeliveryInit
  <1>1. TablesTyped
    <2>1. /\ raw \in [RawId -> [status : Verdict \cup {"parsed"}]]
          /\ alert \in [AlertId -> [raw : RawId] \cup {None}]
      OBVIOUS
    <2>2. DeliveryTypeOK
      BY <2>1, IdleTyped, DeliveryAssumption DEF DeliveryTypeOK
    <2> QED BY <2>1, <2>2 DEF TablesTyped
  <1>2. \A w \in Deliverer : WorkerInv(w)
    BY IdleTyped DEF WorkerInv, OnItsAlert, OwnRow, Attempting, TaskChained, Answered
  <1>3. RowsInv /\ RetriesInv /\ ForwardedInv
    BY DEF RowsInv, RowFacts, RetriesInv, ForwardedInv
  <1> QED BY <1>1, <1>2, <1>3 DEF DeliveryInv

\* Every step keeps the invariant.
LEMMA NextKeeps == DeliveryInv /\ [DeliveryNext]_deliveryVars => DeliveryInv'
  <1> SUFFICES ASSUME DeliveryInv, [DeliveryNext]_deliveryVars PROVE DeliveryInv'
    OBVIOUS
  <1>1. CASE UNCHANGED deliveryVars
    <2>1. UNCHANGED <<raw, alert, deliverQ, retryQ, consumer, delivery, deliverer, received,
                      chains, faults>>
      BY <1>1 DEF deliveryVars
    <2>2. TablesTyped' /\ FailuresKept
      BY <2>1 DEF DeliveryInv, TablesTyped, DeliveryTypeOK, FailuresKept
    <2>3. \A d \in DeliveryId : delivery[d] # None => Registered(delivery[d].consumer)'
      BY <2>1 DEF DeliveryInv, RowsInv, RowFacts, Registered
    <2> QED BY <2>1, <2>2, <2>3, RequestStep
  <1>2. ASSUME NEW w \in Deliverer, DeliverTask(w)
        PROVE  DeliveryInv'
    BY <1>2, TakeDeliverKeeps, TakeRetryKeeps DEF DeliverTask
  <1>3. ASSUME NEW w \in Deliverer, DeliverStep(w)
        PROVE  DeliveryInv'
    BY <1>3, InsertKeeps, PostKeeps, SuccessKeeps, FailureKeeps, ReadRawKeeps, WriteRawKeeps,
       ScheduleKeeps
    DEF DeliverStep
  <1>4. ASSUME NEW w \in Deliverer, NEW t \in RetryTask, TakeRestoredRetry(w, t)
        PROVE  DeliveryInv'
    BY <1>4, TakeRetryKeeps
  <1>5. ASSUME NEW w \in Deliverer, ScheduleFails(w) \/ DelivererCrash(w)
        PROVE  DeliveryInv'
    BY <1>5, FaultKeeps
  <1>6. ASSUME NEW a \in AlertId, Redeliver(a) \/ AlertDeleted(a)
        PROVE  DeliveryInv'
    BY <1>6, RedeliverKeeps, AlertDeletedKeeps
  <1>7. ASSUME NEW a \in AlertId, NEW c \in Consumer, TestConsumer(c, a)
        PROVE  DeliveryInv'
    BY <1>7, RedeliverKeeps DEF TestConsumer
  <1>8. CASE ConsumerRequest
    BY <1>8, ConsumerKeeps, DeleteConsumerKeeps DEF ConsumerRequest
  <1> QED
    BY <1>1, <1>2, <1>3, <1>4, <1>5, <1>6, <1>7, <1>8 DEF DeliveryNext, DeliveryStage

\* The invariant of the delivery stage.
THEOREM DeliveryInvariant == DeliverySpec => []DeliveryInv
  <1>1. DeliveryInit => DeliveryInv
    BY InitKeeps
  <1>2. DeliveryInv /\ [DeliveryNext]_deliveryVars => DeliveryInv'
    BY NextKeeps
  <1> QED
    BY <1>1, <1>2, PTL DEF DeliverySpec

\* Rows, queues and tasks have their types.
THEOREM DeliveryTypes == DeliverySpec => []DeliveryTypeOK
  <1>1. DeliveryInv => DeliveryTypeOK
    BY DEF DeliveryInv, TablesTyped
  <1> QED
    BY <1>1, DeliveryInvariant, PTL

\* An attempt, queued or made, follows a failed one of the same consumer.
THEOREM AttemptsFollowFailures == DeliverySpec => []AttemptsChained
  <1>1. DeliveryInv => AttemptsChained
    <2> SUFFICES ASSUME DeliveryInv PROVE AttemptsChained
      OBVIOUS
    <2>1. ASSUME NEW d \in DeliveryId, delivery[d] # None, delivery[d].attempt > 1
          PROVE  RowsWith(delivery[d].alert, delivery[d].consumer, delivery[d].attempt - 1,
                          "failed") # {}
      <3>1. delivery[d].attempt \in 1..(Slots + 1)
        BY <2>1 DEF DeliveryInv, TablesTyped, DeliveryTypeOK, DeliveryRow, Attempt
      <3>2. delivery[d].attempt - 1 \in 1..(delivery[d].attempt - 1)
        BY <2>1, <3>1, DeliveryAssumption
      <3> QED BY <2>1, <3>2 DEF DeliveryInv, RowsInv, RowFacts, Chained
    <2>2. ASSUME NEW t \in RetryTask, retryQ[t] > 0, consumer[t[2]] # "deleted"
          PROVE  t[3] > 1 /\ RowsWith(t[1], t[2], t[3] - 1, "failed") # {}
      <3>1. t[3] \in 1..(Slots + 1)
        BY DEF RetryTask, Attempt
      <3>2. t[3] > 1 /\ Chained(t[1], t[2], t[3])
        BY <2>2 DEF DeliveryInv, RetriesInv
      <3>3. t[3] - 1 \in 1..(t[3] - 1)
        BY <3>1, <3>2, DeliveryAssumption
      <3> QED BY <3>2, <3>3 DEF Chained
    <2> QED BY <2>1, <2>2 DEF AttemptsChained
  <1> QED
    BY <1>1, DeliveryInvariant, PTL

\* "success" and "forwarded" stand for an answer of a consumer.
THEOREM SuccessMeansReceived == DeliverySpec => []SuccessWasReceived
  <1>1. DeliveryInv => SuccessWasReceived
    BY DEF DeliveryInv, RowsInv, RowFacts, ForwardedInv, SuccessWasReceived
  <1> QED
    BY <1>1, DeliveryInvariant, PTL

-----------------------------------------------------------------------------
(* How long a chain is *)

\* No attempt under way is beyond the last of the schedule, and after the last none
\* is to be queued.
WithinSchedule(t) == t.attempt <= Slots /\ (t.pc = "schedule" => t.attempt < Slots)

\* Nor is one on record: what failed is followed up exactly before the last.
RowLength(row) ==
  row # None =>
    /\ row.attempt <= Slots
    /\ row.status = "failed" => row.attempt < Slots
    /\ row.status = "giving_up" => row.attempt = Slots

\* Inductive together with DeliveryInv.
LengthInv ==
  /\ \A w \in Deliverer : WithinSchedule(deliverer[w])
  /\ \A d \in DeliveryId : RowLength(delivery[d])
  /\ \A t \in RetryTask : retryQ[t] > 0 => t[3] <= Slots

\* A worker goes on within the schedule; no row is written, no retry queued.
LEMMA LengthKept ==
  ASSUME DeliveryInv, LengthInv, NEW w \in Deliverer, NEW u, WithinSchedule(u),
         deliverer' = [deliverer EXCEPT ![w] = u], UNCHANGED delivery,
         \A t \in RetryTask : retryQ'[t] > 0 => retryQ[t] > 0
  PROVE  LengthInv'
  <1>1. \A v \in Deliverer : deliverer'[v] = IF v = w THEN u ELSE deliverer[v]
    BY DEF DeliveryInv, TablesTyped, DeliveryTypeOK
  <1>2. \A v \in Deliverer : WithinSchedule(deliverer'[v])
    BY <1>1 DEF LengthInv
  <1> QED BY <1>2 DEF LengthInv

\* A worker that stops, or goes on with the loop, has no further attempt to queue.
LEMMA IdleLength == WithinSchedule(IdleDeliverer)
  BY DeliveryAssumption DEF WithinSchedule, IdleDeliverer

LEMMA ContinueLength ==
  ASSUME LengthInv, NEW w \in Deliverer, Continue(w) \/ Stop(w)
  PROVE  \E u : deliverer' = [deliverer EXCEPT ![w] = u] /\ WithinSchedule(u)
  <1> DEFINE t == deliverer[w]
             u == [t EXCEPT !.pc = "each", !.consumer = None, !.row = 0, !.raw = None]
  <1>1. WithinSchedule(t)
    BY DEF LengthInv
  <1>2. WithinSchedule(u)
    BY <1>1 DEF WithinSchedule
  <1> QED BY <1>2, IdleLength DEF Continue, Stop

\* A task starts with the first attempt, or with the one its queue entry names.
LEMMA TakeLength ==
  ASSUME DeliveryInv, LengthInv, NEW w \in Deliverer,
         \/ \E a \in AlertId : TakeDeliver(w, a)
         \/ \E t \in RetryTask : TakeRetry(w, t) \/ TakeRestoredRetry(w, t)
  PROVE  LengthInv'
  <1>1. /\ UNCHANGED delivery
        /\ \A t \in RetryTask : retryQ'[t] > 0 => retryQ[t] > 0
    BY DeliveryAssumption
    DEF TakeDeliver, TakeRetry, TakeRestoredRetry, DeliveryInv, TablesTyped, DeliveryTypeOK
  <1>2. ASSUME NEW a, NEW cs, NEW n, n <= Slots, Start(w, a, cs, n)
        PROVE  LengthInv'
    <2> DEFINE u == [IdleDeliverer EXCEPT !.pc = "each", !.alert = a, !.todo = cs, !.attempt = n]
    <2>1. WithinSchedule(u)
      BY <1>2 DEF WithinSchedule, IdleDeliverer
    <2> QED BY <1>1, <1>2, <2>1, LengthKept DEF Start
  <1>3. CASE UNCHANGED deliverer
    BY <1>1, <1>3 DEF LengthInv
  <1>4. ASSUME NEW a \in AlertId, TakeDeliver(w, a) PROVE LengthInv'
    BY <1>2, <1>3, <1>4, DeliveryAssumption DEF TakeDeliver
  <1>5. ASSUME NEW t \in RetryTask, RunRetry(w, t) PROVE LengthInv'
    BY <1>2, <1>3, <1>5 DEF RunRetry, LengthInv
  <1> QED BY <1>4, <1>5 DEF TakeRetry, TakeRestoredRetry

\* The row of an attempt is no further than the attempt.
LEMMA InsertLength ==
  ASSUME DeliveryInv, LengthInv, NEW w \in Deliverer, NEW c \in Consumer, NEW d \in DeliveryId,
         InsertPending(w, c, d)
  PROVE  LengthInv'
  <1> DEFINE t == deliverer[w]
             row == [alert |-> t.alert, consumer |-> c, attempt |-> t.attempt, status |-> "pending"]
             u == [t EXCEPT !.pc = "post", !.todo = @ \ {c}, !.consumer = c, !.row = d,
                            !.fresh = FALSE]
  <1>1. WithinSchedule(t) /\ UNCHANGED retryQ /\ t \in DelivererState
    BY DEF LengthInv, InsertPending, DeliveryInv, TablesTyped, DeliveryTypeOK
  <1>2. CASE Stop(w) /\ UNCHANGED delivery
    BY <1>1, <1>2, IdleLength, LengthKept DEF Stop
  <1>3. CASE /\ delivery' = [delivery EXCEPT ![d] = row]
             /\ deliverer' = [deliverer EXCEPT ![w] = u]
    <2>1. RowLength(row)
      BY <1>1 DEF RowLength, WithinSchedule
    <2>2. WithinSchedule(u)
      BY <1>1 DEF WithinSchedule, DelivererState
    <2>3. \A e \in DeliveryId : RowLength(delivery'[e])
      BY <1>3, <2>1 DEF LengthInv, DeliveryInv, TablesTyped, DeliveryTypeOK
    <2>4. \A v \in Deliverer : WithinSchedule(deliverer'[v])
      BY <1>3, <2>2 DEF LengthInv, DeliveryInv, TablesTyped, DeliveryTypeOK
    <2> QED BY <1>1, <2>3, <2>4 DEF LengthInv
  <1> QED BY <1>2, <1>3 DEF InsertPending

\* The outcome is written on the attempt's own row: failed and queued again before
\* the last attempt, giving up at it.
LEMMA OutcomeLength ==
  ASSUME DeliveryInv, LengthInv, NEW w \in Deliverer, RecordSuccess(w) \/ RecordFailure(w)
  PROVE  LengthInv'
  <1> DEFINE t == deliverer[w]
             row == delivery[t.row]
  <1>1. /\ t \in DelivererState /\ WithinSchedule(t) /\ t.attempt \in Int /\ Slots \in Int
        /\ UNCHANGED retryQ /\ t.row \in DeliveryId
        /\ row # None => row.attempt = t.attempt
    <2>1. t \in DelivererState /\ OwnRow(w) /\ WithinSchedule(t)
      BY DEF DeliveryInv, TablesTyped, DeliveryTypeOK, WorkerInv, LengthInv
    <2>2. t.pc \in {"ok", "bad"} /\ UNCHANGED retryQ
      BY DEF RecordSuccess, RecordFailure
    <2>3. t.row \in DeliveryId /\ (row # None => row.attempt = t.attempt)
      BY <2>1, <2>2 DEF OwnRow, Attempting, DelivererState
    <2>4. t.attempt \in Int /\ Slots \in Int
      BY <2>1, DeliveryAssumption DEF DelivererState, Attempt
    <2> QED BY <2>1, <2>2, <2>3, <2>4
  <1>2. CASE row = None
    <2>1. Stop(w) /\ UNCHANGED delivery
      BY <1>2 DEF RecordSuccess, RecordFailure
    <2> QED BY <1>1, <2>1, IdleLength, LengthKept DEF Stop
  <1> DEFINE Outcome(st, u) ==
               /\ WithinSchedule(u)
               /\ st = "failed" => t.attempt < Slots
               /\ st = "giving_up" => t.attempt = Slots
               /\ delivery' = [delivery EXCEPT ![t.row].status = st]
               /\ deliverer' = [deliverer EXCEPT ![w] = u]
  <1>3. ASSUME row # None, NEW st, \E u : Outcome(st, u)
        PROVE  LengthInv'
    <2> PICK u : Outcome(st, u)
      BY <1>3
    <2>1. row \in DeliveryRow
      BY <1>1, <1>3 DEF DeliveryInv, TablesTyped, DeliveryTypeOK
    <2>2. RowLength([row EXCEPT !.status = st])
      BY <1>1, <1>3, <2>1 DEF RowLength, WithinSchedule, DeliveryRow
    <2>3. \A e \in DeliveryId : RowLength(delivery'[e])
      BY <1>1, <1>3, <2>2 DEF LengthInv, DeliveryInv, TablesTyped, DeliveryTypeOK
    <2>4. \A v \in Deliverer : WithinSchedule(deliverer'[v])
      BY <1>3 DEF LengthInv, DeliveryInv, TablesTyped, DeliveryTypeOK
    <2> QED BY <1>1, <2>3, <2>4 DEF LengthInv
  <1>4. ASSUME row # None, RecordSuccess(w) PROVE LengthInv'
    <2> DEFINE u == [t EXCEPT !.pc = "read", !.verdict = "forwarded"]
    <2>1. WithinSchedule(u)
      BY <1>1 DEF WithinSchedule, DelivererState
    <2>2. deliverer' = [deliverer EXCEPT ![w] = u]
      BY <1>4 DEF RecordSuccess, DeliveryInv, TablesTyped, DeliveryTypeOK
    <2>3. delivery' = [delivery EXCEPT ![t.row].status = "success"]
      BY <1>4 DEF RecordSuccess
    <2>4. \E x : Outcome("success", x)
      BY <2>1, <2>2, <2>3
    <2> HIDE DEF u
    <2> QED BY <1>3, <1>4, <2>4
  <1>5. ASSUME row # None, RecordFailure(w), Exhausted(t.attempt) PROVE LengthInv'
    <2> DEFINE u == [t EXCEPT !.pc = "read", !.verdict = "forward_failed"]
    <2>1. WithinSchedule(u) /\ t.attempt = Slots
      BY <1>1, <1>5 DEF WithinSchedule, DelivererState, Exhausted
    <2>2. deliverer' = [deliverer EXCEPT ![w] = u]
      BY <1>5 DEF RecordFailure, DeliveryInv, TablesTyped, DeliveryTypeOK
    <2>3. delivery' = [delivery EXCEPT ![t.row].status = "giving_up"]
      BY <1>5 DEF RecordFailure
    <2>4. \E x : Outcome("giving_up", x)
      BY <2>1, <2>2, <2>3
    <2> HIDE DEF u
    <2> QED BY <1>3, <1>5, <2>4
  <1>6. ASSUME row # None, RecordFailure(w), ~Exhausted(t.attempt) PROVE LengthInv'
    <2> DEFINE u == [t EXCEPT !.pc = "schedule"]
    <2>1. WithinSchedule(u) /\ t.attempt < Slots
      BY <1>1, <1>6 DEF WithinSchedule, DelivererState, Exhausted
    <2>2. deliverer' = [deliverer EXCEPT ![w] = u]
      BY <1>6 DEF RecordFailure, Goto, DeliveryInv, TablesTyped, DeliveryTypeOK
    <2>3. delivery' = [delivery EXCEPT ![t.row].status = "failed"]
      BY <1>6 DEF RecordFailure
    <2>4. \E x : Outcome("failed", x)
      BY <2>1, <2>2, <2>3
    <2> HIDE DEF u
    <2> QED BY <1>3, <1>6, <2>4
  <1> QED BY <1>2, <1>4, <1>5, <1>6

\* The POST and the note on the raw row end or go on with the same attempt.
LEMMA PostLength ==
  ASSUME DeliveryInv, LengthInv, NEW w \in Deliverer, Post(w)
  PROVE  LengthInv'
  <1> DEFINE t == deliverer[w]
  <1>1. WithinSchedule(t) /\ UNCHANGED <<delivery, retryQ>> /\ t \in DelivererState
    BY DEF LengthInv, Post, DeliveryInv, TablesTyped, DeliveryTypeOK
  <1>2. ASSUME NEW label \in {"ok", "bad"}, Goto(w, label) PROVE LengthInv'
    <2> DEFINE u == [t EXCEPT !.pc = label]
    <2>1. WithinSchedule(u)
      BY <1>1 DEF WithinSchedule, DelivererState
    <2> QED BY <1>1, <1>2, <2>1, LengthKept DEF Goto
  <1>3. CASE Stop(w)
    BY <1>1, <1>3, IdleLength, LengthKept DEF Stop
  <1> QED BY <1>2, <1>3 DEF Post

LEMMA NoteLength ==
  ASSUME DeliveryInv, LengthInv, NEW w \in Deliverer, ReadRaw(w) \/ WriteRaw(w)
  PROVE  LengthInv'
  <1> DEFINE t == deliverer[w]
             u == [t EXCEPT !.pc = "write", !.raw = alert[t.alert].raw]
  <1>1. WithinSchedule(t) /\ UNCHANGED <<delivery, retryQ>> /\ t \in DelivererState
    BY DEF LengthInv, ReadRaw, WriteRaw, DeliveryInv, TablesTyped, DeliveryTypeOK
  <1>2. CASE Continue(w) \/ Stop(w)
    BY <1>1, <1>2, ContinueLength, LengthKept
  <1>3. CASE deliverer' = [deliverer EXCEPT ![w].pc = "write", ![w].raw = alert[t.alert].raw]
    <2>1. WithinSchedule(u)
      BY <1>1 DEF WithinSchedule, DelivererState
    <2>2. deliverer' = [deliverer EXCEPT ![w] = u]
      BY <1>3 DEF DeliveryInv, TablesTyped, DeliveryTypeOK
    <2> QED BY <1>1, <2>1, <2>2, LengthKept
  <1> QED BY <1>2, <1>3 DEF ReadRaw, WriteRaw

\* A retry is queued before the last attempt only, for the one that follows.
LEMMA ScheduleLength ==
  ASSUME DeliveryInv, LengthInv, NEW w \in Deliverer, ScheduleRetry(w)
  PROVE  LengthInv'
  <1> DEFINE t == deliverer[w]
  <1>1. /\ t.attempt \in Int /\ Slots \in Int /\ t.attempt < Slots /\ UNCHANGED delivery
        /\ retryQ \in [RetryTask -> 0..QueueCap]
    BY DeliveryAssumption
    DEF ScheduleRetry, LengthInv, WithinSchedule, DeliveryInv, TablesTyped, DeliveryTypeOK,
        DelivererState, Attempt
  <1>2. PICK key : key = <<t.alert, t.consumer, t.attempt + 1>>
    OBVIOUS
  <1>3. key[3] <= Slots
    BY <1>1, <1>2
  <1>4. \A s \in RetryTask : s # key => retryQ'[s] = retryQ[s]
    <2>1. \/ UNCHANGED retryQ
          \/ retryQ' = [retryQ EXCEPT ![key] = IF @ < QueueCap THEN @ + 1 ELSE @]
      BY <1>2 DEF ScheduleRetry
    <2> QED BY <1>1, <2>1
  <1>5. \A s \in RetryTask : retryQ'[s] > 0 => s[3] <= Slots
    BY <1>3, <1>4 DEF LengthInv
  <1>6. PICK u : deliverer' = [deliverer EXCEPT ![w] = u] /\ WithinSchedule(u)
    BY ContinueLength DEF ScheduleRetry
  <1>7. \A v \in Deliverer : WithinSchedule(deliverer'[v])
    BY <1>6 DEF LengthInv, DeliveryInv, TablesTyped, DeliveryTypeOK
  <1> QED BY <1>1, <1>5, <1>7 DEF LengthInv

\* Every step keeps the length of the chains.
LEMMA NextLength ==
  DeliveryInv /\ LengthInv /\ [DeliveryNext]_deliveryVars => LengthInv'
  <1> SUFFICES ASSUME DeliveryInv, LengthInv, [DeliveryNext]_deliveryVars PROVE LengthInv'
    OBVIOUS
  <1>1. CASE UNCHANGED deliveryVars
    BY <1>1 DEF deliveryVars, LengthInv
  <1>2. ASSUME NEW w \in Deliverer,
               DeliverTask(w) \/ \E t \in RetryTask : TakeRestoredRetry(w, t)
        PROVE  LengthInv'
    BY <1>2, TakeLength DEF DeliverTask
  <1>3. ASSUME NEW w \in Deliverer, DeliverStep(w)
        PROVE  LengthInv'
    BY <1>3, InsertLength, PostLength, OutcomeLength, NoteLength, ScheduleLength DEF DeliverStep
  <1>4. ASSUME NEW w \in Deliverer, ScheduleFails(w) \/ DelivererCrash(w)
        PROVE  LengthInv'
    <2>1. Stop(w) /\ UNCHANGED <<delivery, retryQ>>
      BY <1>4 DEF ScheduleFails, DelivererCrash
    <2> QED BY <2>1, IdleLength, LengthKept DEF Stop
  <1>5. ASSUME NEW a \in AlertId,
               Redeliver(a) \/ AlertDeleted(a) \/ \E c \in Consumer : TestConsumer(c, a)
        PROVE  LengthInv'
    <2>1. UNCHANGED <<deliverer, delivery, retryQ>>
      BY <1>5 DEF Redeliver, AlertDeleted, TestConsumer, localVars
    <2> QED BY <2>1 DEF LengthInv
  <1>6. CASE ConsumerRequest
    <2>1. UNCHANGED <<deliverer, retryQ>>
      BY <1>6 DEF ConsumerRequest, CreateConsumer, UpdateConsumer, DeleteConsumer, SetConsumer
    <2>2. \A d \in DeliveryId : delivery'[d] \in {None, delivery[d]}
      BY <1>6
      DEF ConsumerRequest, CreateConsumer, UpdateConsumer, DeleteConsumer, DeliveryInv, TablesTyped,
          DeliveryTypeOK
    <2>3. \A d \in DeliveryId : RowLength(delivery'[d])
      BY <2>2 DEF LengthInv, RowLength
    <2> QED BY <2>1, <2>3 DEF LengthInv
  <1> QED
    BY <1>1, <1>2, <1>3, <1>4, <1>5, <1>6 DEF DeliveryNext, DeliveryStage

\* Chains are as long as the schedule in every reachable state.
LEMMA ChainsHaveLength == DeliverySpec => []LengthInv
  <1>1. DeliveryInit => LengthInv
    BY IdleLength DEF DeliveryInit, LengthInv, RowLength
  <1> QED
    BY <1>1, NextLength, DeliveryInvariant, PTL DEF DeliverySpec

\* A chain is as long as the schedule: nothing is attempted or queued beyond its last
\* attempt, and giving up is at it, after a complete chain of failed ones.
THEOREM GivingUpClosesAChain == DeliverySpec => []GivingUpEndsTheChain
  <1>1. DeliveryInv /\ LengthInv => GivingUpEndsTheChain
    <2> SUFFICES ASSUME DeliveryInv, LengthInv PROVE GivingUpEndsTheChain
      OBVIOUS
    <2>1. ASSUME NEW d \in DeliveryId, delivery[d] # None, delivery[d].status = "giving_up"
          PROVE  \A n \in 1..(Slots - 1) :
                   RowsWith(delivery[d].alert, delivery[d].consumer, n, "failed") # {}
      BY <2>1 DEF DeliveryInv, RowsInv, RowFacts, LengthInv, RowLength, Chained
    <2> QED BY <2>1 DEF LengthInv, RowLength, GivingUpEndsTheChain
  <1> QED
    BY <1>1, DeliveryInvariant, ChainsHaveLength, PTL

-----------------------------------------------------------------------------
(* Every success comes from a delivery task or a repeated retry *)

\* The task t is going to attempt, or is attempting, alert a at consumer c.
Pursues(t, a, c) ==
  /\ t.pc # "idle" /\ t.alert = a
  /\ c \in t.todo \/ (t.pc \in {"post", "ok", "bad", "schedule"} /\ t.consumer = c)

\* The workers that do, the retries that wait, the successes on record.
Busy(a, c) == {w \in Deliverer : Pursues(deliverer[w], a, c)}
Waiting(a, c) == {p \in Attempt \X (1..QueueCap) : p[2] <= retryQ[<<a, c, p[1]>>]}
Successes(a, c) == {d \in Rows(a, c) : delivery[d].status = "success"}

\* An attempt that waits or is under way, or has succeeded, is the one of its
\* delivery task; the broker adds one for a fault.
Account(a, c) ==
  /\ IsFiniteSet(Busy(a, c)) /\ IsFiniteSet(Successes(a, c))
  /\ Cardinality(Successes(a, c)) + Cardinality(Waiting(a, c)) + Cardinality(Busy(a, c))
       <= chains[a] + faults

\* The consumer that is attempted is no longer to do.
OneByOne(t) == t.pc \notin {"idle", "each"} => t.consumer \notin t.todo

\* Inductive together with DeliveryInv.
ChainsAccounted ==
  /\ \A w \in Deliverer : OneByOne(deliverer[w])
  /\ \A a \in AlertId, c \in Consumer : Account(a, c)

\* What the account adds up.
LEMMA AccountNumbers ==
  ASSUME DeliveryInv, ChainsAccounted, NEW a \in AlertId, NEW c \in Consumer
  PROVE  /\ IsFiniteSet(Busy(a, c)) /\ IsFiniteSet(Successes(a, c)) /\ IsFiniteSet(Waiting(a, c))
         /\ Cardinality(Busy(a, c)) \in Nat
         /\ Cardinality(Successes(a, c)) \in Nat
         /\ Cardinality(Waiting(a, c)) \in Nat
         /\ chains[a] \in Nat /\ faults \in Nat
         /\ Cardinality(Successes(a, c)) + Cardinality(Waiting(a, c)) + Cardinality(Busy(a, c))
              <= chains[a] + faults
  <1>1. IsFiniteSet(Attempt \X (1..QueueCap))
    <2>1. Slots + 1 \in Int /\ QueueCap \in Int /\ 1 \in Int
      BY DeliveryAssumption
    <2>2. IsFiniteSet(1..(Slots + 1)) /\ IsFiniteSet(1..QueueCap)
      BY <2>1, FS_Interval
    <2> QED BY <2>2, FS_Product DEF Attempt
  <1>2. IsFiniteSet(Waiting(a, c))
    BY <1>1, FS_Subset DEF Waiting
  <1>3. chains[a] \in Nat /\ faults \in Nat
    BY DeliveryAssumption DEF DeliveryInv, TablesTyped, DeliveryTypeOK
  <1> QED BY <1>2, <1>3, FS_CardinalityType DEF ChainsAccounted, Account

\* How the set of busy workers changes with one of them.
LEMMA BusyStep ==
  ASSUME DeliveryInv, NEW w \in Deliverer, NEW u, deliverer' = [deliverer EXCEPT ![w] = u],
         NEW a, NEW c, IsFiniteSet(Busy(a, c))
  PROVE  /\ IsFiniteSet(Busy(a, c)')
         /\ Pursues(u, a, c) <=> w \in Busy(a, c)'
         /\ Cardinality(Busy(a, c)') =
              Cardinality(Busy(a, c)) + (IF Pursues(u, a, c) THEN 1 ELSE 0)
                - (IF Pursues(deliverer[w], a, c) THEN 1 ELSE 0)
  <1>1. deliverer'[w] = u /\ \A v \in Deliverer \ {w} : deliverer'[v] = deliverer[v]
    BY DEF DeliveryInv, TablesTyped, DeliveryTypeOK
  <1>2. w \in Busy(a, c) <=> Pursues(deliverer[w], a, c)
    BY DEF Busy
  <1>3. Cardinality(Busy(a, c)) \in Nat
    BY FS_CardinalityType
  <1>4. CASE Pursues(u, a, c)
    <2>1. Busy(a, c)' = Busy(a, c) \cup {w}
      BY <1>1, <1>4 DEF Busy, Pursues
    <2> QED BY <1>2, <1>3, <1>4, <2>1, FS_AddElement
  <1>5. CASE ~Pursues(u, a, c)
    <2>1. Busy(a, c)' = Busy(a, c) \ {w}
      BY <1>1, <1>5 DEF Busy, Pursues
    <2> QED BY <1>2, <1>3, <1>5, <2>1, FS_RemoveElement
  <1> QED BY <1>4, <1>5

\* A worker that goes on with no more than it had, while nothing is queued and no
\* success is written, keeps every account.
LEMMA QuietAccount ==
  ASSUME DeliveryInv, ChainsAccounted, NEW w \in Deliverer, NEW u,
         deliverer' = [deliverer EXCEPT ![w] = u],
         NEW a \in AlertId, NEW c \in Consumer,
         Pursues(u, a, c) => Pursues(deliverer[w], a, c),
         Waiting(a, c)' = Waiting(a, c), Successes(a, c)' = Successes(a, c),
         chains'[a] \in Nat, chains[a] <= chains'[a], faults' \in Nat, faults <= faults'
  PROVE  Account(a, c)'
  <1>1. IsFiniteSet(Busy(a, c)) /\ Cardinality(Busy(a, c)) \in Nat
    BY AccountNumbers
  <1>2. IsFiniteSet(Busy(a, c)') /\ Cardinality(Busy(a, c)') <= Cardinality(Busy(a, c))
    <2>1. /\ IsFiniteSet(Busy(a, c)')
          /\ Cardinality(Busy(a, c)') =
               Cardinality(Busy(a, c)) + (IF Pursues(u, a, c) THEN 1 ELSE 0)
                 - (IF Pursues(deliverer[w], a, c) THEN 1 ELSE 0)
      BY <1>1, BusyStep
    <2> QED BY <1>1, <2>1
  <1>3. Cardinality(Busy(a, c)') \in Nat
    BY <1>2, FS_CardinalityType
  <1> QED BY <1>2, <1>3, AccountNumbers DEF Account

\* A started task pursues what it was started for, with one consumer to do each.
Begins(u, a, cs) == OneByOne(u) /\ \A b, c : Pursues(u, b, c) <=> b = a /\ c \in cs

LEMMA StartPursues ==
  ASSUME NEW w, NEW a, NEW cs, NEW n, Start(w, a, cs, n)
  PROVE  \E u : deliverer' = [deliverer EXCEPT ![w] = u] /\ Begins(u, a, cs)
  <1> DEFINE u == [IdleDeliverer EXCEPT !.pc = "each", !.alert = a, !.todo = cs, !.attempt = n]
  <1>1. u.pc = "each" /\ u.alert = a /\ u.todo = cs
    BY DEF IdleDeliverer
  <1>2. Begins(u, a, cs)
    BY <1>1 DEF OneByOne, Pursues, Begins
  <1> QED BY <1>2 DEF Start

\* Workers other than the one that steps stay as they are.
LEMMA OneByOneKept ==
  ASSUME DeliveryInv, ChainsAccounted, NEW w \in Deliverer, NEW u,
         deliverer' = [deliverer EXCEPT ![w] = u], OneByOne(u)
  PROVE  \A v \in Deliverer : OneByOne(deliverer'[v])
  BY DEF ChainsAccounted, DeliveryInv, TablesTyped, DeliveryTypeOK

\* A delivery task begins an attempt at each active consumer, and is counted.
LEMMA TakeDeliverAccount ==
  ASSUME DeliveryInv, ChainsAccounted, NEW w \in Deliverer, NEW b \in AlertId, TakeDeliver(w, b)
  PROVE  ChainsAccounted'
  <1>0. /\ deliverer[w].pc = "idle" /\ UNCHANGED <<retryQ, delivery, faults>>
        /\ \A a \in AlertId : chains'[a] = IF a = b THEN chains[a] + 1 ELSE chains[a]
    BY DEF TakeDeliver, DeliveryInv, TablesTyped, DeliveryTypeOK
  <1>1. \A a, c : Waiting(a, c)' = Waiting(a, c) /\ Successes(a, c)' = Successes(a, c)
    BY <1>0 DEF Waiting, Successes, Rows
  <1>2. PICK u : /\ deliverer' = [deliverer EXCEPT ![w] = u]
                 /\ OneByOne(u)
                 /\ \A a, c : Pursues(u, a, c) => a = b
    <2>1. CASE UNCHANGED deliverer
      <3>1. deliverer' = [deliverer EXCEPT ![w] = deliverer[w]]
        BY <2>1 DEF DeliveryInv, TablesTyped, DeliveryTypeOK
      <3> QED BY <1>0, <3>1 DEF OneByOne, Pursues
    <2>2. CASE Start(w, b, Active, 1)
      <3>1. PICK cs \in SUBSET Consumer : cs = Active
        BY DEF Active
      <3>2. Start(w, b, cs, 1)
        BY <2>2, <3>1 DEF Start
      <3>3. PICK u : deliverer' = [deliverer EXCEPT ![w] = u] /\ Begins(u, b, cs)
        BY <3>2, StartPursues
      <3> QED BY <3>3 DEF Begins
    <2> QED BY <2>1, <2>2 DEF TakeDeliver
  <1>3. ASSUME NEW a \in AlertId, NEW c \in Consumer
        PROVE  Account(a, c)'
    <2>1. /\ IsFiniteSet(Busy(a, c)')
          /\ Cardinality(Busy(a, c)') =
               Cardinality(Busy(a, c)) + (IF Pursues(u, a, c) THEN 1 ELSE 0)
                 - (IF Pursues(deliverer[w], a, c) THEN 1 ELSE 0)
      BY <1>2, AccountNumbers, BusyStep
    <2>2. ~Pursues(deliverer[w], a, c)
      BY <1>0 DEF Pursues
    <2>3. Cardinality(Busy(a, c)') <= Cardinality(Busy(a, c)) + (IF a = b THEN 1 ELSE 0)
      BY <1>2, <2>1, <2>2, AccountNumbers
    <2>4. Cardinality(Busy(a, c)') \in Nat
      BY <2>1, FS_CardinalityType
    <2> QED BY <1>0, <1>1, <2>1, <2>3, <2>4, AccountNumbers DEF Account
  <1> QED BY <1>2, <1>3, OneByOneKept DEF ChainsAccounted

\* A retry that is taken leaves the queue; one that the broker repeats is a fault.
LEMMA TakeRetryAccount ==
  ASSUME DeliveryInv, ChainsAccounted, NEW w \in Deliverer, NEW t \in RetryTask,
         TakeRetry(w, t) \/ TakeRestoredRetry(w, t)
  PROVE  ChainsAccounted'
  <1>0. /\ deliverer[w].pc = "idle" /\ UNCHANGED <<delivery, chains>>
        /\ t[1] \in AlertId /\ t[2] \in Consumer /\ t[3] \in Attempt /\ t = <<t[1], t[2], t[3]>>
        /\ retryQ[t] > 0 /\ retryQ[t] \in 0..QueueCap
    BY DEF TakeRetry, TakeRestoredRetry, RunRetry, RetryTask, DeliveryInv, TablesTyped,
           DeliveryTypeOK
  <1>1. \A a, c : Successes(a, c)' = Successes(a, c)
    BY <1>0 DEF Successes, Rows
  <1>2. PICK u : /\ deliverer' = [deliverer EXCEPT ![w] = u]
                 /\ OneByOne(u)
                 /\ \A a, c : Pursues(u, a, c) => a = t[1] /\ c = t[2]
    <2>1. CASE UNCHANGED deliverer
      <3>1. deliverer' = [deliverer EXCEPT ![w] = deliverer[w]]
        BY <2>1 DEF DeliveryInv, TablesTyped, DeliveryTypeOK
      <3> QED BY <1>0, <3>1 DEF OneByOne, Pursues
    <2>2. CASE Start(w, t[1], {t[2]}, t[3])
      <3>1. {t[2]} \in SUBSET Consumer
        BY <1>0
      <3>2. PICK a \in AlertId, cs \in SUBSET Consumer, n \in Attempt :
              a = t[1] /\ cs = {t[2]} /\ n = t[3]
        BY <1>0, <3>1
      <3>3. Start(w, a, cs, n)
        BY <2>2, <3>2 DEF Start
      <3>4. PICK u : deliverer' = [deliverer EXCEPT ![w] = u] /\ Begins(u, a, cs)
        BY <3>3, StartPursues
      <3> QED BY <3>2, <3>4 DEF Begins
    <2> QED BY <2>1, <2>2 DEF TakeRetry, TakeRestoredRetry, RunRetry
  <1>3. ASSUME NEW a \in AlertId, NEW c \in Consumer
        PROVE  /\ IsFiniteSet(Busy(a, c)')
               /\ Cardinality(Busy(a, c)') \in Nat
               /\ Cardinality(Busy(a, c)') <=
                    Cardinality(Busy(a, c)) + (IF a = t[1] /\ c = t[2] THEN 1 ELSE 0)
    <2>1. /\ IsFiniteSet(Busy(a, c)')
          /\ Cardinality(Busy(a, c)') =
               Cardinality(Busy(a, c)) + (IF Pursues(u, a, c) THEN 1 ELSE 0)
                 - (IF Pursues(deliverer[w], a, c) THEN 1 ELSE 0)
      BY <1>2, AccountNumbers, BusyStep
    <2>2. ~Pursues(deliverer[w], a, c)
      BY <1>0 DEF Pursues
    <2> QED BY <1>2, <2>1, <2>2, AccountNumbers, FS_CardinalityType
  <1>4. CASE TakeRetry(w, t)
    <2>1. /\ faults' = faults
          /\ \A s \in RetryTask : retryQ'[s] = IF s = t THEN retryQ[s] - 1 ELSE retryQ[s]
      BY <1>4 DEF TakeRetry, DeliveryInv, TablesTyped, DeliveryTypeOK
    <2>2. ASSUME NEW a \in AlertId, NEW c \in Consumer, a # t[1] \/ c # t[2]
          PROVE  Waiting(a, c)' = Waiting(a, c)
      <3>1. \A n \in Attempt : <<a, c, n>> \in RetryTask /\ <<a, c, n>> # t
        BY <1>0, <2>2 DEF RetryTask
      <3> QED BY <2>1, <3>1 DEF Waiting
    <2>3. /\ Waiting(t[1], t[2])' = Waiting(t[1], t[2]) \ {<<t[3], retryQ[t]>>}
          /\ <<t[3], retryQ[t]>> \in Waiting(t[1], t[2])
      <3>1. \A n \in Attempt : /\ <<t[1], t[2], n>> \in RetryTask
                               /\ <<t[1], t[2], n>> = t <=> n = t[3]
        BY <1>0 DEF RetryTask
      <3>2. \A n \in Attempt : retryQ[<<t[1], t[2], n>>] \in 0..QueueCap
        BY <3>1 DEF DeliveryInv, TablesTyped, DeliveryTypeOK
      <3>3. <<t[3], retryQ[t]>> \in Waiting(t[1], t[2])
        BY <1>0, DeliveryAssumption DEF Waiting
      <3>4. ASSUME NEW n \in Attempt, NEW k \in 1..QueueCap
            PROVE  k <= retryQ'[<<t[1], t[2], n>>] <=>
                     k <= retryQ[<<t[1], t[2], n>>] /\ <<n, k>> # <<t[3], retryQ[t]>>
        <4>1. retryQ'[<<t[1], t[2], n>>] =
                IF n = t[3] THEN retryQ[t] - 1 ELSE retryQ[<<t[1], t[2], n>>]
          BY <1>0, <2>1, <3>1
        <4>2. n = t[3] => retryQ[<<t[1], t[2], n>>] = retryQ[t]
          BY <1>0
        <4> QED BY <1>0, <3>2, <4>1, <4>2, DeliveryAssumption
      <3> QED BY <3>3, <3>4 DEF Waiting
    <2>4. ASSUME NEW a \in AlertId, NEW c \in Consumer
          PROVE  Account(a, c)'
      <3>1. CASE a = t[1] /\ c = t[2]
        <4>1. Cardinality(Waiting(a, c)') = Cardinality(Waiting(a, c)) - 1
          <5>1. PICK p : Waiting(a, c)' = Waiting(a, c) \ {p} /\ p \in Waiting(a, c)
            BY <2>3, <3>1
          <5>2. IsFiniteSet(Waiting(a, c))
            BY AccountNumbers
          <5> QED BY <5>1, <5>2, FS_RemoveElement
        <4> QED BY <1>0, <1>1, <1>3, <2>1, <3>1, <4>1, AccountNumbers DEF Account
      <3>2. CASE a # t[1] \/ c # t[2]
        BY <1>0, <1>1, <1>3, <2>1, <2>2, <3>2, AccountNumbers DEF Account
      <3> QED BY <3>1, <3>2
    <2> QED BY <1>2, <2>4, OneByOneKept DEF ChainsAccounted
  <1>5. CASE TakeRestoredRetry(w, t)
    <2>1. faults' = faults + 1 /\ retryQ' = retryQ
      BY <1>5 DEF TakeRestoredRetry, Fault
    <2>2. ASSUME NEW a \in AlertId, NEW c \in Consumer
          PROVE  Account(a, c)'
      <3>1. Waiting(a, c)' = Waiting(a, c)
        BY <2>1 DEF Waiting
      <3> QED BY <1>0, <1>1, <1>3, <2>1, <3>1, AccountNumbers DEF Account
    <2> QED BY <1>2, <2>2, OneByOneKept DEF ChainsAccounted
  <1> QED BY <1>4, <1>5

\* A worker that ends its task pursues nothing.
LEMMA StopPursues ==
  ASSUME NEW w, Stop(w)
  PROVE  \E u : /\ deliverer' = [deliverer EXCEPT ![w] = u]
                /\ OneByOne(u)
                /\ \A a, c : ~Pursues(u, a, c)
  BY IdleTyped DEF Stop, OneByOne, Pursues

\* One that goes on has the consumers left that were to do.
LEMMA ContinuePursues ==
  ASSUME DeliveryInv, NEW w \in Deliverer, Continue(w)
  PROVE  \E u : /\ deliverer' = [deliverer EXCEPT ![w] = u]
                /\ OneByOne(u)
                /\ \A a, c : Pursues(u, a, c) => a = deliverer[w].alert /\ c \in deliverer[w].todo
  <1> DEFINE t == deliverer[w]
             u == [t EXCEPT !.pc = "each", !.consumer = None, !.row = 0, !.raw = None]
  <1>1. CASE Stop(w)
    <2>1. PICK v : /\ deliverer' = [deliverer EXCEPT ![w] = v]
                   /\ OneByOne(v)
                   /\ \A a, c : ~Pursues(v, a, c)
      BY <1>1, StopPursues
    <2> QED BY <2>1
  <1>2. CASE deliverer' = [deliverer EXCEPT ![w] = u]
    <2>1. t \in DelivererState
      BY DEF DeliveryInv, TablesTyped, DeliveryTypeOK
    <2>2. u.pc = "each" /\ u.alert = t.alert /\ u.todo = t.todo
      BY <2>1 DEF DelivererState
    <2>3. OneByOne(u) /\ \A a, c : Pursues(u, a, c) => a = t.alert /\ c \in t.todo
      BY <2>2 DEF OneByOne, Pursues
    <2> QED BY <1>2, <2>3
  <1> QED BY <1>1, <1>2 DEF Continue

\* A worker that goes on with no more than it had, and queues and records nothing.
LEMMA QuietAccounts ==
  ASSUME DeliveryInv, ChainsAccounted, NEW w \in Deliverer, NEW u,
         deliverer' = [deliverer EXCEPT ![w] = u], OneByOne(u),
         \A a, c : Pursues(u, a, c) => Pursues(deliverer[w], a, c),
         \A a, c : Successes(a, c)' = Successes(a, c),
         UNCHANGED <<retryQ, chains>>, faults' \in Nat, faults <= faults'
  PROVE  ChainsAccounted'
  <1>1. ASSUME NEW a \in AlertId, NEW c \in Consumer
        PROVE  Account(a, c)'
    <2>1. Waiting(a, c)' = Waiting(a, c)
      BY DEF Waiting
    <2>2. chains'[a] \in Nat /\ chains[a] <= chains'[a]
      BY AccountNumbers
    <2>3. Pursues(u, a, c) => Pursues(deliverer[w], a, c)
      OBVIOUS
    <2>4. Successes(a, c)' = Successes(a, c)
      OBVIOUS
    <2> QED BY <2>1, <2>2, <2>3, <2>4, QuietAccount
  <1> QED BY <1>1, OneByOneKept DEF ChainsAccounted

\* No row was written.
LEMMA SuccessesKept ==
  ASSUME UNCHANGED delivery
  PROVE  \A a, c : Successes(a, c)' = Successes(a, c)
  BY DEF Successes, Rows

\* Ending a task, for a fault or not.
LEMMA StopAccounts ==
  ASSUME DeliveryInv, ChainsAccounted, NEW w \in Deliverer, Stop(w),
         UNCHANGED <<retryQ, chains, delivery>>, faults' \in {faults, faults + 1}
  PROVE  ChainsAccounted'
  <1>1. PICK u : /\ deliverer' = [deliverer EXCEPT ![w] = u]
                 /\ OneByOne(u)
                 /\ \A a, c : ~Pursues(u, a, c)
    BY StopPursues
  <1>2. faults \in Nat
    BY DeliveryAssumption DEF DeliveryInv, TablesTyped, DeliveryTypeOK
  <1>3. faults' \in Nat /\ faults <= faults'
    BY <1>2
  <1>4. \A a, c : Successes(a, c)' = Successes(a, c)
    BY SuccessesKept
  <1> QED BY <1>1, <1>3, <1>4, QuietAccounts

\* The insert moves a consumer from those to do to the one attempted.
LEMMA InsertAccounts ==
  ASSUME DeliveryInv, ChainsAccounted, NEW w \in Deliverer, NEW c \in Consumer,
         NEW d \in DeliveryId, InsertPending(w, c, d)
  PROVE  ChainsAccounted'
  <1> DEFINE t == deliverer[w]
             row == [alert |-> t.alert, consumer |-> c, attempt |-> t.attempt, status |-> "pending"]
             u == [t EXCEPT !.pc = "post", !.todo = @ \ {c}, !.consumer = c, !.row = d,
                            !.fresh = FALSE]
  <1>1. /\ t \in DelivererState /\ t.pc = "each" /\ c \in t.todo
        /\ UNCHANGED <<retryQ, chains, faults>>
    BY DEF InsertPending, DeliveryInv, TablesTyped, DeliveryTypeOK
  <1>2. CASE Stop(w) /\ UNCHANGED delivery
    BY <1>1, <1>2, StopAccounts
  <1>3. CASE /\ delivery' = [delivery EXCEPT ![d] = row]
             /\ deliverer' = [deliverer EXCEPT ![w] = u]
    <2>1. /\ u.pc = "post" /\ u.alert = t.alert /\ u.todo = t.todo \ {c} /\ u.consumer = c
      BY <1>1 DEF DelivererState
    <2>2. OneByOne(u) /\ \A a, e : Pursues(u, a, e) => Pursues(t, a, e)
      BY <1>1, <2>1 DEF OneByOne, Pursues
    <2>3. delivery[d] = None
      BY DEF InsertPending, IsFresh, Unused
    <2>4. /\ delivery'[d].status = "pending"
          /\ \A e \in DeliveryId \ {d} : delivery'[e] = delivery[e]
      BY <1>3 DEF DeliveryInv, TablesTyped, DeliveryTypeOK
    <2>5. \A a, e : Successes(a, e)' = Successes(a, e)
      BY <2>3, <2>4 DEF Successes, Rows
    <2>6. faults' \in Nat /\ faults <= faults'
      BY <1>1, DeliveryAssumption DEF DeliveryInv, TablesTyped, DeliveryTypeOK
    <2> QED BY <1>1, <1>3, <2>2, <2>5, <2>6, QuietAccounts
  <1> QED BY <1>2, <1>3 DEF InsertPending

\* A worker that moves on with the attempt it has.
LEMMA GotoAccounts ==
  ASSUME DeliveryInv, ChainsAccounted, NEW w \in Deliverer, NEW u,
         deliverer' = [deliverer EXCEPT ![w] = u],
         u.pc \in {"ok", "bad", "schedule", "read", "write"},
         u.pc \in {"ok", "bad", "schedule"} => deliverer[w].pc \in {"post", "bad"},
         deliverer[w].pc \notin {"idle", "each"},
         u.alert = deliverer[w].alert, u.todo = deliverer[w].todo,
         u.consumer = deliverer[w].consumer,
         \A a, c : Successes(a, c)' = Successes(a, c),
         UNCHANGED <<retryQ, chains, faults>>
  PROVE  ChainsAccounted'
  <1>1. OneByOne(u) /\ \A a, c : Pursues(u, a, c) => Pursues(deliverer[w], a, c)
    BY DEF OneByOne, Pursues, ChainsAccounted
  <1>2. faults' \in Nat /\ faults <= faults'
    BY DeliveryAssumption DEF DeliveryInv, TablesTyped, DeliveryTypeOK
  <1> QED BY <1>1, <1>2, QuietAccounts

\* The answer of the consumer is not on record yet.
LEMMA PostAccounts ==
  ASSUME DeliveryInv, ChainsAccounted, NEW w \in Deliverer, Post(w)
  PROVE  ChainsAccounted'
  <1>1. /\ deliverer[w] \in DelivererState /\ deliverer[w].pc = "post"
        /\ UNCHANGED <<retryQ, chains, faults, delivery>>
    BY DEF Post, DeliveryInv, TablesTyped, DeliveryTypeOK
  <1>2. CASE Stop(w)
    BY <1>1, <1>2, StopAccounts
  <1>3. ASSUME NEW label \in {"ok", "bad"}, Goto(w, label)
        PROVE  ChainsAccounted'
    <2> DEFINE u == [deliverer[w] EXCEPT !.pc = label]
    <2>1. /\ u.pc = label /\ u.alert = deliverer[w].alert /\ u.todo = deliverer[w].todo
          /\ u.consumer = deliverer[w].consumer
      BY <1>1 DEF DelivererState
    <2>2. deliverer' = [deliverer EXCEPT ![w] = u]
      BY <1>3 DEF Goto
    <2> HIDE DEF u
    <2> QED BY <1>1, <1>3, <2>1, <2>2, SuccessesKept, GotoAccounts
  <1> QED BY <1>2, <1>3 DEF Post

\* The row of the attempt becomes a success, and the attempt is over.
LEMMA SuccessAccounts ==
  ASSUME DeliveryInv, ChainsAccounted, NEW w \in Deliverer, RecordSuccess(w)
  PROVE  ChainsAccounted'
  <1> DEFINE t == deliverer[w]
             u == [t EXCEPT !.pc = "read", !.verdict = "forwarded"]
  <1>1. /\ t \in DelivererState /\ t.pc = "ok" /\ OwnRow(w) /\ OneByOne(t)
        /\ UNCHANGED <<retryQ, chains, faults>>
    BY DEF RecordSuccess, DeliveryInv, TablesTyped, DeliveryTypeOK, WorkerInv, ChainsAccounted
  <1>2. CASE Stop(w) /\ UNCHANGED delivery
    BY <1>1, <1>2, StopAccounts
  <1>3. CASE /\ delivery[t.row] # None
             /\ delivery' = [delivery EXCEPT ![t.row].status = "success"]
             /\ deliverer' = [deliverer EXCEPT ![w].pc = "read", ![w].verdict = "forwarded"]
    <2>1. deliverer' = [deliverer EXCEPT ![w] = u]
      BY <1>3 DEF DeliveryInv, TablesTyped, DeliveryTypeOK
    <2>2. u.pc = "read" /\ u.alert = t.alert /\ u.todo = t.todo /\ u.consumer = t.consumer
      BY <1>1 DEF DelivererState
    <2> HIDE DEF u
    <2>3. OneByOne(u)
      BY <1>1, <2>2 DEF OneByOne
    <2>4. PICK d \in DeliveryId : d = t.row
      BY <1>1 DEF OwnRow, Attempting, DelivererState
    <2>5. /\ delivery[d] # None /\ delivery[d].alert = t.alert
          /\ delivery[d].consumer = t.consumer /\ delivery[d].status = "pending"
          /\ delivery[d] \in DeliveryRow
      BY <1>1, <1>3, <2>4 DEF OwnRow, Attempting, DeliveryInv, TablesTyped, DeliveryTypeOK
    <2>6. /\ delivery'[d] # None /\ delivery'[d].alert = t.alert
          /\ delivery'[d].consumer = t.consumer /\ delivery'[d].status = "success"
          /\ \A e \in DeliveryId \ {d} : delivery'[e] = delivery[e]
      <3>1. delivery'[d] = [delivery[d] EXCEPT !.status = "success"]
        BY <1>3, <2>4 DEF DeliveryInv, TablesTyped, DeliveryTypeOK
      <3>2. delivery'[d] \in DeliveryRow
        BY <2>5, <3>1 DEF DeliveryRow, Status
      <3>3. /\ delivery'[d].alert = t.alert
            /\ delivery'[d].consumer = t.consumer /\ delivery'[d].status = "success"
        BY <2>5, <3>1 DEF DeliveryRow
      <3>4. \A e \in DeliveryId \ {d} : delivery'[e] = delivery[e]
        BY <1>3, <2>4 DEF DeliveryInv, TablesTyped, DeliveryTypeOK
      <3> QED BY <3>2, <3>3, <3>4, NoneIsNoDelivery
    <2>7. ASSUME NEW a \in AlertId, NEW c \in Consumer
          PROVE  Account(a, c)'
      <3>1. Waiting(a, c)' = Waiting(a, c)
        BY <1>1 DEF Waiting
      <3>2. CASE a = t.alert /\ c = t.consumer
        <4>1. Pursues(t, a, c) /\ ~Pursues(u, a, c)
          BY <1>1, <2>2, <3>2 DEF Pursues, OneByOne
        <4>2. /\ IsFiniteSet(Busy(a, c)')
              /\ Cardinality(Busy(a, c)') =
                   Cardinality(Busy(a, c)) + (IF Pursues(u, a, c) THEN 1 ELSE 0)
                     - (IF Pursues(deliverer[w], a, c) THEN 1 ELSE 0)
          BY <2>1, AccountNumbers, BusyStep
        <4>3. Successes(a, c)' = Successes(a, c) \cup {d} /\ d \notin Successes(a, c)
          BY <2>5, <2>6, <3>2 DEF Successes, Rows
        <4>4. IsFiniteSet(Successes(a, c))
          BY AccountNumbers
        <4>5. /\ IsFiniteSet(Successes(a, c)')
              /\ Cardinality(Successes(a, c)') = Cardinality(Successes(a, c)) + 1
          BY <4>3, <4>4, FS_AddElement
        <4> QED BY <1>1, <3>1, <4>1, <4>2, <4>5, AccountNumbers DEF Account
      <3>3. CASE a # t.alert \/ c # t.consumer
        <4>1. Successes(a, c)' = Successes(a, c)
          BY <2>5, <2>6, <3>3 DEF Successes, Rows
        <4>2. Pursues(u, a, c) => Pursues(deliverer[w], a, c)
          BY <1>1, <2>2 DEF Pursues
        <4>3. /\ chains'[a] \in Nat /\ chains[a] <= chains'[a]
              /\ faults' \in Nat /\ faults <= faults'
          BY <1>1, AccountNumbers
        <4> QED BY <2>1, <3>1, <4>1, <4>2, <4>3, QuietAccount
      <3> QED BY <3>2, <3>3
    <2> QED BY <2>1, <2>3, <2>7, OneByOneKept DEF ChainsAccounted
  <1> QED BY <1>2, <1>3 DEF RecordSuccess

\* A failure is no success, and its retry is still to come.
LEMMA FailureAccounts ==
  ASSUME DeliveryInv, ChainsAccounted, NEW w \in Deliverer, RecordFailure(w)
  PROVE  ChainsAccounted'
  <1> DEFINE t == deliverer[w]
  <1>1. /\ t \in DelivererState /\ t.pc = "bad" /\ OwnRow(w)
        /\ UNCHANGED <<retryQ, chains, faults>>
    BY DEF RecordFailure, DeliveryInv, TablesTyped, DeliveryTypeOK, WorkerInv
  <1>2. CASE Stop(w) /\ UNCHANGED delivery
    BY <1>1, <1>2, StopAccounts
  <1>3. ASSUME NEW st \in {"failed", "giving_up"}, delivery[t.row] # None,
               delivery' = [delivery EXCEPT ![t.row].status = st]
        PROVE  \A a, c : Successes(a, c)' = Successes(a, c)
    <2>1. PICK d \in DeliveryId : d = t.row
      BY <1>1 DEF OwnRow, Attempting, DelivererState
    <2>2. delivery[d] # None /\ delivery[d].status = "pending" /\ delivery[d] \in DeliveryRow
      BY <1>1, <1>3, <2>1 DEF OwnRow, Attempting, DeliveryInv, TablesTyped, DeliveryTypeOK
    <2>3. delivery'[d] = [delivery[d] EXCEPT !.status = st]
      BY <1>3, <2>1 DEF DeliveryInv, TablesTyped, DeliveryTypeOK
    <2>4. delivery'[d].status = st
      BY <2>2, <2>3 DEF DeliveryRow
    <2>5. \A e \in DeliveryId \ {d} : delivery'[e] = delivery[e]
      BY <1>3, <2>1 DEF DeliveryInv, TablesTyped, DeliveryTypeOK
    <2> QED BY <2>2, <2>4, <2>5 DEF Successes, Rows
  <1>4. CASE /\ delivery[t.row] # None
             /\ delivery' = [delivery EXCEPT ![t.row].status = "giving_up"]
             /\ deliverer' = [deliverer EXCEPT ![w].pc = "read", ![w].verdict = "forward_failed"]
    <2> DEFINE u == [t EXCEPT !.pc = "read", !.verdict = "forward_failed"]
    <2>1. deliverer' = [deliverer EXCEPT ![w] = u]
      BY <1>4 DEF DeliveryInv, TablesTyped, DeliveryTypeOK
    <2>2. u.pc = "read" /\ u.alert = t.alert /\ u.todo = t.todo /\ u.consumer = t.consumer
      BY <1>1 DEF DelivererState
    <2>3. \A a, c : Successes(a, c)' = Successes(a, c)
      BY <1>3, <1>4
    <2> HIDE DEF u
    <2> QED BY <1>1, <2>1, <2>2, <2>3, GotoAccounts
  <1>5. CASE /\ delivery[t.row] # None
             /\ delivery' = [delivery EXCEPT ![t.row].status = "failed"]
             /\ Goto(w, "schedule")
    <2> DEFINE u == [t EXCEPT !.pc = "schedule"]
    <2>1. deliverer' = [deliverer EXCEPT ![w] = u]
      BY <1>5 DEF Goto
    <2>2. u.pc = "schedule" /\ u.alert = t.alert /\ u.todo = t.todo /\ u.consumer = t.consumer
      BY <1>1 DEF DelivererState
    <2>3. \A a, c : Successes(a, c)' = Successes(a, c)
      BY <1>3, <1>5
    <2> HIDE DEF u
    <2> QED BY <1>1, <2>1, <2>2, <2>3, GotoAccounts
  <1> QED BY <1>2, <1>4, <1>5 DEF RecordFailure

\* The verdict on the raw row is not part of the account.
LEMMA VerdictAccounts ==
  ASSUME DeliveryInv, ChainsAccounted, NEW w \in Deliverer, ReadRaw(w) \/ WriteRaw(w)
  PROVE  ChainsAccounted'
  <1> DEFINE t == deliverer[w]
  <1>1. /\ t \in DelivererState /\ t.pc \in {"read", "write"}
        /\ UNCHANGED <<retryQ, chains, faults, delivery>>
    BY DEF ReadRaw, WriteRaw, DeliveryInv, TablesTyped, DeliveryTypeOK
  <1>2. faults' \in Nat /\ faults <= faults'
    BY <1>1, DeliveryAssumption DEF DeliveryInv, TablesTyped, DeliveryTypeOK
  <1>3. \A a, c : Successes(a, c)' = Successes(a, c)
    BY <1>1, SuccessesKept
  <1>4. CASE Stop(w)
    BY <1>1, <1>4, StopAccounts
  <1>5. CASE Continue(w)
    <2>1. PICK u : /\ deliverer' = [deliverer EXCEPT ![w] = u]
                   /\ OneByOne(u)
                   /\ \A a, c : Pursues(u, a, c) => a = t.alert /\ c \in t.todo
      BY <1>5, ContinuePursues
    <2>2. \A a, c : Pursues(u, a, c) => Pursues(t, a, c)
      BY <1>1, <2>1 DEF Pursues
    <2> QED BY <1>1, <1>2, <1>3, <2>1, <2>2, QuietAccounts
  <1>6. ASSUME NEW r, deliverer' = [deliverer EXCEPT ![w].pc = "write", ![w].raw = r]
        PROVE  ChainsAccounted'
    <2> DEFINE u == [t EXCEPT !.pc = "write", !.raw = r]
    <2>1. deliverer' = [deliverer EXCEPT ![w] = u]
      BY <1>6 DEF DeliveryInv, TablesTyped, DeliveryTypeOK
    <2>2. u.pc = "write" /\ u.alert = t.alert /\ u.todo = t.todo /\ u.consumer = t.consumer
      BY <1>1 DEF DelivererState
    <2> HIDE DEF u
    <2> QED BY <1>1, <1>3, <2>1, <2>2, GotoAccounts
  <1> QED BY <1>4, <1>5, <1>6 DEF ReadRaw, WriteRaw

\* The attempt is over, and the one that follows it waits.
LEMMA ScheduleAccounts ==
  ASSUME DeliveryInv, ChainsAccounted, NEW w \in Deliverer, ScheduleRetry(w)
  PROVE  ChainsAccounted'
  <1> DEFINE t == deliverer[w]
  <1>1. /\ t \in DelivererState /\ t.pc = "schedule" /\ OneByOne(t)
        /\ t.alert \in AlertId /\ t.consumer \in Consumer
        /\ UNCHANGED <<chains, faults, delivery>>
    BY DEF ScheduleRetry, DeliveryInv, TablesTyped, DeliveryTypeOK, ChainsAccounted, WorkerInv,
           OnItsAlert, DelivererState
  <1>2. CASE Stop(w) /\ UNCHANGED retryQ
    BY <1>1, <1>2, StopAccounts
  <1>3. CASE /\ retryQ' = [retryQ EXCEPT ![<<t.alert, t.consumer, t.attempt + 1>>] =
                             IF @ < QueueCap THEN @ + 1 ELSE @]
             /\ Continue(w)
    <2>1. PICK u : /\ deliverer' = [deliverer EXCEPT ![w] = u]
                   /\ OneByOne(u)
                   /\ \A a, c : Pursues(u, a, c) => a = t.alert /\ c \in t.todo
      BY <1>3, ContinuePursues
    <2>2. PICK b \in AlertId, e \in Consumer, n \in Int :
            b = t.alert /\ e = t.consumer /\ n = t.attempt + 1
      BY <1>1, DeliveryAssumption DEF DelivererState, Attempt
    <2>3. \A s \in RetryTask : /\ s # <<b, e, n>> => retryQ'[s] = retryQ[s]
                               /\ retryQ'[s] <= retryQ[s] + 1
                               /\ retryQ[s] <= retryQ'[s]
                               /\ retryQ[s] \in 0..QueueCap
                               /\ retryQ'[s] \in Int
      <3>1. PICK q \in [RetryTask -> 0..QueueCap] : q = retryQ
        BY DEF DeliveryInv, TablesTyped, DeliveryTypeOK
      <3>2. PICK z : z = <<b, e, n>>
        OBVIOUS
      <3>3. retryQ' = [q EXCEPT ![z] = IF @ < QueueCap THEN @ + 1 ELSE @]
        BY <1>3, <2>2, <3>1, <3>2
      <3>4. \A s \in RetryTask :
              /\ q[s] \in 0..QueueCap
              /\ retryQ'[s] = IF s = z THEN (IF q[s] < QueueCap THEN q[s] + 1 ELSE q[s]) ELSE q[s]
        BY <3>1, <3>3
      <3> QED BY <3>1, <3>2, <3>4, DeliveryAssumption
    <2>4. ASSUME NEW a \in AlertId, NEW c \in Consumer
          PROVE  Account(a, c)'
      <3>0. Successes(a, c)' = Successes(a, c)
        BY <1>1, SuccessesKept
      <3>1. \A m \in Attempt : <<a, c, m>> \in RetryTask
        BY DEF RetryTask
      <3>2. CASE a = b /\ c = e
        <4>1. Pursues(t, a, c) /\ ~Pursues(u, a, c)
          BY <1>1, <2>1, <2>2, <3>2 DEF Pursues, OneByOne
        <4>2. /\ IsFiniteSet(Busy(a, c)')
              /\ Cardinality(Busy(a, c)') =
                   Cardinality(Busy(a, c)) + (IF Pursues(u, a, c) THEN 1 ELSE 0)
                     - (IF Pursues(deliverer[w], a, c) THEN 1 ELSE 0)
          BY <2>1, AccountNumbers, BusyStep
        <4>3. /\ IsFiniteSet(Waiting(a, c)')
              /\ Cardinality(Waiting(a, c)') <= Cardinality(Waiting(a, c)) + 1
          <5>1. PICK p : p = <<n, retryQ[<<a, c, n>>] + 1>>
            OBVIOUS
          <5>2. ASSUME NEW m \in Attempt, NEW k \in 1..QueueCap, k <= retryQ'[<<a, c, m>>],
                       k > retryQ[<<a, c, m>>]
                PROVE  <<m, k>> = p
            <6>1. m = n
              BY <2>3, <3>1, <3>2, <5>2
            <6>2. k = retryQ[<<a, c, n>>] + 1
              <7>1. /\ retryQ'[<<a, c, m>>] <= retryQ[<<a, c, m>>] + 1
                    /\ retryQ[<<a, c, m>>] \in Int /\ retryQ'[<<a, c, m>>] \in Int /\ k \in Int
                BY <2>3, <3>1
              <7>2. k = retryQ[<<a, c, m>>] + 1
                BY <5>2, <7>1
              <7> QED BY <6>1, <7>2
            <6> QED BY <5>1, <6>1, <6>2
          <5>3. Waiting(a, c)' \subseteq Waiting(a, c) \cup {p}
            <6> SUFFICES ASSUME NEW m \in Attempt, NEW k \in 1..QueueCap,
                                k <= retryQ'[<<a, c, m>>], <<m, k>> # p
                         PROVE  k <= retryQ[<<a, c, m>>]
              BY DEF Waiting
            <6>1. retryQ[<<a, c, m>>] \in Int /\ k \in Int
              BY <2>3, <3>1
            <6> QED BY <5>2, <6>1
          <5>4. IsFiniteSet(Waiting(a, c)) /\ Cardinality(Waiting(a, c)) \in Nat
            BY AccountNumbers
          <5>5. /\ IsFiniteSet(Waiting(a, c) \cup {p})
                /\ Cardinality(Waiting(a, c) \cup {p}) <= Cardinality(Waiting(a, c)) + 1
            <6>1. /\ IsFiniteSet(Waiting(a, c) \cup {p})
                  /\ \/ Cardinality(Waiting(a, c) \cup {p}) = Cardinality(Waiting(a, c))
                     \/ Cardinality(Waiting(a, c) \cup {p}) = Cardinality(Waiting(a, c)) + 1
              <7>1. PICK S : S = Waiting(a, c)
                OBVIOUS
              <7>2. /\ IsFiniteSet(S \cup {p})
                    /\ \/ Cardinality(S \cup {p}) = Cardinality(S)
                       \/ Cardinality(S \cup {p}) = Cardinality(S) + 1
                BY <5>4, <7>1, FS_AddElement
              <7> QED BY <7>1, <7>2
            <6> QED BY <5>4, <6>1
          <5>6. /\ IsFiniteSet(Waiting(a, c)')
                /\ Cardinality(Waiting(a, c)') <= Cardinality(Waiting(a, c) \cup {p})
            BY <5>3, <5>5, FS_Subset
          <5>7. Cardinality(Waiting(a, c)') \in Nat /\ Cardinality(Waiting(a, c) \cup {p}) \in Nat
            BY <5>5, <5>6, FS_CardinalityType
          <5> QED BY <5>4, <5>5, <5>6, <5>7
        <4>4. Cardinality(Waiting(a, c)') \in Nat /\ Cardinality(Busy(a, c)') \in Nat
          BY <4>2, <4>3, FS_CardinalityType
        <4> QED BY <1>1, <3>0, <4>1, <4>2, <4>3, <4>4, AccountNumbers DEF Account
      <3>3. CASE a # b \/ c # e
        <4>1. Waiting(a, c)' = Waiting(a, c)
          <5>1. \A m \in Attempt : retryQ'[<<a, c, m>>] = retryQ[<<a, c, m>>]
            BY <2>3, <3>1, <3>3
          <5> QED BY <5>1 DEF Waiting
        <4>2. Pursues(u, a, c) => Pursues(deliverer[w], a, c)
          BY <1>1, <2>1 DEF Pursues
        <4>3. /\ chains'[a] \in Nat /\ chains[a] <= chains'[a]
              /\ faults' \in Nat /\ faults <= faults'
          BY <1>1, AccountNumbers
        <4> QED BY <2>1, <3>0, <4>1, <4>2, <4>3, QuietAccount
      <3> QED BY <3>2, <3>3
    <2> QED BY <2>1, <2>4, OneByOneKept DEF ChainsAccounted
  <1> QED BY <1>2, <1>3 DEF ScheduleRetry

\* Requests start no attempt; the rows of a deleted consumer go.
LEMMA RequestAccounts ==
  ASSUME DeliveryInv, ChainsAccounted, UNCHANGED <<retryQ, deliverer, chains, faults>>,
         \A d \in DeliveryId : delivery'[d] \in {delivery[d], None}
  PROVE  ChainsAccounted'
  <1>1. ASSUME NEW a \in AlertId, NEW c \in Consumer
        PROVE  Account(a, c)'
    <2>1. Waiting(a, c)' = Waiting(a, c) /\ Busy(a, c)' = Busy(a, c)
      BY DEF Waiting, Busy
    <2>2. Successes(a, c)' \subseteq Successes(a, c)
      BY DEF Successes, Rows
    <2>3. IsFiniteSet(Successes(a, c))
      BY AccountNumbers
    <2>4. /\ IsFiniteSet(Successes(a, c)')
          /\ Cardinality(Successes(a, c)') <= Cardinality(Successes(a, c))
      BY <2>2, <2>3, FS_Subset
    <2>5. Cardinality(Successes(a, c)') \in Nat
      BY <2>4, FS_CardinalityType
    <2> QED BY <2>1, <2>4, <2>5, AccountNumbers DEF Account
  <1> QED BY <1>1 DEF ChainsAccounted

\* Nothing is under way at first.
LEMMA InitAccounts == DeliveryInit => ChainsAccounted
  <1> SUFFICES ASSUME DeliveryInit PROVE ChainsAccounted
    OBVIOUS
  <1>1. \A w \in Deliverer : OneByOne(deliverer[w])
    BY IdleTyped DEF DeliveryInit, OneByOne
  <1>2. ASSUME NEW a \in AlertId, NEW c \in Consumer
        PROVE  Account(a, c)
    <2>1. Busy(a, c) = {}
      BY IdleTyped DEF DeliveryInit, Busy, Pursues
    <2>2. Waiting(a, c) = {}
      <3>1. \A n \in Attempt : retryQ[<<a, c, n>>] = 0
        BY DEF DeliveryInit, RetryTask
      <3> QED BY <3>1 DEF Waiting
    <2>3. Successes(a, c) = {}
      BY DEF DeliveryInit, Successes, Rows
    <2>4. chains[a] = 0 /\ faults = 0
      BY DEF DeliveryInit
    <2> QED BY <2>1, <2>2, <2>3, <2>4, FS_EmptySet DEF Account
  <1> QED BY <1>1, <1>2 DEF ChainsAccounted

\* Every step keeps the accounts.
LEMMA NextAccounts ==
  DeliveryInv /\ ChainsAccounted /\ [DeliveryNext]_deliveryVars => ChainsAccounted'
  <1> SUFFICES ASSUME DeliveryInv, ChainsAccounted, [DeliveryNext]_deliveryVars
               PROVE  ChainsAccounted'
    OBVIOUS
  <1>1. CASE UNCHANGED deliveryVars
    BY <1>1, RequestAccounts DEF deliveryVars
  <1>2. CASE \E w \in Deliverer : DeliverTask(w)
    BY <1>2, TakeDeliverAccount, TakeRetryAccount DEF DeliverTask
  <1>3. CASE \E w \in Deliverer : DeliverStep(w)
    BY <1>3, InsertAccounts, PostAccounts, SuccessAccounts, FailureAccounts, VerdictAccounts,
       ScheduleAccounts DEF DeliverStep
  <1>4. CASE \E w \in Deliverer, t \in RetryTask : TakeRestoredRetry(w, t)
    BY <1>4, TakeRetryAccount
  <1>5. CASE \E w \in Deliverer : ScheduleFails(w) \/ DelivererCrash(w)
    BY <1>5, StopAccounts DEF ScheduleFails, DelivererCrash, Fault
  <1>6. CASE \E a \in AlertId : Redeliver(a) \/ AlertDeleted(a)
    BY <1>6, RequestAccounts DEF Redeliver, AlertDeleted, localVars
  <1>7. CASE ConsumerRequest
    <2>1. \A c \in Consumer : DeleteConsumer(c) =>
            \A d \in DeliveryId : delivery'[d] \in {delivery[d], None}
      BY DEF DeleteConsumer
    <2> QED BY <1>7, <2>1, RequestAccounts
            DEF ConsumerRequest, CreateConsumer, UpdateConsumer, DeleteConsumer, SetConsumer
  <1> QED BY <1>1, <1>2, <1>3, <1>4, <1>5, <1>6, <1>7
          DEF DeliveryNext, DeliveryStage, TestConsumer

\* Attempts under way, waiting and successful are accounted for by the delivery
\* tasks taken and the faults.
THEOREM ChainsAreAccounted == DeliverySpec => []ChainsAccounted
  <1>1. DeliveryInit => ChainsAccounted
    BY InitAccounts
  <1>2. DeliveryInv /\ ChainsAccounted /\ [DeliveryNext]_deliveryVars => ChainsAccounted'
    BY NextAccounts
  <1> QED BY <1>1, <1>2, DeliveryInvariant, PTL DEF DeliverySpec

\* A consumer acknowledges an alert once for every delivery task, and once more
\* for a retry the broker repeats.
THEOREM SuccessesFollowChains == DeliverySpec => []OneSuccessPerChain
  <1>1. DeliveryInv /\ ChainsAccounted => OneSuccessPerChain
    <2> SUFFICES ASSUME DeliveryInv, ChainsAccounted, NEW a \in AlertId, NEW c \in Consumer
                 PROVE  Cardinality(Successes(a, c)) <= chains[a] + faults
      BY DEF OneSuccessPerChain, Successes
    <2> QED BY AccountNumbers
  <1> QED BY <1>1, DeliveryInvariant, ChainsAreAccounted, PTL
=============================================================================
