--------------------------- MODULE AlertParseProofs ---------------------------
(***************************************************************************)
(* Theorems of AlertParse: types, and that a message counted as parsed has *)
(* an alert, which stays with the camera of its message, for any number of *)
(* messages, workers, retries and faults.                                  *)
(***************************************************************************)
EXTENDS AlertParse, TLAPS

-----------------------------------------------------------------------------
(* The inductive invariant *)

\* The row of a running task exists; its camera is the one that was read, or
\* has been deleted since.
TaskOfRow(w) ==
  LET t == parser[w] IN
  t.pc # "idle" => /\ t.raw # None
                   /\ raw[t.raw] # None
                   /\ raw[t.raw].camera \in {t.cam, None}

AtCommit(w) == parser[w].pc = "commit"

\* The alert that is about to be committed is nobody else's.
DraftIsNew(w) ==
  AtCommit(w) =>
    /\ parser[w].id \in drawn
    /\ alert[parser[w].id] = None
    /\ \A v \in Worker \ {w} : AtCommit(v) => parser[v].id # parser[w].id

\* Only an alert that exists is handed over.
HandsOver(w) == parser[w].pc = "enqueue" => parser[w].id # None

WorkersInv == \A w \in Worker : TaskOfRow(w) /\ DraftIsNew(w) /\ HandsOver(w)

AlertsAreDrawn == \A a \in AlertId : alert[a] # None => a \in drawn

ParseInv ==
  ParseTypeOK /\ WorkersInv /\ AlertsAreDrawn /\ AlertOfItsCamera /\ ParsedHasAlert

Handled == {"parsed", "forwarded", "forward_failed"}

-----------------------------------------------------------------------------
(* Types of the helpers *)

\* A worker without a task is typed.
LEMMA IdleTyped == IdleParser \in ParserState /\ IdleParser.pc = "idle"
  BY ParseAssumption DEF IdleParser, ParserState, RawStatus

\* The invariant holds before the first message.
LEMMA InitInv == ParseInit => ParseInv
  <1> SUFFICES ASSUME ParseInit PROVE ParseInv
    OBVIOUS
  <1> USE DEF ParseInit
  <1>1. ParseTypeOK
    BY IdleTyped, ParseAssumption DEF ParseTypeOK
  <1>2. WorkersInv
    BY IdleTyped DEF WorkersInv, TaskOfRow, DraftIsNew, AtCommit, HandsOver
  <1>3. AlertsAreDrawn /\ AlertOfItsCamera /\ ParsedHasAlert
    BY DEF AlertsAreDrawn, AlertOfItsCamera, ParsedHasAlert
  <1> QED
    BY <1>1, <1>2, <1>3 DEF ParseInv

\* A fault stays within its bound.
LEMMA FaultTyped == ParseTypeOK /\ Fault => faults' \in 0..MaxFaults
  BY ParseAssumption DEF ParseTypeOK, Fault

\* Queueing a task stays within the bound of the queue.
LEMMA PutTyped ==
  ASSUME ParseTypeOK, NEW r \in RawId, NEW n \in 0..MaxRetries
  PROVE  Put(parseQ, r, n) \in [RawId -> [0..MaxRetries -> 0..QueueCap]]
  BY ParseAssumption DEF ParseTypeOK, Put

\* So does handing an alert over.
LEMMA HandOverTyped ==
  ASSUME ParseTypeOK, NEW a \in AlertId, HandOver(a)
  PROVE  deliverQ' \in [AlertId -> 0..QueueCap]
  BY ParseAssumption DEF ParseTypeOK, HandOver

\* So does the sweep.
LEMMA ResendTyped ==
  ASSUME ParseTypeOK, NEW rs, Resend(rs)
  PROVE  parseQ' \in [RawId -> [0..MaxRetries -> 0..QueueCap]]
  BY ParseAssumption DEF ParseTypeOK, Resend

-----------------------------------------------------------------------------
(* Steps by what they write *)

\* A step of one worker that writes neither table keeps the invariant, if the
\* worker has no alert to commit afterwards.
LEMMA WorkerMoves ==
  ASSUME ParseInv, ParseTypeOK', UNCHANGED <<raw, alert, drawn>>,
         NEW w \in Worker, NEW t, parser' = [parser EXCEPT ![w] = t],
         t.pc # "commit",
         t.pc # "idle" => t.raw # None /\ raw[t.raw] # None /\ raw[t.raw].camera \in {t.cam, None},
         t.pc = "enqueue" => t.id # None
  PROVE  ParseInv'
  <1> USE DEF ParseInv
  <1>1. parser'[w] = t /\ \A v \in Worker \ {w} : parser'[v] = parser[v]
    BY DEF ParseTypeOK
  <1>2. WorkersInv'
    <2> SUFFICES ASSUME NEW v \in Worker PROVE (TaskOfRow(v) /\ DraftIsNew(v) /\ HandsOver(v))'
      BY DEF WorkersInv
    <2>1. TaskOfRow(v)'
      BY <1>1 DEF WorkersInv, TaskOfRow
    <2>2. DraftIsNew(v)'
      BY <1>1 DEF WorkersInv, DraftIsNew, AtCommit
    <2>3. HandsOver(v)'
      BY <1>1 DEF WorkersInv, HandsOver
    <2> QED BY <2>1, <2>2, <2>3
  <1>3. (AlertsAreDrawn /\ AlertOfItsCamera /\ ParsedHasAlert)'
    BY DEF AlertsAreDrawn, AlertOfItsCamera, ParsedHasAlert, AlertsOf
  <1> QED BY <1>2, <1>3

\* A worker that stops holds nothing.
LEMMA WorkerStops ==
  ASSUME ParseInv, ParseTypeOK', UNCHANGED <<raw, alert, drawn>>, NEW w \in Worker, Stop(w)
  PROVE  ParseInv'
  BY WorkerMoves, IdleTyped DEF Stop, IdleParser

\* A new status, of a message that has an alert or is not counted as parsed,
\* keeps what relates the tables to each other and to the workers.
LEMMA StatusWritten ==
  ASSUME ParseInv, ParseTypeOK', UNCHANGED <<alert, drawn>>,
         \A r \in RawId : /\ raw'[r] = None <=> raw[r] = None
                          /\ raw[r] # None => raw'[r].camera = raw[r].camera,
         \A r \in RawId : \/ raw'[r] = raw[r]
                          \/ raw'[r].status \notin Handled
                          \/ AlertsOf(r) # {},
         \A w \in Worker : parser'[w] = parser[w] \/ parser'[w] = IdleParser
  PROVE  ParseInv'
  <1> USE DEF ParseInv
  <1>1. WorkersInv'
    <2> SUFFICES ASSUME NEW v \in Worker PROVE (TaskOfRow(v) /\ DraftIsNew(v) /\ HandsOver(v))'
      BY DEF WorkersInv
    <2>1. TaskOfRow(v)'
      <3>1. CASE parser'[v] = IdleParser
        BY <3>1, IdleTyped DEF TaskOfRow
      <3>2. CASE parser'[v] = parser[v]
        <4>1. TaskOfRow(v) /\ parser[v].raw \in RawId \cup {None}
          BY DEF WorkersInv, ParseTypeOK, ParserState
        <4> QED BY <3>2, <4>1 DEF TaskOfRow
      <3> QED BY <3>1, <3>2
    <2>2. DraftIsNew(v)'
      BY IdleTyped DEF WorkersInv, DraftIsNew, AtCommit
    <2>3. HandsOver(v)'
      BY IdleTyped DEF WorkersInv, HandsOver
    <2> QED BY <2>1, <2>2, <2>3
  <1>2. AlertsAreDrawn'
    BY DEF AlertsAreDrawn
  <1>3. AlertOfItsCamera'
    BY DEF AlertOfItsCamera, ParseTypeOK, AlertRow
  <1>4. ParsedHasAlert'
    BY DEF ParsedHasAlert, AlertsOf, Handled
  <1> QED BY <1>1, <1>2, <1>3, <1>4
-----------------------------------------------------------------------------
(* The task *)

\* A task starts on a row that exists, with the camera it has.
LEMMA TakeKeeps ==
  ASSUME ParseInv, NEW w \in Worker, NEW r \in RawId, NEW n \in 0..MaxRetries, TakeParse(w, r, n)
  PROVE  ParseInv'
  <1> DEFINE t == IF raw[r] = None THEN IdleParser
                  ELSE [pc |-> "check", raw |-> r, retries |-> n, seen |-> raw[r].status,
                        cam |-> raw[r].camera, id |-> None]
  <1>1. parser' = [parser EXCEPT ![w] = t] /\ UNCHANGED <<raw, alert, drawn>>
    BY DEF TakeParse
  <1>2. t \in ParserState
    BY IdleTyped DEF ParseInv, ParseTypeOK, ParserState, RawRow
  <1>3. parseQ' \in [RawId -> [0..MaxRetries -> 0..QueueCap]]
    BY ParseAssumption DEF ParseInv, ParseTypeOK, TakeParse
  <1>4. ParseTypeOK'
    BY <1>1, <1>2, <1>3 DEF ParseInv, ParseTypeOK, TakeParse
  <1>5. t.pc # "idle" => t.raw # None /\ raw[t.raw] # None /\ raw[t.raw].camera \in {t.cam, None}
    BY IdleTyped, ParseAssumption
  <1>6. t.pc \in {"idle", "check"}
    BY IdleTyped
  <1> QED
    BY <1>1, <1>4, <1>5, <1>6, WorkerMoves

\* Looking for the alert of the message.
LEMMA CheckKeeps ==
  ASSUME ParseInv, NEW w \in Worker, CheckExisting(w)
  PROVE  ParseInv'
  <1> USE DEF ParseInv, CheckExisting
  <1>1. parser[w] \in ParserState /\ TaskOfRow(w)
    BY DEF ParseTypeOK, WorkersInv
  <1>2. CASE Stop(w)
    <2>1. ParseTypeOK'
      BY <1>2, IdleTyped DEF ParseTypeOK, Stop
    <2> QED BY <1>2, <2>1, WorkerStops
  <1>3. CASE parser' = [parser EXCEPT ![w].pc = "fetch"]
    <2> DEFINE t == [parser[w] EXCEPT !.pc = "fetch"]
    <2>1. parser' = [parser EXCEPT ![w] = t]
      BY <1>3
    <2>2. t \in ParserState
      BY <1>1 DEF ParserState
    <2>3. ParseTypeOK'
      BY <2>1, <2>2 DEF ParseTypeOK
    <2>4. t.pc = "fetch" /\ t.raw = parser[w].raw /\ t.cam = parser[w].cam
      BY <1>1 DEF ParserState
    <2>5. parser[w].pc = "check"
      OBVIOUS
    <2> HIDE DEF t
    <2> QED
      BY <1>1, <2>1, <2>3, <2>4, <2>5, WorkerMoves DEF TaskOfRow
  <1>4. ASSUME NEW a \in AlertsOf(parser[w].raw),
               parser' = [parser EXCEPT ![w].pc = "enqueue", ![w].id = a]
        PROVE  ParseInv'
    <2> DEFINE t == [parser[w] EXCEPT !.pc = "enqueue", !.id = a]
    <2>1. parser' = [parser EXCEPT ![w] = t]
      BY <1>4 DEF ParseTypeOK
    <2>2. t \in ParserState /\ a # None
      BY <1>1, ParseAssumption DEF ParserState, AlertsOf
    <2>3. ParseTypeOK'
      BY <2>1, <2>2 DEF ParseTypeOK
    <2>4. t.pc = "enqueue" /\ t.id = a /\ t.raw = parser[w].raw /\ t.cam = parser[w].cam
      BY <1>1 DEF ParserState
    <2>5. parser[w].pc = "check"
      OBVIOUS
    <2> HIDE DEF t
    <2> QED
      BY <1>1, <2>1, <2>2, <2>3, <2>4, <2>5, WorkerMoves DEF TaskOfRow
  <1> QED
    BY <1>2, <1>3, <1>4

\* Reading the bytes.
LEMMA FetchKeeps ==
  ASSUME ParseInv, NEW w \in Worker, Fetch(w)
  PROVE  ParseInv'
  <1> USE DEF ParseInv, Fetch
  <1> DEFINE t == [parser[w] EXCEPT !.pc = "build"]
  <1>1. parser[w] \in ParserState /\ TaskOfRow(w)
    BY DEF ParseTypeOK, WorkersInv
  <1>2. parser' = [parser EXCEPT ![w] = t] /\ t \in ParserState
    BY <1>1 DEF ParserState
  <1>3. ParseTypeOK'
    BY <1>2 DEF ParseTypeOK
  <1> QED
    BY <1>1, <1>2, <1>3, WorkerMoves DEF ParserState, TaskOfRow

\* Whatever ends a task without a word to the database.
LEMMA TaskEndsKeeps ==
  ASSUME ParseInv, NEW w \in Worker,
         \/ FetchRetried(w) \/ FetchFails(w) \/ PassthroughRaises(w)
         \/ EnqueueDeliver(w) \/ EnqueueDeliverFails(w) \/ ParserCrash(w)
  PROVE  ParseInv'
  <1> USE DEF ParseInv
  <1>1. Stop(w) /\ UNCHANGED <<raw, alert, drawn>>
    BY DEF FetchRetried, FetchFails, PassthroughRaises, EnqueueDeliver, EnqueueDeliverFails,
           ParserCrash
  <1>2. parser' \in [Worker -> ParserState]
    BY <1>1, IdleTyped DEF ParseTypeOK, Stop
  <1>3. faults' \in 0..MaxFaults
    BY FaultTyped
    DEF FetchRetried, FetchFails, PassthroughRaises, EnqueueDeliver, EnqueueDeliverFails,
        ParserCrash, ParseTypeOK
  <1>4. parseQ' \in [RawId -> [0..MaxRetries -> 0..QueueCap]]
    <2>1. CASE FetchRetried(w)
      <3>1. parser[w] \in ParserState /\ parser[w].raw \in RawId
        BY <2>1 DEF ParseTypeOK, WorkersInv, TaskOfRow, FetchRetried, ParserState
      <3>2. CASE parser[w].retries < MaxRetries
        <4>1. parser[w].retries + 1 \in 0..MaxRetries
          BY <3>1, <3>2, ParseAssumption DEF ParserState
        <4> QED BY <2>1, <3>1, <3>2, <4>1, PutTyped DEF FetchRetried
      <3> QED BY <2>1, <3>2 DEF FetchRetried, ParseTypeOK
    <2> QED
      BY <2>1 DEF FetchFails, PassthroughRaises, EnqueueDeliver, EnqueueDeliverFails,
                  ParserCrash, ParseTypeOK
  <1>5. deliverQ' \in [AlertId -> 0..QueueCap]
    <2>1. CASE EnqueueDeliver(w)
      <3>1. parser[w].id \in AlertId
        BY <2>1 DEF ParseTypeOK, WorkersInv, HandsOver, EnqueueDeliver, ParserState
      <3> QED BY <2>1, <3>1, HandOverTyped DEF EnqueueDeliver
    <2> QED
      BY <2>1 DEF FetchRetried, FetchFails, PassthroughRaises, EnqueueDeliverFails,
                  ParserCrash, ParseTypeOK
  <1>6. ParseTypeOK'
    BY <1>1, <1>2, <1>3, <1>4, <1>5 DEF ParseTypeOK
  <1> QED
    BY <1>1, <1>6, WorkerStops

\* A status written for a message that does not become an alert.
LEMMA FailureKeeps ==
  ASSUME ParseInv, NEW w \in Worker, MimeFails(w) \/ CommitWithoutCamera(w)
  PROVE  ParseInv'
  <1> USE DEF ParseInv
  <1> DEFINE t == parser[w]
  <1>1. /\ MarkParseFailed(w)
        /\ UNCHANGED <<alert, drawn, parseQ, deliverQ, faults>>
        /\ t.pc # "idle"
    BY DEF MimeFails, CommitWithoutCamera
  <1>2. t \in ParserState /\ t.raw \in RawId /\ raw[t.raw] \in RawRow
    BY <1>1 DEF ParseTypeOK, WorkersInv, TaskOfRow, ParserState
  <1>3. parser' \in [Worker -> ParserState]
    BY <1>1, IdleTyped DEF ParseTypeOK, MarkParseFailed, Stop
  <1>4. CASE raw' = raw
    <2>1. ParseTypeOK'
      BY <1>1, <1>3, <1>4 DEF ParseTypeOK
    <2> QED
      BY <1>1, <1>4, <2>1, WorkerStops DEF MarkParseFailed
  <1>5. CASE raw' = [raw EXCEPT ![t.raw].status = "parse_failed"]
    <2>1. raw'[t.raw] \in RawRow /\ raw'[t.raw].camera = raw[t.raw].camera
             /\ raw'[t.raw].status = "parse_failed"
      BY <1>2, <1>5 DEF ParseTypeOK, RawRow, RawStatus
    <2>2. \A r \in RawId \ {t.raw} : raw'[r] = raw[r]
      BY <1>5 DEF ParseTypeOK
    <2>3. ParseTypeOK'
      BY <1>1, <1>2, <1>3, <1>5, <2>1 DEF ParseTypeOK
    <2>4. raw[t.raw] # None /\ raw'[t.raw] # None
      BY <1>2, <2>1, NoneIsNoRawRow
    <2>5. \A v \in Worker : parser'[v] = parser[v] \/ parser'[v] = IdleParser
      BY <1>1 DEF MarkParseFailed, Stop, ParseTypeOK
    <2> QED
      BY <1>1, <2>1, <2>2, <2>3, <2>4, <2>5, StatusWritten DEF Handled
  <1> QED
    BY <1>1, <1>4, <1>5 DEF MarkParseFailed, SetStatus

\* The id drawn for an alert has never been used.
LEMMA StoreKeeps ==
  ASSUME ParseInv, NEW w \in Worker, NEW a \in AlertId, StoreAttachments(w, a)
  PROVE  ParseInv'
  <1> USE DEF ParseInv, StoreAttachments
  <1> DEFINE t == [parser[w] EXCEPT !.pc = "commit", !.id = a]
  <1>1. parser[w] \in ParserState /\ TaskOfRow(w) /\ parser[w].pc = "build"
    BY DEF ParseTypeOK, WorkersInv
  <1>2. parser' = [parser EXCEPT ![w] = t]
    BY DEF ParseTypeOK
  <1>3. /\ t \in ParserState
        /\ t.pc = "commit" /\ t.id = a /\ t.raw = parser[w].raw /\ t.cam = parser[w].cam
    BY <1>1 DEF ParserState
  <1>4. parser'[w] = t /\ \A v \in Worker \ {w} : parser'[v] = parser[v]
    BY <1>2 DEF ParseTypeOK
  <1>5. a \notin drawn /\ alert[a] = None /\ drawn' = drawn \cup {a}
    BY DEF IsFresh, AlertsAreDrawn
  <1> HIDE DEF t
  <1>6. ParseTypeOK'
    BY <1>2, <1>3 DEF ParseTypeOK
  <1>7. WorkersInv'
    <2> SUFFICES ASSUME NEW v \in Worker PROVE (TaskOfRow(v) /\ DraftIsNew(v) /\ HandsOver(v))'
      BY DEF WorkersInv
    <2>1. \A u \in Worker : AtCommit(u) => parser[u].id # a
      BY <1>5 DEF WorkersInv, DraftIsNew
    <2>2. TaskOfRow(v)'
      BY <1>1, <1>3, <1>4 DEF TaskOfRow, WorkersInv
    <2>3. DraftIsNew(v)'
      <3>1. UNCHANGED alert
        OBVIOUS
      <3>2. CASE v = w
        BY <1>3, <1>4, <1>5, <2>1, <3>1, <3>2 DEF DraftIsNew, AtCommit
      <3>3. CASE v # w
        <4>1. DraftIsNew(v)
          BY DEF WorkersInv
        <4> QED BY <1>3, <1>4, <1>5, <2>1, <3>1, <3>3, <4>1 DEF DraftIsNew, AtCommit
      <3> QED BY <3>2, <3>3
    <2>4. HandsOver(v)'
      BY <1>3, <1>4 DEF HandsOver, WorkersInv
    <2> QED BY <2>2, <2>3, <2>4
  <1>8. AlertsAreDrawn'
    BY DEF AlertsAreDrawn
  <1>9. (AlertOfItsCamera /\ ParsedHasAlert)'
    BY DEF AlertOfItsCamera, ParsedHasAlert, AlertsOf
  <1> QED
    BY <1>6, <1>7, <1>8, <1>9

\* The insert fails when the camera is gone; otherwise the new alert is of the
\* camera its message has now.
LEMMA CommitKeeps ==
  ASSUME ParseInv, NEW w \in Worker, CommitAlert(w)
  PROVE  ParseInv'
  <1> DEFINE t == parser[w]
             row == [raw |-> t.raw, camera |-> t.cam]
             u == [t EXCEPT !.pc = "enqueue"]
  <1> USE DEF ParseInv
  <1>1. /\ t \in ParserState /\ t.raw \in RawId /\ t.cam \in Camera /\ t.id \in AlertId
        /\ raw[t.raw] \in RawRow /\ alert[t.id] = None /\ t.id \in drawn /\ t.pc = "commit"
    BY DEF CommitAlert, ParseTypeOK, WorkersInv, TaskOfRow, DraftIsNew, AtCommit, ParserState
  <1>2. CASE raw[t.raw].camera # t.cam
    <2>1. Stop(w) /\ UNCHANGED <<raw, alert, drawn, parseQ, deliverQ, faults>>
      BY <1>2 DEF CommitAlert
    <2>2. ParseTypeOK'
      BY <2>1, IdleTyped DEF ParseTypeOK, Stop
    <2> QED BY <2>1, <2>2, WorkerStops
  <1>3. CASE raw[t.raw].camera = t.cam
    <2>1. /\ alert' = [alert EXCEPT ![t.id] = row]
          /\ raw' = SetStatus(t.raw, t.seen, "parsed")
          /\ parser' = [parser EXCEPT ![w].pc = "enqueue"]
          /\ UNCHANGED <<drawn, parseQ, deliverQ, faults>>
      BY <1>3 DEF CommitAlert
    <2>2. row \in AlertRow /\ row # None
      BY <1>1, NoneIsNoRawRow DEF AlertRow
    <2>3. /\ alert'[t.id] = row
          /\ \A a \in AlertId \ {t.id} : alert'[a] = alert[a]
      BY <1>1, <2>1 DEF ParseTypeOK
    <2>4. /\ raw' \in [RawId -> RawRow \cup {None}]
          /\ \A r \in RawId : /\ raw'[r] = None <=> raw[r] = None
                              /\ raw[r] # None => raw'[r].camera = raw[r].camera
                              /\ r # t.raw => raw'[r] = raw[r]
      <3>1. CASE raw' = raw
        BY <3>1 DEF ParseTypeOK
      <3>2. CASE raw' = [raw EXCEPT ![t.raw].status = "parsed"]
        <4>1. /\ raw'[t.raw] \in RawRow
              /\ raw'[t.raw].camera = raw[t.raw].camera
              /\ \A r \in RawId \ {t.raw} : raw'[r] = raw[r]
              /\ DOMAIN raw' = RawId /\ raw' = [r \in RawId |-> raw'[r]]
          BY <1>1, <3>2 DEF ParseTypeOK, RawRow, RawStatus
        <4>2. raw'[t.raw] # None /\ raw[t.raw] # None
          BY <1>1, <4>1, NoneIsNoRawRow
        <4> QED BY <1>1, <4>1, <4>2 DEF ParseTypeOK
      <3> QED BY <2>1, <3>1, <3>2 DEF SetStatus
    <2>5. /\ parser' = [parser EXCEPT ![w] = u] /\ u \in ParserState
          /\ u.pc = "enqueue" /\ u.raw = t.raw /\ u.cam = t.cam /\ u.id = t.id
      BY <1>1, <2>1 DEF ParserState, ParseTypeOK
    <2>6. parser'[w] = u /\ \A v \in Worker \ {w} : parser'[v] = parser[v]
      BY <2>5 DEF ParseTypeOK
    <2>7. raw'[t.raw] # None /\ raw'[t.raw].camera = t.cam
      BY <1>1, <1>3, <2>4, NoneIsNoRawRow
    <2> HIDE DEF u
    <2>8. ParseTypeOK'
      BY <1>1, <2>1, <2>2, <2>4, <2>5 DEF ParseTypeOK
    <2>9. WorkersInv'
      <3> SUFFICES ASSUME NEW v \in Worker PROVE (TaskOfRow(v) /\ DraftIsNew(v) /\ HandsOver(v))'
        BY DEF WorkersInv
      <3>1. TaskOfRow(v)'
        <4>1. CASE v = w
          BY <1>1, <2>5, <2>6, <2>7, <4>1, ParseAssumption DEF TaskOfRow
        <4>2. CASE v # w
          <5>1. TaskOfRow(v) /\ parser[v].raw \in RawId \cup {None}
            BY DEF WorkersInv, ParseTypeOK, ParserState
          <5> QED BY <2>4, <2>6, <4>2, <5>1 DEF TaskOfRow
        <4> QED BY <4>1, <4>2
      <3>2. DraftIsNew(v)'
        <4>1. CASE v = w
          BY <2>5, <2>6, <4>1 DEF DraftIsNew, AtCommit
        <4>2. CASE v # w
          <5>1. DraftIsNew(v) /\ DraftIsNew(w) /\ AtCommit(w)
            BY <1>1 DEF WorkersInv, AtCommit
          <5>2. AtCommit(v) => parser[v].id # t.id
            BY <4>2, <5>1 DEF DraftIsNew
          <5>3. AtCommit(v) => parser[v].id \in AlertId
            BY <5>1 DEF DraftIsNew, ParseTypeOK
          <5> QED BY <2>1, <2>3, <2>5, <2>6, <4>2, <5>1, <5>2, <5>3 DEF DraftIsNew, AtCommit
        <4> QED BY <4>1, <4>2
      <3>3. HandsOver(v)'
        BY <1>1, <2>5, <2>6, ParseAssumption DEF HandsOver, WorkersInv
      <3> QED BY <3>1, <3>2, <3>3
    <2>10. AlertsAreDrawn'
      BY <1>1, <2>1, <2>3 DEF AlertsAreDrawn
    <2>11. AlertOfItsCamera'
      <3> SUFFICES ASSUME NEW a \in AlertId, alert'[a] # None
                   PROVE  raw'[alert'[a].raw] # None /\ alert'[a].camera = raw'[alert'[a].raw].camera
        BY DEF AlertOfItsCamera
      <3>1. CASE a = t.id
        BY <2>3, <2>7, <3>1
      <3>2. CASE a # t.id
        BY <2>3, <2>4, <3>2 DEF AlertOfItsCamera, ParseTypeOK, AlertRow
      <3> QED BY <3>1, <3>2
    <2>12. ParsedHasAlert'
      <3> SUFFICES ASSUME NEW r \in RawId, raw'[r] # None, raw'[r].camera # None, raw'[r].status \in Handled
                   PROVE  AlertsOf(r)' # {}
        BY DEF ParsedHasAlert, Handled
      <3>1. CASE r = t.raw
        BY <1>1, <2>2, <2>3, <3>1 DEF AlertsOf
      <3>2. CASE r # t.raw
        <4>1. PICK a \in AlertsOf(r) : TRUE
          BY <2>4, <3>2 DEF ParsedHasAlert, Handled
        <4>2. a # t.id
          BY <1>1, <4>1 DEF AlertsOf
        <4> QED BY <2>3, <4>1, <4>2 DEF AlertsOf
      <3> QED BY <3>1, <3>2
    <2> QED BY <2>8, <2>9, <2>10, <2>11, <2>12
  <1> QED BY <1>2, <1>3

-----------------------------------------------------------------------------
(* The sweep and the neighbours *)

\* The sweep queues tasks and writes nothing.
LEMMA SweepKeeps ==
  ASSUME ParseInv, Reconcile \/ ReconcileAborts
  PROVE  ParseInv'
  <1> USE DEF ParseInv
  <1>1. UNCHANGED <<raw, alert, drawn, deliverQ, parser>> /\ \E rs : Resend(rs)
    BY DEF Reconcile, ReconcileAborts
  <1>2. ParseTypeOK'
    BY <1>1, ResendTyped, FaultTyped DEF ParseTypeOK, Reconcile, ReconcileAborts
  <1> QED
    BY <1>1, <1>2
    DEF WorkersInv, TaskOfRow, DraftIsNew, AtCommit, HandsOver, AlertsAreDrawn,
        AlertOfItsCamera, ParsedHasAlert, AlertsOf

\* No task and no alert is of a row that is yet to arrive.
LEMMA ArrivalKeeps ==
  ASSUME ParseInv, NEW r \in RawId, RowArrives(r)
  PROVE  ParseInv'
  <1> USE DEF ParseInv
  <1>1. PICK m \in Mail, c \in Camera :
          raw' = [raw EXCEPT ![r] = [mail |-> m, camera |-> c, status |-> "received"]]
    BY DEF RowArrives
  <1> DEFINE row == [mail |-> m, camera |-> c, status |-> "received"]
  <1>2. row \in RawRow /\ row # None
    BY NoneIsNoRawRow DEF RawRow, RawStatus
  <1>3. raw[r] = None /\ raw'[r] = row /\ \A q \in RawId \ {r} : raw'[q] = raw[q]
    BY <1>1 DEF RowArrives, ParseTypeOK
  <1>4. parseQ' \in [RawId -> [0..MaxRetries -> 0..QueueCap]]
    <2>1. 0 \in 0..MaxRetries
      BY ParseAssumption
    <2>2. Put(parseQ, r, 0) \in [RawId -> [0..MaxRetries -> 0..QueueCap]]
      BY <2>1, PutTyped
    <2> QED BY <2>2 DEF RowArrives, ParseTypeOK
  <1>5. ParseTypeOK' /\ UNCHANGED <<alert, drawn, parser>>
    BY <1>1, <1>2, <1>4 DEF ParseTypeOK, RowArrives
  <1>6. WorkersInv'
    <2> SUFFICES ASSUME NEW v \in Worker PROVE (TaskOfRow(v) /\ DraftIsNew(v) /\ HandsOver(v))'
      BY DEF WorkersInv
    <2>1. TaskOfRow(v) /\ DraftIsNew(v) /\ HandsOver(v) /\ parser[v].raw \in RawId \cup {None}
      BY DEF WorkersInv, ParseTypeOK, ParserState
    <2> QED BY <1>3, <1>5, <2>1 DEF TaskOfRow, DraftIsNew, AtCommit, HandsOver
  <1>7. AlertsAreDrawn'
    BY <1>5 DEF AlertsAreDrawn
  <1>8. AlertOfItsCamera'
    BY <1>3, <1>5 DEF AlertOfItsCamera, ParseTypeOK, AlertRow
  <1>9. ParsedHasAlert'
    BY <1>3, <1>5 DEF ParsedHasAlert, AlertsOf
  <1> QED BY <1>5, <1>6, <1>7, <1>8, <1>9

\* The verdict of the delivery stage is on a message with an alert.
LEMMA DeliveryKeeps ==
  ASSUME ParseInv, NEW a \in AlertId, DeliveryTaken(a)
  PROVE  ParseInv'
  <1> USE DEF ParseInv
  <1>1. UNCHANGED <<alert, drawn, parseQ, parser, faults>> /\ deliverQ' \in [AlertId -> 0..QueueCap]
    BY ParseAssumption DEF DeliveryTaken, ParseTypeOK
  <1>2. CASE UNCHANGED raw
    <2>1. ParseTypeOK'
      BY <1>1, <1>2 DEF ParseTypeOK
    <2> QED
      BY <1>1, <1>2, <2>1
      DEF WorkersInv, TaskOfRow, DraftIsNew, AtCommit, HandsOver, AlertsAreDrawn,
          AlertOfItsCamera, ParsedHasAlert, AlertsOf
  <1>3. ASSUME NEW verdict \in {"forwarded", "forward_failed"}, alert[a] # None,
               raw' = [raw EXCEPT ![alert[a].raw].status = verdict]
        PROVE  ParseInv'
    <2> DEFINE r == alert[a].raw
    <2>1. r \in RawId /\ raw[r] \in RawRow /\ a \in AlertsOf(r)
      BY <1>3 DEF ParseTypeOK, AlertRow, AlertOfItsCamera, AlertsOf
    <2>2. raw'[r] \in RawRow /\ raw'[r].camera = raw[r].camera
      BY <1>3, <2>1 DEF ParseTypeOK, RawRow, RawStatus
    <2>3. \A q \in RawId \ {r} : raw'[q] = raw[q]
      BY <1>3 DEF ParseTypeOK
    <2>4. raw[r] # None /\ raw'[r] # None
      BY <2>1, <2>2, NoneIsNoRawRow
    <2>5. ParseTypeOK'
      BY <1>1, <1>3, <2>1, <2>2 DEF ParseTypeOK
    <2> QED
      BY <1>1, <2>1, <2>2, <2>3, <2>4, <2>5, StatusWritten
  <1> QED
    BY <1>2, <1>3 DEF DeliveryTaken

\* The alerts of a camera go with it, and no other alert stays behind without
\* the camera of its message.
LEMMA DeletionKeeps ==
  ASSUME ParseInv, NEW c \in Camera, DeleteCamera(c)
  PROVE  ParseInv'
  <1> USE DEF ParseInv
  <1>1. UNCHANGED <<drawn, parseQ, deliverQ, parser, faults>>
    BY DEF DeleteCamera
  <1>2. \A r \in RawId :
          \/ raw'[r] = raw[r] /\ (raw[r] # None => raw[r].camera # c)
          \/ /\ raw[r] # None /\ raw[r].camera = c
             /\ raw'[r] = [raw[r] EXCEPT !.camera = None]
    BY DEF DeleteCamera
  <1>3. \A r \in RawId :
          raw[r] # None /\ raw'[r] = [raw[r] EXCEPT !.camera = None] =>
            raw'[r] \in RawRow /\ raw'[r] # None /\ raw'[r].camera = None
    <2> SUFFICES ASSUME NEW r \in RawId, raw[r] # None, raw'[r] = [raw[r] EXCEPT !.camera = None]
                 PROVE  raw'[r] \in RawRow /\ raw'[r] # None /\ raw'[r].camera = None
      OBVIOUS
    <2>1. raw[r] \in RawRow
      BY DEF ParseTypeOK
    <2>2. raw'[r] \in RawRow /\ raw'[r].camera = None
      BY <2>1 DEF RawRow
    <2> QED BY <2>2, NoneIsNoRawRow
  <1>4. \A a \in AlertId :
          \/ alert[a] # None /\ alert[a].camera = c /\ alert'[a] = None
          \/ alert'[a] = alert[a] /\ (alert[a] # None => alert[a].camera # c)
    BY DEF DeleteCamera, CascadeAlerts
  <1>5. ParseTypeOK'
    <2>1. raw' = [r \in RawId |-> raw'[r]] /\ alert' = [a \in AlertId |-> alert'[a]]
      BY DEF DeleteCamera, CascadeAlerts
    <2>2. \A r \in RawId : raw'[r] \in RawRow \cup {None}
      BY <1>2, <1>3 DEF ParseTypeOK
    <2>3. \A a \in AlertId : alert'[a] \in AlertRow \cup {None}
      BY <1>4 DEF ParseTypeOK
    <2>4. raw' \in [RawId -> RawRow \cup {None}] /\ alert' \in [AlertId -> AlertRow \cup {None}]
      BY <2>1, <2>2, <2>3
    <2> QED BY <1>1, <2>4 DEF ParseTypeOK
  <1>6. WorkersInv'
    <2> SUFFICES ASSUME NEW v \in Worker PROVE (TaskOfRow(v) /\ DraftIsNew(v) /\ HandsOver(v))'
      BY DEF WorkersInv
    <2>1. /\ TaskOfRow(v) /\ DraftIsNew(v) /\ HandsOver(v)
          /\ parser[v].raw \in RawId \cup {None} /\ drawn \subseteq AlertId
      BY DEF WorkersInv, ParseTypeOK, ParserState
    <2>2. TaskOfRow(v)'
      BY <1>1, <1>2, <1>3, <2>1 DEF TaskOfRow
    <2>3. DraftIsNew(v)'
      BY <1>1, <1>4, <2>1 DEF DraftIsNew, AtCommit
    <2> QED BY <1>1, <2>1, <2>2, <2>3 DEF HandsOver
  <1>7. AlertsAreDrawn'
    BY <1>1, <1>4 DEF AlertsAreDrawn
  <1>8. AlertOfItsCamera'
    <2> SUFFICES ASSUME NEW a \in AlertId, alert'[a] # None
                 PROVE  raw'[alert'[a].raw] # None /\ alert'[a].camera = raw'[alert'[a].raw].camera
      BY DEF AlertOfItsCamera
    <2>1. alert'[a] = alert[a] /\ alert[a].camera # c /\ alert[a] \in AlertRow
      BY <1>4 DEF ParseTypeOK
    <2>2. raw[alert[a].raw] # None /\ alert[a].camera = raw[alert[a].raw].camera
      BY <2>1 DEF AlertOfItsCamera
    <2>3. raw'[alert[a].raw] = raw[alert[a].raw]
      BY <1>2, <2>1, <2>2 DEF AlertRow
    <2> QED BY <2>1, <2>2, <2>3
  <1>9. ParsedHasAlert'
    <2> SUFFICES ASSUME NEW r \in RawId, raw'[r] # None, raw'[r].camera # None, raw'[r].status \in Handled
                 PROVE  AlertsOf(r)' # {}
      BY DEF ParsedHasAlert, Handled
    <2>1. raw'[r] = raw[r] /\ raw[r].camera # c
      BY <1>2, <1>3
    <2>2. PICK a \in AlertsOf(r) : TRUE
      BY <2>1 DEF ParsedHasAlert, Handled
    <2>3. alert'[a] = alert[a]
      BY <1>4, <2>1, <2>2 DEF AlertsOf, AlertOfItsCamera
    <2> QED BY <2>2, <2>3 DEF AlertsOf
  <1> QED BY <1>5, <1>6, <1>7, <1>8, <1>9

-----------------------------------------------------------------------------
(* Theorems *)

\* Every step keeps the invariant.
LEMMA NextKeeps == ParseInv /\ [ParseNext]_parseVars => ParseInv'
  <1> SUFFICES ASSUME ParseInv, [ParseNext]_parseVars PROVE ParseInv'
    OBVIOUS
  <1>1. CASE UNCHANGED parseVars
    BY <1>1
    DEF parseVars, ParseInv, ParseTypeOK, WorkersInv, TaskOfRow, DraftIsNew, AtCommit, HandsOver,
        AlertsAreDrawn, AlertOfItsCamera, ParsedHasAlert, AlertsOf
  <1>2. ASSUME NEW w \in Worker, NEW r \in RawId, NEW n \in 0..MaxRetries, TakeParse(w, r, n)
        PROVE  ParseInv'
    BY <1>2, TakeKeeps
  <1>3. ASSUME NEW w \in Worker, ParseStep(w)
        PROVE  ParseInv'
    BY <1>3, CheckKeeps, FetchKeeps, TaskEndsKeeps, FailureKeeps, StoreKeeps, CommitKeeps
    DEF ParseStep
  <1>4. ASSUME NEW w \in Worker, ParseFault(w)
        PROVE  ParseInv'
    BY <1>4, TaskEndsKeeps DEF ParseFault
  <1>5. CASE Reconcile \/ ReconcileAborts
    BY <1>5, SweepKeeps
  <1>6. ASSUME NEW c \in Camera, DeleteCamera(c) PROVE ParseInv'
    BY <1>6, DeletionKeeps
  <1>7. ASSUME NEW r \in RawId, RowArrives(r) PROVE ParseInv'
    BY <1>7, ArrivalKeeps
  <1>8. ASSUME NEW a \in AlertId, DeliveryTaken(a) PROVE ParseInv'
    BY <1>8, DeliveryKeeps
  <1> QED
    BY <1>1, <1>2, <1>3, <1>4, <1>5, <1>6, <1>7, <1>8 DEF ParseNext, ParseStage

\* The invariant of the parse stage.
THEOREM ParseInvariant == ParseSpec => []ParseInv
  <1>1. ParseInit => ParseInv
    BY InitInv
  <1>2. ParseInv /\ [ParseNext]_parseVars => ParseInv'
    BY NextKeeps
  <1> QED
    BY <1>1, <1>2, PTL DEF ParseSpec

\* Rows, queues and tasks have their types.
THEOREM ParseTypes == ParseSpec => []ParseTypeOK
  <1>1. ParseInv => ParseTypeOK
    BY DEF ParseInv
  <1> QED
    BY <1>1, ParseInvariant, PTL

\* A message whose status says it became an alert has one, unless its camera is gone.
THEOREM ParsedMessagesHaveAlerts == ParseSpec => []ParsedHasAlert
  <1>1. ParseInv => ParsedHasAlert
    BY DEF ParseInv
  <1> QED
    BY <1>1, ParseInvariant, PTL

\* Every alert belongs to the camera of its message.
THEOREM AlertsKeepTheirCamera == ParseSpec => []AlertOfItsCamera
  <1>1. ParseInv => AlertOfItsCamera
    BY DEF ParseInv
  <1> QED
    BY <1>1, ParseInvariant, PTL
=============================================================================
