-------------------------- MODULE AlertIngestProofs --------------------------
(***************************************************************************)
(* Proofs about AlertIngest for any number of mails, addresses, cameras,   *)
(* keys and sessions: types, the inductive invariant, and that the ingest  *)
(* service implements MailCustody.                                         *)
(***************************************************************************)
EXTENDS AlertIngest, FiniteSetTheorems, TLAPS

\* A connection without a transaction is a session.
LEMMA IdleTyped == IdleSession \in SessionState
BY DEF IdleSession, SessionState

\* The initial states are typed.
LEMMA TypeInit == Init => TypeOK
<1> SUFFICES ASSUME Init PROVE TypeOK
  OBVIOUS
<1> USE IngestAssumption DEF Init
<1>1. address \in [Address -> AddressRow]
  BY DEF AddressRow
<1>2. hits \in [Address -> 0..RateLimit]
  OBVIOUS
<1>3. copy \in [Mail -> [Address -> CopyState]]
  BY DEF CopyState
<1>4. session \in [Session -> SessionState]
  BY IdleTyped
<1>5. objects \subseteq RawId /\ raw \in [RawId -> RawRow \cup {None}]
  OBVIOUS
<1>6. parseQ \in [RawId -> [0..MaxRetries -> 0..QueueCap]]
  OBVIOUS
<1>7. faults \in 0..MaxFaults
  OBVIOUS
<1> QED BY <1>1, <1>2, <1>3, <1>4, <1>5, <1>6, <1>7 DEF TypeOK

\* A fault stays within the bound MaxFaults.
LEMMA FaultTyped == TypeOK /\ Fault => faults' \in 0..MaxFaults
BY IngestAssumption DEF TypeOK, Fault

\* Telling Postfix the fate of some recipients keeps the type of its queue.
LEMMA SettleTyped ==
  ASSUME TypeOK, NEW m \in Mail, NEW rcpts, NEW verdict \in CopyState,
         Settle(m, rcpts, verdict)
  PROVE  copy' \in [Mail -> [Address -> CopyState]]
BY DEF TypeOK, Settle

\* So does the reply to DATA.
LEMMA AnswerTyped ==
  ASSUME TypeOK, NEW s \in Session, session[s].mail \in Mail, NEW verdict \in CopyState,
         Answer(s, verdict)
  PROVE  copy' \in [Mail -> [Address -> CopyState]]
BY SettleTyped DEF Answer

\* Ending a transaction keeps the type of the sessions.
LEMMA EndTyped ==
  ASSUME TypeOK, NEW s \in Session, EndSession(s)
  PROVE  session' \in [Session -> SessionState]
BY IdleTyped DEF TypeOK, EndSession

\* The locations of a session.
Label == {"idle", "rcpt", "limit", "load", "persist", "enqueue", "reply"}

\* Replacing one session by a typed one keeps the type of the sessions.
LEMMA UpdateTyped ==
  ASSUME TypeOK, NEW s \in Session, NEW t \in SessionState,
         session' = [session EXCEPT ![s] = t]
  PROVE  session' \in [Session -> SessionState]
BY DEF TypeOK

\* Moving a session to another await keeps its type.
LEMMA LabelTyped ==
  ASSUME NEW t \in SessionState, NEW label \in Label
  PROVE  [t EXCEPT !.pc = label] \in SessionState
BY DEF SessionState, Label

\* Goto keeps the type of the sessions.
LEMMA GotoTyped ==
  ASSUME TypeOK, NEW s \in Session, NEW label \in Label, Goto(s, label)
  PROVE  session' \in [Session -> SessionState]
<1>1. session[s] \in SessionState
  BY DEF TypeOK
<1>2. [session[s] EXCEPT !.pc = label] \in SessionState
  BY <1>1, LabelTyped
<1>3. session' = [session EXCEPT ![s] = [session[s] EXCEPT !.pc = label]]
  BY DEF Goto
<1> QED BY <1>2, <1>3, UpdateTyped

\* Accepting the recipient at the limiter keeps the type of the sessions.
LEMMA AcceptTyped ==
  ASSUME TypeOK, NEW s \in Session, session[s].cur \in Address, Accept(s)
  PROVE  session' \in [Session -> SessionState]
<1> DEFINE a == session[s].cur
           t == [session[s] EXCEPT !.pc = "rcpt", !.cur = None,
                   !.first = IF @ = None THEN a ELSE @,
                   !.accepted = @ \cup {a}, !.addr = a]
<1>1. session[s] \in SessionState
  BY DEF TypeOK
<1>2. t \in SessionState
  BY <1>1 DEF SessionState
<1>3. session' = [session EXCEPT ![s] = t]
  BY DEF Accept
<1> QED BY <1>2, <1>3, UpdateTyped

\* The saturated counter of the limiter stays in its range.
LEMMA CountTyped ==
  ASSUME NEW h \in 0..RateLimit
  PROVE  CountHit(h) \in 0..RateLimit
BY IngestAssumption DEF CountHit

\* Typing of the handlers of RCPT TO.
LEMMA RcptTypes ==
  ASSUME TypeOK, SessionsComplete, NEW s \in Session, Rcpt(s)
  PROVE  TypeOK'
<1>0. session[s] \in SessionState
  BY DEF TypeOK
<1>1. CASE \E a \in Address : RcptKnown(s, a)
  <2> PICK a \in Address : RcptKnown(s, a)
    BY <1>1
  <2> DEFINE t == [session[s] EXCEPT !.pc = "limit", !.cur = a, !.todo = @ \ {a}]
  <2>1. t \in SessionState
    BY <1>0 DEF SessionState
  <2>2. session' = [session EXCEPT ![s] = t]
    BY DEF RcptKnown
  <2>3. session' \in [Session -> SessionState]
    BY <2>1, <2>2, UpdateTyped
  <2> QED BY <2>3 DEF RcptKnown, TypeOK
<1>2. CASE \E a \in Address : RcptRefused(s, a)
  <2> PICK a \in Address : RcptRefused(s, a)
    BY <1>2
  <2> DEFINE t == [session[s] EXCEPT !.todo = @ \ {a}]
  <2>1. t \in SessionState
    BY <1>0 DEF SessionState
  <2>2. session' = [session EXCEPT ![s] = t]
    BY DEF RcptRefused
  <2>3. session' \in [Session -> SessionState]
    BY <2>1, <2>2, UpdateTyped
  <2>4. session[s].mail \in Mail
    BY <1>0 DEF SessionsComplete, RcptRefused, SessionState
  <2>5. copy' \in [Mail -> [Address -> CopyState]]
    BY <2>4, SettleTyped DEF RcptRefused, CopyState
  <2> QED BY <2>3, <2>5 DEF RcptRefused, TypeOK
<1>3. CASE RcptAdmitted(s)
  <2>1. session[s].cur \in Address
    BY <1>0, <1>3 DEF SessionsComplete, RcptAdmitted, SessionState
  <2>2. session' \in [Session -> SessionState]
    BY <1>3, <2>1, AcceptTyped DEF RcptAdmitted
  <2>3. hits' \in [Address -> 0..RateLimit]
    BY <1>3, <2>1, CountTyped DEF RcptAdmitted, TypeOK
  <2> QED BY <1>3, <2>2, <2>3 DEF RcptAdmitted, TypeOK
<1>4. CASE RcptLimited(s)
  <2> DEFINE t == [session[s] EXCEPT !.pc = "rcpt", !.cur = None]
  <2>1. t \in SessionState
    BY <1>0 DEF SessionState
  <2>2. session' = [session EXCEPT ![s] = t]
    BY <1>4 DEF RcptLimited
  <2>3. session' \in [Session -> SessionState]
    BY <2>1, <2>2, UpdateTyped
  <2>4. session[s].cur \in Address
    BY <1>0, <1>4 DEF SessionsComplete, RcptLimited, SessionState
  <2>5. hits' \in [Address -> 0..RateLimit]
    BY <1>4, <2>4, CountTyped DEF RcptLimited, TypeOK
  <2> QED BY <1>4, <2>3, <2>5 DEF RcptLimited, TypeOK
<1>5. CASE Quit(s)
  BY <1>5, EndTyped DEF Quit, TypeOK
<1> QED BY <1>1, <1>2, <1>3, <1>4, <1>5 DEF Rcpt

\* The row handle_DATA inserts has the columns of raw_messages.
LEMMA NewRowTyped ==
  ASSUME TypeOK, SessionsComplete, NEW s \in Session, session[s].pc = "persist"
  PROVE  NewRow(s) \in RawRow
BY DEF TypeOK, SessionsComplete, Holding, NewRow, RawRow, RawStatus, SessionState

\* Typing of the steps of handle_DATA.
LEMMA DataTypes ==
  ASSUME TypeOK, SessionsComplete, NEW s \in Session, Data(s)
  PROVE  TypeOK'
<1>0. session[s] \in SessionState
  BY DEF TypeOK
<1>m. session[s].pc # "idle" => session[s].mail \in Mail
  BY <1>0 DEF SessionsComplete, SessionState
<1>a. session[s].accepted # {} => session[s].first \in Address /\ session[s].addr \in Address
  BY <1>0 DEF SessionsComplete, SessionState
<1>1. CASE TooLarge(s)
  <2>1. copy' \in [Mail -> [Address -> CopyState]]
    BY <1>1, <1>m, AnswerTyped DEF TooLarge, DataPhase, CopyState
  <2> QED BY <1>1, <2>1, EndTyped DEF TooLarge, TypeOK
<1>2. CASE \E id \in RawId : PutRawMail(s, id)
  <2> PICK id \in RawId : PutRawMail(s, id)
    BY <1>2
  <2> DEFINE t == [session[s] EXCEPT !.pc = "load", !.id = id]
  <2>1. t \in SessionState
    BY <1>0 DEF SessionState
  <2>2. session' = [session EXCEPT ![s] = t]
    BY DEF PutRawMail
  <2>3. session' \in [Session -> SessionState]
    BY <2>1, <2>2, UpdateTyped
  <2> QED BY <2>3 DEF PutRawMail, TypeOK
<1>3. CASE LoadAddress(s)
  <2> DEFINE a == session[s].addr
             t == [session[s] EXCEPT !.pc = "persist", !.cam = CameraOf[a]]
  <2>0. a \in Address
    BY <1>3, <1>a DEF LoadAddress, SessionsComplete, Holding
  <2>1. CASE address[a].st = "deleted"
    <3>1. EndSession(s) /\ Answer(s, "bounced")
      BY <1>3, <2>1 DEF LoadAddress
    <3>2. copy' \in [Mail -> [Address -> CopyState]]
      BY <1>3, <1>m, <3>1, AnswerTyped DEF LoadAddress, CopyState
    <3> QED BY <1>3, <3>1, <3>2, EndTyped DEF LoadAddress, TypeOK
  <2>2. CASE address[a].st # "deleted"
    <3>1. t \in SessionState
      BY <1>0, <2>0, IngestAssumption DEF SessionState
    <3>2. session' = [session EXCEPT ![s] = t] /\ UNCHANGED copy
      BY <1>3, <2>2 DEF LoadAddress
    <3>3. session' \in [Session -> SessionState]
      BY <3>1, <3>2, UpdateTyped
    <3> QED BY <1>3, <3>2, <3>3 DEF LoadAddress, TypeOK
  <2> QED BY <2>1, <2>2
<1>4. CASE PersistRow(s)
  <2>1. CASE address[session[s].addr].st # "deleted"
    <3>1. NewRow(s) \in RawRow
      BY <1>4, NewRowTyped DEF PersistRow
    <3>2. raw' \in [RawId -> RawRow \cup {None}]
      BY <1>4, <2>1, <3>1 DEF PersistRow, TypeOK
    <3>3. session' \in [Session -> SessionState]
      BY <1>4, <2>1, GotoTyped DEF PersistRow, Label
    <3> QED BY <1>4, <3>2, <3>3 DEF PersistRow, TypeOK
  <2>2. CASE address[session[s].addr].st = "deleted"
    BY <1>4, <2>2, EndTyped DEF PersistRow, TypeOK
  <2> QED BY <2>1, <2>2
<1>5. CASE EnqueueParse(s)
  <2>1. session[s].id \in RawId
    BY <1>5 DEF EnqueueParse, SessionsComplete, Holding, TypeOK
  <2>2. Put(parseQ, session[s].id) \in [RawId -> [0..MaxRetries -> 0..QueueCap]]
    BY <2>1, IngestAssumption DEF Put, TypeOK
  <2>3. session' \in [Session -> SessionState]
    BY <1>5, GotoTyped DEF EnqueueParse, Label
  <2> QED BY <1>5, <2>2, <2>3 DEF EnqueueParse, TypeOK
<1>6. CASE Reply(s)
  <2>1. copy' \in [Mail -> [Address -> CopyState]]
    BY <1>6, <1>m, AnswerTyped DEF Reply, CopyState
  <2> QED BY <1>6, <2>1, EndTyped DEF Reply, TypeOK
<1> QED BY <1>1, <1>2, <1>3, <1>4, <1>5, <1>6 DEF Data

\* Typing of the failures of a session.
LEMMA FaultTypes ==
  ASSUME TypeOK, SessionsComplete, NEW s \in Session, SessionFault(s)
  PROVE  TypeOK'
<1>0. session[s] \in SessionState
  BY DEF TypeOK
<1>m. session[s].pc # "idle" => session[s].mail \in Mail
  BY <1>0 DEF SessionsComplete, SessionState
<1>1. CASE \E a \in Address : RcptLookupFails(s, a)
  <2> PICK a \in Address : RcptLookupFails(s, a)
    BY <1>1
  <2> DEFINE t == [session[s] EXCEPT !.todo = @ \ {a}]
  <2>1. t \in SessionState
    BY <1>0 DEF SessionState
  <2>2. session' = [session EXCEPT ![s] = t]
    BY DEF RcptLookupFails
  <2>3. session' \in [Session -> SessionState]
    BY <2>1, <2>2, UpdateTyped
  <2>4. copy' \in [Mail -> [Address -> CopyState]]
    BY <1>m, SettleTyped DEF RcptLookupFails, CopyState
  <2>5. faults' \in 0..MaxFaults
    BY FaultTyped DEF RcptLookupFails
  <2> QED BY <2>3, <2>4, <2>5 DEF RcptLookupFails, TypeOK
<1>2. CASE RcptFailOpen(s)
  <2>1. session[s].cur \in Address
    BY <1>0, <1>2 DEF SessionsComplete, RcptFailOpen, SessionState
  <2>2. session' \in [Session -> SessionState]
    BY <1>2, <2>1, AcceptTyped DEF RcptFailOpen
  <2>3. faults' \in 0..MaxFaults
    BY <1>2, FaultTyped DEF RcptFailOpen
  <2> QED BY <1>2, <2>2, <2>3 DEF RcptFailOpen, TypeOK
<1>3. CASE PutRejected(s) \/ PersistFails(s) \/ ConnectionLost(s)
  <2>1. faults' \in 0..MaxFaults
    BY <1>3, FaultTyped DEF PutRejected, PersistFails, ConnectionLost
  <2>2. session' \in [Session -> SessionState]
    BY <1>3, EndTyped DEF PutRejected, PersistFails, ConnectionLost
  <2> QED BY <1>3, <2>1, <2>2 DEF PutRejected, PersistFails, ConnectionLost, TypeOK
<1>4. CASE PutUnreachable(s)
  <2>1. faults' \in 0..MaxFaults
    BY <1>4, FaultTyped DEF PutUnreachable
  <2>2. copy' \in [Mail -> [Address -> CopyState]]
    BY <1>4, <1>m, AnswerTyped DEF PutUnreachable, DataPhase, CopyState
  <2>3. session' \in [Session -> SessionState]
    BY <1>4, EndTyped DEF PutUnreachable
  <2> QED BY <1>4, <2>1, <2>2, <2>3 DEF PutUnreachable, TypeOK
<1>5. CASE EnqueueFails(s)
  <2>1. faults' \in 0..MaxFaults
    BY <1>5, FaultTyped DEF EnqueueFails
  <2>2. session' \in [Session -> SessionState]
    BY <1>5, GotoTyped DEF EnqueueFails, Label
  <2> QED BY <1>5, <2>1, <2>2 DEF EnqueueFails, TypeOK
<1> QED BY <1>1, <1>2, <1>3, <1>4, <1>5 DEF SessionFault

\* Typing of the start of a transaction.
LEMMA MailFromTypes ==
  ASSUME TypeOK, NEW s \in Session, NEW m \in Mail, MailFrom(s, m)
  PROVE  TypeOK'
<1> DEFINE t == [IdleSession EXCEPT !.pc = "rcpt", !.mail = m, !.todo = Queued(m)]
<1>1. Queued(m) \subseteq Address
  BY DEF Queued
<1>2. t \in SessionState
  BY <1>1, IdleTyped DEF SessionState
<1>3. session' = [session EXCEPT ![s] = t]
  BY DEF MailFrom
<1>4. session' \in [Session -> SessionState]
  BY <1>2, <1>3, UpdateTyped
<1> QED BY <1>4 DEF MailFrom, TypeOK

\* Typing of crashes, minutes and the address API.
LEMMA EnvironmentTypes ==
  ASSUME TypeOK,
         Crash \/ NextMinute \/ (\E c \in Camera : DeleteCamera(c))
           \/ \E a \in Address : Revoke(a) \/ \E on \in BOOLEAN : SetQuarantine(a, on)
  PROVE  TypeOK'
<1>1. CASE Crash
  <2>1. faults' \in 0..MaxFaults
    BY <1>1, FaultTyped DEF Crash
  <2> QED BY <1>1, <2>1, IdleTyped DEF Crash, TypeOK
<1>2. CASE NextMinute
  BY <1>2, IngestAssumption DEF NextMinute, TypeOK
<1>3. CASE \E a \in Address : Revoke(a) \/ \E on \in BOOLEAN : SetQuarantine(a, on)
  <2> PICK a \in Address : Revoke(a) \/ \E on \in BOOLEAN : SetQuarantine(a, on)
    BY <1>3
  <2>1. address' \in [Address -> AddressRow]
    <3>1. CASE Revoke(a)
      BY <3>1 DEF Revoke, TypeOK, AddressRow
    <3>2. CASE \E on \in BOOLEAN : SetQuarantine(a, on)
      BY <3>2 DEF SetQuarantine, TypeOK, AddressRow
    <3> QED BY <3>1, <3>2
  <2> QED BY <2>1 DEF Revoke, SetQuarantine, TypeOK
<1>4. CASE \E c \in Camera : DeleteCamera(c)
  <2> PICK c \in Camera : DeleteCamera(c)
    BY <1>4
  <2>1. address' \in [Address -> AddressRow]
    BY DEF DeleteCamera, TypeOK, AddressRow
  <2>2. raw' \in [RawId -> RawRow \cup {None}]
    BY DEF DeleteCamera, TypeOK, RawRow
  <2> QED BY <2>1, <2>2 DEF DeleteCamera, TypeOK
<1> QED BY <1>1, <1>2, <1>3, <1>4

\* Every step keeps the types, as long as the sessions are complete.
LEMMA TypeStep == TypeOK /\ SessionsComplete /\ [Next]_vars => TypeOK'
<1> SUFFICES ASSUME TypeOK, SessionsComplete, [Next]_vars PROVE TypeOK'
  OBVIOUS
<1>1. CASE UNCHANGED vars
  BY <1>1 DEF vars, TypeOK
<1>2. CASE Next
  BY <1>2, RcptTypes, DataTypes, FaultTypes, MailFromTypes, EnvironmentTypes
  DEF Next, IngestStage
<1> QED BY <1>1, <1>2

-----------------------------------------------------------------------------
\* The conjuncts of IngestInv besides its types.
Parts ==
  /\ SessionsComplete
  /\ SessionsApart
  /\ RecipientsQueued
  /\ RowsOfSessions
  /\ RowsHaveObjects
  /\ AckedIsDurable

\* The inductive invariant holds when the service starts.
LEMMA InitInv == Init => IngestInv
<1> SUFFICES ASSUME Init PROVE IngestInv
  OBVIOUS
<1>1. TypeOK
  BY TypeInit
<1>2. \A s \in Session : session[s] = IdleSession
  BY DEF Init
<1>3. SessionsComplete /\ SessionsApart /\ RecipientsQueued /\ RowsOfSessions
  BY <1>2 DEF SessionsComplete, SessionsApart, RecipientsQueued, RowsOfSessions,
              Holding, IdleSession
<1>4. RowsHaveObjects
  BY DEF Init, RowsHaveObjects
<1>5. AckedIsDurable
  BY DEF Init, AckedIsDurable
<1> QED BY <1>1, <1>3, <1>4, <1>5 DEF IngestInv

\* Persist-before-ACK survives a step that marks only stored mails as sent.
LEMMA AckedStays ==
  ASSUME AckedIsDurable, StoredMails \subseteq StoredMails',
         \A m \in Mail : \A a \in Address :
           copy'[m][a] = "sent" => copy[m][a] = "sent" \/ m \in StoredMails'
  PROVE  AckedIsDurable'
BY DEF AckedIsDurable

\* A session that ends disturbs nothing but the copies of its own mail.
LEMMA EndParts ==
  ASSUME IngestInv, NEW s \in Session, EndSession(s), UNCHANGED <<objects, raw>>,
         \A m \in Mail : m # session[s].mail => copy'[m] = copy[m]
  PROVE  SessionsComplete' /\ SessionsApart' /\ RecipientsQueued' /\ RowsOfSessions'
           /\ RowsHaveObjects'
<1> USE DEF IngestInv
<1>1. session'[s] = IdleSession /\ \A x \in Session : x # s => session'[x] = session[x]
  BY DEF EndSession, TypeOK
<1>2. IdleSession.pc = "idle" /\ IdleSession.mail = None /\ IdleSession.accepted = {}
  BY DEF IdleSession
<1>3. SessionsComplete'
  BY <1>1, <1>2 DEF SessionsComplete, Holding
<1>4. SessionsApart'
  BY <1>1, <1>2 DEF SessionsApart, SessionsComplete, Holding
<1>5. RecipientsQueued'
  <2> DEFINE InQueue(m) == {a \in Address : copy'[m][a] = "queued"}
  <2> SUFFICES ASSUME NEW x \in Session, session'[x].pc # "idle"
               PROVE  LET t == session'[x] IN
                      /\ t.todo \cup t.accepted \subseteq InQueue(t.mail)
                      /\ t.todo \cap t.accepted = {}
                      /\ t.pc = "limit" =>
                           t.cur \in InQueue(t.mail) \ (t.todo \cup t.accepted)
    BY DEF RecipientsQueued, Queued
  <2>1. x # s /\ session'[x] = session[x]
    BY <1>1, <1>2
  <2>2. session[x].mail \in Mail /\ session[x].mail # session[s].mail
    BY <2>1 DEF SessionsComplete, SessionsApart, TypeOK, SessionState
  <2>3. InQueue(session[x].mail) = Queued(session[x].mail)
    BY <2>1, <2>2 DEF Queued
  <2> QED BY <2>1, <2>3 DEF RecipientsQueued
<1>6. RowsOfSessions'
  BY <1>1, <1>2 DEF RowsOfSessions
<1>7. RowsHaveObjects'
  BY DEF RowsHaveObjects
<1> QED BY <1>3, <1>4, <1>5, <1>6, <1>7

HoldingPc == {"load", "persist", "enqueue", "reply"}

\* A step of session s, to the value t, does not disturb the other sessions.
Undisturbed(s, t) ==
  \A x \in Session \ {s} :
    /\ session[x].pc # "idle" => copy'[session[x].mail] = copy[session[x].mail]
    /\ Holding(x) => raw'[session[x].id] = raw[session[x].id]
    /\ session[x].mail # t.mail
    /\ t.pc \in HoldingPc /\ Holding(x) => session[x].id # t.id

\* The session conjuncts of IngestInv said of the value t after a step.
WellFormed(t) ==
  /\ t.mail \in Mail
  /\ t.pc # "idle"
  /\ t.pc = "limit" => t.cur # None
  /\ t.accepted # {} => t.first # None /\ t.addr # None
  /\ t.pc \in HoldingPc => t.accepted # {} /\ t.id \in objects'
  /\ t.todo \cup t.accepted \subseteq {a \in Address : copy'[t.mail][a] = "queued"}
  /\ t.todo \cap t.accepted = {}
  /\ t.pc = "limit" => copy'[t.mail][t.cur] = "queued" /\ t.cur \notin t.todo \cup t.accepted
  /\ t.pc \in {"load", "persist"} => raw'[t.id] = None
  /\ t.pc \in {"enqueue", "reply"} => raw'[t.id] # None /\ raw'[t.id].mail = t.mail

\* A session may change to any well-formed one that keeps its id, its mail and
\* its recipients apart from the others: the invariant of the sessions survives.
LEMMA ChangeParts ==
  ASSUME IngestInv, NEW s \in Session, NEW t \in SessionState,
         session' = [session EXCEPT ![s] = t], objects \subseteq objects',
         Undisturbed(s, t), WellFormed(t)
  PROVE  SessionsComplete' /\ SessionsApart' /\ RecipientsQueued' /\ RowsOfSessions'
<1> USE DEF IngestInv, Undisturbed, WellFormed
<1>1. session'[s] = t /\ \A x \in Session : x # s => session'[x] = session[x]
  BY DEF TypeOK
<1>2. SessionsComplete'
  BY <1>1, IngestAssumption DEF SessionsComplete, Holding, HoldingPc
<1>3. SessionsApart'
  BY <1>1 DEF SessionsApart, Holding, HoldingPc
<1>4. RecipientsQueued'
  <2> DEFINE InQueue(m) == {a \in Address : copy'[m][a] = "queued"}
  <2> SUFFICES ASSUME NEW x \in Session, session'[x].pc # "idle"
               PROVE  LET u == session'[x] IN
                      /\ u.todo \cup u.accepted \subseteq InQueue(u.mail)
                      /\ u.todo \cap u.accepted = {}
                      /\ u.pc = "limit" =>
                           u.cur \in InQueue(u.mail) \ (u.todo \cup u.accepted)
    BY DEF RecipientsQueued, Queued
  <2>1. CASE x = s
    BY <1>1, <2>1 DEF SessionState
  <2>2. CASE x # s
    <3>1. session'[x] = session[x] /\ InQueue(session[x].mail) = Queued(session[x].mail)
      BY <1>1, <2>2 DEF Queued
    <3> QED BY <3>1 DEF RecipientsQueued
  <2> QED BY <2>1, <2>2
<1>5. RowsOfSessions'
  BY <1>1 DEF RowsOfSessions, Holding
<1> QED BY <1>2, <1>3, <1>4, <1>5

\* What IngestInv says of one session, in the form the actions need.
LEMMA SessionFacts ==
  ASSUME IngestInv, NEW s \in Session
  PROVE  /\ session[s] \in SessionState
         /\ session[s].pc # "idle" => session[s].mail \in Mail
         /\ session[s].pc = "limit" => session[s].cur \in Address
         /\ session[s].accepted # {} => session[s].first # None /\ session[s].addr # None
         /\ Holding(s) => /\ session[s].accepted # {}
                          /\ session[s].id \in objects
                          /\ session[s].id \in RawId
         /\ \A x \in Session \ {s} :
              /\ session[s].pc # "idle" => session[x].mail # session[s].mail
              /\ Holding(s) /\ Holding(x) => session[x].id # session[s].id
BY DEF IngestInv, TypeOK, SessionsComplete, SessionsApart, SessionState, Holding

\* Settle changes the named copies of one mail and no other.
LEMMA SettleCopies ==
  ASSUME TypeOK, NEW m \in Mail, NEW rcpts, NEW verdict, Settle(m, rcpts, verdict)
  PROVE  \A n \in Mail : \A a \in Address :
           copy'[n][a] = IF n = m /\ a \in rcpts THEN verdict ELSE copy[n][a]
BY DEF TypeOK, Settle

\* The limiter admits a recipient: it moves from cur to the accepted ones.
LEMMA AcceptParts ==
  ASSUME IngestInv, NEW s \in Session, session[s].pc = "limit", Accept(s),
         UNCHANGED <<copy, objects, raw>>
  PROVE  SessionsComplete' /\ SessionsApart' /\ RecipientsQueued' /\ RowsOfSessions'
<1> DEFINE a == session[s].cur
           t == [session[s] EXCEPT !.pc = "rcpt", !.cur = None,
                   !.first = IF @ = None THEN a ELSE @,
                   !.accepted = @ \cup {a}, !.addr = a]
<1>1. a \in Address /\ session[s].mail \in Mail /\ session[s] \in SessionState
  BY SessionFacts
<1>2. t \in SessionState /\ session' = [session EXCEPT ![s] = t]
  BY <1>1 DEF SessionState, Accept
<1>3. Undisturbed(s, t)
  BY <1>1, <1>2, SessionFacts DEF Undisturbed, HoldingPc, SessionState
<1>4. WellFormed(t)
  BY <1>1, <1>2, SessionFacts, IngestAssumption
  DEF WellFormed, HoldingPc, IngestInv, RecipientsQueued, Queued, SessionState
<1> QED BY <1>2, <1>3, <1>4, ChangeParts

\* One recipient is refused before DATA.
LEMMA RefuseParts ==
  ASSUME IngestInv, NEW s \in Session, session[s].pc = "rcpt", NEW a \in session[s].todo,
         session' = [session EXCEPT ![s].todo = @ \ {a}],
         Settle(session[s].mail, {a}, "bounced"), UNCHANGED <<objects, raw>>
  PROVE  SessionsComplete' /\ SessionsApart' /\ RecipientsQueued' /\ RowsOfSessions'
<1> DEFINE t == [session[s] EXCEPT !.todo = @ \ {a}]
<1>0. session[s] \in SessionState /\ session[s].mail \in Mail
  BY SessionFacts
<1>1. t \in SessionState /\ session' = [session EXCEPT ![s] = t]
  BY <1>0 DEF SessionState
<1>2. /\ \A m \in Mail : m # t.mail => copy'[m] = copy[m]
      /\ \A b \in Address : b # a => copy'[t.mail][b] = copy[t.mail][b]
  BY <1>0, <1>1 DEF Settle, IngestInv, TypeOK, SessionState
<1>3. Undisturbed(s, t)
  BY <1>0, <1>1, <1>2, SessionFacts DEF Undisturbed, HoldingPc, SessionState
<1>4. WellFormed(t)
  BY <1>0, <1>1, <1>2, SessionFacts
  DEF WellFormed, HoldingPc, IngestInv, RecipientsQueued, Queued, SessionState
<1> QED BY <1>0, <1>1, <1>3, <1>4, ChangeParts

\* Every step of handle_RCPT keeps the inductive invariant.
LEMMA RcptParts ==
  ASSUME IngestInv, NEW s \in Session, Rcpt(s), TypeOK'
  PROVE  Parts'
<1> USE DEF IngestInv
<1>0. /\ session[s] \in SessionState
      /\ objects' = objects /\ raw' = raw
      /\ session[s].pc \in {"rcpt", "limit"}
      /\ session[s].mail \in Mail
  BY SessionFacts DEF Rcpt, RcptKnown, RcptRefused, RcptAdmitted, RcptLimited, Quit
<1>1. StoredMails' = StoredMails
  BY <1>0 DEF StoredMails
<1>2. \A m \in Mail : \A a \in Address : copy'[m][a] = "sent" => copy[m][a] = "sent"
  <2>1. copy' = copy \/ \E a \in Address : Settle(session[s].mail, {a}, "bounced")
    BY DEF Rcpt, RcptKnown, RcptRefused, RcptAdmitted, RcptLimited, Quit
  <2>2. CASE copy' = copy
    BY <2>2
  <2>3. CASE \E a \in Address : Settle(session[s].mail, {a}, "bounced")
    <3> PICK a \in Address : Settle(session[s].mail, {a}, "bounced")
      BY <2>3
    <3> QED BY <1>0, SettleCopies
  <2> QED BY <2>1, <2>2, <2>3
<1>3. AckedIsDurable' /\ RowsHaveObjects'
  BY <1>0, <1>1, <1>2, AckedStays DEF RowsHaveObjects
<1>4. SUFFICES SessionsComplete' /\ SessionsApart' /\ RecipientsQueued' /\ RowsOfSessions'
  BY <1>3 DEF Parts
<1>5. CASE \E a \in Address : RcptKnown(s, a)
  <2> PICK a \in Address : RcptKnown(s, a)
    BY <1>5
  <2> DEFINE t == [session[s] EXCEPT !.pc = "limit", !.cur = a, !.todo = @ \ {a}]
  <2>1. t \in SessionState /\ session' = [session EXCEPT ![s] = t] /\ copy' = copy
    BY <1>0 DEF SessionState, RcptKnown
  <2>2. Undisturbed(s, t)
    BY <1>0, <2>1, SessionFacts DEF Undisturbed, HoldingPc, SessionState
  <2>3. WellFormed(t)
    BY <1>0, <2>1, SessionFacts, IngestAssumption
    DEF WellFormed, HoldingPc, RcptKnown, RecipientsQueued, Queued, SessionState
  <2> QED BY <1>0, <2>1, <2>2, <2>3, ChangeParts
<1>6. CASE \E a \in Address : RcptRefused(s, a)
  BY <1>6, RefuseParts DEF RcptRefused
<1>7. CASE RcptAdmitted(s)
  BY <1>0, <1>7, AcceptParts DEF RcptAdmitted
<1>8. CASE RcptLimited(s)
  <2> DEFINE t == [session[s] EXCEPT !.pc = "rcpt", !.cur = None]
  <2>1. t \in SessionState /\ session' = [session EXCEPT ![s] = t] /\ copy' = copy
    BY <1>0, <1>8 DEF SessionState, RcptLimited
  <2>2. Undisturbed(s, t)
    BY <1>0, <2>1, SessionFacts DEF Undisturbed, HoldingPc, SessionState
  <2>3. WellFormed(t)
    BY <1>0, <1>8, <2>1, SessionFacts
    DEF WellFormed, HoldingPc, RcptLimited, RecipientsQueued, Queued, SessionState
  <2> QED BY <1>0, <2>1, <2>2, <2>3, ChangeParts
<1>9. CASE Quit(s)
  BY <1>9, EndParts DEF Quit
<1> QED BY <1>5, <1>6, <1>7, <1>8, <1>9 DEF Rcpt

\* A refusal that ends the transaction.
LEMMA BounceParts ==
  ASSUME IngestInv, NEW s \in Session, session[s].mail \in Mail, EndSession(s),
         Answer(s, "bounced"), UNCHANGED <<objects, raw>>
  PROVE  Parts'
<1> USE DEF IngestInv
<1> PICK rcpts \in SUBSET session[s].accepted : Settle(session[s].mail, rcpts, "bounced")
  BY DEF Answer
<1>1. \A m \in Mail : m # session[s].mail => copy'[m] = copy[m]
  BY DEF Settle, TypeOK
<1>2. StoredMails' = StoredMails
  BY DEF StoredMails
<1>3. AckedIsDurable'
  BY <1>2, SettleCopies, AckedStays
<1> QED BY <1>1, <1>3, EndParts DEF Parts

\* A session ends and Postfix keeps its copies.
LEMMA DeferParts ==
  ASSUME IngestInv, NEW s \in Session, EndSession(s), UNCHANGED <<copy, objects, raw>>
  PROVE  Parts'
<1> USE DEF IngestInv
<1>1. StoredMails' = StoredMails
  BY DEF StoredMails
<1>2. AckedIsDurable'
  BY <1>1, AckedStays
<1> QED BY <1>2, EndParts DEF Parts

\* Going from the enqueue to the reply keeps the inductive invariant, whether
\* the task reached the broker or not.
LEMMA EnqueueParts ==
  ASSUME IngestInv, NEW s \in Session, session[s].pc = "enqueue", Goto(s, "reply"),
         UNCHANGED <<copy, objects, raw>>
  PROVE  Parts'
<1> USE DEF IngestInv
<1> DEFINE t == [session[s] EXCEPT !.pc = "reply"]
<1>1. t \in SessionState /\ session' = [session EXCEPT ![s] = t]
  BY SessionFacts DEF SessionState, Goto
<1>2. Undisturbed(s, t)
  BY <1>1, SessionFacts DEF Undisturbed, HoldingPc, SessionState, Holding
<1>3. WellFormed(t)
  BY <1>1, SessionFacts
  DEF WellFormed, HoldingPc, Holding, RecipientsQueued, RowsOfSessions, Queued, SessionState
<1>4. StoredMails' = StoredMails
  BY DEF StoredMails
<1>5. AckedIsDurable' /\ RowsHaveObjects'
  BY <1>4, AckedStays DEF RowsHaveObjects
<1> QED BY <1>1, <1>2, <1>3, <1>5, ChangeParts DEF Parts

\* The insert keeps the inductive invariant: the row belongs to the session
\* that wrote its object.
LEMMA PersistParts ==
  ASSUME IngestInv, NEW s \in Session, PersistRow(s)
  PROVE  Parts'
<1> USE DEF IngestInv
<1>0. /\ session[s] \in SessionState /\ session[s].mail \in Mail
      /\ session[s].pc = "persist" /\ UNCHANGED <<copy, objects>>
      /\ session[s].id \in objects /\ session[s].id \in RawId
      /\ raw[session[s].id] = None
  BY SessionFacts DEF PersistRow, Holding, RowsOfSessions
<1>1. CASE address[session[s].addr].st = "deleted"
  BY <1>0, <1>1, DeferParts DEF PersistRow
<1>2. CASE address[session[s].addr].st # "deleted"
  <2> DEFINE t == [session[s] EXCEPT !.pc = "enqueue"]
  <2>1. t \in SessionState /\ session' = [session EXCEPT ![s] = t]
    BY <1>0, <1>2 DEF SessionState, PersistRow, Goto
  <2>2. /\ raw'[session[s].id] = NewRow(s)
        /\ \A r \in RawId : r # session[s].id => raw'[r] = raw[r]
    BY <1>0, <1>2 DEF PersistRow, TypeOK
  <2>3. NewRow(s) # None /\ NewRow(s).mail = session[s].mail
    BY <1>0, NewRowTyped, NoneIsNoRow DEF NewRow
  <2>4. Undisturbed(s, t)
    BY <1>0, <2>1, <2>2, SessionFacts DEF Undisturbed, HoldingPc, SessionState, Holding
  <2>5. WellFormed(t)
    BY <1>0, <2>1, <2>2, <2>3, SessionFacts
    DEF WellFormed, HoldingPc, Holding, RecipientsQueued, Queued, SessionState
  <2>6. StoredMails \subseteq StoredMails'
    <3> SUFFICES ASSUME NEW m \in StoredMails PROVE m \in StoredMails'
      OBVIOUS
    <3>1. PICK r \in objects : raw[r] # None /\ raw[r].mail = m
      BY DEF StoredMails
    <3>2. raw'[r] = raw[r] /\ r \in objects'
      BY <1>0, <2>2, <3>1 DEF TypeOK
    <3> QED BY <3>1, <3>2 DEF StoredMails
  <2>7. AckedIsDurable' /\ RowsHaveObjects'
    BY <1>0, <2>2, <2>6, AckedStays DEF RowsHaveObjects
  <2> QED BY <1>0, <2>1, <2>4, <2>5, <2>7, ChangeParts DEF Parts
<1> QED BY <1>1, <1>2

\* Every step of handle_DATA keeps the inductive invariant.
LEMMA DataParts ==
  ASSUME IngestInv, NEW s \in Session, Data(s)
  PROVE  Parts'
<1> USE DEF IngestInv
<1>0. /\ session[s] \in SessionState
      /\ session[s].mail \in Mail
      /\ session[s].accepted # {} /\ session[s].accepted \subseteq Address
      /\ objects \subseteq objects'
  BY SessionFacts DEF Data, TooLarge, PutRawMail, LoadAddress, PersistRow, EnqueueParse,
                      Reply, DataPhase, Holding, SessionState
<1>1. CASE TooLarge(s)
  <2>1. StoredMails' = StoredMails /\ UNCHANGED <<objects, raw>>
    BY <1>1 DEF TooLarge, StoredMails
  <2>2. Answer(s, "bounced") /\ EndSession(s)
    BY <1>1 DEF TooLarge
  <2> QED BY <1>0, <2>1, <2>2, BounceParts
<1>2. CASE \E id \in RawId : PutRawMail(s, id)
  <2> PICK id \in RawId : PutRawMail(s, id)
    BY <1>2
  <2> DEFINE t == [session[s] EXCEPT !.pc = "load", !.id = id]
  <2>1. t \in SessionState /\ session' = [session EXCEPT ![s] = t] /\ UNCHANGED <<copy, raw>>
    BY <1>0 DEF SessionState, PutRawMail
  <2>2. id \notin objects /\ raw[id] = None
    BY DEF PutRawMail, RowsHaveObjects
  <2>3. Undisturbed(s, t)
    BY <1>0, <2>1, <2>2, SessionFacts
    DEF Undisturbed, HoldingPc, SessionState, PutRawMail, DataPhase
  <2>4. WellFormed(t)
    BY <1>0, <2>1, <2>2, SessionFacts
    DEF WellFormed, HoldingPc, PutRawMail, DataPhase, RecipientsQueued, Queued, SessionState
  <2>5. StoredMails \subseteq StoredMails'
    BY <1>0, <2>1 DEF StoredMails
  <2>6. AckedIsDurable' /\ RowsHaveObjects'
    BY <1>0, <2>1, <2>5, AckedStays DEF RowsHaveObjects
  <2> QED BY <1>0, <2>1, <2>3, <2>4, <2>6, ChangeParts DEF Parts
<1>3. CASE LoadAddress(s)
  <2> DEFINE a == session[s].addr
             t == [session[s] EXCEPT !.pc = "persist", !.cam = CameraOf[a]]
  <2>0. UNCHANGED <<objects, raw>> /\ a \in Address /\ session[s].pc = "load"
    BY <1>0, <1>3, SessionFacts DEF LoadAddress, SessionState
  <2>1. CASE address[a].st = "deleted"
    <3>1. Answer(s, "bounced") /\ EndSession(s)
      BY <1>3, <2>1 DEF LoadAddress
    <3>2. StoredMails' = StoredMails
      BY <2>0 DEF StoredMails
    <3> QED BY <1>0, <2>0, <3>1, <3>2, BounceParts
  <2>2. CASE address[a].st # "deleted"
    <3>1. /\ t \in SessionState /\ session' = [session EXCEPT ![s] = t]
          /\ UNCHANGED <<copy, objects, raw>>
      <4>1. t \in SessionState
        BY <1>0, <2>0, IngestAssumption DEF SessionState
      <4> QED BY <1>3, <2>2, <4>1 DEF LoadAddress
    <3>2. Undisturbed(s, t)
      BY <1>0, <2>0, <3>1, SessionFacts DEF Undisturbed, HoldingPc, SessionState, Holding
    <3>3. WellFormed(t)
      BY <1>0, <2>0, <3>1, SessionFacts
      DEF WellFormed, HoldingPc, Holding, RecipientsQueued, RowsOfSessions, Queued, SessionState
    <3>4. StoredMails' = StoredMails
      BY <3>1 DEF StoredMails
    <3>5. AckedIsDurable' /\ RowsHaveObjects'
      BY <3>1, <3>4, AckedStays DEF RowsHaveObjects
    <3> QED BY <1>0, <3>1, <3>2, <3>3, <3>5, ChangeParts DEF Parts
  <2> QED BY <2>1, <2>2
<1>4. CASE PersistRow(s)
  BY <1>4, PersistParts
<1>5. CASE EnqueueParse(s)
  BY <1>5, EnqueueParts DEF EnqueueParse
<1>6. CASE Reply(s)
  <2>1. EndSession(s) /\ Answer(s, "sent")
          /\ UNCHANGED <<objects, raw>> /\ session[s].pc = "reply"
    BY <1>6 DEF Reply
  <2>2. StoredMails' = StoredMails
    BY <2>1 DEF StoredMails
  <2>3. session[s].mail \in StoredMails
    BY <1>0, <2>1, SessionFacts DEF RowsOfSessions, Holding, StoredMails
  <2> PICK rcpts \in SUBSET session[s].accepted : Settle(session[s].mail, rcpts, "sent")
    BY <2>1 DEF Answer
  <2>4. \A m \in Mail : m # session[s].mail => copy'[m] = copy[m]
    BY <1>0 DEF Settle, TypeOK
  <2>5. AckedIsDurable'
    BY <1>0, <2>2, <2>3, SettleCopies, AckedStays
  <2> QED BY <2>1, <2>4, <2>5, EndParts DEF Parts
<1> QED BY <1>1, <1>2, <1>3, <1>4, <1>5, <1>6 DEF Data

\* Every failure of a session keeps the inductive invariant.
LEMMA FaultParts ==
  ASSUME IngestInv, NEW s \in Session, SessionFault(s)
  PROVE  Parts'
<1> USE DEF IngestInv
<1>0. session[s].pc # "idle" /\ session[s].mail \in Mail /\ UNCHANGED <<objects, raw>>
  BY SessionFacts DEF SessionFault, RcptLookupFails, RcptFailOpen, PutRejected,
    PutUnreachable, PersistFails, EnqueueFails, ConnectionLost, DataPhase
<1>1. StoredMails' = StoredMails
  BY <1>0 DEF StoredMails
<1>2. CASE \E a \in Address : RcptLookupFails(s, a)
  <2> PICK a \in Address : RcptLookupFails(s, a)
    BY <1>2
  <2>1. Settle(session[s].mail, {a}, "bounced") /\ a \in session[s].todo
    BY DEF RcptLookupFails
  <2>2. AckedIsDurable' /\ RowsHaveObjects'
    BY <1>0, <1>1, <2>1, SettleCopies, AckedStays DEF RowsHaveObjects
  <2>3. SessionsComplete' /\ SessionsApart' /\ RecipientsQueued' /\ RowsOfSessions'
    BY <1>0, <2>1, RefuseParts DEF RcptLookupFails
  <2> QED BY <2>2, <2>3 DEF Parts
<1>3. CASE RcptFailOpen(s)
  <2>1. AckedIsDurable' /\ RowsHaveObjects'
    BY <1>0, <1>1, <1>3, AckedStays DEF RowsHaveObjects, RcptFailOpen
  <2> QED BY <1>0, <1>3, <2>1, AcceptParts DEF Parts, RcptFailOpen
<1>4. CASE PutRejected(s) \/ PersistFails(s) \/ ConnectionLost(s)
  BY <1>4, DeferParts DEF PutRejected, PersistFails, ConnectionLost
<1>5. CASE PutUnreachable(s)
  BY <1>0, <1>5, BounceParts DEF PutUnreachable
<1>6. CASE EnqueueFails(s)
  BY <1>6, EnqueueParts DEF EnqueueFails
<1> QED BY <1>2, <1>3, <1>4, <1>5, <1>6 DEF SessionFault

\* A new transaction for a queued mail keeps the inductive invariant.
LEMMA MailFromParts ==
  ASSUME IngestInv, NEW s \in Session, NEW m \in Mail, MailFrom(s, m)
  PROVE  Parts'
<1> USE DEF IngestInv
<1> DEFINE t == [IdleSession EXCEPT !.pc = "rcpt", !.mail = m, !.todo = Queued(m)]
<1>1. t \in SessionState /\ session' = [session EXCEPT ![s] = t]
  <2>1. Queued(m) \subseteq Address
    BY DEF Queued
  <2>2. t \in SessionState
    BY <2>1, IdleTyped DEF SessionState
  <2> QED BY <2>2 DEF MailFrom
<1>2. t.pc = "rcpt" /\ t.mail = m /\ t.todo = Queued(m) /\ t.accepted = {}
  BY DEF IdleSession
<1>3. UNCHANGED <<copy, objects, raw>>
  BY DEF MailFrom
<1>4. Undisturbed(s, t)
  BY <1>2, <1>3 DEF Undisturbed, HoldingPc, MailFrom, InSession
<1>5. WellFormed(t)
  BY <1>2, <1>3 DEF WellFormed, HoldingPc, Queued
<1>6. StoredMails' = StoredMails
  BY <1>3 DEF StoredMails
<1>7. AckedIsDurable' /\ RowsHaveObjects'
  BY <1>3, <1>6, AckedStays DEF RowsHaveObjects
<1> QED BY <1>1, <1>3, <1>4, <1>5, <1>7, ChangeParts DEF Parts

\* Deleting a camera changes columns of rows, never which rows there are.
LEMMA DeletedRows ==
  ASSUME TypeOK, NEW c \in Camera, DeleteCamera(c), NEW r \in RawId
  PROVE  /\ raw'[r] = None <=> raw[r] = None
         /\ raw[r] # None => raw'[r].mail = raw[r].mail
<1>1. CASE raw[r] = None
  BY <1>1 DEF DeleteCamera
<1>2. CASE raw[r] # None
  <2>1. raw[r] \in RawRow
    BY <1>2 DEF TypeOK
  <2>2. raw'[r] \in RawRow /\ raw'[r].mail = raw[r].mail
    BY <1>2, <2>1 DEF DeleteCamera, RawRow
  <2> QED BY <1>2, <2>2, NoneIsNoRow
<1> QED BY <1>1, <1>2

\* Crashes, minutes and the address API keep the inductive invariant.
LEMMA EnvironmentParts ==
  ASSUME IngestInv,
         Crash \/ NextMinute \/ (\E c \in Camera : DeleteCamera(c))
           \/ \E a \in Address : Revoke(a) \/ \E on \in BOOLEAN : SetQuarantine(a, on)
  PROVE  Parts'
<1> USE DEF IngestInv
<1>1. CASE Crash
  <2>1. /\ \A s \in Session : session'[s] = IdleSession
        /\ UNCHANGED <<copy, objects, raw>>
    BY <1>1 DEF Crash
  <2>2. SessionsComplete' /\ SessionsApart' /\ RecipientsQueued' /\ RowsOfSessions'
    BY <2>1 DEF SessionsComplete, SessionsApart, RecipientsQueued, RowsOfSessions, Holding,
                IdleSession
  <2>3. StoredMails' = StoredMails
    BY <2>1 DEF StoredMails
  <2> QED BY <2>1, <2>2, <2>3 DEF Parts, AckedIsDurable, RowsHaveObjects
<1>2. CASE UNCHANGED <<copy, session, objects, raw>>
  BY <1>2 DEF Parts, SessionsComplete, SessionsApart, RecipientsQueued, RowsOfSessions,
    Holding, Queued, AckedIsDurable, StoredMails, RowsHaveObjects
<1>3. CASE \E c \in Camera : DeleteCamera(c)
  <2> PICK c \in Camera : DeleteCamera(c)
    BY <1>3
  <2>1. UNCHANGED <<copy, session, objects>>
    BY DEF DeleteCamera
  <2>2. \A r \in RawId : /\ raw'[r] = None <=> raw[r] = None
                         /\ raw[r] # None => raw'[r].mail = raw[r].mail
    BY DeletedRows
  <2>3. SessionsComplete' /\ SessionsApart' /\ RecipientsQueued'
    BY <2>1 DEF SessionsComplete, SessionsApart, RecipientsQueued, Holding, Queued
  <2>4. RowsOfSessions'
    BY <2>1, <2>2, SessionFacts DEF RowsOfSessions, Holding
  <2>5. StoredMails' = StoredMails
    BY <2>1, <2>2 DEF StoredMails, TypeOK
  <2> QED BY <2>1, <2>2, <2>3, <2>4, <2>5 DEF Parts, AckedIsDurable, RowsHaveObjects
<1> QED BY <1>1, <1>2, <1>3 DEF NextMinute, Revoke, SetQuarantine

\* The invariant is inductive.
LEMMA InvStep == IngestInv /\ [Next]_vars => IngestInv'
<1> SUFFICES ASSUME IngestInv, [Next]_vars PROVE IngestInv'
  OBVIOUS
<1>1. TypeOK'
  BY TypeStep DEF IngestInv
<1>2. Parts'
  <2>1. CASE UNCHANGED vars
    BY <2>1 DEF vars, IngestInv, Parts, SessionsComplete, SessionsApart, RecipientsQueued,
      RowsOfSessions, RowsHaveObjects, AckedIsDurable, Holding, Queued, StoredMails
  <2>2. CASE Next
    BY <1>1, <2>2, RcptParts, DataParts, FaultParts, MailFromParts, EnvironmentParts
    DEF Next, IngestStage
  <2> QED BY <2>1, <2>2
<1> QED BY <1>1, <1>2 DEF IngestInv, Parts

\* The inductive invariant of the ingest service holds in every behaviour.
THEOREM IngestInvariant == Spec => []IngestInv
BY InitInv, InvStep, PTL DEF Spec

\* The variables of the ingest service keep their types.
THEOREM IngestTypes == Spec => []TypeOK
<1>1. IngestInv => TypeOK
  BY DEF IngestInv
<1> QED BY <1>1, IngestInvariant, PTL

\* Persist before ACK: no interleaving, outage or crash makes the service
\* answer 250 for a mail without a row and its bytes (handle_DATA).
THEOREM AckedDurable == Spec => []AckedIsDurable
<1>1. IngestInv => AckedIsDurable
  BY DEF IngestInv
<1> QED BY <1>1, IngestInvariant, PTL

\* A raw_messages row always has its object (put before insert, handle_DATA).
THEOREM RowsObjects == Spec => []RowsHaveObjects
<1>1. IngestInv => RowsHaveObjects
  BY DEF IngestInv
<1> QED BY <1>1, IngestInvariant, PTL

-----------------------------------------------------------------------------
(* AlertIngest implements MailCustody *)

\* The initial states of the service are initial custody states.
LEMMA CustodyStart == Init => Custody!CustodyInit
BY DEF Init, Custody!CustodyInit, StoredMails

\* A permanent refusal is a step of the custody contract.
LEMMA RefuseMaps ==
  ASSUME TypeOK, NEW m \in Mail, NEW rcpts \in SUBSET Address, rcpts \subseteq Queued(m),
         Settle(m, rcpts, "bounced"), StoredMails' = StoredMails
  PROVE  Custody!CustodyNext
<1>1. Custody!Settle(m, rcpts, "bounced")
  BY DEF Settle, Queued, Custody!Settle
<1> QED BY <1>1 DEF Custody!CustodyNext, Custody!Refuse

\* So is a permanent refusal in reply to DATA.
LEMMA AnswerMaps ==
  ASSUME TypeOK, NEW s \in Session, session[s].mail \in Mail,
         session[s].accepted \subseteq Queued(session[s].mail),
         Answer(s, "bounced"), StoredMails' = StoredMails
  PROVE  Custody!CustodyNext
<1> PICK rcpts \in SUBSET session[s].accepted : Settle(session[s].mail, rcpts, "bounced")
  BY DEF Answer
<1>1. rcpts \in SUBSET Address /\ rcpts \subseteq Queued(session[s].mail)
  BY DEF Queued
<1> QED BY <1>1, RefuseMaps

\* A step that touches neither queue, objects nor rows is a stuttering step.
LEMMA StutterMaps ==
  ASSUME UNCHANGED <<copy, objects, raw>>
  PROVE  UNCHANGED <<copy, StoredMails>>
BY DEF StoredMails

\* Every step of handle_RCPT is a refusal or a stuttering step of the contract.
LEMMA RcptMaps ==
  ASSUME IngestInv, NEW s \in Session, Rcpt(s)
  PROVE  [Custody!CustodyNext]_<<copy, StoredMails>>
<1> USE DEF IngestInv
<1>1. CASE \E a \in Address : RcptRefused(s, a)
  <2> PICK a \in Address : RcptRefused(s, a)
    BY <1>1
  <2>1. session[s].mail \in Mail /\ {a} \subseteq Queued(session[s].mail)
    BY SessionFacts DEF RcptRefused, RecipientsQueued
  <2>2. StoredMails' = StoredMails
    BY DEF RcptRefused, StoredMails
  <2> QED BY <2>1, <2>2, RefuseMaps DEF RcptRefused
<1>2. CASE ~\E a \in Address : RcptRefused(s, a)
  BY <1>2, StutterMaps DEF Rcpt, RcptKnown, RcptAdmitted, RcptLimited, Quit
<1> QED BY <1>1, <1>2

\* Every step of handle_DATA stores, releases, refuses or stutters.
LEMMA DataMaps ==
  ASSUME IngestInv, NEW s \in Session, Data(s)
  PROVE  [Custody!CustodyNext]_<<copy, StoredMails>>
<1> USE DEF IngestInv
<1>0. /\ session[s].mail \in Mail
      /\ session[s].accepted \in SUBSET Address
      /\ session[s].accepted \subseteq Queued(session[s].mail)
  BY SessionFacts DEF Data, TooLarge, PutRawMail, LoadAddress, PersistRow, EnqueueParse,
                      Reply, DataPhase, RecipientsQueued, SessionState
<1>1. CASE TooLarge(s)
  <2>1. StoredMails' = StoredMails
    BY <1>1 DEF TooLarge, StoredMails
  <2> QED BY <1>0, <1>1, <2>1, AnswerMaps DEF TooLarge
<1>2. CASE \E id \in RawId : PutRawMail(s, id)
  <2> PICK id \in RawId : PutRawMail(s, id)
    BY <1>2
  <2>1. raw[id] = None /\ objects' = objects \cup {id} /\ UNCHANGED <<copy, raw>>
    BY DEF PutRawMail, RowsHaveObjects
  <2>2. StoredMails' = StoredMails
    BY <2>1 DEF StoredMails
  <2> QED BY <2>1, <2>2
<1>3. CASE LoadAddress(s)
  <2>1. StoredMails' = StoredMails
    BY <1>3 DEF LoadAddress, StoredMails
  <2>2. CASE Answer(s, "bounced")
    BY <1>0, <2>1, <2>2, AnswerMaps
  <2>3. CASE UNCHANGED copy
    BY <2>1, <2>3
  <2> QED BY <1>3, <2>2, <2>3 DEF LoadAddress
<1>4. CASE PersistRow(s)
  <2>0. /\ session[s].id \in objects /\ session[s].id \in RawId
        /\ raw[session[s].id] = None /\ UNCHANGED <<copy, objects>>
    BY <1>4, SessionFacts DEF PersistRow, Holding, RowsOfSessions
  <2>1. CASE UNCHANGED raw
    BY <2>0, <2>1, StutterMaps
  <2>2. CASE raw' = [raw EXCEPT ![session[s].id] = NewRow(s)]
    <3>1. NewRow(s) # None /\ NewRow(s).mail = session[s].mail
      BY <1>4, NewRowTyped, NoneIsNoRow DEF NewRow, PersistRow
    <3>2. \A r \in RawId : raw'[r] = IF r = session[s].id THEN NewRow(s) ELSE raw[r]
      BY <2>2 DEF TypeOK
    <3>3. StoredMails' = StoredMails \cup {session[s].mail}
      <4>1. PICK rowsNow : rowsNow = raw'
        OBVIOUS
      <4>2. StoredMails' = {m \in Mail : \E r \in objects : rowsNow[r] # None /\ rowsNow[r].mail = m}
        BY <2>0, <4>1 DEF StoredMails
      <4>3. \A r \in objects : rowsNow[r] = IF r = session[s].id THEN NewRow(s) ELSE raw[r]
        BY <3>2, <4>1 DEF TypeOK
      <4>4. session[s].mail \in Mail
        BY <1>4, SessionFacts DEF PersistRow
      <4>5. ASSUME NEW m \in Mail
            PROVE  (\E r \in objects : rowsNow[r] # None /\ rowsNow[r].mail = m)
                     <=> (m = session[s].mail
                          \/ \E r \in objects : raw[r] # None /\ raw[r].mail = m)
        BY <2>0, <3>1, <4>3
      <4> QED BY <4>2, <4>4, <4>5 DEF StoredMails
    <3>4. Custody!Store(session[s].mail)
      BY <2>0, <3>3 DEF Custody!Store
    <3> QED BY <1>0, <3>4 DEF Custody!CustodyNext
  <2> QED BY <1>4, <2>1, <2>2 DEF PersistRow
<1>5. CASE EnqueueParse(s)
  BY <1>5, StutterMaps DEF EnqueueParse
<1>6. CASE Reply(s)
  <2>1. session[s].mail \in StoredMails
    BY <1>0, <1>6, SessionFacts DEF Reply, RowsOfSessions, Holding, StoredMails
  <2>2. StoredMails' = StoredMails
    BY <1>6 DEF Reply, StoredMails
  <2> PICK rcpts \in SUBSET session[s].accepted : Settle(session[s].mail, rcpts, "sent")
    BY <1>6 DEF Reply, Answer
  <2>3. rcpts \in SUBSET Address /\ Custody!Settle(session[s].mail, rcpts, "sent")
    BY <1>0, <2>2 DEF Settle, Queued, Custody!Settle
  <2> QED BY <1>0, <2>1, <2>3 DEF Custody!CustodyNext, Custody!Release
<1> QED BY <1>1, <1>2, <1>3, <1>4, <1>5, <1>6 DEF Data

\* Every failure of a session refuses or stutters.
LEMMA FaultMaps ==
  ASSUME IngestInv, NEW s \in Session, SessionFault(s)
  PROVE  [Custody!CustodyNext]_<<copy, StoredMails>>
<1> USE DEF IngestInv
<1>1. CASE \E a \in Address : RcptLookupFails(s, a)
  <2> PICK a \in Address : RcptLookupFails(s, a)
    BY <1>1
  <2>1. session[s].mail \in Mail /\ {a} \subseteq Queued(session[s].mail)
    BY SessionFacts DEF RcptLookupFails, RecipientsQueued
  <2>2. StoredMails' = StoredMails
    BY DEF RcptLookupFails, StoredMails
  <2> QED BY <2>1, <2>2, RefuseMaps DEF RcptLookupFails
<1>2. CASE PutUnreachable(s)
  <2>1. /\ session[s].mail \in Mail
        /\ session[s].accepted \in SUBSET Address
        /\ session[s].accepted \subseteq Queued(session[s].mail)
    BY <1>2, SessionFacts DEF PutUnreachable, DataPhase, RecipientsQueued, SessionState
  <2>2. StoredMails' = StoredMails
    BY <1>2 DEF PutUnreachable, StoredMails
  <2> QED BY <1>2, <2>1, <2>2, AnswerMaps DEF PutUnreachable
<1>3. CASE RcptFailOpen(s) \/ PutRejected(s) \/ PersistFails(s) \/ EnqueueFails(s)
             \/ ConnectionLost(s)
  BY <1>3, StutterMaps DEF RcptFailOpen, PutRejected, PersistFails, EnqueueFails,
    ConnectionLost
<1> QED BY <1>1, <1>2, <1>3 DEF SessionFault

\* Every step of the service is a step of the contract or stutters.
LEMMA CustodyStep == IngestInv /\ [Next]_vars => [Custody!CustodyNext]_<<copy, StoredMails>>
<1> SUFFICES ASSUME IngestInv, [Next]_vars
             PROVE  [Custody!CustodyNext]_<<copy, StoredMails>>
  OBVIOUS
<1>1. CASE UNCHANGED <<copy, objects, raw>>
  BY <1>1, StutterMaps
<1>2. CASE \E s \in Session : Rcpt(s) \/ Data(s) \/ SessionFault(s)
  BY <1>2, RcptMaps, DataMaps, FaultMaps
<1>3. CASE \E c \in Camera : DeleteCamera(c)
  <2> PICK c \in Camera : DeleteCamera(c)
    BY <1>3
  <2>1. \A r \in RawId : /\ raw'[r] = None <=> raw[r] = None
                         /\ raw[r] # None => raw'[r].mail = raw[r].mail
    BY DeletedRows DEF IngestInv
  <2>2. UNCHANGED <<copy, objects>>
    BY DEF DeleteCamera
  <2>3. StoredMails' = StoredMails
    BY <2>1, <2>2 DEF StoredMails, IngestInv, TypeOK
  <2> QED BY <2>2, <2>3
<1> QED BY <1>1, <1>2, <1>3
    DEF Next, IngestStage, MailFrom, Crash, NextMinute, Revoke, SetQuarantine, vars

\* The ingest service implements MailCustody: whatever the sessions do, a copy
\* is with Postfix until the mail is stored or refused.
THEOREM CustodyImplemented == Spec => CustodyHolds
BY CustodyStart, CustodyStep, IngestInvariant, PTL
DEF Spec, CustodyHolds, Custody!CustodySpec, Custody!custodyVars

-----------------------------------------------------------------------------
(* What the custody contract is for: nothing is lost *)

\* Any custody of these mails, not only that of Postfix.
VARIABLES custody, stored
Contract == INSTANCE MailCustody

\* The variables of the contract keep their types.
LEMMA CustodyTypes == Contract!CustodySpec => []Contract!CustodyTypeOK
<1>1. Contract!CustodyInit => Contract!CustodyTypeOK
  BY DEF Contract!CustodyInit, Contract!CustodyTypeOK, Contract!CustodyState
<1>2. Contract!CustodyTypeOK /\ [Contract!CustodyNext]_(Contract!custodyVars)
        => Contract!CustodyTypeOK'
  <2> SUFFICES ASSUME Contract!CustodyTypeOK,
                      [Contract!CustodyNext]_(Contract!custodyVars)
               PROVE  Contract!CustodyTypeOK'
    OBVIOUS
  <2>1. CASE UNCHANGED Contract!custodyVars
    BY <2>1 DEF Contract!custodyVars, Contract!CustodyTypeOK
  <2>2. CASE Contract!CustodyNext
    <3> PICK m \in Mail : \/ Contract!Store(m)
                          \/ \E rcpts \in SUBSET Address :
                               Contract!Release(m, rcpts) \/ Contract!Refuse(m, rcpts)
      BY <2>2 DEF Contract!CustodyNext
    <3>1. CASE Contract!Store(m)
      BY <3>1 DEF Contract!Store, Contract!CustodyTypeOK
    <3>2. CASE \E rcpts \in SUBSET Address :
                  Contract!Release(m, rcpts) \/ Contract!Refuse(m, rcpts)
      BY <3>2 DEF Contract!Release, Contract!Refuse, Contract!Settle,
         Contract!CustodyTypeOK, Contract!CustodyState
    <3> QED BY <3>1, <3>2
  <2> QED BY <2>1, <2>2
<1> QED BY <1>1, <1>2, PTL DEF Contract!CustodySpec

\* A system that keeps the custody contract never loses a mail it accepted.
THEOREM CustodyLosesNothing == Contract!CustodySpec => []Contract!NothingLost
<1>1. Contract!CustodyInit => Contract!NothingLost
  BY DEF Contract!CustodyInit, Contract!NothingLost
<1>2. Contract!CustodyTypeOK /\ Contract!NothingLost
        /\ [Contract!CustodyNext]_(Contract!custodyVars) => Contract!NothingLost'
  <2> SUFFICES ASSUME Contract!CustodyTypeOK, Contract!NothingLost,
                      [Contract!CustodyNext]_(Contract!custodyVars)
               PROVE  Contract!NothingLost'
    OBVIOUS
  <2>1. CASE UNCHANGED Contract!custodyVars
    BY <2>1 DEF Contract!custodyVars, Contract!NothingLost
  <2>2. CASE Contract!CustodyNext
    <3> PICK m \in Mail : \/ Contract!Store(m)
                          \/ \E rcpts \in SUBSET Address :
                               Contract!Release(m, rcpts) \/ Contract!Refuse(m, rcpts)
      BY <2>2 DEF Contract!CustodyNext
    <3>1. CASE Contract!Store(m)
      BY <3>1 DEF Contract!Store, Contract!NothingLost
    <3>2. CASE \E rcpts \in SUBSET Address :
                  Contract!Release(m, rcpts) \/ Contract!Refuse(m, rcpts)
      BY <3>2 DEF Contract!Release, Contract!Refuse, Contract!Settle,
         Contract!CustodyTypeOK, Contract!NothingLost
    <3> QED BY <3>1, <3>2
  <2> QED BY <2>1, <2>2
<1> QED BY <1>1, <1>2, CustodyTypes, PTL DEF Contract!CustodySpec

-----------------------------------------------------------------------------
(* Rows are accounted for *)

\* The rows of a mail, and the recipients whose fate Postfix knows.
RowsOf(m) == {r \in RawId : raw[r] # None /\ raw[r].mail = m}
Settled(m) == {a \in Address : copy[m][a] \in {"sent", "bounced"}}

\* A session has inserted the row of the mail and not yet said so.
Answering(m) ==
  \E s \in Session : session[s].mail = m /\ session[s].pc \in {"enqueue", "reply"}

\* Inductive together with IngestInv: every row of a mail was answered for, or was
\* lost with a fault, or its answer is still to come.
RowsAccounted ==
  \A m \in Mail :
    /\ IsFiniteSet(RowsOf(m))
    /\ Cardinality(RowsOf(m))
         <= Cardinality(Settled(m)) + faults + (IF Answering(m) THEN 1 ELSE 0)

\* Any set of recipients is finite.
LEMMA RecipientsFinite ==
  ASSUME NEW S \in SUBSET Address
  PROVE  IsFiniteSet(S) /\ Cardinality(S) \in Nat
BY AddressesFinite, FS_Subset, FS_CardinalityType

\* No step takes back what Postfix was told.
LEMMA SettledKept ==
  ASSUME IngestInv, [Next]_vars, NEW m \in Mail
  PROVE  Settled(m) \subseteq Settled(m)'
<1>1. [Custody!CustodyNext]_<<copy, StoredMails>>
  BY CustodyStep
<1>2. CASE copy' = copy
  BY <1>2 DEF Settled
<1>3. ASSUME NEW n \in Mail, NEW rcpts \in SUBSET Address, NEW verdict \in {"sent", "bounced"},
             Custody!Settle(n, rcpts, verdict)
      PROVE  Settled(m) \subseteq Settled(m)'
  BY <1>3 DEF Custody!Settle, Settled, IngestInv, TypeOK
<1> QED BY <1>1, <1>2, <1>3
    DEF Custody!CustodyNext, Custody!Store, Custody!Release, Custody!Refuse

\* What a step of session x leaves alone.
SparesOthers(x) ==
  /\ PersistRow(x) \/ raw' = raw
  /\ Fault \/ faults' = faults
  /\ \A s \in Session \ {x} : session'[s] = session[s]
  /\ session[x].pc \in {"enqueue", "reply"} => EnqueueParse(x) \/ Reply(x) \/ Fault

\* The steps of a session leave the other sessions as they are.
LEMMA SessionStep ==
  ASSUME TypeOK, NEW x \in Session,
         (\E m \in Mail : MailFrom(x, m)) \/ Rcpt(x) \/ Data(x) \/ SessionFault(x)
  PROVE  SparesOthers(x)
<1> USE DEF SparesOthers, TypeOK
<1>1. CASE \E m \in Mail : MailFrom(x, m)
  <2> PICK m \in Mail : MailFrom(x, m)
    BY <1>1
  <2> QED BY DEF MailFrom
<1>2. CASE Rcpt(x)
  <2>1. raw' = raw /\ faults' = faults /\ session[x].pc \in {"rcpt", "limit"}
    BY <1>2 DEF Rcpt, RcptKnown, RcptRefused, RcptAdmitted, RcptLimited, Quit
  <2>2. \A s \in Session \ {x} : session'[s] = session[s]
    BY <1>2 DEF Rcpt, RcptKnown, RcptRefused, RcptAdmitted, RcptLimited, Quit, Accept, EndSession
  <2> QED BY <2>1, <2>2
<1>3. CASE Data(x)
  <2>1. CASE TooLarge(x) \/ (\E id \in RawId : PutRawMail(x, id)) \/ LoadAddress(x)
    BY <2>1 DEF TooLarge, PutRawMail, LoadAddress, DataPhase, EndSession
  <2>2. CASE PersistRow(x) \/ EnqueueParse(x) \/ Reply(x)
    BY <2>2 DEF PersistRow, EnqueueParse, Reply, EndSession, Goto
  <2> QED BY <1>3, <2>1, <2>2 DEF Data
<1>4. CASE SessionFault(x)
  <2>1. UNCHANGED raw /\ Fault
    BY <1>4 DEF SessionFault, RcptLookupFails, RcptFailOpen, PutRejected, PutUnreachable,
      PersistFails, EnqueueFails, ConnectionLost
  <2>2. \A s \in Session \ {x} : session'[s] = session[s]
    BY <1>4 DEF SessionFault, RcptLookupFails, RcptFailOpen, PutRejected, PutUnreachable,
      PersistFails, EnqueueFails, ConnectionLost, Accept, EndSession, Goto
  <2> QED BY <2>1, <2>2
<1> QED BY <1>1, <1>2, <1>3, <1>4

\* A step is one of a session, a crash, or leaves sessions and faults alone.
LEMMA StepKinds ==
  ASSUME TypeOK, [Next]_vars
  PROVE  \/ \E x \in Session : SparesOthers(x)
         \/ Fault /\ raw' = raw
         \/ UNCHANGED <<session, faults>> /\ (raw' = raw \/ \E c \in Camera : DeleteCamera(c))
<1>1. CASE \E x \in Session :
             (\E m \in Mail : MailFrom(x, m)) \/ Rcpt(x) \/ Data(x) \/ SessionFault(x)
  BY <1>1, SessionStep
<1>2. CASE Crash
  BY <1>2 DEF Crash
<1>3. CASE \/ NextMinute \/ \E c \in Camera : DeleteCamera(c)
           \/ \E a \in Address : Revoke(a) \/ \E on \in BOOLEAN : SetQuarantine(a, on)
           \/ UNCHANGED vars
  <2>1. CASE \E c \in Camera : DeleteCamera(c)
    BY <2>1 DEF DeleteCamera
  <2>2. CASE ~\E c \in Camera : DeleteCamera(c)
    BY <1>3, <2>2 DEF NextMinute, Revoke, SetQuarantine, vars
  <2> QED BY <2>1, <2>2
<1> QED BY <1>1, <1>2, <1>3 DEF Next, IngestStage

\* Only the insert makes a row.
LEMMA RowsKept ==
  ASSUME IngestInv, [Next]_vars, NEW m \in Mail
  PROVE  RowsOf(m)' = RowsOf(m) \/ \E s \in Session : PersistRow(s)
<1>1. CASE raw' = raw
  BY <1>1 DEF RowsOf
<1>2. CASE \E c \in Camera : DeleteCamera(c)
  <2> PICK c \in Camera : DeleteCamera(c)
    BY <1>2
  <2>1. \A r \in RawId : /\ raw'[r] = None <=> raw[r] = None
                         /\ raw[r] # None => raw'[r].mail = raw[r].mail
    BY DeletedRows DEF IngestInv
  <2> QED BY <2>1 DEF RowsOf
<1> QED BY <1>1, <1>2, StepKinds DEF SparesOthers, IngestInv

\* Faults are counted and never forgotten.
LEMMA FaultsKept ==
  ASSUME IngestInv, [Next]_vars
  PROVE  faults \in Nat /\ faults' \in Nat /\ faults <= faults'
<1>1. faults \in Nat
  BY IngestAssumption DEF IngestInv, TypeOK
<1>2. faults' = faults \/ Fault
  BY StepKinds DEF SparesOthers, IngestInv
<1> QED BY <1>1, <1>2 DEF Fault

\* The answer to an insert is given up by a fault, or told to a recipient.
LEMMA AnswerEnds ==
  ASSUME IngestInv, [Next]_vars, NEW m \in Mail, Answering(m), ~Answering(m)'
  PROVE  Fault \/ Settled(m) # Settled(m)'
<1>1. PICK s \in Session : session[s].mail = m /\ session[s].pc \in {"enqueue", "reply"}
  BY DEF Answering
<1>2. session'[s] # session[s]
  BY <1>1 DEF Answering
<1>3. CASE EnqueueParse(s)
  BY <1>1, <1>3 DEF EnqueueParse, Goto, IngestInv, TypeOK, SessionState, Answering
<1>4. CASE Reply(s)
  <2>1. PICK rcpts \in SUBSET session[s].accepted :
               session[s].first \in rcpts /\ Settle(m, rcpts, "sent")
    BY <1>1, <1>4 DEF Reply, Answer
  <2>2. session[s].first \in Queued(m)
    BY <1>1, <2>1, SessionFacts DEF IngestInv, RecipientsQueued
  <2>3. copy'[m][session[s].first] = "sent"
    BY <2>1, <2>2, SettleCopies DEF Queued, IngestInv
  <2> QED BY <2>2, <2>3 DEF Queued, Settled
<1> QED BY <1>1, <1>2, <1>3, <1>4, StepKinds DEF SparesOthers, IngestInv

\* No row was inserted yet.
LEMMA AccountsStart == Init => RowsAccounted
<1> SUFFICES ASSUME Init, NEW m \in Mail
             PROVE  /\ IsFiniteSet(RowsOf(m))
                    /\ Cardinality(RowsOf(m))
                         <= Cardinality(Settled(m)) + faults + (IF Answering(m) THEN 1 ELSE 0)
  BY DEF RowsAccounted
<1>1. RowsOf(m) = {}
  BY DEF Init, RowsOf
<1>2. faults = 0 /\ Cardinality(Settled(m)) \in Nat
  BY RecipientsFinite DEF Init, Settled
<1> QED BY <1>1, <1>2, FS_EmptySet

\* Every step keeps the account.
LEMMA AccountsStep == IngestInv /\ RowsAccounted /\ [Next]_vars => RowsAccounted'
<1> SUFFICES ASSUME IngestInv, RowsAccounted, [Next]_vars, NEW m \in Mail
             PROVE  /\ IsFiniteSet(RowsOf(m)')
                    /\ Cardinality(RowsOf(m)')
                         <= Cardinality(Settled(m)') + faults'
                              + (IF Answering(m)' THEN 1 ELSE 0)
  BY DEF RowsAccounted
<1> DEFINE n == Cardinality(RowsOf(m))
           k == Cardinality(Settled(m))
           k2 == Cardinality(Settled(m)')
<1>1. /\ IsFiniteSet(RowsOf(m)) /\ n \in Nat
      /\ n <= k + faults + (IF Answering(m) THEN 1 ELSE 0)
  BY FS_CardinalityType DEF RowsAccounted
<1>2. k \in Nat /\ k2 \in Nat /\ Settled(m) \subseteq Settled(m)' /\ IsFiniteSet(Settled(m)')
  BY SettledKept, RecipientsFinite DEF Settled
<1>3. k <= k2 /\ (k = k2 => Settled(m) = Settled(m)')
  BY <1>2, FS_Subset
<1>4. faults \in Nat /\ faults' \in Nat /\ faults <= faults'
  BY FaultsKept
<1>5. CASE RowsOf(m)' = RowsOf(m)
  <2>1. CASE Answering(m) => Answering(m)'
    BY <1>1, <1>2, <1>3, <1>4, <1>5, <2>1
  <2>2. CASE Answering(m) /\ ~Answering(m)' /\ Fault
    <3>1. faults' = faults + 1
      BY <2>2 DEF Fault
    <3> QED BY <1>1, <1>2, <1>3, <1>4, <1>5, <2>2, <3>1
  <2>3. CASE Answering(m) /\ ~Answering(m)' /\ Settled(m) # Settled(m)'
    <3>1. k + 1 <= k2
      BY <1>2, <1>3, <2>3
    <3> QED BY <1>1, <1>2, <1>4, <1>5, <2>3, <3>1
  <2> QED BY <2>1, <2>2, <2>3, AnswerEnds
<1>6. CASE \E s \in Session : PersistRow(s)
  <2> PICK s \in Session : PersistRow(s)
    BY <1>6
  <2>0. /\ session[s].pc = "persist" /\ session[s] \in SessionState
        /\ session[s].id \in RawId /\ raw[session[s].id] = None
    BY SessionFacts DEF PersistRow, Holding, RowsOfSessions, IngestInv
  <2>1. CASE UNCHANGED raw
    <3>1. RowsOf(m)' = RowsOf(m)
      BY <2>1 DEF RowsOf
    <3> QED BY <1>5, <3>1
  <2>2. CASE raw' = [raw EXCEPT ![session[s].id] = NewRow(s)] /\ Goto(s, "enqueue")
    <3>1. NewRow(s) # None /\ NewRow(s).mail = session[s].mail
      BY NewRowTyped, NoneIsNoRow DEF NewRow, PersistRow, IngestInv
    <3>2. \A r \in RawId : raw'[r] = IF r = session[s].id THEN NewRow(s) ELSE raw[r]
      BY <2>2 DEF IngestInv, TypeOK
    <3>3. CASE session[s].mail # m
      <4>1. RowsOf(m)' = RowsOf(m)
        BY <2>0, <3>1, <3>2, <3>3 DEF RowsOf
      <4> QED BY <1>5, <4>1
    <3>4. CASE session[s].mail = m
      <4>1. RowsOf(m)' = RowsOf(m) \cup {session[s].id} /\ session[s].id \notin RowsOf(m)
        BY <2>0, <3>1, <3>2, <3>4 DEF RowsOf
      <4>2. IsFiniteSet(RowsOf(m)') /\ Cardinality(RowsOf(m)') = n + 1
        <5>1. PICK rows, id : rows = RowsOf(m) /\ id = session[s].id
          OBVIOUS
        <5>2. IsFiniteSet(rows \cup {id}) /\ Cardinality(rows \cup {id}) = n + 1
          BY <1>1, <4>1, <5>1, FS_AddElement
        <5> QED BY <4>1, <5>1, <5>2
      <4>3. ~Answering(m)
        BY <2>0, <3>4 DEF Answering, IngestInv, SessionsApart
      <4>4. Answering(m)'
        BY <2>2, <3>4 DEF Answering, Goto, IngestInv, TypeOK, SessionState
      <4> QED BY <1>1, <1>2, <1>3, <1>4, <4>2, <4>3, <4>4
    <3> QED BY <3>3, <3>4
  <2> QED BY <2>1, <2>2 DEF PersistRow
<1> QED BY <1>5, <1>6, RowsKept

\* While an answer is to come a recipient is still queued, so the account bounds
\* the rows by the recipients.
LEMMA AccountedBound == IngestInv /\ RowsAccounted => NoDuplicateWithoutFault
<1> SUFFICES ASSUME IngestInv, RowsAccounted, NEW m \in Mail
             PROVE  Cardinality(RowsOf(m))
                      <= Cardinality({a \in Address : copy[m][a] # "none"}) + faults
  BY DEF NoDuplicateWithoutFault, RowsOf
<1> DEFINE named == {a \in Address : copy[m][a] # "none"}
<1>1. /\ Cardinality(RowsOf(m)) \in Nat
      /\ Cardinality(RowsOf(m))
           <= Cardinality(Settled(m)) + faults + (IF Answering(m) THEN 1 ELSE 0)
  BY FS_CardinalityType DEF RowsAccounted
<1>2. /\ IsFiniteSet(named) /\ Cardinality(named) \in Nat
      /\ Cardinality(Settled(m)) \in Nat /\ faults \in Nat
  BY RecipientsFinite, IngestAssumption DEF Settled, IngestInv, TypeOK
<1>3. Settled(m) \in SUBSET named
  BY DEF Settled
<1>4. Cardinality(Settled(m)) <= Cardinality(named)
      /\ (Cardinality(named) = Cardinality(Settled(m)) => named = Settled(m))
  BY <1>2, <1>3, FS_Subset
<1>5. CASE Answering(m)
  <2>1. PICK s \in Session : session[s].mail = m /\ session[s].pc \in {"enqueue", "reply"}
    BY <1>5 DEF Answering
  <2>2. session[s].accepted # {} /\ session[s].accepted \subseteq Queued(m)
    BY <2>1, SessionFacts DEF Holding, IngestInv, RecipientsQueued
  <2>3. Queued(m) # {} /\ Queued(m) \subseteq named /\ Queued(m) \cap Settled(m) = {}
    BY <2>2 DEF Queued, Settled
  <2> QED BY <1>1, <1>2, <1>4, <1>5, <2>3
<1>6. CASE ~Answering(m)
  BY <1>1, <1>2, <1>4, <1>6
<1> QED BY <1>5, <1>6

\* Every row is accounted for in every behaviour.
THEOREM RowsAreAccounted == Spec => []RowsAccounted
BY AccountsStart, AccountsStep, IngestInvariant, PTL DEF Spec

\* handle_DATA: a mail has at most one row for each recipient Postfix named, and
\* one more for each outage, crash or lost reply.
THEOREM DuplicatesHaveCauses == Spec => []NoDuplicateWithoutFault
BY AccountedBound, IngestInvariant, RowsAreAccounted, PTL
==============================================================================
