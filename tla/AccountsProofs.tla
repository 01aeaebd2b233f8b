---------------------------- MODULE AccountsProofs ----------------------------
(***************************************************************************)
(* Theorems of Accounts: types, what invitations and accounts are to each  *)
(* other, and who may take the rank from the last super admin, for any     *)
(* number of accounts, invitations, processes, requests and faults.        *)
(***************************************************************************)
EXTENDS Accounts, TLAPS

-----------------------------------------------------------------------------
(* The inductive invariant *)

\* What a request r holds when it stands before step: the rows it will write
\* were named, an invitation is as it was read or gone, a change spares the rank
\* of its own principal, a deletion is of somebody else.
RequestFacts(step, r) ==
  /\ step = "write" /\ r.op = "invitation.sent" =>
       r.actor # None /\ r.email # None /\ r.role # None
  /\ step = "write" /\ r.op = "register" =>
       /\ r.token \in issued /\ r.email # None /\ r.role # None
       /\ invitation[r.token] # None =>
            invitation[r.token].email = r.email /\ invitation[r.token].role = r.role
  /\ step = "write" /\ r.op = "user.created" =>
       r.actor # None /\ r.email # None /\ r.role # None /\ r.active # None
  /\ step = "write" /\ r.op \in Changes =>
       /\ r.actor # None /\ r.account # None
       /\ r.account = r.actor => r.role \in {None, "super_admin"} /\ r.active # FALSE
  /\ step = "mail" => r.token # None
  /\ r.op = "user.deleted" => r.actor # None /\ r.account # None /\ r.account # r.actor
  /\ step \in {"load", "delete"} => r.op = "user.deleted" /\ r.account \in audit
  /\ step = "delete" =>
       /\ Exists(r.account) \/ r.account \in gone
       /\ Exists(r.account) => \A t \in Token : AcceptedBy(t, r.account) => t \in r.pending

InvitationsIssued == \A t \in Token : invitation[t] # None => t \in issued

AccountsInv ==
  /\ AccountsTypeOK
  /\ \A w \in Worker : RequestFacts(pc[w], req[w])
  /\ InvitationsIssued /\ InvitersExist /\ UsedNamesItsAccount /\ DeletionsLogged

-----------------------------------------------------------------------------
(* Steps by what they write *)

\* What the other requests have to do with the tables: keys are not used again,
\* invitations do not change their e-mail and role, nobody who exists is given
\* another invitation.
OthersMayGoOn ==
  /\ issued \subseteq issued' /\ audit \subseteq audit'
  /\ \A t \in issued : invitation'[t] # None =>
       /\ invitation[t] # None
       /\ invitation'[t].email = invitation[t].email
       /\ invitation'[t].role = invitation[t].role
  /\ \A u \in UserId : Exists(u) \/ u \in gone =>
       /\ Exists(u)' \/ u \in gone'
       /\ Exists(u)' => Exists(u) /\ \A t \in Token : AcceptedBy(t, u)' => AcceptedBy(t, u)

\* A request without a request is typed.
LEMMA NoRequestTyped ==
  /\ NoRequest \in Request
  /\ \A step \in {"idle"} : RequestFacts(step, NoRequest)
  BY AccountsAssumption DEF NoRequest, Request, Op, RequestFacts

\* What a request holds stays true while the others go on.
LEMMA FactsKept ==
  ASSUME AccountsInv, OthersMayGoOn, NEW step, NEW r \in Request, RequestFacts(step, r)
  PROVE  RequestFacts(step, r)'
  <1>1. step = "write" /\ r.op = "register" =>
          /\ r.token \in issued'
          /\ invitation'[r.token] # None =>
               invitation'[r.token].email = r.email /\ invitation'[r.token].role = r.role
    BY DEF RequestFacts, OthersMayGoOn
  <1>2. step \in {"load", "delete"} => r.op = "user.deleted" /\ r.account \in audit'
    BY DEF RequestFacts, OthersMayGoOn
  <1>3. step = "delete" =>
          /\ Exists(r.account)' \/ r.account \in gone'
          /\ Exists(r.account)' => \A t \in Token : AcceptedBy(t, r.account)' => t \in r.pending
    <2> SUFFICES ASSUME step = "delete"
                 PROVE  /\ Exists(r.account)' \/ r.account \in gone'
                        /\ Exists(r.account)' =>
                             \A t \in Token : AcceptedBy(t, r.account)' => t \in r.pending
      OBVIOUS
    <2>1. r.account \in UserId
      BY DEF RequestFacts, Request
    <2> QED BY <2>1 DEF RequestFacts, OthersMayGoOn
  <1> QED BY <1>1, <1>2, <1>3 DEF RequestFacts

\* A step of one request leaves the others with what they hold.
LEMMA RequestStep ==
  ASSUME AccountsInv, OthersMayGoOn, NEW w \in Worker, NEW step, NEW r,
         pc' = [pc EXCEPT ![w] = step], req' = [req EXCEPT ![w] = r],
         RequestFacts(step, r)'
  PROVE  \A v \in Worker : RequestFacts(pc[v], req[v])'
  <1> SUFFICES ASSUME NEW v \in Worker PROVE RequestFacts(pc[v], req[v])'
    OBVIOUS
  <1>1. pc \in [Worker -> Step] /\ req \in [Worker -> Request]
    BY DEF AccountsInv, AccountsTypeOK
  <1>2. CASE v = w
    <2>1. pc'[v] = step /\ req'[v] = r
      BY <1>1, <1>2
    <2> QED BY <2>1 DEF RequestFacts
  <1>3. CASE v # w
    <2>1. pc'[v] = pc[v] /\ req'[v] = req[v]
      BY <1>1, <1>3
    <2>2. PICK s, q : s = pc[v] /\ q = req[v]
      OBVIOUS
    <2>3. q \in Request /\ RequestFacts(s, q)
      BY <1>1, <2>2 DEF AccountsInv
    <2>4. RequestFacts(s, q)'
      BY <2>3, FactsKept
    <2> QED BY <2>1, <2>2, <2>4 DEF RequestFacts
  <1> QED BY <1>2, <1>3

\* The tables as they were.
LEMMA TablesKept ==
  ASSUME AccountsInv, UNCHANGED <<tables, issued, gone, origin>>
  PROVE  /\ OthersMayGoOn
         /\ (InvitationsIssued /\ InvitersExist /\ UsedNamesItsAccount /\ DeletionsLogged)'
  <1> USE DEF tables
  <1>1. OthersMayGoOn
    BY DEF OthersMayGoOn, Exists, AcceptedBy
  <1>2. (InvitationsIssued /\ InvitersExist /\ DeletionsLogged)'
    BY DEF AccountsInv, InvitationsIssued, InvitersExist, DeletionsLogged, Exists
  <1>3. UsedNamesItsAccount'
    BY DEF AccountsInv, UsedNamesItsAccount, Exists
  <1> QED BY <1>1, <1>2, <1>3

\* A request that passes its checks writes nothing yet.
LEMMA AcceptedStep ==
  ASSUME AccountsInv, NEW w \in Worker, NEW step \in Step, NEW r \in Request,
         Accepted(w, step, r), RequestFacts(step, r)
  PROVE  AccountsInv'
  <1>1. UNCHANGED <<tables, issued, expired, inbox, gone, origin, faults>>
    BY DEF Accepted
  <1>2. AccountsTypeOK'
    BY <1>1, AccountsAssumption DEF AccountsInv, AccountsTypeOK, Accepted, tables
  <1>3. /\ OthersMayGoOn
        /\ (InvitationsIssued /\ InvitersExist /\ UsedNamesItsAccount /\ DeletionsLogged)'
    BY <1>1, TablesKept
  <1>4. RequestFacts(step, r)'
    BY <1>3, FactsKept
  <1>5. \A v \in Worker : RequestFacts(pc[v], req[v])'
    BY <1>3, <1>4, RequestStep DEF Accepted
  <1> QED BY <1>2, <1>3, <1>5 DEF AccountsInv

\* A request that ends holds nothing.
LEMMA DoneStep ==
  ASSUME AccountsInv, OthersMayGoOn, NEW w \in Worker, Done(w)
  PROVE  /\ pc' \in [Worker -> Step] /\ req' \in [Worker -> Request]
         /\ \A v \in Worker : RequestFacts(pc[v], req[v])'
  <1>1. RequestFacts("idle", NoRequest)'
    BY NoRequestTyped, FactsKept
  <1>2. pc' = [pc EXCEPT ![w] = "idle"] /\ req' = [req EXCEPT ![w] = NoRequest]
    BY DEF Done, GoesTo
  <1>3. pc' \in [Worker -> Step] /\ req' \in [Worker -> Request]
    BY <1>2, NoRequestTyped DEF AccountsInv, AccountsTypeOK, Step
  <1> QED BY <1>1, <1>2, <1>3, RequestStep

\* One that is left to log holds its operation and its principal.
LEMMA LeftToLogStep ==
  ASSUME AccountsInv, OthersMayGoOn, NEW w \in Worker, IsLeftToLog(w),
         req[w].op # "user.deleted"
  PROVE  /\ pc' \in [Worker -> Step] /\ req' \in [Worker -> Request]
         /\ \A v \in Worker : RequestFacts(pc[v], req[v])'
  <1>1. PICK r : r = [NoRequest EXCEPT !.op = req[w].op, !.actor = req[w].actor]
    OBVIOUS
  <1>2. req[w] \in Request
    BY DEF AccountsInv, AccountsTypeOK
  <1>3. r \in Request /\ r.op = req[w].op
    BY <1>1, <1>2, NoRequestTyped DEF Request
  <1>4. RequestFacts("log", r)
    BY <1>3 DEF RequestFacts
  <1>5. RequestFacts("log", r)'
    BY <1>3, <1>4, FactsKept
  <1>6. pc' = [pc EXCEPT ![w] = "log"] /\ req' = [req EXCEPT ![w] = r]
    BY <1>1 DEF IsLeftToLog, GoesTo
  <1>7. pc' \in [Worker -> Step] /\ req' \in [Worker -> Request]
    BY <1>3, <1>6 DEF AccountsInv, AccountsTypeOK, Step
  <1> QED BY <1>5, <1>6, <1>7, RequestStep

-----------------------------------------------------------------------------
(* Requests that pass their checks *)

\* Operations on invitations.
LEMMA InvitationRequests ==
  ASSUME AccountsInv, NEW w \in Worker, SendInvitation(w) \/ RevokeInvitation(w) \/ Register(w)
  PROVE  AccountsInv'
  <1> USE NoRequestTyped
  <1>1. CASE SendInvitation(w)
    <2>1. PICK a \in UserId, e \in Email, k \in InvitedRole :
            Accepted(w, "write",
              [NoRequest EXCEPT
                 !.op = "invitation.sent", !.actor = a, !.email = e, !.role = k,
                 !.pending = {t \in Token : Unused(t) /\ invitation[t].email = e}])
      BY <1>1 DEF SendInvitation
    <2>2. PICK r : r = [NoRequest EXCEPT
                 !.op = "invitation.sent", !.actor = a, !.email = e, !.role = k,
                 !.pending = {t \in Token : Unused(t) /\ invitation[t].email = e}]
      OBVIOUS
    <2>3. r \in Request
      BY <2>2, AccountsAssumption DEF Request, Op
    <2>4. RequestFacts("write", r)
      BY <2>2, AccountsAssumption DEF RequestFacts, Changes, NoRequest
    <2>5. Accepted(w, "write", r)
      BY <2>1, <2>2
    <2> QED BY <2>3, <2>4, <2>5, AcceptedStep DEF Step
  <1>2. CASE RevokeInvitation(w)
    <2>1. PICK a \in UserId, t \in Token :
            Accepted(w, "write",
              [NoRequest EXCEPT !.op = "invitation.revoked", !.actor = a, !.token = t])
      BY <1>2 DEF RevokeInvitation
    <2>2. PICK r : r = [NoRequest EXCEPT !.op = "invitation.revoked", !.actor = a, !.token = t]
      OBVIOUS
    <2>3. r \in Request
      BY <2>2 DEF Request, Op
    <2>4. RequestFacts("write", r)
      BY <2>2 DEF RequestFacts, Changes, NoRequest
    <2>5. Accepted(w, "write", r)
      BY <2>1, <2>2
    <2> QED BY <2>3, <2>4, <2>5, AcceptedStep DEF Step
  <1>3. CASE Register(w)
    <2>1. PICK t \in inbox :
            /\ Unused(t)
            /\ Accepted(w, "write",
                 [NoRequest EXCEPT
                    !.token = t, !.email = invitation[t].email, !.role = invitation[t].role])
      BY <1>3 DEF Register
    <2>2. PICK r : r = [NoRequest EXCEPT
                    !.token = t, !.email = invitation[t].email, !.role = invitation[t].role]
      OBVIOUS
    <2>3. t \in Token /\ invitation[t] # None /\ t \in issued
      BY <2>1 DEF AccountsInv, AccountsTypeOK, InvitationsIssued, Unused
    <2>4. invitation[t].email \in Email /\ invitation[t].role \in Role
      BY <2>3 DEF AccountsInv, AccountsTypeOK, Invitation
    <2>5. r \in Request
      BY <2>2, <2>3, <2>4 DEF Request
    <2>6. RequestFacts("write", r)
      BY <2>2, <2>3, <2>4, AccountsAssumption DEF RequestFacts, Changes, NoRequest
    <2>7. Accepted(w, "write", r)
      BY <2>1, <2>2
    <2> QED BY <2>5, <2>6, <2>7, AcceptedStep DEF Step
  <1> QED BY <1>1, <1>2, <1>3

\* A column that is written holds the value of the body.
LEMMA IfNewTyped ==
  ASSUME NEW S, NEW value \in S \cup {None}, NEW read
  PROVE  IfNew(value, read) \in S \cup {None} /\ IfNew(value, read) \in {None, value}
  BY DEF IfNew

\* Operations on accounts.
LEMMA AccountRequests ==
  ASSUME AccountsInv, NEW w \in Worker,
         CreateUser(w) \/ UpdateUser(w) \/ SetActive(w) \/ UpdateOwnEmail(w) \/ DeleteUser(w)
  PROVE  AccountsInv'
  <1> USE NoRequestTyped
  <1>1. CASE CreateUser(w)
    <2>1. PICK a \in UserId, e \in Email, k \in InvitedRole, b \in BOOLEAN :
            Accepted(w, "write",
              [NoRequest EXCEPT !.op = "user.created", !.actor = a,
                                !.email = e, !.role = k, !.active = b])
      BY <1>1 DEF CreateUser
    <2>2. PICK r : r = [NoRequest EXCEPT !.op = "user.created", !.actor = a,
                                !.email = e, !.role = k, !.active = b]
      OBVIOUS
    <2>3. r \in Request
      BY <2>2, AccountsAssumption DEF Request, Op
    <2>4. RequestFacts("write", r)
      BY <2>2, AccountsAssumption DEF RequestFacts, Changes, NoRequest
    <2>5. Accepted(w, "write", r)
      BY <2>1, <2>2
    <2> QED BY <2>3, <2>4, <2>5, AcceptedStep DEF Step
  <1>2. CASE UpdateUser(w)
    <2>1. PICK a \in UserId, u \in UserId, body \in UserUpdate :
            /\ SparesSelf(a, u, body.role, body.active)
            /\ Accepted(w, "write",
                 [NoRequest EXCEPT !.op = "user.updated", !.actor = a, !.account = u,
                    !.email = IfNew(body.email, user[u].email),
                    !.role = IfNew(body.role, user[u].role),
                    !.active = IfNew(body.active, user[u].active)])
      BY <1>2 DEF UpdateUser
    <2>2. PICK e, k, b : /\ e = IfNew(body.email, user[u].email)
                         /\ k = IfNew(body.role, user[u].role)
                         /\ b = IfNew(body.active, user[u].active)
      OBVIOUS
    <2>3. /\ e \in Email \cup {None} /\ k \in Role \cup {None} /\ b \in BOOLEAN \cup {None}
          /\ k \in {None, body.role} /\ b \in {None, body.active}
      <3>1. /\ body.email \in Email \cup {None} /\ body.role \in Role \cup {None}
            /\ body.active \in BOOLEAN \cup {None}
        BY AccountsAssumption
      <3> QED BY <2>2, <3>1, IfNewTyped
    <2>4. PICK r : r = [NoRequest EXCEPT !.op = "user.updated", !.actor = a, !.account = u,
                          !.email = e, !.role = k, !.active = b]
      OBVIOUS
    <2>5. r \in Request
      BY <2>3, <2>4 DEF Request, Op
    <2>6. RequestFacts("write", r)
      BY <2>1, <2>3, <2>4, AccountsAssumption DEF RequestFacts, Changes, NoRequest, SparesSelf
    <2>7. Accepted(w, "write", r)
      BY <2>1, <2>2, <2>4
    <2> QED BY <2>5, <2>6, <2>7, AcceptedStep DEF Step
  <1>3. CASE SetActive(w)
    <2>1. PICK a \in UserId, u \in UserId, b \in BOOLEAN :
            /\ SparesSelf(a, u, None, b)
            /\ Accepted(w, "write",
                 [NoRequest EXCEPT !.op = IF b THEN "user.activated" ELSE "user.deactivated",
                                   !.actor = a, !.account = u,
                                   !.active = IfNew(b, user[u].active)])
      BY <1>3 DEF SetActive
    <2>2. PICK c : c = IfNew(b, user[u].active)
      OBVIOUS
    <2>3. c \in BOOLEAN \cup {None} /\ c \in {None, b}
      BY <2>2, IfNewTyped
    <2>4. PICK r : r = [NoRequest EXCEPT
                          !.op = IF b THEN "user.activated" ELSE "user.deactivated",
                          !.actor = a, !.account = u, !.active = c]
      OBVIOUS
    <2>5. r \in Request
      BY <2>3, <2>4 DEF Request, Op
    <2>6. RequestFacts("write", r)
      BY <2>1, <2>3, <2>4, AccountsAssumption DEF RequestFacts, Changes, NoRequest, SparesSelf
    <2>7. Accepted(w, "write", r)
      BY <2>1, <2>2, <2>4
    <2> QED BY <2>5, <2>6, <2>7, AcceptedStep DEF Step
  <1>4. CASE UpdateOwnEmail(w)
    <2>1. PICK a \in UserId, e \in Email :
            Accepted(w, "write",
              [NoRequest EXCEPT !.op = "auth.email.update", !.actor = a, !.account = a,
                                !.email = IfNew(e, user[a].email)])
      BY <1>4 DEF UpdateOwnEmail
    <2>2. PICK c : c = IfNew(e, user[a].email)
      OBVIOUS
    <2>3. c \in Email \cup {None}
      BY <2>2, IfNewTyped
    <2>4. PICK r : r = [NoRequest EXCEPT !.op = "auth.email.update", !.actor = a, !.account = a,
                                         !.email = c]
      OBVIOUS
    <2>5. r \in Request
      BY <2>3, <2>4 DEF Request, Op
    <2>6. RequestFacts("write", r)
      BY <2>4, AccountsAssumption DEF RequestFacts, Changes, NoRequest
    <2>7. Accepted(w, "write", r)
      BY <2>1, <2>2, <2>4
    <2> QED BY <2>5, <2>6, <2>7, AcceptedStep DEF Step
  <1>5. CASE DeleteUser(w)
    <2>1. PICK a \in UserId, u \in UserId :
            /\ u # a
            /\ Accepted(w, "log",
                 [NoRequest EXCEPT !.op = "user.deleted", !.actor = a, !.account = u])
      BY <1>5 DEF DeleteUser
    <2>2. PICK r : r = [NoRequest EXCEPT !.op = "user.deleted", !.actor = a, !.account = u]
      OBVIOUS
    <2>3. r \in Request
      BY <2>2 DEF Request, Op
    <2>4. RequestFacts("log", r)
      BY <2>1, <2>2, AccountsAssumption DEF RequestFacts, Changes, NoRequest
    <2>5. Accepted(w, "log", r)
      BY <2>1, <2>2
    <2> QED BY <2>3, <2>4, <2>5, AcceptedStep DEF Step
  <1> QED BY <1>1, <1>2, <1>3, <1>4, <1>5

-----------------------------------------------------------------------------
(* Steps that commit *)

\* Steps that only end a request, with no row written.
LEMMA EndingSteps ==
  ASSUME AccountsInv, NEW w \in Worker, Refused(w) \/ RequestFails(w)
  PROVE  AccountsInv'
  <1>1. /\ Done(w) /\ UNCHANGED <<tables, issued, expired, inbox, gone, origin, requests>>
        /\ faults' \in 0..MaxFaults
    BY AccountsAssumption DEF Refused, RequestFails, AccountsInv, AccountsTypeOK
  <1>2. /\ OthersMayGoOn
        /\ (InvitationsIssued /\ InvitersExist /\ UsedNamesItsAccount /\ DeletionsLogged)'
    BY <1>1, TablesKept
  <1>3. /\ pc' \in [Worker -> Step] /\ req' \in [Worker -> Request]
        /\ \A v \in Worker : RequestFacts(pc[v], req[v])'
    BY <1>1, <1>2, DoneStep
  <1>4. AccountsTypeOK'
    BY <1>1, <1>3 DEF AccountsInv, AccountsTypeOK, tables
  <1> QED BY <1>2, <1>3, <1>4 DEF AccountsInv

\* A mail that is delivered.
LEMMA MailSentKeeps ==
  ASSUME AccountsInv, NEW w \in Worker, MailSent(w)
  PROVE  AccountsInv'
  <1>1. /\ Done(w) /\ inbox' = inbox \cup {req[w].token}
        /\ UNCHANGED <<tables, issued, expired, gone, origin, requests, faults>>
    BY DEF MailSent
  <1>2. /\ OthersMayGoOn
        /\ (InvitationsIssued /\ InvitersExist /\ UsedNamesItsAccount /\ DeletionsLogged)'
    BY <1>1, TablesKept
  <1>3. /\ pc' \in [Worker -> Step] /\ req' \in [Worker -> Request]
        /\ \A v \in Worker : RequestFacts(pc[v], req[v])'
    BY <1>1, <1>2, DoneStep
  <1>4. req[w].token \in Token
    BY DEF MailSent, AccountsInv, AccountsTypeOK, RequestFacts, Request
  <1>5. AccountsTypeOK'
    BY <1>1, <1>3, <1>4 DEF AccountsInv, AccountsTypeOK, tables
  <1> QED BY <1>2, <1>3, <1>5 DEF AccountsInv

\* An invitation that expires.
LEMMA ExpireKeeps ==
  ASSUME AccountsInv, NEW t \in Token, Expire(t)
  PROVE  AccountsInv'
  <1>1. UNCHANGED <<tables, issued, inbox, pc, req, gone, origin, requests, faults>>
    BY DEF Expire
  <1>2. (InvitationsIssued /\ InvitersExist /\ UsedNamesItsAccount /\ DeletionsLogged)'
    BY <1>1, TablesKept
  <1>3. AccountsTypeOK'
    BY <1>1 DEF AccountsInv, AccountsTypeOK, tables, Expire
  <1>4. \A w \in Worker : RequestFacts(pc[w], req[w])'
    BY <1>1 DEF AccountsInv, RequestFacts, Exists, AcceptedBy, tables
  <1> QED BY <1>2, <1>3, <1>4 DEF AccountsInv

\* An invitation that is taken back.
LEMMA WithdrawalKeeps ==
  ASSUME AccountsInv, NEW w \in Worker, MailFails(w) \/ CommitRevocation(w)
  PROVE  AccountsInv'
  <1>1. PICK t : t = req[w].token
    OBVIOUS
  <1>2. /\ Done(w) /\ invitation' = [invitation EXCEPT ![t] = None]
        /\ UNCHANGED <<user, audit, issued, expired, inbox, gone, origin, requests, faults>>
    BY <1>1 DEF MailFails, CommitRevocation
  <1>3. /\ invitation' \in [Token -> Invitation \cup {None}]
        /\ \A i \in Token : invitation'[i] # None => invitation'[i] = invitation[i]
    BY <1>2 DEF AccountsInv, AccountsTypeOK
  <1>4. OthersMayGoOn
    <2>1. issued \subseteq Token
      BY DEF AccountsInv, AccountsTypeOK
    <2>2. \A i \in issued : invitation'[i] # None =>
            /\ invitation[i] # None
            /\ invitation'[i].email = invitation[i].email
            /\ invitation'[i].role = invitation[i].role
      BY <1>3, <2>1
    <2>3. \A u : Exists(u)' <=> Exists(u)
      BY <1>2 DEF Exists
    <2>4. \A u, i : i \in Token /\ AcceptedBy(i, u)' => AcceptedBy(i, u)
      BY <1>3 DEF AcceptedBy
    <2> QED BY <1>2, <2>2, <2>3, <2>4 DEF OthersMayGoOn
  <1>5. /\ pc' \in [Worker -> Step] /\ req' \in [Worker -> Request]
        /\ \A v \in Worker : RequestFacts(pc[v], req[v])'
    BY <1>2, <1>4, DoneStep
  <1>6. AccountsTypeOK'
    BY <1>2, <1>3, <1>5 DEF AccountsInv, AccountsTypeOK
  <1>7. (InvitationsIssued /\ InvitersExist /\ UsedNamesItsAccount /\ DeletionsLogged)'
    <2> USE <1>2, <1>3 DEF AccountsInv, Exists
    <2>1. InvitationsIssued'
      BY DEF InvitationsIssued
    <2>2. InvitersExist'
      BY DEF InvitersExist
    <2>3. UsedNamesItsAccount'
      BY DEF UsedNamesItsAccount
    <2>4. DeletionsLogged'
      BY DEF DeletionsLogged
    <2> QED BY <2>1, <2>2, <2>3, <2>4
  <1> QED BY <1>5, <1>6, <1>7 DEF AccountsInv

\* An invitation that is written, in place of those that were found.
LEMMA CommitInvitationKeeps ==
  ASSUME AccountsInv, NEW w \in Worker, CommitInvitation(w)
  PROVE  AccountsInv'
  <1>1. PICK q : q = req[w]
    OBVIOUS
  <1>2. /\ q \in Request /\ q.actor # None /\ q.email # None /\ q.role # None /\ Exists(q.actor)
    BY <1>1 DEF AccountsInv, AccountsTypeOK, RequestFacts, CommitInvitation
  <1>3. PICK t \in Token \ issued :
          /\ invitation' = [i \in Token |->
               IF i = t
               THEN [email |-> q.email, role |-> q.role, by |-> q.actor,
                     isUsed |-> FALSE, account |-> None]
               ELSE IF i \in q.pending THEN None ELSE invitation[i]]
          /\ issued' = issued \cup {t}
          /\ req' = [req EXCEPT ![w] =
               [NoRequest EXCEPT !.op = "invitation.sent", !.actor = q.actor, !.token = t]]
    BY <1>1 DEF CommitInvitation
  <1>4. /\ pc' = [pc EXCEPT ![w] = "mail"]
        /\ UNCHANGED <<user, audit, expired, inbox, gone, origin, requests, faults>>
    BY DEF CommitInvitation, GoesTo
  <1>5. PICK new : new = [email |-> q.email, role |-> q.role, by |-> q.actor,
                          isUsed |-> FALSE, account |-> None]
    OBVIOUS
  <1>6. new \in Invitation
    BY <1>2, <1>5 DEF Request, Invitation
  <1>7. /\ invitation' \in [Token -> Invitation \cup {None}]
        /\ invitation'[t] = new
        /\ \A i \in Token : i # t /\ invitation'[i] # None => invitation'[i] = invitation[i]
    BY <1>3, <1>5, <1>6 DEF AccountsInv, AccountsTypeOK
  <1>8. OthersMayGoOn
    <2>1. issued \subseteq Token
      BY DEF AccountsInv, AccountsTypeOK
    <2>2. \A i \in issued : invitation'[i] # None =>
            /\ invitation[i] # None
            /\ invitation'[i].email = invitation[i].email
            /\ invitation'[i].role = invitation[i].role
      BY <1>7, <2>1
    <2>3. \A u : Exists(u)' <=> Exists(u)
      BY <1>4 DEF Exists
    <2>4. \A u \in UserId, i \in Token : AcceptedBy(i, u)' => AcceptedBy(i, u)
      <3> SUFFICES ASSUME NEW u \in UserId, NEW i \in Token, AcceptedBy(i, u)'
                   PROVE  AcceptedBy(i, u)
        OBVIOUS
      <3>1. new.account # u
        BY <1>5, AccountsAssumption
      <3> QED BY <1>7, <3>1 DEF AcceptedBy
    <2> QED BY <1>3, <1>4, <2>2, <2>3, <2>4 DEF OthersMayGoOn
  <1>9. PICK r : r = [NoRequest EXCEPT !.op = "invitation.sent", !.actor = q.actor, !.token = t]
    OBVIOUS
  <1>10. r \in Request
    BY <1>2, <1>9, NoRequestTyped DEF Request, Op
  <1>11. RequestFacts("mail", r)
    BY <1>9, AccountsAssumption DEF RequestFacts, NoRequest
  <1>12. \A v \in Worker : RequestFacts(pc[v], req[v])'
    <2>1. RequestFacts("mail", r)'
      BY <1>8, <1>10, <1>11, FactsKept
    <2>2. req' = [req EXCEPT ![w] = r]
      BY <1>3, <1>9
    <2> QED BY <1>4, <1>8, <2>1, <2>2, RequestStep
  <1>13. AccountsTypeOK'
    BY <1>3, <1>4, <1>7, <1>9, <1>10 DEF AccountsInv, AccountsTypeOK, Step
  <1>14. (InvitationsIssued /\ InvitersExist /\ UsedNamesItsAccount /\ DeletionsLogged)'
    <2> USE <1>3, <1>4, <1>7 DEF AccountsInv
    <2>1. InvitationsIssued'
      BY DEF InvitationsIssued
    <2>2. InvitersExist'
      BY <1>2, <1>5 DEF InvitersExist, Exists
    <2>3. UsedNamesItsAccount'
      BY <1>5 DEF UsedNamesItsAccount, Exists
    <2>4. DeletionsLogged'
      BY DEF DeletionsLogged
    <2> QED BY <2>1, <2>2, <2>3, <2>4
  <1> QED BY <1>12, <1>13, <1>14 DEF AccountsInv

\* An account that is opened with its invitation.
LEMMA CommitRegistrationKeeps ==
  ASSUME AccountsInv, NEW w \in Worker, CommitRegistration(w)
  PROVE  AccountsInv'
  <1>1. PICK q, t : q = req[w] /\ t = q.token
    OBVIOUS
  <1>2. /\ q \in Request /\ t \in issued /\ t \in Token /\ q.email # None /\ q.role # None
        /\ invitation[t] # None
    BY <1>1 DEF AccountsInv, AccountsTypeOK, RequestFacts, CommitRegistration, RegistrationHolds
  <1>3. PICK u \in FreshUserId :
          /\ user' = [user EXCEPT ![u] =
               [email |-> q.email, role |-> q.role, active |-> TRUE]]
          /\ invitation' = [invitation EXCEPT ![t].isUsed = TRUE, ![t].account = u]
          /\ origin' = [origin EXCEPT ![u] = t]
    BY <1>1 DEF CommitRegistration
  <1>4. Done(w) /\ UNCHANGED <<audit, issued, expired, inbox, gone, requests, faults>>
    BY DEF CommitRegistration
  <1>5. u \in UserId /\ ~Exists(u) /\ u \notin gone /\ u # None
    BY AccountsAssumption DEF FreshUserId
  <1>6. /\ user' \in [UserId -> Account \cup {None}]
        /\ user'[u] # None
        /\ \A v \in UserId : v # u => user'[v] = user[v]
    <2>1. PICK row : row = [email |-> q.email, role |-> q.role, active |-> TRUE]
      OBVIOUS
    <2>2. row \in Account
      BY <1>2, <2>1 DEF Request, Account
    <2>3. user' = [user EXCEPT ![u] = row]
      BY <1>3, <2>1
    <2> QED BY <1>5, <2>2, <2>3, NoneIsNoRow DEF AccountsInv, AccountsTypeOK
  <1>7. /\ invitation[t] \in Invitation
        /\ invitation'[t] = [invitation[t] EXCEPT !.isUsed = TRUE, !.account = u]
        /\ \A i \in Token : i # t => invitation'[i] = invitation[i]
    BY <1>2, <1>3 DEF AccountsInv, AccountsTypeOK
  <1>8. /\ invitation'[t] \in Invitation /\ invitation'[t] # None
        /\ invitation'[t].email = invitation[t].email
        /\ invitation'[t].role = invitation[t].role
        /\ invitation'[t].by = invitation[t].by
        /\ invitation'[t].isUsed = TRUE
        /\ invitation'[t].account = u
    <2>1. PICK row : row = [invitation[t] EXCEPT !.isUsed = TRUE, !.account = u]
      OBVIOUS
    <2>2. row \in Invitation
      BY <1>5, <1>7, <2>1 DEF Invitation
    <2> QED BY <1>7, <2>1, <2>2, NoneIsNoRow DEF Invitation
  <1>9. invitation' \in [Token -> Invitation \cup {None}]
    <2>1. DOMAIN invitation' = Token /\ invitation' = [i \in Token |-> invitation'[i]]
      BY <1>3 DEF AccountsInv, AccountsTypeOK
    <2>2. \A i \in Token : invitation'[i] \in Invitation \cup {None}
      BY <1>7, <1>8 DEF AccountsInv, AccountsTypeOK
    <2> QED BY <2>1, <2>2
  <1>10. origin' \in [UserId -> Token \cup {None}] /\ origin'[u] = t
         /\ \A v \in UserId : v # u => origin'[v] = origin[v]
    BY <1>2, <1>3, <1>5 DEF AccountsInv, AccountsTypeOK
  <1>11. \A v \in UserId : v # u => (Exists(v)' <=> Exists(v))
    BY <1>6 DEF Exists
  <1>12. Exists(u)'
    BY <1>5, <1>6 DEF Exists
  <1>13. OthersMayGoOn
    <2>1. issued \subseteq Token
      BY DEF AccountsInv, AccountsTypeOK
    <2>2. \A i \in issued : invitation'[i] # None =>
            /\ invitation[i] # None
            /\ invitation'[i].email = invitation[i].email
            /\ invitation'[i].role = invitation[i].role
      BY <1>2, <1>7, <1>8, <2>1
    <2>3. \A v \in UserId, i \in Token : v # u /\ AcceptedBy(i, v)' => AcceptedBy(i, v)
      BY <1>7, <1>8 DEF AcceptedBy
    <2>4. \A v \in UserId : Exists(v) \/ v \in gone => v # u
      BY <1>5
    <2> QED BY <1>4, <1>11, <2>2, <2>3, <2>4 DEF OthersMayGoOn
  <1>14. /\ pc' \in [Worker -> Step] /\ req' \in [Worker -> Request]
         /\ \A v \in Worker : RequestFacts(pc[v], req[v])'
    BY <1>4, <1>13, DoneStep
  <1>15. AccountsTypeOK'
    BY <1>4, <1>6, <1>9, <1>10, <1>14 DEF AccountsInv, AccountsTypeOK
  <1>16. InvitationsIssued'
    BY <1>2, <1>4, <1>7 DEF AccountsInv, InvitationsIssued
  <1>17. InvitersExist'
    <2> SUFFICES ASSUME NEW i \in Token, invitation'[i] # None
                 PROVE  Exists(invitation[i].by)'
      BY DEF InvitersExist
    <2>1. invitation[i] # None /\ invitation'[i].by = invitation[i].by
      BY <1>2, <1>7, <1>8
    <2>2. PICK v : v = invitation[i].by
      OBVIOUS
    <2>3. v \in UserId /\ Exists(v)
      BY <2>1, <2>2 DEF AccountsInv, AccountsTypeOK, InvitersExist, Invitation
    <2>4. Exists(v)'
      BY <1>5, <1>11, <2>3
    <2> QED BY <2>1, <2>2, <2>4 DEF Exists
  <1>18. UsedNamesItsAccount'
    <2> SUFFICES ASSUME NEW i \in Token, invitation'[i] # None
                 PROVE  IF invitation'[i].isUsed
                        THEN Exists(invitation[i].account)' /\ origin'[invitation'[i].account] = i
                        ELSE invitation'[i].account = None
      BY DEF UsedNamesItsAccount
    <2>1. CASE i = t
      BY <1>8, <1>10, <1>12, <2>1 DEF Exists
    <2>2. CASE i # t
      <3>1. invitation'[i] = invitation[i] /\ invitation[i] # None
        BY <1>7, <2>2
      <3>2. IF invitation[i].isUsed
            THEN Exists(invitation[i].account) /\ origin[invitation[i].account] = i
            ELSE invitation[i].account = None
        BY <3>1 DEF AccountsInv, UsedNamesItsAccount
      <3>3. invitation[i].isUsed => invitation[i].account \in UserId
        BY <3>1, <3>2 DEF Exists, AccountsInv, AccountsTypeOK, Invitation
      <3>4. CASE invitation[i].isUsed
        <4>1. PICK v : v = invitation[i].account
          OBVIOUS
        <4>2. v \in UserId /\ Exists(v) /\ origin[v] = i
          BY <3>2, <3>3, <3>4, <4>1
        <4>3. v # u
          BY <1>5, <4>2
        <4>4. Exists(v)' /\ origin'[v] = i
          BY <1>10, <1>11, <4>2, <4>3
        <4> QED BY <3>1, <3>4, <4>1, <4>4 DEF Exists
      <3>5. CASE ~invitation[i].isUsed
        BY <3>1, <3>2, <3>5
      <3> QED BY <3>4, <3>5
    <2> QED BY <2>1, <2>2
  <1>19. DeletionsLogged'
    BY <1>4 DEF AccountsInv, DeletionsLogged
  <1> QED BY <1>14, <1>15, <1>16, <1>17, <1>18, <1>19 DEF AccountsInv

\* Users that are written while nothing else is.
LEMMA UsersWritten ==
  ASSUME AccountsInv, NEW w \in Worker, NEW u \in UserId, NEW row \in Account,
         user' = [user EXCEPT ![u] = row], Exists(u) \/ u \in FreshUserId,
         IsLeftToLog(w), req[w].op # "user.deleted",
         UNCHANGED <<invitation, audit, issued, expired, inbox, gone, origin, requests, faults>>
  PROVE  AccountsInv'
  <1>1. /\ user' \in [UserId -> Account \cup {None}] /\ user'[u] # None
        /\ \A v : v # u => user'[v] = user[v]
    BY NoneIsNoRow DEF AccountsInv, AccountsTypeOK
  <1>2. \A v \in UserId : Exists(v) => Exists(v)'
    BY <1>1 DEF Exists
  <1>3. \A v \in UserId : Exists(v)' => Exists(v) \/ (v = u /\ u \in FreshUserId)
    BY <1>1 DEF Exists
  <1>4. OthersMayGoOn
    <2>1. \A v \in UserId : Exists(v) \/ v \in gone =>
            (Exists(v)' \/ v \in gone') /\ (Exists(v)' => Exists(v))
      BY <1>2, <1>3 DEF FreshUserId
    <2>2. \A t, v : AcceptedBy(t, v)' <=> AcceptedBy(t, v)
      BY DEF AcceptedBy
    <2> QED BY <2>1, <2>2 DEF OthersMayGoOn
  <1>5. /\ pc' \in [Worker -> Step] /\ req' \in [Worker -> Request]
        /\ \A v \in Worker : RequestFacts(pc[v], req[v])'
    BY <1>4, LeftToLogStep
  <1>6. AccountsTypeOK'
    BY <1>1, <1>5 DEF AccountsInv, AccountsTypeOK
  <1>7. InvitationsIssued' /\ DeletionsLogged'
    BY DEF AccountsInv, InvitationsIssued, DeletionsLogged
  <1>8. InvitersExist'
    <2>1. \A t \in Token : invitation[t] # None =>
            invitation[t].by \in UserId /\ Exists(invitation[t].by)
      BY DEF AccountsInv, AccountsTypeOK, InvitersExist, Invitation
    <2> QED BY <1>2, <2>1 DEF InvitersExist, Exists
  <1>9. UsedNamesItsAccount'
    <2>1. \A t \in Token : invitation[t] # None /\ invitation[t].isUsed =>
            invitation[t].account \in UserId /\ Exists(invitation[t].account)
      BY DEF AccountsInv, AccountsTypeOK, UsedNamesItsAccount, Invitation, Exists
    <2> QED BY <1>2, <2>1 DEF AccountsInv, UsedNamesItsAccount, Exists
  <1> QED BY <1>5, <1>6, <1>7, <1>8, <1>9 DEF AccountsInv

\* An account that is made, and one that is changed.
LEMMA CommitUserKeeps ==
  ASSUME AccountsInv, NEW w \in Worker, CommitUser(w) \/ CommitChange(w)
  PROVE  AccountsInv'
  <1>1. PICK q : q = req[w]
    OBVIOUS
  <1>2. q \in Request
    BY <1>1 DEF AccountsInv, AccountsTypeOK
  <1>3. CASE CommitUser(w)
    <2>1. q.email # None /\ q.role # None /\ q.active # None /\ q.op = "user.created"
      BY <1>1, <1>3 DEF AccountsInv, RequestFacts, CommitUser
    <2>2. PICK row : row = [email |-> q.email, role |-> q.role, active |-> q.active]
      OBVIOUS
    <2>3. row \in Account
      BY <1>2, <2>1, <2>2 DEF Request, Account
    <2>4. PICK u \in FreshUserId : user' = [user EXCEPT ![u] = row]
      BY <1>1, <1>3, <2>2 DEF CommitUser
    <2>5. u \in UserId
      BY DEF FreshUserId
    <2>6. /\ IsLeftToLog(w)
          /\ UNCHANGED <<invitation, audit, issued, expired, inbox, gone, origin, requests, faults>>
      BY <1>3 DEF CommitUser
    <2> QED BY <1>1, <2>1, <2>3, <2>4, <2>5, <2>6, UsersWritten
  <1>4. CASE CommitChange(w)
    <2>1. PICK u, row : u = q.account /\ row = Changed(user[u], q)
      OBVIOUS
    <2>2. u \in UserId /\ Exists(u) /\ user[u] \in Account
      BY <1>1, <1>2, <1>4, <2>1
      DEF CommitChange, ChangeHolds, AccountsInv, AccountsTypeOK, RequestFacts, Request, Exists
    <2>3. row \in Account
      BY <1>2, <2>1, <2>2 DEF Changed, Request, Account
    <2>4. /\ IsLeftToLog(w) /\ user' = [user EXCEPT ![u] = row] /\ q.op # "user.deleted"
          /\ UNCHANGED <<invitation, audit, issued, expired, inbox, gone, origin, requests, faults>>
      BY <1>1, <1>4, <2>1 DEF CommitChange, Changes
    <2> QED BY <1>1, <2>2, <2>3, <2>4, UsersWritten
  <1> QED BY <1>3, <1>4

\* The audit entry of a deletion, and of what was done.
LEMMA LogActionKeeps ==
  ASSUME AccountsInv, NEW w \in Worker, LogAction(w)
  PROVE  AccountsInv'
  <1>1. PICK q : q = req[w]
    OBVIOUS
  <1>2. q \in Request /\ RequestFacts("log", q)
    BY <1>1 DEF AccountsInv, AccountsTypeOK, LogAction
  <1>3. UNCHANGED <<user, invitation, issued, expired, inbox, gone, origin, requests, faults>>
    BY DEF LogAction
  <1>4. audit' \subseteq UserId /\ audit \subseteq audit'
    BY <1>1, <1>2 DEF LogAction, RequestFacts, Request, AccountsInv, AccountsTypeOK
  <1>5. OthersMayGoOn
    BY <1>3, <1>4 DEF OthersMayGoOn, Exists, AcceptedBy
  <1>6. /\ pc' \in [Worker -> Step] /\ req' \in [Worker -> Request]
        /\ \A v \in Worker : RequestFacts(pc[v], req[v])'
    <2>1. CASE q.op = "user.deleted"
      <3>1. /\ pc' = [pc EXCEPT ![w] = "load"] /\ req' = req
            /\ audit' = audit \cup {q.account}
        BY <1>1, <2>1 DEF LogAction, GoesTo
      <3>2. req' = [req EXCEPT ![w] = q]
        BY <1>1, <3>1 DEF AccountsInv, AccountsTypeOK
      <3>3. RequestFacts("load", q)'
        BY <1>2, <2>1, <3>1 DEF RequestFacts, Changes
      <3>4. pc' \in [Worker -> Step] /\ req' \in [Worker -> Request]
        BY <3>1 DEF AccountsInv, AccountsTypeOK, Step
      <3> QED BY <1>5, <3>1, <3>2, <3>3, <3>4, RequestStep
    <2>2. CASE q.op # "user.deleted"
      BY <1>1, <1>5, <2>2, DoneStep DEF LogAction
    <2> QED BY <2>1, <2>2
  <1>7. AccountsTypeOK'
    BY <1>3, <1>4, <1>6 DEF AccountsInv, AccountsTypeOK
  <1>8. (InvitationsIssued /\ InvitersExist /\ UsedNamesItsAccount /\ DeletionsLogged)'
    BY <1>3, <1>4
    DEF AccountsInv, InvitationsIssued, InvitersExist, UsedNamesItsAccount, DeletionsLogged, Exists
  <1> QED BY <1>6, <1>7, <1>8 DEF AccountsInv

\* What is to go with an account.
LEMMA LoadForDeletionKeeps ==
  ASSUME AccountsInv, NEW w \in Worker, LoadForDeletion(w)
  PROVE  AccountsInv'
  <1>1. PICK q : q = req[w]
    OBVIOUS
  <1>2. q \in Request /\ RequestFacts("load", q) /\ Exists(q.account)
    BY <1>1 DEF AccountsInv, AccountsTypeOK, LoadForDeletion, Deletable
  <1>3. PICK r : r = [q EXCEPT !.pending = {t \in Token : AcceptedBy(t, q.account)}]
    OBVIOUS
  <1>4. r \in Request
    BY <1>2, <1>3 DEF Request
  <1>5. /\ r.op = q.op /\ r.actor = q.actor /\ r.account = q.account
        /\ r.pending = {t \in Token : AcceptedBy(t, q.account)}
    BY <1>2, <1>3 DEF Request
  <1>6. RequestFacts("delete", r)
    BY <1>2, <1>5 DEF RequestFacts, Changes
  <1>7. /\ pc' = [pc EXCEPT ![w] = "delete"] /\ req' = [req EXCEPT ![w] = r]
        /\ UNCHANGED <<tables, issued, expired, inbox, gone, origin, requests, faults>>
    BY <1>1, <1>3 DEF LoadForDeletion, GoesTo
  <1>8. /\ OthersMayGoOn
        /\ (InvitationsIssued /\ InvitersExist /\ UsedNamesItsAccount /\ DeletionsLogged)'
    BY <1>7, TablesKept
  <1>9. RequestFacts("delete", r)'
    BY <1>4, <1>6, <1>8, FactsKept
  <1>10. \A v \in Worker : RequestFacts(pc[v], req[v])'
    BY <1>7, <1>8, <1>9, RequestStep
  <1>11. AccountsTypeOK'
    BY <1>4, <1>7 DEF AccountsInv, AccountsTypeOK, tables, Step
  <1> QED BY <1>8, <1>10, <1>11 DEF AccountsInv

\* An account that goes takes the invitation it was opened with along, and
\* those it has sent.
LEMMA CommitDeletionKeeps ==
  ASSUME AccountsInv, NEW w \in Worker, CommitDeletion(w)
  PROVE  AccountsInv'
  <1>1. PICK q, u : q = req[w] /\ u = q.account
    OBVIOUS
  <1>2. /\ q \in Request /\ RequestFacts("delete", q) /\ Exists(u) /\ u \in UserId
        /\ u \in audit /\ \A t \in Token : AcceptedBy(t, u) => t \in q.pending
    BY <1>1 DEF AccountsInv, AccountsTypeOK, CommitDeletion, RequestFacts, Request
  <1>3. /\ Done(w)
        /\ user' = [user EXCEPT ![u] = None]
        /\ invitation' = [t \in Token |-> IF DeletedWith(t, q) THEN None ELSE invitation[t]]
        /\ gone' = gone \cup {u}
        /\ UNCHANGED <<audit, issued, expired, inbox, origin, requests, faults>>
    BY <1>1 DEF CommitDeletion
  <1>4. /\ user' \in [UserId -> Account \cup {None}]
        /\ user'[u] = None
        /\ \A v : v # u => user'[v] = user[v]
    BY <1>2, <1>3 DEF AccountsInv, AccountsTypeOK
  <1>5. /\ invitation' \in [Token -> Invitation \cup {None}]
        /\ \A t \in Token : invitation'[t] # None =>
             /\ invitation'[t] = invitation[t] /\ invitation[t] # None
             /\ ~AcceptedBy(t, u) /\ ~SentBy(t, u)
    BY <1>1, <1>2, <1>3 DEF AccountsInv, AccountsTypeOK, DeletedWith
  <1>6. OthersMayGoOn
    <2>1. \A v \in UserId : Exists(v) \/ v \in gone =>
            (Exists(v)' \/ v \in gone') /\ (Exists(v)' => Exists(v))
      BY <1>3, <1>4 DEF Exists
    <2>2. \A t \in Token : \A v : AcceptedBy(t, v)' => AcceptedBy(t, v)
      BY <1>5 DEF AcceptedBy
    <2>3. issued \subseteq Token
      BY DEF AccountsInv, AccountsTypeOK
    <2>4. \A t \in issued : invitation'[t] # None =>
            /\ invitation[t] # None
            /\ invitation'[t].email = invitation[t].email
            /\ invitation'[t].role = invitation[t].role
      BY <1>5, <2>3
    <2> QED BY <1>3, <2>1, <2>2, <2>4 DEF OthersMayGoOn
  <1>7. /\ pc' \in [Worker -> Step] /\ req' \in [Worker -> Request]
        /\ \A v \in Worker : RequestFacts(pc[v], req[v])'
    BY <1>3, <1>6, DoneStep
  <1>8. AccountsTypeOK'
    BY <1>2, <1>3, <1>4, <1>5, <1>7 DEF AccountsInv, AccountsTypeOK
  <1>9. InvitationsIssued'
    BY <1>3, <1>5 DEF AccountsInv, InvitationsIssued
  <1>10. InvitersExist'
    BY <1>4, <1>5 DEF AccountsInv, InvitersExist, SentBy, Exists
  <1>11. UsedNamesItsAccount'
    BY <1>3, <1>4, <1>5 DEF AccountsInv, UsedNamesItsAccount, AcceptedBy, Exists
  <1>12. DeletionsLogged'
    BY <1>2, <1>3 DEF AccountsInv, DeletionsLogged
  <1> QED BY <1>7, <1>8, <1>9, <1>10, <1>11, <1>12 DEF AccountsInv

-----------------------------------------------------------------------------
(* The invariant *)

\* The founders and nothing else.
LEMMA InitHolds == AccountsInit => AccountsInv
  <1> SUFFICES ASSUME AccountsInit PROVE AccountsInv
    OBVIOUS
  <1>1. user \in [UserId -> Account \cup {None}]
    <2>1. \A u \in UserId : Founder[u] # None =>
            [email |-> Founder[u], role |-> "super_admin", active |-> TRUE] \in Account
      BY AccountsAssumption DEF Account, Role
    <2> QED BY <2>1 DEF AccountsInit
  <1>2. AccountsTypeOK
    BY <1>1, NoRequestTyped, AccountsAssumption DEF AccountsInit, AccountsTypeOK, Step
  <1>3. \A w \in Worker : RequestFacts(pc[w], req[w])
    BY NoRequestTyped DEF AccountsInit
  <1>4. InvitationsIssued /\ InvitersExist /\ UsedNamesItsAccount /\ DeletionsLogged
    BY DEF AccountsInit, InvitationsIssued, InvitersExist, UsedNamesItsAccount, DeletionsLogged
  <1> QED BY <1>2, <1>3, <1>4 DEF AccountsInv

\* Every step keeps it.
LEMMA NextKeeps == AccountsInv /\ [AccountsNext]_accountVars => AccountsInv'
  <1> SUFFICES ASSUME AccountsInv, [AccountsNext]_accountVars PROVE AccountsInv'
    OBVIOUS
  <1>1. CASE UNCHANGED accountVars
    <2>1. UNCHANGED <<tables, issued, expired, inbox, pc, req, gone, origin, requests, faults>>
      BY <1>1 DEF accountVars
    <2>2. (InvitationsIssued /\ InvitersExist /\ UsedNamesItsAccount /\ DeletionsLogged)'
      BY <2>1, TablesKept
    <2>3. AccountsTypeOK'
      BY <2>1 DEF AccountsInv, AccountsTypeOK, tables
    <2>4. \A w \in Worker : RequestFacts(pc[w], req[w])'
      BY <2>1 DEF AccountsInv, RequestFacts, Exists, AcceptedBy, tables
    <2> QED BY <2>2, <2>3, <2>4 DEF AccountsInv
  <1>2. CASE \E w \in Worker :
               \/ SendInvitation(w) \/ CommitInvitation(w) \/ MailSent(w) \/ MailFails(w)
               \/ RevokeInvitation(w) \/ CommitRevocation(w)
               \/ Register(w) \/ CommitRegistration(w)
               \/ CreateUser(w) \/ CommitUser(w)
               \/ UpdateUser(w) \/ SetActive(w) \/ UpdateOwnEmail(w) \/ CommitChange(w)
               \/ DeleteUser(w) \/ LogAction(w)
               \/ LoadForDeletion(w) \/ CommitDeletion(w)
               \/ Refused(w) \/ RequestFails(w)
    BY <1>2, InvitationRequests, AccountRequests, EndingSteps, MailSentKeeps,
       WithdrawalKeeps, CommitInvitationKeeps, CommitRegistrationKeeps, CommitUserKeeps,
       LogActionKeeps, LoadForDeletionKeeps, CommitDeletionKeeps
  <1>3. CASE \E t \in Token : Expire(t)
    BY <1>3, ExpireKeeps
  <1> QED BY <1>1, <1>2, <1>3 DEF AccountsNext

-----------------------------------------------------------------------------
(* Theorems *)

\* The inductive invariant: the tables with what every request under way holds.
THEOREM AccountsInvariant == AccountsSpec => []AccountsInv
  BY InitHolds, NextKeeps, PTL DEF AccountsSpec

\* The types of users.py and invitations.py.
THEOREM AccountsTypes == AccountsSpec => []AccountsTypeOK
  <1>1. AccountsInv => AccountsTypeOK
    BY DEF AccountsInv
  <1> QED BY <1>1, AccountsInvariant, PTL

\* A used invitation names an account that exists and was registered with it,
\* through concurrent registrations, revocations and deletions (invitations.py,
\* delete_user).
THEOREM UsedInvitationsNameAccounts == AccountsSpec => []UsedNamesItsAccount
  <1>1. AccountsInv => UsedNamesItsAccount
    BY DEF AccountsInv
  <1> QED BY <1>1, AccountsInvariant, PTL

\* Whoever invited somebody exists as long as the invitation does: the cascade
\* of invited_by_id takes what was sent while the deletion was under way.
THEOREM InvitationsHaveSenders == AccountsSpec => []InvitersExist
  <1>1. AccountsInv => InvitersExist
    BY DEF AccountsInv
  <1> QED BY <1>1, AccountsInvariant, PTL

\* No account disappears without its audit entry, wherever delete_user is cut
\* off.
THEOREM DeletionsAreLogged == AccountsSpec => []DeletionsLogged
  <1>1. AccountsInv => DeletionsLogged
    BY DEF AccountsInv
  <1> QED BY <1>1, AccountsInvariant, PTL

-----------------------------------------------------------------------------
(* Steps that open accounts, and steps that take a rank *)

\* origin is written by CommitRegistration only.
LEMMA OpeningIsRegistration ==
  ASSUME [AccountsNext]_accountVars, origin' # origin
  PROVE  \E w \in Worker : CommitRegistration(w)
  <1>1. \A w \in Worker :
          SendInvitation(w) \/ RevokeInvitation(w) \/ Register(w) \/ CreateUser(w)
            \/ UpdateUser(w) \/ SetActive(w) \/ UpdateOwnEmail(w) \/ DeleteUser(w)
          => origin' = origin
    <2>1. \A w, step, r : Accepted(w, step, r) => origin' = origin
      BY DEF Accepted
    <2> QED BY <2>1 DEF SendInvitation, RevokeInvitation, Register, CreateUser, UpdateUser,
                        SetActive, UpdateOwnEmail, DeleteUser
  <1>2. \A w \in Worker :
          CommitInvitation(w) \/ MailSent(w) \/ MailFails(w) \/ CommitRevocation(w)
            \/ CommitUser(w) \/ CommitChange(w) \/ LogAction(w) \/ LoadForDeletion(w)
            \/ CommitDeletion(w) \/ Refused(w) \/ RequestFails(w)
          => origin' = origin
    BY DEF CommitInvitation, MailSent, MailFails, CommitRevocation, CommitUser,
           CommitChange, LogAction, LoadForDeletion, CommitDeletion, Refused, RequestFails
  <1>3. \A t \in Token : Expire(t) => origin' = origin
    BY DEF Expire
  <1>4. ~UNCHANGED accountVars
    BY DEF accountVars
  <1> QED BY <1>1, <1>2, <1>3, <1>4 DEF AccountsNext

\* An account that is opened has the e-mail and the role of its invitation.
LEMMA OpenedAsInvited ==
  ASSUME AccountsInv, [AccountsNext]_accountVars,
         NEW u \in UserId, origin'[u] # origin[u]
  PROVE  /\ invitation[origin'[u]] # None
         /\ invitation[origin'[u]].email = user'[u].email
         /\ invitation[origin'[u]].role = user'[u].role
  <1>1. PICK w \in Worker : CommitRegistration(w)
    BY OpeningIsRegistration
  <1>2. PICK q, t : q = req[w] /\ t = q.token
    OBVIOUS
  <1>3. /\ invitation[t] # None
        /\ invitation[t].email = q.email /\ invitation[t].role = q.role
    BY <1>1, <1>2 DEF AccountsInv, RequestFacts, CommitRegistration, RegistrationHolds
  <1>4. PICK v \in FreshUserId :
          /\ user' = [user EXCEPT ![v] =
               [email |-> q.email, role |-> q.role, active |-> TRUE]]
          /\ origin' = [origin EXCEPT ![v] = t]
    BY <1>1, <1>2 DEF CommitRegistration
  <1>5. v = u /\ origin'[u] = t /\ user'[u].email = q.email /\ user'[u].role = q.role
    BY <1>4 DEF AccountsInv, AccountsTypeOK
  <1> QED BY <1>3, <1>5

\* Rows of users are written by four steps.
LEMMA UserSteps ==
  ASSUME [AccountsNext]_accountVars, user' # user
  PROVE  \E w \in Worker : \/ CommitRegistration(w) \/ CommitUser(w)
                           \/ CommitChange(w) \/ CommitDeletion(w)
  <1>1. \A w \in Worker :
          SendInvitation(w) \/ RevokeInvitation(w) \/ Register(w) \/ CreateUser(w)
            \/ UpdateUser(w) \/ SetActive(w) \/ UpdateOwnEmail(w) \/ DeleteUser(w)
          => user' = user
    <2>1. \A w, step, r : Accepted(w, step, r) => user' = user
      BY DEF Accepted, tables
    <2> QED BY <2>1 DEF SendInvitation, RevokeInvitation, Register, CreateUser, UpdateUser,
                        SetActive, UpdateOwnEmail, DeleteUser
  <1>2. \A w \in Worker :
          CommitInvitation(w) \/ MailSent(w) \/ MailFails(w) \/ CommitRevocation(w)
            \/ LogAction(w) \/ LoadForDeletion(w) \/ Refused(w) \/ RequestFails(w)
          => user' = user
    BY DEF CommitInvitation, MailSent, MailFails, CommitRevocation, LogAction,
           LoadForDeletion, Refused, RequestFails, tables
  <1>3. \A t \in Token : Expire(t) => user' = user
    BY DEF Expire, tables
  <1>4. ~UNCHANGED accountVars
    BY DEF accountVars, tables
  <1> QED BY <1>1, <1>2, <1>3, <1>4 DEF AccountsNext

\* A new account takes nobody's place.
LEMMA NewAccountsDisplaceNobody ==
  ASSUME AccountsInv, NEW w \in Worker, CommitRegistration(w) \/ CommitUser(w), SomeSuperAdmin
  PROVE  SomeSuperAdmin'
  <1>1. PICK u \in FreshUserId : \E row : user' = [user EXCEPT ![u] = row]
    BY DEF CommitRegistration, CommitUser
  <1>2. PICK s \in UserId : IsSuperAdmin(s)
    BY DEF SomeSuperAdmin
  <1>3. u # s
    BY <1>2 DEF FreshUserId, IsSuperAdmin, Active
  <1>4. user'[s] = user[s]
    BY <1>1, <1>3
  <1> QED BY <1>2, <1>4 DEF SomeSuperAdmin, IsSuperAdmin, Active, Exists

\* A change or a deletion that leaves no super admin was made by one who is none.
LEMMA RankTakenByTheFallen ==
  ASSUME AccountsInv, NEW w \in Worker, CommitChange(w) \/ CommitDeletion(w), ~SomeSuperAdmin'
  PROVE  /\ pc'[w] # pc[w]
         /\ req[w].actor # None
         /\ ~IsSuperAdmin(req[w].actor)
  <1>1. PICK q, a, u : q = req[w] /\ a = q.actor /\ u = q.account
    OBVIOUS
  <1>2. q \in Request /\ RequestFacts(pc[w], q)
    BY <1>1 DEF AccountsInv, AccountsTypeOK
  <1>3. a # None
    BY <1>1, <1>2 DEF CommitChange, CommitDeletion, RequestFacts
  <1>4. pc'[w] # pc[w]
    BY DEF AccountsInv, AccountsTypeOK, CommitChange, CommitDeletion, IsLeftToLog, Done, GoesTo
  <1>5. ASSUME IsSuperAdmin(a) PROVE FALSE
    <2>1. a \in UserId
      BY <1>1, <1>2, <1>3 DEF Request
    <2>2. user[a] \in Account /\ user[a] # None /\ user[a].active = TRUE
          /\ user[a].role = "super_admin"
      <3>1. user[a] # None /\ user[a].role = "super_admin" /\ user[a].active
        BY <1>5 DEF IsSuperAdmin, Active, Exists
      <3>2. user[a] \in Account
        BY <2>1, <3>1 DEF AccountsInv, AccountsTypeOK
      <3>3. user[a].active \in BOOLEAN
        BY <3>2 DEF Account
      <3> QED BY <3>1, <3>2, <3>3
    <2>3. CASE u # a
      <3>1. user'[a] = user[a]
        BY <1>1, <2>1, <2>3 DEF CommitChange, CommitDeletion, AccountsInv, AccountsTypeOK
      <3>2. IsSuperAdmin(a)'
        BY <1>3, <2>2, <3>1 DEF IsSuperAdmin, Active, Exists
      <3> QED BY <2>1, <3>2 DEF SomeSuperAdmin, IsSuperAdmin, Active, Exists
    <2>4. CASE u = a
      <3>1. CommitChange(w) /\ q.role \in {None, "super_admin"} /\ q.active # FALSE
        BY <1>1, <1>2, <2>4 DEF CommitChange, CommitDeletion, RequestFacts
      <3>2. q.active \in {None, TRUE}
        BY <1>2, <3>1 DEF Request
      <3>3. PICK row : row = Changed(user[a], q)
        OBVIOUS
      <3>4. row.role = "super_admin" /\ row.active = TRUE /\ row \in Account
        BY <1>2, <2>2, <3>1, <3>2, <3>3 DEF Changed, Account, Request
      <3>5. user'[a] = row
        BY <1>1, <2>1, <2>4, <3>1, <3>3 DEF CommitChange, AccountsInv, AccountsTypeOK
      <3>6. IsSuperAdmin(a)'
        BY <1>3, <3>4, <3>5, NoneIsNoRow DEF IsSuperAdmin, Active, Exists
      <3> QED BY <2>1, <3>6 DEF SomeSuperAdmin, IsSuperAdmin, Active, Exists
    <2> QED BY <2>3, <2>4
  <1> QED BY <1>1, <1>3, <1>4, <1>5

\* register_with_invitation opens an account only with an invitation that is
\* there at that moment, with its e-mail and role: one that was revoked,
\* replaced or withdrawn meanwhile opens nothing.
THEOREM AccountsOpenAsInvited == AccountsSpec => OnlyStandingInvitationsOpenAccounts
  <1>1. AccountsInv /\ [AccountsNext]_accountVars =>
          [\A u \in UserId :
             origin'[u] # origin[u] =>
               /\ invitation[origin'[u]] # None
               /\ invitation[origin'[u]].email = user'[u].email
               /\ invitation[origin'[u]].role = user'[u].role]_accountVars
    BY OpenedAsInvited
  <1> QED BY <1>1, AccountsInvariant, PTL DEF AccountsSpec, OnlyStandingInvitationsOpenAccounts

\* Nobody takes the rank from themselves (update_user, deactivate_user,
\* delete_user): the last super admin falls only to a request whose own
\* principal lost the rank while it was under way.
THEOREM LastRankFallsToTheFallen == AccountsSpec => LastSuperAdminFallsToTheFallen
  <1>1. AccountsInv /\ [AccountsNext]_accountVars =>
          [SomeSuperAdmin /\ ~SomeSuperAdmin' =>
             \E w \in Worker :
               /\ pc'[w] # pc[w]
               /\ req[w].actor # None
               /\ ~IsSuperAdmin(req[w].actor)]_accountVars
    <2> SUFFICES ASSUME AccountsInv, [AccountsNext]_accountVars,
                        SomeSuperAdmin, ~SomeSuperAdmin'
                 PROVE  \E w \in Worker :
                          /\ pc'[w] # pc[w]
                          /\ req[w].actor # None
                          /\ ~IsSuperAdmin(req[w].actor)
      OBVIOUS
    <2>1. user' # user
      BY DEF SomeSuperAdmin, IsSuperAdmin, Active, Exists
    <2>2. PICK w \in Worker : \/ CommitRegistration(w) \/ CommitUser(w)
                              \/ CommitChange(w) \/ CommitDeletion(w)
      BY <2>1, UserSteps
    <2>3. CommitChange(w) \/ CommitDeletion(w)
      BY <2>2, NewAccountsDisplaceNobody
    <2> QED BY <2>3, RankTakenByTheFallen
  <1> QED BY <1>1, AccountsInvariant, PTL DEF AccountsSpec, LastSuperAdminFallsToTheFallen
=============================================================================
