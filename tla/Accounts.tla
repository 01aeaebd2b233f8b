------------------------------- MODULE Accounts -------------------------------
(***************************************************************************)
(* Accounts and invitations (app/api/v1/users.py, invitations.py, auth.py  *)
(* with app/api/deps.py).                                                  *)
(*                                                                         *)
(* The API runs as several worker processes over one READ COMMITTED        *)
(* database.  A handler is a plain sequence of statements: it reads the    *)
(* principal and the rows it judges by, then writes and commits, then some *)
(* send a mail or commit an audit entry.  Between these steps the other    *)
(* processes run.  What the database refuses (a unique e-mail, a foreign   *)
(* key, NOT NULL) and what SQLAlchemy refuses (an UPDATE that matches no   *)
(* row) ends a request without its write.                                  *)
(*                                                                         *)
(* Passwords, names and tokens of a login are not modelled: whoever is     *)
(* active and has the rank may make a request.                             *)
(***************************************************************************)
EXTENDS Naturals

CONSTANTS
  UserId,       \* users.user_id, never used twice
  Email,
  Token,        \* invitation_tokens.token, never used twice
  Worker,       \* uvicorn processes
  None,
  Founder,      \* [UserId -> Email \cup {None}]: super admins made by a script
  InvitedRole,  \* the roles invitations and requests give
  UserUpdate,   \* bodies of update_user; None for a field left out
  MaxRequests,  \* bound: requests that get past their checks
  MaxFaults     \* bound: requests cut off by a crash or a statement timeout

Role == {"user", "admin", "super_admin"}

ASSUME AccountsAssumption ==
  /\ None \notin UserId \cup Email \cup Token
  /\ None \notin Role
  /\ None \notin BOOLEAN
  /\ Founder \in [UserId -> Email \cup {None}]
  /\ \A u, v \in UserId : Founder[u] = Founder[v] /\ Founder[u] # None => u = v
  /\ InvitedRole \subseteq Role
  /\ UserUpdate \subseteq [email : Email \cup {None}, role : Role \cup {None},
                           active : BOOLEAN \cup {None}]
  /\ MaxRequests \in Nat
  /\ MaxFaults \in Nat

VARIABLES
  user,         \* users: a row or None
  invitation,   \* invitation_tokens: a row or None
  issued,       \* tokens drawn so far
  expired,      \* tokens past expires_at
  inbox,        \* tokens whose mail was delivered
  audit,        \* accounts with an entry user.deleted in audit_logs
  pc,           \* where the request of a worker stands
  req,          \* what that request holds
  gone,         \* history: accounts that were deleted
  origin,       \* history: the invitation an account was registered with
  requests,     \* requests so far
  faults

tables == <<user, invitation, audit>>
accountVars == <<tables, issued, expired, inbox, pc, req, gone, origin, requests, faults>>

-----------------------------------------------------------------------------
(* Types *)

Account == [email : Email, role : Role, active : BOOLEAN]

\* account: users.user_id of who registered, set together with isUsed.
Invitation ==
  [email : Email, role : Role, by : UserId, isUsed : BOOLEAN, account : UserId \cup {None}]

ASSUME NoneIsNoRow ==
  /\ \A row \in Account : row # None
  /\ \A row \in Invitation : row # None

Op == {"invitation.sent", "invitation.revoked", "register", "user.created",
       "user.updated", "user.deleted", "user.activated", "user.deactivated",
       "auth.email.update"}

\* actor: current_user; account: the row acted on; email, role, active: new
\* values, or those of the invitation as it was read; pending: the unused
\* invitations that were found.
Request ==
  [op : Op, actor : UserId \cup {None}, account : UserId \cup {None},
   token : Token \cup {None}, email : Email \cup {None}, role : Role \cup {None},
   active : BOOLEAN \cup {None}, pending : SUBSET Token]

Step == {"idle", "write", "mail", "log", "load", "delete"}

AccountsTypeOK ==
  /\ user \in [UserId -> Account \cup {None}]
  /\ invitation \in [Token -> Invitation \cup {None}]
  /\ issued \subseteq Token
  /\ expired \subseteq Token
  /\ inbox \subseteq Token
  /\ audit \subseteq UserId
  /\ pc \in [Worker -> Step]
  /\ req \in [Worker -> Request]
  /\ gone \subseteq UserId
  /\ origin \in [UserId -> Token \cup {None}]
  /\ requests \in 0..MaxRequests
  /\ faults \in 0..MaxFaults

-----------------------------------------------------------------------------
(* Helpers *)

Exists(u) == u # None /\ user[u] # None

\* get_current_user, get_admin_user, get_super_admin_user.
Active(u) == Exists(u) /\ user[u].active
IsAdmin(u) == Active(u) /\ user[u].role \in {"admin", "super_admin"}
IsSuperAdmin(u) == Active(u) /\ user[u].role = "super_admin"

\* ix_users_email is unique.
HasEmail(u, e) == Exists(u) /\ user[u].email = e
Registered(e) == \E u \in UserId : HasEmail(u, e)
TakenByAnother(e, u) == \E v \in UserId \ {u} : HasEmail(v, e)

Unused(t) == invitation[t] # None /\ ~invitation[t].isUsed

FreshUserId == {u \in UserId : ~Exists(u) /\ u \notin gone}

NoRequest ==
  [op |-> "register", actor |-> None, account |-> None, token |-> None,
   email |-> None, role |-> None, active |-> None, pending |-> {}]

AccountsInit ==
  /\ user = [u \in UserId |->
               IF Founder[u] = None THEN None
               ELSE [email |-> Founder[u], role |-> "super_admin", active |-> TRUE]]
  /\ invitation = [t \in Token |-> None]
  /\ issued = {}
  /\ expired = {}
  /\ inbox = {}
  /\ audit = {}
  /\ pc = [w \in Worker |-> "idle"]
  /\ req = [w \in Worker |-> NoRequest]
  /\ gone = {}
  /\ origin = [u \in UserId |-> None]
  /\ requests = 0
  /\ faults = 0

\* A request has passed its checks and is about to do step.
Accepted(w, step, r) ==
  /\ pc[w] = "idle"
  /\ requests < MaxRequests
  /\ pc' = [pc EXCEPT ![w] = step]
  /\ req' = [req EXCEPT ![w] = r]
  /\ requests' = requests + 1
  /\ UNCHANGED <<tables, issued, expired, inbox, gone, origin, faults>>

GoesTo(w, step) == pc' = [pc EXCEPT ![w] = step]

\* It has answered; nothing of it is left.
Done(w) == GoesTo(w, "idle") /\ req' = [req EXCEPT ![w] = NoRequest]

\* It has committed, and will write its audit entry.
IsLeftToLog(w) ==
  /\ GoesTo(w, "log")
  /\ req' = [req EXCEPT ![w] =
       [NoRequest EXCEPT !.op = req[w].op, !.actor = req[w].actor]]

-----------------------------------------------------------------------------
(* Invitations *)

\* send_invitation up to the insert.
SendInvitation(w) ==
  \E a \in UserId, e \in Email, r \in InvitedRole :
    /\ IsAdmin(a)
    /\ ~Registered(e)
    /\ r \in {"admin", "super_admin"} => user[a].role = "super_admin"
    /\ Accepted(w, "write",
         [NoRequest EXCEPT
            !.op = "invitation.sent", !.actor = a, !.email = e, !.role = r,
            !.pending = {t \in Token : Unused(t) /\ invitation[t].email = e}])

\* The unused invitations that were read are deleted by their ids, whatever
\* has become of them, and the new one is committed with them.
CommitInvitation(w) ==
  /\ pc[w] = "write" /\ req[w].op = "invitation.sent"
  /\ Exists(req[w].actor)
  /\ \E t \in Token \ issued :
       /\ invitation' = [i \in Token |->
            IF i = t
            THEN [email |-> req[w].email, role |-> req[w].role, by |-> req[w].actor,
                  isUsed |-> FALSE, account |-> None]
            ELSE IF i \in req[w].pending THEN None ELSE invitation[i]]
       /\ issued' = issued \cup {t}
       /\ req' = [req EXCEPT ![w] =
            [NoRequest EXCEPT !.op = "invitation.sent", !.actor = req[w].actor, !.token = t]]
  /\ GoesTo(w, "mail")
  /\ UNCHANGED <<user, audit, expired, inbox, gone, origin, requests, faults>>

MailSent(w) ==
  /\ pc[w] = "mail"
  /\ inbox' = inbox \cup {req[w].token}
  /\ Done(w)
  /\ UNCHANGED <<tables, issued, expired, gone, origin, requests, faults>>

\* "Rollback the invitation if email fails".
MailFails(w) ==
  /\ pc[w] = "mail"
  /\ invitation' = [invitation EXCEPT ![req[w].token] = None]
  /\ Done(w)
  /\ UNCHANGED <<user, audit, issued, expired, inbox, gone, origin, requests, faults>>

RevokeInvitation(w) ==
  \E a \in UserId, t \in Token :
    /\ IsAdmin(a)
    /\ Unused(t)
    /\ Accepted(w, "write",
         [NoRequest EXCEPT !.op = "invitation.revoked", !.actor = a, !.token = t])

\* DELETE by id: used or not by now, and no error if it is gone.
CommitRevocation(w) ==
  /\ pc[w] = "write" /\ req[w].op = "invitation.revoked"
  /\ invitation' = [invitation EXCEPT ![req[w].token] = None]
  /\ Done(w)
  /\ UNCHANGED <<user, audit, issued, expired, inbox, gone, origin, requests, faults>>

\* register_with_invitation up to the hash of the password.
Register(w) ==
  \E t \in inbox :
    /\ Unused(t)
    /\ t \notin expired
    /\ ~Registered(invitation[t].email)
    /\ Accepted(w, "write",
         [NoRequest EXCEPT
            !.token = t, !.email = invitation[t].email, !.role = invitation[t].role])

\* The insert needs the e-mail, the UPDATE of the invitation its row.
RegistrationHolds(r) == invitation[r.token] # None /\ ~Registered(r.email)

\* Mutant: the account is committed before its invitation is looked up again.
CommitRegistrationFirst(w) ==
  /\ pc[w] = "write" /\ req[w].op = "register"
  /\ ~Registered(req[w].email)
  /\ \E u \in FreshUserId :
       /\ user' = [user EXCEPT ![u] =
            [email |-> req[w].email, role |-> req[w].role, active |-> TRUE]]
       /\ invitation' = [t \in Token |->
            IF t = req[w].token /\ invitation[t] # None
            THEN [invitation[t] EXCEPT !.isUsed = TRUE, !.account = u]
            ELSE invitation[t]]
       /\ origin' = [origin EXCEPT ![u] = req[w].token]
  /\ Done(w)
  /\ UNCHANGED <<audit, issued, expired, inbox, gone, requests, faults>>

\* The insert and the update are one transaction.
CommitRegistration(w) ==
  /\ pc[w] = "write" /\ req[w].op = "register"
  /\ RegistrationHolds(req[w])
  /\ \E u \in FreshUserId :
       /\ user' = [user EXCEPT ![u] =
            [email |-> req[w].email, role |-> req[w].role, active |-> TRUE]]
       /\ invitation' = [invitation EXCEPT ![req[w].token].isUsed = TRUE,
                                           ![req[w].token].account = u]
       /\ origin' = [origin EXCEPT ![u] = req[w].token]
  /\ Done(w)
  /\ UNCHANGED <<audit, issued, expired, inbox, gone, requests, faults>>

Expire(t) ==
  /\ t \in issued \ expired
  /\ invitation[t] # None
  /\ expired' = expired \cup {t}
  /\ UNCHANGED <<tables, issued, inbox, pc, req, gone, origin, requests, faults>>

-----------------------------------------------------------------------------
(* Users *)

CreateUser(w) ==
  \E a \in UserId, e \in Email, r \in InvitedRole, b \in BOOLEAN :
    /\ IsSuperAdmin(a)
    /\ ~Registered(e)
    /\ Accepted(w, "write",
         [NoRequest EXCEPT !.op = "user.created", !.actor = a,
                           !.email = e, !.role = r, !.active = b])

\* created_by is a foreign key.
CreationHolds(r) == Exists(r.actor) /\ ~Registered(r.email)

CommitUser(w) ==
  /\ pc[w] = "write" /\ req[w].op = "user.created"
  /\ CreationHolds(req[w])
  /\ \E u \in FreshUserId :
       /\ user' = [user EXCEPT ![u] =
            [email |-> req[w].email, role |-> req[w].role, active |-> req[w].active]]
  /\ IsLeftToLog(w)
  /\ UNCHANGED <<invitation, audit, issued, expired, inbox, gone, origin, requests, faults>>

\* Mutant: the role is guarded only.
SparesOwnRole(a, u, role, active) == u = a => role \in {None, "super_admin"}

\* "Prevent super admin from demoting themselves", "... deactivating ...".
SparesSelf(a, u, role, active) ==
  u = a => role \in {None, "super_admin"} /\ active # FALSE

\* SQLAlchemy writes the columns whose value differs from the one it has read.
IfNew(value, read) == IF value = read THEN None ELSE value

\* update_user.
UpdateUser(w) ==
  \E a, u \in UserId, body \in UserUpdate :
    /\ IsSuperAdmin(a)
    /\ Exists(u)
    /\ SparesSelf(a, u, body.role, body.active)
    /\ body.email # None => ~TakenByAnother(body.email, u)
    /\ Accepted(w, "write",
         [NoRequest EXCEPT !.op = "user.updated", !.actor = a, !.account = u,
             !.email = IfNew(body.email, user[u].email),
             !.role = IfNew(body.role, user[u].role),
             !.active = IfNew(body.active, user[u].active)])

\* activate_user, deactivate_user.
SetActive(w) ==
  \E a, u \in UserId, b \in BOOLEAN :
    /\ IsSuperAdmin(a)
    /\ Exists(u)
    /\ SparesSelf(a, u, None, b)
    /\ Accepted(w, "write",
         [NoRequest EXCEPT !.op = IF b THEN "user.activated" ELSE "user.deactivated",
                           !.actor = a, !.account = u,
                           !.active = IfNew(b, user[u].active)])

UpdateOwnEmail(w) ==
  \E a \in UserId, e \in Email :
    /\ Active(a)
    /\ ~TakenByAnother(e, a)
    /\ Accepted(w, "write",
         [NoRequest EXCEPT !.op = "auth.email.update", !.actor = a, !.account = a,
                           !.email = IfNew(e, user[a].email)])

Changes == {"user.updated", "user.activated", "user.deactivated", "auth.email.update"}

\* An UPDATE that matches no row is an error.
ChangeHolds(r) ==
  /\ Exists(r.account)
  /\ r.email # None => ~TakenByAnother(r.email, r.account)

\* Mutant: a field left out of the body is written too.
ChangedAll(row, r) ==
  [email |-> r.email, role |-> r.role, active |-> r.active]

\* The columns that are written.
Changed(row, r) ==
  [email  |-> IF r.email = None THEN row.email ELSE r.email,
   role   |-> IF r.role = None THEN row.role ELSE r.role,
   active |-> IF r.active = None THEN row.active ELSE r.active]

CommitChange(w) ==
  /\ pc[w] = "write" /\ req[w].op \in Changes
  /\ ChangeHolds(req[w])
  /\ user' = [user EXCEPT ![req[w].account] = Changed(@, req[w])]
  /\ IsLeftToLog(w)
  /\ UNCHANGED <<invitation, audit, issued, expired, inbox, gone, origin, requests, faults>>

\* Mutant: the audit entry is left to a later step.
DeleteUserAtOnce(w) ==
  \E a, u \in UserId :
    /\ IsSuperAdmin(a)
    /\ Exists(u)
    /\ u # a
    /\ Accepted(w, "load",
         [NoRequest EXCEPT !.op = "user.deleted", !.actor = a, !.account = u])

DeleteUser(w) ==
  \E a, u \in UserId :
    /\ IsSuperAdmin(a)
    /\ Exists(u)
    /\ u # a
    /\ Accepted(w, "log",
         [NoRequest EXCEPT !.op = "user.deleted", !.actor = a, !.account = u])

\* log_user_action commits on its own: after a change, before a deletion.
\* Its user_id is a foreign key, and current_user is loaded again for it.
LogAction(w) ==
  /\ pc[w] = "log"
  /\ Exists(req[w].actor)
  /\ IF req[w].op = "user.deleted"
     THEN audit' = audit \cup {req[w].account} /\ GoesTo(w, "load") /\ UNCHANGED req
     ELSE UNCHANGED audit /\ Done(w)
  /\ UNCHANGED <<user, invitation, issued, expired, inbox, gone, origin, requests, faults>>

SentBy(t, u) == invitation[t] # None /\ invitation[t].by = u
AcceptedBy(t, u) == invitation[t] # None /\ invitation[t].account = u

\* The session would empty invited_by_id of the invitations it finds the user
\* has sent, and the column is NOT NULL.
Deletable(u) == Exists(u) /\ \A t \in Token : ~SentBy(t, u)

\* db.delete loads what refers to the account: the invitation accepted with it
\* is to go as well.
LoadForDeletion(w) ==
  /\ pc[w] = "load"
  /\ Deletable(req[w].account)
  /\ req' = [req EXCEPT ![w].pending = {t \in Token : AcceptedBy(t, req[w].account)}]
  /\ GoesTo(w, "delete")
  /\ UNCHANGED <<tables, issued, expired, inbox, gone, origin, requests, faults>>

\* Mutants: no cascade in the database; none in the session.
DeletedWithSession(t, r) == t \in r.pending
DeletedWithDatabase(t, r) == SentBy(t, r.account)

\* What was sent since, the database deletes with the row it refers to.
DeletedWith(t, r) == t \in r.pending \/ SentBy(t, r.account)

CommitDeletion(w) ==
  /\ pc[w] = "delete"
  /\ Exists(req[w].account)
  /\ user' = [user EXCEPT ![req[w].account] = None]
  /\ invitation' = [t \in Token |->
       IF DeletedWith(t, req[w]) THEN None ELSE invitation[t]]
  /\ gone' = gone \cup {req[w].account}
  /\ Done(w)
  /\ UNCHANGED <<audit, issued, expired, inbox, origin, requests, faults>>

-----------------------------------------------------------------------------
(* Errors *)

\* The step a request is at is one the database or the session refuses.
Refusable(w) ==
  \/ /\ pc[w] = "write"
     /\ \/ req[w].op = "invitation.sent" /\ ~Exists(req[w].actor)
        \/ req[w].op = "register" /\ ~RegistrationHolds(req[w])
        \/ req[w].op = "user.created" /\ ~CreationHolds(req[w])
        \/ req[w].op \in Changes /\ ~ChangeHolds(req[w])
  \/ pc[w] = "mail" /\ (~Exists(req[w].actor) \/ invitation[req[w].token] = None)
  \/ pc[w] = "log" /\ ~Exists(req[w].actor)
  \/ pc[w] = "load" /\ ~Deletable(req[w].account)
  \/ pc[w] = "delete" /\ ~Exists(req[w].account)

\* The transaction is rolled back and the request answered with 500 (deleting a
\* row that is already gone is no error, and changes nothing).
Refused(w) ==
  /\ Refusable(w)
  /\ Done(w)
  /\ UNCHANGED <<tables, issued, expired, inbox, gone, origin, requests, faults>>

\* The process dies, or a statement runs into a timeout.
RequestFails(w) ==
  /\ pc[w] # "idle"
  /\ faults < MaxFaults
  /\ faults' = faults + 1
  /\ Done(w)
  /\ UNCHANGED <<tables, issued, expired, inbox, gone, origin, requests>>

AccountsNext ==
  \/ \E w \in Worker :
       \/ SendInvitation(w) \/ CommitInvitation(w) \/ MailSent(w) \/ MailFails(w)
       \/ RevokeInvitation(w) \/ CommitRevocation(w)
       \/ Register(w) \/ CommitRegistration(w)
       \/ CreateUser(w) \/ CommitUser(w)
       \/ UpdateUser(w) \/ SetActive(w) \/ UpdateOwnEmail(w) \/ CommitChange(w)
       \/ DeleteUser(w) \/ LogAction(w)
       \/ LoadForDeletion(w) \/ CommitDeletion(w)
       \/ Refused(w) \/ RequestFails(w)
  \/ \E t \in Token : Expire(t)

AccountsSpec == AccountsInit /\ [][AccountsNext]_accountVars

-----------------------------------------------------------------------------
(* Properties *)

\* An account is opened only with an invitation that is there at that moment,
\* with its e-mail and role: one that was revoked, replaced or withdrawn while
\* the registration was under way opens nothing.
OnlyStandingInvitationsOpenAccounts ==
  [][\A u \in UserId :
       origin'[u] # origin[u] =>
         /\ invitation[origin'[u]] # None
         /\ invitation[origin'[u]].email = user'[u].email
         /\ invitation[origin'[u]].role = user'[u].role]_accountVars

\* A used invitation names an account that exists and was registered with it.
UsedNamesItsAccount ==
  \A t \in Token :
    invitation[t] # None =>
      IF invitation[t].isUsed
      THEN Exists(invitation[t].account) /\ origin[invitation[t].account] = t
      ELSE invitation[t].account = None

\* Whoever invited somebody exists as long as the invitation does.
InvitersExist ==
  \A t \in Token : invitation[t] # None => Exists(invitation[t].by)

\* No account disappears without an audit entry, wherever its deletion is cut
\* off.
DeletionsLogged == \A u \in gone : u \in audit

SomeSuperAdmin == \E u \in UserId : IsSuperAdmin(u)

\* Nobody can take the rank from themselves, so the last super admin can only
\* fall to a request whose own principal lost the rank while it was under way.
LastSuperAdminFallsToTheFallen ==
  [][SomeSuperAdmin /\ ~SomeSuperAdmin' =>
       \E w \in Worker :
         /\ pc'[w] # pc[w]
         /\ req[w].actor # None
         /\ ~IsSuperAdmin(req[w].actor)]_accountVars
==============================================================================
