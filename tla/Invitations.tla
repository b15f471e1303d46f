---------------------------- MODULE Invitations ----------------------------
(***************************************************************************)
(* The life of invitations: InvitationsController and InvitationsService,  *)
(* the validators of their DTOs, StateService.apply and the midnight job   *)
(* that closes the invitations whose time is up.                           *)
(*                                                                         *)
(* Handlers run on one event loop and interleave at every await.  A slot   *)
(* is one request being served: it holds the Invitation entity the request *)
(* has in memory (a copy of the row, taken when it was loaded) and the     *)
(* step it resumes at.  One action is the code between two awaits that     *)
(* touch shared state.  An entity is saved as it is in memory, whatever    *)
(* the row has become since: TypeORM compares no version.                  *)
(***************************************************************************)
EXTENDS Naturals, Sequences, FiniteSets, StateGraph, Roles

CONSTANTS
  Slots,           \* the requests that may be served at the same time
  Emails,          \* the addresses invited or registered
  ActorRoles,      \* the roles of the users who call these endpoints
  InvitedRoles,    \* the roles invitations are sent for
  MaxInvitations,  \* bound: rows of the invitations table
  MaxBusy,         \* bound: slots and job runs in flight at the same time
  MaxCrashes       \* bound: restarts of the process

ASSUME RolesAssumption == ActorRoles \subseteq RoleId /\ InvitedRoles \subseteq RoleId
ASSUME BoundsAssumption == MaxInvitations \in Nat /\ MaxBusy \in Nat /\ MaxCrashes \in Nat

VARIABLES
  invitations,  \* the table, in order of creation: a row's id is its place,
                \* which also stands for its token
  accounts,     \* users: address, role, and the invitation they came by (0: none)
  mails,        \* the INVITATION_EMAIL jobs ever put on the email queue
  requests,     \* what each slot has in memory
  cron,         \* the rows the running midnight job still has to save
  crashes       \* restarts so far

vars == <<invitations, accounts, mails, requests, cron, crashes>>

-----------------------------------------------------------------------------
(* Data *)

Ids == DOMAIN invitations

(* due: expiresAt <= now *)
Row == [email : Emails, role : RoleId, status : InvitationStatus, due : BOOLEAN]
Account == [email : Emails, role : RoleId, invitation : Nat]
Mail == [to : Emails, role : RoleId, token : Nat]

Ops == {"invite", "resend", "cancel", "accept"}
Steps == {"insert", "enqueue", "apply", "save", "find", "createUser"}
Request == [op : Ops, at : Steps, id : Nat, email : Emails, role : RoleId,
            status : InvitationStatus]
Idle == [at |-> "idle"]

(* AuthService.isAuthorizedOnRole for the caller, whoever it is. *)
IsAuthorizedOnRole(role) == \E actor \in ActorRoles : WithinReach(actor, role)

(* The unique index on users.email. *)
EmailTaken(email) == \E a \in accounts : a.email = email

InvitationsOf(email) == {i \in Ids : invitations[i].email = email}

(* What findOne with order createdAt DESC returns for the address. *)
IsLatest(i, email) == i \in InvitationsOf(email) /\ \A j \in InvitationsOf(email) : j <= i

(* Fault: only a pending invitation blocks the address. *)
FaultyValidInvitationEmail(email) ==
  \A i \in Ids : IsLatest(i, email) => invitations[i].status # "pending"

(* ValidInvitationEmail: only a cancelled invitation lets the address be invited again. *)
ValidInvitationEmail(email) ==
  \A i \in Ids : IsLatest(i, email) => invitations[i].status = "cancelled"

(* Fault: only a cancelled invitation's token is refused. *)
FaultyValidToken(i) == invitations[i].status # "cancelled"

(* ValidToken looks at the status and never at expiresAt. *)
ValidToken(i) == invitations[i].status = "pending"

(* save() of an entity in memory; every save here follows expiresAt = now, and   *)
(* writes an answer.  Reading the row and writing what differs is one step here: *)
(* a row that has the status already is left alone from the read on, any other   *)
(* gets it by the write.                                                         *)
SaveInvitation(i, status) ==
  invitations' = [invitations EXCEPT ![i].status = status, ![i].due = TRUE]

-----------------------------------------------------------------------------
(* Slots *)

Busy == Cardinality({q \in Slots : requests[q] # Idle}) + (IF cron = <<>> THEN 0 ELSE 1)
CanStart(q) == requests[q] = Idle /\ Busy < MaxBusy

(* Keeps MaxInvitations: every request that will insert a row has room for it. *)
Room ==
  LET inserting == {q \in Slots : /\ requests[q] # Idle
                                  /\ requests[q].op \in {"invite", "resend"}
                                  /\ requests[q].at # "enqueue"}
  IN Len(invitations) + Cardinality(inserting) < MaxInvitations

Serve(q, request) == requests' = [requests EXCEPT ![q] = request]
Resume(q, step) == requests' = [requests EXCEPT ![q].at = step]
Finish(q) == Serve(q, Idle)

(* The entity of row i as a request loads it. *)
Loaded(op, step, i, status) ==
  [op |-> op, at |-> step, id |-> i, email |-> invitations[i].email,
   role |-> invitations[i].role, status |-> status]

-----------------------------------------------------------------------------
(* POST /invitations.  The validators of InviteDto, then createInvitation up to *)
(* its save: the new entity is pending and has no id yet.                       *)
InviteValidate(q) ==
  /\ CanStart(q) /\ Room
  /\ \E email \in Emails, role \in InvitedRoles :
       /\ ValidInvitationEmail(email)
       /\ IsAuthorizedOnRole(role)
       /\ Serve(q, [op |-> "invite", at |-> "insert", id |-> 0, email |-> email,
                    role |-> role, status |-> "pending"])
  /\ UNCHANGED <<invitations, accounts, mails, cron, crashes>>

(* Fault: resend issues the new invitation and leaves the old one as it is. *)
FaultyResendBind(q) ==
  /\ CanStart(q) /\ Room
  /\ \E i \in Ids : /\ IsAuthorizedOnRole(invitations[i].role)
                    /\ invitations[i].status = "pending"
                    /\ Serve(q, Loaded("resend", "insert", i, "pending"))
  /\ UNCHANGED <<invitations, accounts, mails, cron, crashes>>

(* POST /invitations/resend/:id.  BindEntityPipe loads the row; the handler is *)
(* authorised, refuses a cancelled invitation, and expires the copy in memory. *)
ResendBind(q) ==
  /\ CanStart(q) /\ Room
  /\ \E i \in Ids :
       /\ IsAuthorizedOnRole(invitations[i].role)
       /\ invitations[i].status # "cancelled"
       /\ CanApply(InvitationGraph, "expiration", invitations[i].status)
       /\ Serve(q, Loaded("resend", "apply", i, InvitationGraph["expiration"].to))
  /\ UNCHANGED <<invitations, accounts, mails, cron, crashes>>

(* PUT /invitations/cancel/:id *)
CancelBind(q) ==
  /\ CanStart(q)
  /\ \E i \in Ids :
       /\ IsAuthorizedOnRole(invitations[i].role)
       /\ CanApply(InvitationGraph, "cancellation", invitations[i].status)
       /\ Serve(q, Loaded("cancel", "apply", i, InvitationGraph["cancellation"].to))
  /\ UNCHANGED <<invitations, accounts, mails, cron, crashes>>

(* POST /invitations/accept: the validators of AcceptInvite. *)
AcceptValidate(q) ==
  /\ CanStart(q)
  /\ \E i \in Ids :
       /\ ValidToken(i)
       /\ Serve(q, Loaded("accept", "find", i, invitations[i].status))
  /\ UNCHANGED <<invitations, accounts, mails, cron, crashes>>

(* findByToken: the row is loaded again, whatever its status is by now. *)
AcceptFind(q) ==
  /\ requests[q].at = "find"
  /\ LET i == requests[q].id
     IN Serve(q, Loaded("accept", "createUser", i, invitations[i].status))
  /\ UNCHANGED <<invitations, accounts, mails, cron, crashes>>

(* Fault: the invitation is marked accepted although the insert failed. *)
FaultyAcceptCreateUser(q) ==
  LET r == requests[q]
  IN /\ r.at = "createUser"
     /\ Serve(q, [r EXCEPT !.at = "apply", !.status = "accepted"])
     /\ \/ UNCHANGED accounts
        \/ /\ ~ EmailTaken(r.email)
           /\ accounts' = accounts \cup
                {[email |-> r.email, role |-> r.role, invitation |-> r.id]}
     /\ UNCHANGED <<invitations, mails, cron, crashes>>

(* createUser inserts the user, or fails on a unique index: the address, or the *)
(* username, which another request may have taken.  Only then is the transition *)
(* tried, on the copy in memory.                                                *)
AcceptCreateUser(q) ==
  LET r == requests[q]
      accepted == [r EXCEPT !.at = "apply", !.status = InvitationGraph["acceptance"].to]
  IN /\ r.at = "createUser"
     /\ \/ Finish(q) /\ UNCHANGED accounts
        \/ /\ ~ EmailTaken(r.email)
           /\ accounts' = accounts \cup
                {[email |-> r.email, role |-> r.role, invitation |-> r.id]}
           /\ Serve(q, IF CanApply(InvitationGraph, "acceptance", r.status)
                         THEN accepted ELSE Idle)
     /\ UNCHANGED <<invitations, mails, cron, crashes>>

(* Fault: the entity is saved before the transition is applied to it. *)
FaultyApplySave(q) ==
  /\ requests[q].at = "apply"
  /\ SaveInvitation(requests[q].id, "pending")
  /\ Resume(q, "save")
  /\ UNCHANGED <<accounts, mails, cron, crashes>>

(* StateService.apply saves the entity, saveInvitation saves it once more. *)
ApplySave(q) ==
  /\ requests[q].at = "apply"
  /\ SaveInvitation(requests[q].id, requests[q].status)
  /\ Resume(q, "save")
  /\ UNCHANGED <<accounts, mails, cron, crashes>>

SaveAgain(q) ==
  /\ requests[q].at = "save"
  /\ SaveInvitation(requests[q].id, requests[q].status)
  /\ IF requests[q].op = "resend" THEN Resume(q, "insert") ELSE Finish(q)
  /\ UNCHANGED <<accounts, mails, cron, crashes>>

(* Fault: the mail is queued with the token the entity had before it was saved. *)
FaultyInsert(q) ==
  LET r == requests[q]
      new == [email |-> r.email, role |-> r.role, status |-> "pending", due |-> FALSE]
  IN /\ r.at = "insert"
     /\ invitations' = Append(invitations, new)
     /\ Serve(q, [r EXCEPT !.at = "enqueue", !.status = "pending"])
     /\ UNCHANGED <<accounts, mails, cron, crashes>>

(* createInvitation: the row is inserted, then the mail is queued, unawaited. *)
Insert(q) ==
  LET r == requests[q]
      new == [email |-> r.email, role |-> r.role, status |-> "pending", due |-> FALSE]
  IN /\ r.at = "insert"
     /\ invitations' = Append(invitations, new)
     /\ Serve(q, [r EXCEPT !.at = "enqueue", !.status = "pending",
                           !.id = Len(invitations) + 1])
     /\ UNCHANGED <<accounts, mails, cron, crashes>>

Enqueue(q) ==
  LET r == requests[q]
  IN /\ r.at = "enqueue"
     /\ mails' = mails \cup {[to |-> r.email, role |-> r.role, token |-> r.id]}
     /\ Finish(q)
     /\ UNCHANGED <<invitations, accounts, cron, crashes>>

-----------------------------------------------------------------------------
(* Fault: one row that cannot expire keeps the job from saving the others. *)
FaultyCronStart ==
  LET found == {i \in Ids : invitations[i].due}
      expiring == {i \in found : \A j \in found : invitations[j].status = "pending"}
  IN /\ cron = <<>>
     /\ Busy < MaxBusy
     /\ cron' = [i \in expiring |-> "apply"]
     /\ UNCHANGED <<invitations, accounts, mails, requests, crashes>>

(* The midnight job, expireInvitations.  It loads every row that is due, of any *)
(* status.  The transition of those that are not pending rejects, which fails   *)
(* the Promise.all but stops none of the others.                                *)
CronStart ==
  LET found == {i \in Ids : invitations[i].due}
      expiring == {i \in found : CanApply(InvitationGraph, "expiration", invitations[i].status)}
  IN /\ cron = <<>>
     /\ Busy < MaxBusy
     /\ cron' = [i \in expiring |-> "apply"]
     /\ UNCHANGED <<invitations, accounts, mails, requests, crashes>>

CronSave(i) ==
  /\ i \in DOMAIN cron
  /\ SaveInvitation(i, InvitationGraph["expiration"].to)
  /\ cron' = IF cron[i] = "apply" THEN [cron EXCEPT ![i] = "save"]
                                   ELSE [j \in DOMAIN cron \ {i} |-> cron[j]]
  /\ UNCHANGED <<accounts, mails, requests, crashes>>

-----------------------------------------------------------------------------
(* The surroundings *)

(* Three days pass after createInvitation. *)
Due(i) ==
  /\ i \in Ids
  /\ ~ invitations[i].due
  /\ invitations' = [invitations EXCEPT ![i].due = TRUE]
  /\ UNCHANGED <<accounts, mails, requests, cron, crashes>>

(* UsersController.register, and the sweep of users who never verified. *)
Register(email) ==
  /\ ~ EmailTaken(email)
  /\ accounts' = accounts \cup {[email |-> email, role |-> "player", invitation |-> 0]}
  /\ UNCHANGED <<invitations, mails, requests, cron, crashes>>

SweepUnverified(account) ==
  /\ account.invitation = 0
  /\ accounts' = accounts \ {account}
  /\ UNCHANGED <<invitations, mails, requests, cron, crashes>>

(* UsersService.updateUser: any user may move to an address nobody has. *)
ChangeEmail(account, email) ==
  /\ ~ EmailTaken(email)
  /\ accounts' = (accounts \ {account}) \cup {[account EXCEPT !.email = email]}
  /\ UNCHANGED <<invitations, mails, requests, cron, crashes>>

(* The process dies: the database and the queue stay, what it was doing is lost. *)
Crash ==
  /\ crashes < MaxCrashes
  /\ crashes' = crashes + 1
  /\ requests' = [q \in Slots |-> Idle]
  /\ cron' = <<>>
  /\ UNCHANGED <<invitations, accounts, mails>>

-----------------------------------------------------------------------------
Init ==
  /\ invitations = <<>>
  /\ accounts = {}
  /\ mails = {}
  /\ requests = [q \in Slots |-> Idle]
  /\ cron = <<>>
  /\ crashes = 0

Begin(q) == InviteValidate(q) \/ ResendBind(q) \/ CancelBind(q) \/ AcceptValidate(q)

Continue(q) == \/ AcceptFind(q) \/ AcceptCreateUser(q) \/ ApplySave(q) \/ SaveAgain(q)
               \/ Insert(q) \/ Enqueue(q)

Surroundings ==
  \/ \E i \in Ids : Due(i)
  \/ \E email \in Emails : Register(email)
  \/ \E account \in accounts : SweepUnverified(account)
  \/ \E account \in accounts, email \in Emails : ChangeEmail(account, email)
  \/ Crash

Next ==
  \/ \E q \in Slots : Begin(q) \/ Continue(q)
  \/ CronStart
  \/ \E i \in DOMAIN cron : CronSave(i)
  \/ Surroundings

Spec == Init /\ [][Next]_vars

(* A handler that was started is resumed, time passes, the job runs every       *)
(* midnight, and what it started is resumed.  Nobody is obliged to send requests. *)
Fairness ==
  /\ \A q \in Slots : WF_vars(Continue(q))
  /\ WF_vars(CronStart)
  /\ \A i \in 1..MaxInvitations : WF_vars(Due(i)) /\ WF_vars(CronSave(i))

FairSpec == Spec /\ Fairness

-----------------------------------------------------------------------------
(* Properties *)

(* Every variable holds what the code can put there; a slot's id, when it has   *)
(* one, and the rows the job still has to save are rows of the table.           *)
TypeOK ==
  /\ invitations \in Seq(Row)
  /\ accounts \in SUBSET Account
  /\ mails \in SUBSET Mail
  /\ requests \in [Slots -> Request \cup {Idle}]
  /\ \A q \in Slots : requests[q].at \in {"apply", "save", "find", "createUser"}
                      => requests[q].id \in Ids
  /\ DOMAIN cron \subseteq Ids
  /\ \A i \in DOMAIN cron : cron[i] \in {"apply", "save"}
  /\ crashes \in 0..MaxCrashes

(* An invitation is marked accepted only after the account it promised exists:  *)
(* acceptInvitation creates the user before it applies the transition, so no    *)
(* crash, race or failed insert leaves somebody with a used-up token and no     *)
(* account.                                                                     *)
AcceptedHasAccount ==
  \A i \in Ids : invitations[i].status = "accepted"
                   => \E a \in accounts : a.invitation = i

(* Unless the process was restarted, every invitation was mailed, with its own  *)
(* address and role, or the request that created it is about to: the mail is    *)
(* queued after the row it points at, and for each row.                         *)
InvitationsAreMailed ==
  LET MailOf(i) == [to |-> invitations[i].email, role |-> invitations[i].role, token |-> i]
  IN /\ mails \subseteq {MailOf(i) : i \in Ids}
     /\ \A i \in Ids : \/ MailOf(i) \in mails
                       \/ \E q \in Slots : (requests[q].at = "enqueue" /\ requests[q].id = i)
                       \/ crashes > 0

(* An address whose last invitation was used or ran out, with no other pending  *)
(* and nothing in flight for it, is final: POST /invitations refuses it as      *)
(* already invited and resend and cancel refuse to leave a final status.        *)
Working(email) ==
  \/ \E q \in Slots : requests[q] # Idle /\ requests[q].email = email
  \/ \E i \in DOMAIN cron : invitations[i].email = email
Settled(email) ==
  /\ \E i \in Ids : IsLatest(i, email) /\ invitations[i].status \in {"accepted", "expired"}
  /\ \A i \in InvitationsOf(email) : invitations[i].status # "pending"
  /\ ~ Working(email)
SettledIsFinal == [][\A email \in Emails : Settled(email) => Settled(email)']_vars

(* However its steps interleave, the module keeps the promises of               *)
(* InvitationLedger: no stale save reopens an answered invitation, and late     *)
(* answers only replace each other.                                             *)
Answer(status) == CASE status = "pending" -> "open"
                    [] status = "accepted" -> "accepted"
                    [] OTHER -> "withdrawn"
Ledger == INSTANCE InvitationLedger
            WITH book <- [i \in Ids |-> Answer(invitations[i].status)],
                 members <- {a.invitation : a \in accounts} \ {0}
KeepsLedger == Ledger!LedgerSpec

(* No invitation stays open for ever: it is answered, or the midnight job gets  *)
(* to it, although other rows fail the job on every run.                        *)
PendingEndsEventually ==
  \A i \in 1..MaxInvitations :
    (i \in Ids /\ invitations[i].status = "pending")
      ~> (i \in Ids /\ invitations[i].status # "pending")

(* What holds when requests and job runs do not overlap (MaxBusy = 1). *)

(* At most one invitation of an address can be accepted at any time: invite     *)
(* refuses a second one, resend closes the old one first.                       *)
AtMostOnePending ==
  \A i, j \in Ids : /\ invitations[i].email = invitations[j].email
                    /\ invitations[i].status = "pending"
                    /\ invitations[j].status = "pending"
                  => i = j

(* The stored status moves only along the edges of the state graph: a status    *)
(* that has none leading out is final.                                          *)
StatusFollowsGraph ==
  [][\A i \in Ids : LET old == invitations[i].status
                         new == invitations'[i].status
                     IN old = new \/ <<old, new>> \in Edges(InvitationGraph)]_vars

(* Without a restart, whoever got an account by an invitation has used it up,   *)
(* and nobody else gets another by it, even when the first moved to another     *)
(* address.                                                                     *)
AccountUsesInvitation ==
  crashes = 0 =>
    \A a \in accounts :
      a.invitation # 0 =>
        /\ \A b \in accounts : b.invitation = a.invitation => b = a
        /\ \/ invitations[a.invitation].status = "accepted"
           \/ \E q \in Slots : /\ requests[q].at = "apply"
                               /\ requests[q].op = "accept"
                               /\ requests[q].id = a.invitation

(* Its time is up, nobody made an account by it, and no request that was let in *)
(* before is still served.                                                      *)
AccountOf(i) == \E a \in accounts : a.invitation = i
Lapsed(i) ==
  i \in Ids /\ invitations[i].due /\ ~ Working(invitations[i].email) /\ ~ AccountOf(i)

(* The invitation mail promises that it ends after three days (invitation.hbs): *)
(* once the time of an invitation is up, and no request that was let in before  *)
(* is still served, no account comes of it any more.                            *)
NoAccountWhenDue == \A i \in 1..MaxInvitations : [](Lapsed(i) => []~ AccountOf(i))
=============================================================================
