-------------------------- MODULE InvitationsProofs --------------------------
(***************************************************************************)
(* Proofs about Invitations, for any sets of slots and addresses and any   *)
(* bounds.                                                                 *)
(***************************************************************************)
EXTENDS Invitations, TLAPS, SequenceTheorems

-----------------------------------------------------------------------------
(* Rows *)

(* save() of a row's entity leaves a table of rows, with the same ids, and      *)
(* changes no other row.                                                        *)
LEMMA SaveChangesOneRow ==
  ASSUME invitations \in Seq(Row), NEW i \in Ids, NEW s \in InvitationStatus,
         SaveInvitation(i, s)
  PROVE  /\ invitations' \in Seq(Row)
         /\ Ids' = Ids
         /\ invitations'[i] = [invitations[i] EXCEPT !.status = s, !.due = TRUE]
         /\ \A j \in Ids : j # i => invitations'[j] = invitations[j]
<1>1. invitations[i] \in Row
  BY ElementOfSeq DEF Ids
<1>. DEFINE new == [invitations[i] EXCEPT !.status = s, !.due = TRUE]
<1>2. new \in Row
  BY <1>1 DEF Row
<1>3. invitations' = [invitations EXCEPT ![i] = new]
  BY DEF SaveInvitation
<1>. HIDE DEF new
<1>4. /\ invitations' \in Seq(Row)
      /\ DOMAIN invitations' = DOMAIN invitations
  BY <1>2, <1>3, ExceptSeq DEF Ids
<1>5. invitations'[i] = new /\ \A j \in Ids : j # i => invitations'[j] = invitations[j]
  BY <1>3 DEF Ids
<1>. QED
  BY <1>4, <1>5 DEF Ids, new

(* An inserted row comes last and the others keep their places. *)
LEMMA InsertAppendsRow ==
  ASSUME invitations \in Seq(Row), NEW row \in Row,
         invitations' = Append(invitations, row)
  PROVE  /\ invitations' \in Seq(Row)
         /\ Ids' = Ids \cup {Len(invitations) + 1}
         /\ Len(invitations) + 1 \notin Ids
         /\ invitations'[Len(invitations) + 1] = row
         /\ \A j \in Ids : invitations'[j] = invitations[j]
  BY AppendProperties, LenProperties DEF Ids

(* The ids of the table's rows are positive numbers, and each names a row. *)
LEMMA RowsOfIds ==
  ASSUME invitations \in Seq(Row), NEW i \in Ids
  PROVE  i \in Nat \ {0} /\ invitations[i] \in Row
  BY LenProperties, ElementOfSeq DEF Ids

-----------------------------------------------------------------------------
(* The inductive invariant *)

(* What a slot is about to save: an answer, never "pending", and "accepted" only *)
(* once the account exists.                                                      *)
SavesAnswers ==
  \A q \in Slots :
    requests[q].at \in {"apply", "save"} =>
      /\ requests[q].status # "pending"
      /\ requests[q].status = "accepted" =>
           \E a \in accounts : a.invitation = requests[q].id

IInv == TypeOK /\ AcceptedHasAccount /\ SavesAnswers

LEMMA Graph ==
  /\ \A t \in {"acceptance", "expiration", "cancellation"} :
       InvitationGraph[t].to \in InvitationStatus \ {"pending"}
  /\ InvitationGraph["expiration"].to = "expired"
  /\ InvitationGraph["cancellation"].to = "cancelled"
  /\ InvitationGraph["acceptance"].to = "accepted"
  BY DEF InvitationGraph, InvitationStatus

(* The entity a request loads of a row is a request of the model's type. *)
LEMMA LoadedType ==
  ASSUME invitations \in Seq(Row), NEW i \in Ids, NEW op \in Ops, NEW at \in Steps,
         NEW s \in InvitationStatus
  PROVE  /\ Loaded(op, at, i, s) \in Request
         /\ Loaded(op, at, i, s).at = at
         /\ Loaded(op, at, i, s).id = i
         /\ Loaded(op, at, i, s).status = s
  BY RowsOfIds DEF Loaded, Request, Row

(* Serving one request changes one slot. *)
LEMMA ServeOne ==
  ASSUME requests \in [Slots -> Request \cup {Idle}], NEW q \in Slots,
         NEW r \in Request \cup {Idle}, Serve(q, r)
  PROVE  /\ requests' \in [Slots -> Request \cup {Idle}]
         /\ requests'[q] = r
         /\ \A p \in Slots : p # q => requests'[p] = requests[p]
  BY DEF Serve

LEMMA BusySlot ==
  ASSUME requests \in [Slots -> Request \cup {Idle}], NEW q \in Slots,
         requests[q].at \in Steps
  PROVE  requests[q] \in Request
  BY DEF Idle, Steps

(* A step that leaves the tables alone and puts into one slot something that    *)
(* fits them preserves the invariant.                                           *)
LEMMA ServePreserves ==
  ASSUME IInv, NEW q \in Slots, NEW r \in Request \cup {Idle}, Serve(q, r),
         UNCHANGED <<invitations, accounts, cron, crashes>>,
         mails' \in SUBSET Mail,
         r.at \in {"apply", "save", "find", "createUser"} => r.id \in Ids,
         r.at \in {"apply", "save"} =>
           /\ r.status # "pending"
           /\ r.status = "accepted" => \E a \in accounts : a.invitation = r.id
  PROVE  IInv'
<1>1. /\ requests' \in [Slots -> Request \cup {Idle}]
      /\ requests'[q] = r
      /\ \A p \in Slots : p # q => requests'[p] = requests[p]
  BY ServeOne DEF IInv, TypeOK
<1>2. TypeOK'
  BY <1>1 DEF IInv, TypeOK, Ids
<1>3. AcceptedHasAccount'
  BY DEF IInv, AcceptedHasAccount, Ids
<1>4. SavesAnswers'
  BY <1>1 DEF IInv, SavesAnswers
<1>. QED
  BY <1>2, <1>3, <1>4 DEF IInv

(* Saving an answer of a row, accepted only when its account exists, keeps the  *)
(* table part of the invariant.                                                 *)
LEMMA SavePreserves ==
  ASSUME IInv, NEW i \in Ids, NEW s \in InvitationStatus, SaveInvitation(i, s),
         UNCHANGED accounts,
         s = "accepted" => \E a \in accounts : a.invitation = i
  PROVE  invitations' \in Seq(Row) /\ Ids' = Ids /\ AcceptedHasAccount'
<1>1. /\ invitations' \in Seq(Row)
      /\ Ids' = Ids
      /\ invitations'[i] = [invitations[i] EXCEPT !.status = s, !.due = TRUE]
      /\ \A j \in Ids : j # i => invitations'[j] = invitations[j]
  BY SaveChangesOneRow DEF IInv, TypeOK
<1>2. invitations[i] \in Row
  BY RowsOfIds DEF IInv, TypeOK
<1>3. invitations'[i].status = s
  BY <1>1, <1>2 DEF Row
<1>4. AcceptedHasAccount'
  BY <1>1, <1>3 DEF IInv, AcceptedHasAccount
<1>. QED
  BY <1>1, <1>4
LEMMA InitIInv == Init => IInv
  BY RolesAssumption, BoundsAssumption
  DEF Init, IInv, TypeOK, AcceptedHasAccount, SavesAnswers, Ids, Idle

(* Requests that begin put an entity into their slot and touch nothing else. *)
LEMMA BeginPreserves ==
  ASSUME IInv, NEW q \in Slots, Begin(q)
  PROVE  IInv'
<1>. USE DEF IInv, TypeOK
<1>1. CASE InviteValidate(q)
  <2>1. PICK email \in Emails, role \in InvitedRoles :
          Serve(q, [op |-> "invite", at |-> "insert", id |-> 0, email |-> email,
                    role |-> role, status |-> "pending"])
    BY <1>1 DEF InviteValidate
  <2>2. [op |-> "invite", at |-> "insert", id |-> 0, email |-> email,
         role |-> role, status |-> "pending"] \in Request
    BY RolesAssumption DEF Request, Ops, Steps, InvitationStatus
  <2>. QED
    BY <1>1, <2>1, <2>2, ServePreserves DEF InviteValidate
<1>2. CASE ResendBind(q)
  <2>1. PICK i \in Ids : Serve(q, Loaded("resend", "apply", i, "expired"))
    BY <1>2, Graph DEF ResendBind
  <2>2. /\ Loaded("resend", "apply", i, "expired") \in Request
        /\ Loaded("resend", "apply", i, "expired").at = "apply"
        /\ Loaded("resend", "apply", i, "expired").id = i
        /\ Loaded("resend", "apply", i, "expired").status = "expired"
    BY LoadedType DEF Ops, Steps, InvitationStatus
  <2>. QED
    BY <1>2, <2>1, <2>2, ServePreserves DEF ResendBind
<1>3. CASE CancelBind(q)
  <2>1. PICK i \in Ids : Serve(q, Loaded("cancel", "apply", i, "cancelled"))
    BY <1>3, Graph DEF CancelBind
  <2>2. /\ Loaded("cancel", "apply", i, "cancelled") \in Request
        /\ Loaded("cancel", "apply", i, "cancelled").at = "apply"
        /\ Loaded("cancel", "apply", i, "cancelled").id = i
        /\ Loaded("cancel", "apply", i, "cancelled").status = "cancelled"
    BY LoadedType DEF Ops, Steps, InvitationStatus
  <2>. QED
    BY <1>3, <2>1, <2>2, ServePreserves DEF CancelBind
<1>4. CASE AcceptValidate(q)
  <2>1. PICK i \in Ids : Serve(q, Loaded("accept", "find", i, invitations[i].status))
    BY <1>4 DEF AcceptValidate
  <2>2. invitations[i].status \in InvitationStatus
    BY RowsOfIds DEF Row
  <2>3. /\ Loaded("accept", "find", i, invitations[i].status) \in Request
        /\ Loaded("accept", "find", i, invitations[i].status).at = "find"
        /\ Loaded("accept", "find", i, invitations[i].status).id = i
    BY <2>2, LoadedType DEF Ops, Steps
  <2>. QED
    BY <1>4, <2>1, <2>3, ServePreserves DEF AcceptValidate
<1>. QED
  BY <1>1, <1>2, <1>3, <1>4 DEF Begin

(* Creating the account keeps the invariant: accounts only grow, and the slot   *)
(* goes on to save "accepted" for an invitation that now has its account.       *)
LEMMA CreateUserPreserves ==
  ASSUME IInv, NEW q \in Slots, AcceptCreateUser(q)
  PROVE  IInv'
<1>. USE DEF IInv, TypeOK
<1>. DEFINE r == requests[q]
            new == [email |-> r.email, role |-> r.role, invitation |-> r.id]
            accepted == [r EXCEPT !.at = "apply", !.status = "accepted"]
<1>1. r.at = "createUser" /\ r \in Request /\ r.id \in Ids
  BY BusySlot DEF AcceptCreateUser, Steps
<1>2. CASE Finish(q) /\ UNCHANGED accounts
  <2>1. Idle \in Request \cup {Idle} /\ Idle.at = "idle"
    BY DEF Idle
  <2>. QED
    BY <1>2, <2>1, ServePreserves DEF AcceptCreateUser, Finish
<1>3. CASE /\ accounts' = accounts \cup {new}
           /\ Serve(q, IF CanApply(InvitationGraph, "acceptance", r.status)
                         THEN accepted ELSE Idle)
  <2>. DEFINE next == IF CanApply(InvitationGraph, "acceptance", r.status)
                        THEN accepted ELSE Idle
  <2>1. /\ accepted \in Request
        /\ accepted.at = "apply" /\ accepted.status = "accepted" /\ accepted.id = r.id
    BY <1>1 DEF Request, Steps, InvitationStatus
  <2>2. new \in Account /\ new.invitation = r.id
    BY <1>1 DEF Request, Account
  <2>3. /\ requests' \in [Slots -> Request \cup {Idle}]
        /\ requests'[q] = next
        /\ \A p \in Slots : p # q => requests'[p] = requests[p]
    <3>1. next \in Request \cup {Idle}
      BY <2>1
    <3>. QED
      BY <1>3, <3>1, ServeOne
  <2>4. /\ UNCHANGED <<invitations, mails, cron, crashes>>
        /\ Ids' = Ids
    BY DEF AcceptCreateUser, Ids
  <2>5. next = accepted \/ next.at = "idle"
    BY DEF Idle
  <2>. HIDE DEF r, new, accepted, next
  <2>6. TypeOK'
    <3>1. accounts' \in SUBSET Account
      BY <1>3, <2>2
    <3>2. \A p \in Slots : requests'[p].at \in {"apply", "save", "find", "createUser"}
                             => requests'[p].id \in Ids
      BY <1>1, <2>1, <2>3, <2>5
    <3>. QED
      BY <2>3, <2>4, <3>1, <3>2
  <2>7. AcceptedHasAccount'
    BY <1>3, <2>4 DEF AcceptedHasAccount
  <2>8. SavesAnswers'
    BY <1>3, <2>1, <2>2, <2>3, <2>5 DEF SavesAnswers
  <2>. QED
    BY <2>6, <2>7, <2>8
<1>. QED
  BY <1>2, <1>3, Graph DEF AcceptCreateUser

(* The two saves write what the slot holds, which SavesAnswers vouches for. *)
LEMMA SavesPreserve ==
  ASSUME IInv, NEW q \in Slots, ApplySave(q) \/ SaveAgain(q)
  PROVE  IInv'
<1>. USE DEF IInv, TypeOK
<1>. DEFINE r == requests[q]
<1>1. /\ r.at \in {"apply", "save"} /\ r \in Request /\ r.id \in Ids
      /\ r.status \in InvitationStatus
      /\ r.status # "pending"
      /\ r.status = "accepted" => \E a \in accounts : a.invitation = r.id
  BY BusySlot DEF ApplySave, SaveAgain, Steps, SavesAnswers, Request
<1>2. /\ invitations' \in Seq(Row) /\ Ids' = Ids
      /\ AcceptedHasAccount'
      /\ UNCHANGED <<accounts, mails, cron, crashes>>
  BY <1>1, SavePreserves DEF ApplySave, SaveAgain
<1>3. PICK n \in Request \cup {Idle} :
        Serve(q, n) /\ (n = Idle \/ (n.at = "insert")
                        \/ (n.at = "save" /\ n.id = r.id /\ n.status = r.status))
  <2>1. CASE ApplySave(q)
    <3>1. /\ [r EXCEPT !.at = "save"] \in Request
          /\ [r EXCEPT !.at = "save"].at = "save"
          /\ [r EXCEPT !.at = "save"].id = r.id
          /\ [r EXCEPT !.at = "save"].status = r.status
      BY <1>1 DEF Request, Steps
    <3>2. Serve(q, [r EXCEPT !.at = "save"])
      BY <2>1 DEF ApplySave, Resume, Serve
    <3>. QED
      BY <3>1, <3>2
  <2>2. CASE SaveAgain(q)
    <3>1. [r EXCEPT !.at = "insert"] \in Request /\ [r EXCEPT !.at = "insert"].at = "insert"
      BY <1>1 DEF Request, Steps
    <3>2. Serve(q, [r EXCEPT !.at = "insert"]) \/ Serve(q, Idle)
      BY <2>2 DEF SaveAgain, Resume, Serve, Finish
    <3>. QED
      BY <3>1, <3>2
  <2>. QED
    BY <2>1, <2>2
<1>4. /\ requests' \in [Slots -> Request \cup {Idle}]
      /\ requests'[q] = n
      /\ \A p \in Slots : p # q => requests'[p] = requests[p]
  BY <1>3, ServeOne
<1>5. Idle.at = "idle"
  BY DEF Idle
<1>. HIDE DEF r
<1>6. TypeOK'
  BY <1>1, <1>2, <1>3, <1>4, <1>5
<1>7. SavesAnswers'
  BY <1>1, <1>2, <1>3, <1>4, <1>5 DEF SavesAnswers
<1>. QED
  BY <1>2, <1>6, <1>7

LEMMA InsertPreserves ==
  ASSUME IInv, NEW q \in Slots, Insert(q)
  PROVE  IInv'
<1>. USE DEF IInv, TypeOK
<1>. DEFINE r == requests[q]
            new == [email |-> r.email, role |-> r.role, status |-> "pending", due |-> FALSE]
            next == [r EXCEPT !.at = "enqueue", !.status = "pending",
                              !.id = Len(invitations) + 1]
<1>1. r.at = "insert" /\ r \in Request
  BY BusySlot DEF Insert, Steps
<1>2. new \in Row /\ new.status = "pending"
  BY <1>1 DEF Request, Row, InvitationStatus
<1>3. next \in Request /\ next.at = "enqueue"
  <2>1. Len(invitations) + 1 \in Nat
    BY LenProperties
  <2>. QED
    BY <1>1, <2>1 DEF Request, Steps, InvitationStatus
<1>4. /\ invitations' = Append(invitations, new)
      /\ Serve(q, next)
      /\ UNCHANGED <<accounts, mails, cron, crashes>>
  BY DEF Insert
<1>. HIDE DEF new, next
<1>5. /\ invitations' \in Seq(Row)
      /\ Ids' = Ids \cup {Len(invitations) + 1}
      /\ invitations'[Len(invitations) + 1] = new
      /\ \A j \in Ids : invitations'[j] = invitations[j]
  BY <1>2, <1>4, InsertAppendsRow
<1>6. /\ requests' \in [Slots -> Request \cup {Idle}]
      /\ requests'[q] = next
      /\ \A p \in Slots : p # q => requests'[p] = requests[p]
  BY <1>3, <1>4, ServeOne
<1>7. TypeOK'
  BY <1>3, <1>4, <1>5, <1>6
<1>8. AcceptedHasAccount'
  BY <1>2, <1>4, <1>5 DEF AcceptedHasAccount
<1>9. SavesAnswers'
  BY <1>3, <1>4, <1>6 DEF SavesAnswers
<1>. QED
  BY <1>7, <1>8, <1>9

LEMMA ContinuePreserves ==
  ASSUME IInv, NEW q \in Slots, Continue(q)
  PROVE  IInv'
<1>. USE DEF IInv, TypeOK
<1>1. CASE AcceptFind(q)
  <2>. DEFINE i == requests[q].id
  <2>1. i \in Ids /\ Serve(q, Loaded("accept", "createUser", i, invitations[i].status))
    BY <1>1 DEF AcceptFind
  <2>2. invitations[i].status \in InvitationStatus
    BY <2>1, RowsOfIds DEF Row
  <2>3. /\ Loaded("accept", "createUser", i, invitations[i].status) \in Request
        /\ Loaded("accept", "createUser", i, invitations[i].status).at = "createUser"
        /\ Loaded("accept", "createUser", i, invitations[i].status).id = i
    BY <2>1, <2>2, LoadedType DEF Ops, Steps
  <2>. QED
    BY <1>1, <2>1, <2>3, ServePreserves DEF AcceptFind
<1>2. CASE AcceptCreateUser(q)
  BY <1>2, CreateUserPreserves
<1>3. CASE ApplySave(q) \/ SaveAgain(q)
  BY <1>3, SavesPreserve
<1>4. CASE Insert(q)
  BY <1>4, InsertPreserves
<1>5. CASE Enqueue(q)
  <2>1. requests[q] \in Request
    BY <1>5, BusySlot DEF Enqueue, Steps
  <2>2. mails' \in SUBSET Mail
    BY <1>5, <2>1 DEF Enqueue, Request, Mail
  <2>3. Idle \in Request \cup {Idle} /\ Idle.at = "idle"
    BY DEF Idle
  <2>. QED
    BY <1>5, <2>2, <2>3, ServePreserves DEF Enqueue, Finish
<1>. QED
  BY <1>1, <1>2, <1>3, <1>4, <1>5 DEF Continue

LEMMA CronPreserves ==
  ASSUME IInv, CronStart \/ (\E i \in DOMAIN cron : CronSave(i))
  PROVE  IInv'
<1>. USE DEF IInv, TypeOK
<1>1. CASE CronStart
  <2>1. DOMAIN cron' \subseteq Ids /\ \A i \in DOMAIN cron' : cron'[i] = "apply"
    BY <1>1 DEF CronStart
  <2>. QED
    BY <1>1, <2>1 DEF CronStart, AcceptedHasAccount, SavesAnswers, Ids
<1>2. ASSUME NEW i \in DOMAIN cron, CronSave(i)
      PROVE  IInv'
  <2>1. i \in Ids /\ SaveInvitation(i, "expired")
    BY <1>2, Graph DEF CronSave
  <2>2. invitations' \in Seq(Row) /\ Ids' = Ids /\ AcceptedHasAccount'
    BY <1>2, <2>1, SavePreserves DEF CronSave, InvitationStatus
  <2>3. DOMAIN cron' \subseteq Ids /\ \A j \in DOMAIN cron' : cron'[j] \in {"apply", "save"}
    BY <1>2 DEF CronSave
  <2>4. UNCHANGED <<accounts, mails, requests, crashes>>
    BY <1>2 DEF CronSave
  <2>. QED
    BY <2>2, <2>3, <2>4 DEF SavesAnswers
<1>. QED
  BY <1>1, <1>2

(* What happens around the handlers: accounts made by an invitation stay, a     *)
(* restart forgets what was in flight.                                          *)
LEMMA SurroundingsPreserve ==
  ASSUME IInv, Surroundings
  PROVE  IInv'
<1>. USE DEF IInv, TypeOK
<1>1. ASSUME NEW i \in Ids, Due(i)
      PROVE  IInv'
  <2>1. invitations[i] \in Row
    BY RowsOfIds
  <2>. DEFINE new == [invitations[i] EXCEPT !.due = TRUE]
  <2>2. new \in Row /\ new.status = invitations[i].status
    BY <2>1 DEF Row
  <2>3. invitations' = [invitations EXCEPT ![i] = new]
    BY <1>1 DEF Due
  <2>. HIDE DEF new
  <2>4. invitations' \in Seq(Row) /\ Ids' = Ids
    BY <2>2, <2>3, ExceptSeq DEF Ids
  <2>5. \A j \in Ids : invitations'[j].status = invitations[j].status
    BY <2>2, <2>3 DEF Ids
  <2>6. UNCHANGED <<accounts, mails, requests, cron, crashes>>
    BY <1>1 DEF Due
  <2>. QED
    BY <2>4, <2>5, <2>6 DEF AcceptedHasAccount, SavesAnswers
<1>2. ASSUME NEW email \in Emails, Register(email)
      PROVE  IInv'
  <2>1. accounts' \in SUBSET Account /\ accounts \subseteq accounts'
    BY <1>2 DEF Register, Account, RoleId
  <2>. QED
    BY <1>2, <2>1 DEF Register, AcceptedHasAccount, SavesAnswers, Ids
<1>3. ASSUME NEW account \in accounts, SweepUnverified(account)
      PROVE  IInv'
  <2>1. \A a \in accounts : a.invitation # 0 => a \in accounts'
    BY <1>3 DEF SweepUnverified
  <2>2. \A i \in Ids : i # 0
    BY RowsOfIds
  <2>3. accounts' \in SUBSET Account
    BY <1>3 DEF SweepUnverified
  <2>4. UNCHANGED <<invitations, mails, requests, cron, crashes>> /\ Ids' = Ids
    BY <1>3 DEF SweepUnverified, Ids
  <2>5. AcceptedHasAccount'
    BY <2>1, <2>2, <2>4 DEF AcceptedHasAccount
  <2>6. SavesAnswers'
    BY <2>1, <2>2, <2>4 DEF SavesAnswers
  <2>. QED
    BY <2>3, <2>4, <2>5, <2>6
<1>4. ASSUME NEW account \in accounts, NEW email \in Emails, ChangeEmail(account, email)
      PROVE  IInv'
  <2>. DEFINE moved == [account EXCEPT !.email = email]
  <2>1. moved \in Account /\ moved.invitation = account.invitation
    BY DEF Account
  <2>. HIDE DEF moved
  <2>2. accounts' = (accounts \ {account}) \cup {moved}
    BY <1>4 DEF ChangeEmail, moved
  <2>3. accounts' \in SUBSET Account
    BY <2>1, <2>2
  <2>4. \A a \in accounts : \E b \in accounts' : b.invitation = a.invitation
    BY <2>1, <2>2
  <2>5. UNCHANGED <<invitations, mails, requests, cron, crashes>> /\ Ids' = Ids
    BY <1>4 DEF ChangeEmail, Ids
  <2>6. AcceptedHasAccount'
    BY <2>4, <2>5 DEF AcceptedHasAccount
  <2>7. SavesAnswers'
    BY <2>4, <2>5 DEF SavesAnswers
  <2>. QED
    BY <2>3, <2>5, <2>6, <2>7
<1>5. CASE Crash
  <2>1. crashes' \in 0..MaxCrashes
    BY <1>5, BoundsAssumption DEF Crash
  <2>. QED
    BY <1>5, <2>1 DEF Crash, AcceptedHasAccount, SavesAnswers, Ids, Idle
<1>. QED
  BY <1>1, <1>2, <1>3, <1>4, <1>5 DEF Surroundings

LEMMA NextPreserves ==
  ASSUME IInv, [Next]_vars
  PROVE  IInv'
<1>1. CASE UNCHANGED vars
  BY <1>1 DEF vars, IInv, TypeOK, AcceptedHasAccount, SavesAnswers, Ids
<1>2. CASE Next
  BY <1>2, BeginPreserves, ContinuePreserves, CronPreserves, SurroundingsPreserve DEF Next
<1>. QED
  BY <1>1, <1>2

(* IInv holds of every reachable state, for any slots, addresses and bounds. *)
THEOREM Inductive == Spec => []IInv
  BY InitIInv, NextPreserves, PTL DEF Spec

(* Every variable keeps its type: no handler loses track of the row it works on. *)
THEOREM TypeCorrect == Spec => []TypeOK
  BY Inductive, PTL DEF IInv

(* An invitation reads accepted only if the account it promised was made,        *)
(* whatever interleaves and whenever the process is restarted.                   *)
THEOREM AcceptedCorrect == Spec => []AcceptedHasAccount
  BY Inductive, PTL DEF IInv
=============================================================================
