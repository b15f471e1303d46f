----------------------- MODULE InvitationHistoryProofs -----------------------
(***************************************************************************)
(* Proofs about Invitations: every row is mailed as what it is, and an     *)
(* address whose last invitation was used or ran out stays as it is.  Both *)
(* rest on what a request in memory knows of the row it works on.          *)
(***************************************************************************)
EXTENDS InvitationsProofs

(* The steps at which a request works on a row that exists. *)
Holding == {"apply", "save", "find", "createUser", "enqueue"}

(* What it has in memory is of that row: only the status may be stale. *)
HoldsRow(r) ==
  r.at \in Holding => /\ r.id \in Ids
                      /\ r.email = invitations[r.id].email
                      /\ r.role = invitations[r.id].role
OwnRow == \A q \in Slots : HoldsRow(requests[q])

MailFor(i) == [to |-> invitations[i].email, role |-> invitations[i].role, token |-> i]
About(i) == \/ MailFor(i) \in mails
            \/ \E q \in Slots : requests[q].at = "enqueue" /\ requests[q].id = i
            \/ crashes > 0

HInv == IInv /\ OwnRow /\ InvitationsAreMailed

LEMMA MailedMeans ==
  InvitationsAreMailed <=> /\ \A m \in mails : \E i \in Ids : m = MailFor(i)
                           /\ \A i \in Ids : About(i)
<1>1. mails \subseteq {MailFor(i) : i \in Ids} <=> \A m \in mails : \E i \in Ids : m = MailFor(i)
  OBVIOUS
<1>. QED
  BY <1>1 DEF InvitationsAreMailed, MailFor, About

-----------------------------------------------------------------------------
(* Rows keep their address and role *)

RowsStay == /\ Ids \subseteq Ids'
            /\ \A i \in Ids : /\ invitations'[i].email = invitations[i].email
                              /\ invitations'[i].role = invitations[i].role

LEMMA SaveStays ==
  ASSUME IInv, NEW i \in Ids, NEW s \in InvitationStatus, SaveInvitation(i, s)
  PROVE  RowsStay /\ Ids' = Ids /\ \A j \in Ids : j # i => invitations'[j] = invitations[j]
<1>1. /\ Ids' = Ids
      /\ invitations'[i] = [invitations[i] EXCEPT !.status = s, !.due = TRUE]
      /\ \A j \in Ids : j # i => invitations'[j] = invitations[j]
  BY SaveChangesOneRow DEF IInv, TypeOK
<1>2. invitations[i] \in Row
  BY RowsOfIds DEF IInv, TypeOK
<1>3. /\ invitations'[i].email = invitations[i].email
      /\ invitations'[i].role = invitations[i].role
  BY <1>1, <1>2 DEF Row
<1>. QED
  BY <1>1, <1>3 DEF RowsStay

LEMMA DueStays ==
  ASSUME IInv, NEW i \in Ids, Due(i)
  PROVE  /\ RowsStay /\ Ids' = Ids
         /\ \A j \in Ids : invitations'[j].status = invitations[j].status
<1>1. invitations[i] \in Row
  BY RowsOfIds DEF IInv, TypeOK
<1>. DEFINE new == [invitations[i] EXCEPT !.due = TRUE]
<1>2. /\ new.status = invitations[i].status /\ new.email = invitations[i].email
      /\ new.role = invitations[i].role
  BY <1>1 DEF Row
<1>3. invitations' = [invitations EXCEPT ![i] = new]
  BY DEF Due
<1>. HIDE DEF new
<1>4. Ids' = Ids /\ \A j \in Ids : invitations'[j] = IF j = i THEN new ELSE invitations[j]
  BY <1>3 DEF Ids
<1>. QED
  BY <1>2, <1>4 DEF RowsStay

(* What a request at a save holds. *)
LEMMA Saving ==
  ASSUME IInv, NEW q \in Slots, ApplySave(q) \/ SaveAgain(q)
  PROVE  /\ requests[q] \in Request /\ requests[q].id \in Ids
         /\ requests[q].status \in InvitationStatus
         /\ SaveInvitation(requests[q].id, requests[q].status)
<1>1. requests[q].at \in {"apply", "save"}
  BY DEF ApplySave, SaveAgain
<1>2. requests[q] \in Request
  BY <1>1, BusySlot DEF IInv, TypeOK, Steps
<1>. QED
  BY <1>1, <1>2 DEF IInv, TypeOK, ApplySave, SaveAgain, Request

(* The row and the request Insert leaves. *)
LEMMA Inserting ==
  ASSUME IInv, NEW q \in Slots, Insert(q)
  PROVE  /\ Ids' = Ids \cup {Len(invitations) + 1} /\ Len(invitations) + 1 \notin Ids
         /\ requests[q] \in Request /\ requests[q] # Idle
         /\ invitations'[Len(invitations) + 1].email = requests[q].email
         /\ invitations'[Len(invitations) + 1].role = requests[q].role
         /\ \A j \in Ids : invitations'[j] = invitations[j]
<1>1. requests[q] \in Request /\ requests[q].at = "insert"
  BY BusySlot DEF IInv, TypeOK, Insert, Steps
<1>2. PICK new : new = [email |-> requests[q].email, role |-> requests[q].role,
                        status |-> "pending", due |-> FALSE]
  OBVIOUS
<1>3. /\ new \in Row /\ new.email = requests[q].email /\ new.role = requests[q].role
      /\ invitations' = Append(invitations, new)
  BY <1>1, <1>2 DEF Insert, Request, Row, InvitationStatus
<1>4. /\ Ids' = Ids \cup {Len(invitations) + 1} /\ Len(invitations) + 1 \notin Ids
      /\ invitations'[Len(invitations) + 1] = new
      /\ \A j \in Ids : invitations'[j] = invitations[j]
  BY <1>3, InsertAppendsRow DEF IInv, TypeOK
<1>5. requests[q] # Idle
  BY <1>1 DEF Idle
<1>. QED
  BY <1>1, <1>3, <1>4, <1>5

LEMMA OthersLeaveRows ==
  ASSUME \/ CronStart \/ Crash
         \/ \E q \in Slots : \/ Begin(q) \/ AcceptFind(q) \/ AcceptCreateUser(q) \/ Enqueue(q)
         \/ \E email \in Emails : Register(email)
         \/ \E account \in accounts : SweepUnverified(account)
         \/ \E account \in accounts, email \in Emails : ChangeEmail(account, email)
  PROVE  UNCHANGED invitations
  BY DEF CronStart, Crash, Begin, InviteValidate, ResendBind, CancelBind, AcceptValidate,
         AcceptFind, AcceptCreateUser, Enqueue, Register, SweepUnverified, ChangeEmail

LEMMA RowsAlwaysStay == ASSUME IInv, [Next]_vars  PROVE  RowsStay
<1>1. CASE UNCHANGED invitations
  BY <1>1 DEF RowsStay, Ids
<1>2. ASSUME NEW q \in Slots, ApplySave(q) \/ SaveAgain(q)
      PROVE  RowsStay
  BY <1>2, Saving, SaveStays
<1>3. ASSUME NEW q \in Slots, Insert(q)
      PROVE  RowsStay
  BY <1>3, Inserting DEF RowsStay
<1>4. ASSUME NEW i \in DOMAIN cron, CronSave(i)
      PROVE  RowsStay
  BY <1>4, Graph, SaveStays DEF CronSave, IInv, TypeOK
<1>5. ASSUME NEW i \in Ids, Due(i)
      PROVE  RowsStay
  BY <1>5, DueStays
<1>6. UNCHANGED vars => UNCHANGED invitations
  BY DEF vars
<1>. QED
  BY <1>1, <1>2, <1>3, <1>4, <1>5, <1>6, OthersLeaveRows DEF Next, Continue, Surroundings
-----------------------------------------------------------------------------
(* Requests know their row *)

(* A request that goes on, or begins, keeps to a row it read it from. *)
LEMMA LoadedHolds ==
  ASSUME IInv, NEW i \in Ids, NEW op \in Ops, NEW at \in Steps, NEW s \in InvitationStatus
  PROVE  /\ Loaded(op, at, i, s) \in Request /\ HoldsRow(Loaded(op, at, i, s))
         /\ Loaded(op, at, i, s).at = at /\ Loaded(op, at, i, s).email = invitations[i].email
<1>1. Loaded(op, at, i, s) \in Request /\ Loaded(op, at, i, s).at = at
      /\ Loaded(op, at, i, s).id = i
  BY LoadedType DEF IInv, TypeOK
<1>2. /\ Loaded(op, at, i, s).email = invitations[i].email
      /\ Loaded(op, at, i, s).role = invitations[i].role
  BY DEF Loaded
<1>. QED
  BY <1>1, <1>2 DEF HoldsRow

(* A copy that is of a row stays of that row. *)
LEMMA HoldingStays ==
  ASSUME RowsStay, NEW r, HoldsRow(r)
  PROVE  HoldsRow(r)'
  BY DEF RowsStay, HoldsRow

LEMMA BeginHolds ==
  ASSUME IInv, NEW q \in Slots, Begin(q)
  PROVE  \E r \in Request : Serve(q, r) /\ HoldsRow(r) /\ r.at # "enqueue"
<1>. USE DEF IInv, TypeOK
<1>1. CASE InviteValidate(q)
  <2>1. PICK email \in Emails, role \in InvitedRoles :
          Serve(q, [op |-> "invite", at |-> "insert", id |-> 0, email |-> email,
                    role |-> role, status |-> "pending"])
    BY <1>1 DEF InviteValidate
  <2>2. PICK r : r = [op |-> "invite", at |-> "insert", id |-> 0, email |-> email,
                      role |-> role, status |-> "pending"]
    OBVIOUS
  <2>3. r \in Request /\ r.at = "insert"
    BY <2>2, RolesAssumption DEF Request, Ops, Steps, InvitationStatus
  <2>. QED
    BY <2>1, <2>2, <2>3 DEF HoldsRow, Holding
<1>2. CASE ResendBind(q)
  <2>1. PICK i \in Ids : Serve(q, Loaded("resend", "apply", i, "expired"))
    BY <1>2, Graph DEF ResendBind
  <2>2. "resend" \in Ops /\ "apply" \in Steps /\ "expired" \in InvitationStatus
    BY DEF Ops, Steps, InvitationStatus
  <2>. QED
    BY <2>1, <2>2, LoadedHolds
<1>3. CASE CancelBind(q)
  <2>1. PICK i \in Ids : Serve(q, Loaded("cancel", "apply", i, "cancelled"))
    BY <1>3, Graph DEF CancelBind
  <2>2. "cancel" \in Ops /\ "apply" \in Steps /\ "cancelled" \in InvitationStatus
    BY DEF Ops, Steps, InvitationStatus
  <2>. QED
    BY <2>1, <2>2, LoadedHolds
<1>4. CASE AcceptValidate(q)
  <2>1. PICK i \in Ids, s \in InvitationStatus : Serve(q, Loaded("accept", "find", i, s))
    BY <1>4, RowsOfIds DEF AcceptValidate, Row
  <2>. QED
    BY <2>1, LoadedHolds DEF Ops, Steps
<1>. QED
  BY <1>1, <1>2, <1>3, <1>4 DEF Begin

(* A request that goes on without an insert keeps to its row, or ends. *)
LEMMA ContinueHolds ==
  ASSUME IInv, OwnRow, NEW q \in Slots,
         AcceptFind(q) \/ AcceptCreateUser(q) \/ ApplySave(q) \/ SaveAgain(q) \/ Enqueue(q)
  PROVE  /\ requests[q] \in Request
         /\ \E r \in Request \cup {Idle} :
              /\ Serve(q, r) /\ HoldsRow(r)
              /\ r # Idle => r.at # "enqueue" /\ r.email = requests[q].email
<1>. USE DEF IInv, TypeOK
<1>1. requests[q] \in Request
  BY BusySlot DEF AcceptFind, AcceptCreateUser, ApplySave, SaveAgain, Enqueue, Steps
<1>. PICK old \in Request : old = requests[q]
  BY <1>1
<1>2. HoldsRow(old)
  BY DEF OwnRow
<1>3. HoldsRow(Idle)
  BY DEF HoldsRow, Holding, Idle
<1>4. CASE AcceptFind(q)
  <2>1. PICK i \in Ids, s \in InvitationStatus :
          i = old.id /\ s = invitations[i].status
          /\ Serve(q, Loaded("accept", "createUser", i, s))
    BY <1>4, RowsOfIds DEF AcceptFind, Row
  <2>2. old.email = invitations[i].email
    BY <1>2, <1>4, <2>1 DEF HoldsRow, Holding, AcceptFind
  <2>. QED
    BY <1>1, <2>1, <2>2, LoadedHolds DEF Ops, Steps
<1>5. ASSUME NEW at \in {"apply", "save", "insert"}, NEW s \in InvitationStatus,
             Serve(q, [old EXCEPT !.at = at, !.status = s]), old.at \in Holding
      PROVE  \E r \in Request \cup {Idle} :
               /\ Serve(q, r) /\ HoldsRow(r)
               /\ r # Idle => r.at # "enqueue" /\ r.email = requests[q].email
  <2>1. PICK r : r = [old EXCEPT !.at = at, !.status = s]
    OBVIOUS
  <2>2. /\ r \in Request /\ r.at = at /\ r.id = old.id /\ r.email = old.email
        /\ r.role = old.role
    BY <2>1 DEF Request, Steps
  <2>3. HoldsRow(r)
    BY <1>2, <1>5, <2>2 DEF HoldsRow
  <2>. QED
    BY <1>5, <2>1, <2>2, <2>3
<1>6. CASE AcceptCreateUser(q)
  <2>1. \/ Serve(q, Idle)
        \/ Serve(q, [old EXCEPT !.at = "apply", !.status = "accepted"])
    BY <1>6, Graph DEF AcceptCreateUser, Finish
  <2>2. old.at \in Holding
    BY <1>6 DEF AcceptCreateUser, Holding
  <2>. QED
    BY <1>1, <1>3, <1>5, <2>1, <2>2 DEF InvitationStatus
<1>7. CASE ApplySave(q) \/ SaveAgain(q)
  <2>1. PICK at \in {"save", "insert"} :
          Serve(q, Idle) \/ requests' = [requests EXCEPT ![q].at = at]
    BY <1>7 DEF ApplySave, SaveAgain, Resume, Finish
  <2>2. old.status \in InvitationStatus /\ old.at \in Holding
    BY <1>7 DEF Request, ApplySave, SaveAgain, Holding
  <2>3. [old EXCEPT !.at = at] = [old EXCEPT !.at = at, !.status = old.status]
    BY DEF Request
  <2>4. requests' = [requests EXCEPT ![q].at = at]
          => Serve(q, [old EXCEPT !.at = at, !.status = old.status])
    BY <2>3 DEF Serve
  <2>. QED
    BY <1>1, <1>3, <1>5, <2>1, <2>2, <2>4
<1>8. CASE Enqueue(q)
  BY <1>1, <1>3, <1>8 DEF Enqueue, Finish
<1>. QED
  BY <1>4, <1>6, <1>7, <1>8

(* The request an insert leaves is the one to mail the new row. *)
LEMMA InsertHolds ==
  ASSUME IInv, NEW q \in Slots, Insert(q)
  PROVE  \E r \in Request :
           /\ Serve(q, r) /\ HoldsRow(r)' /\ r.at = "enqueue"
           /\ r.id = Len(invitations) + 1 /\ r.email = requests[q].email
<1>1. /\ Ids' = Ids \cup {Len(invitations) + 1}
      /\ requests[q] \in Request
      /\ invitations'[Len(invitations) + 1].email = requests[q].email
      /\ invitations'[Len(invitations) + 1].role = requests[q].role
  BY Inserting
<1>2. Len(invitations) + 1 \in Nat
  BY LenProperties DEF IInv, TypeOK
<1>3. PICK old \in Request, i \in Nat : old = requests[q] /\ i = Len(invitations) + 1
  BY <1>1, <1>2
<1>4. PICK r : r = [old EXCEPT !.at = "enqueue", !.status = "pending", !.id = i]
  OBVIOUS
<1>5. /\ r \in Request /\ r.at = "enqueue" /\ r.id = i /\ r.email = old.email
      /\ r.role = old.role
  BY <1>4 DEF Request, Steps, InvitationStatus
<1>6. Serve(q, r)
  BY <1>3, <1>4 DEF Insert
<1>7. HoldsRow(r)'
  BY <1>1, <1>3, <1>5 DEF HoldsRow
<1>. QED
  BY <1>3, <1>5, <1>6, <1>7
(* Slots that are not served keep what they have, and their row stays. *)
LEMMA ServedOwnRow ==
  ASSUME IInv, OwnRow, RowsStay, NEW q \in Slots, NEW r \in Request \cup {Idle},
         Serve(q, r), HoldsRow(r)'
  PROVE  OwnRow'
<1>1. /\ requests'[q] = r
      /\ \A p \in Slots : p # q => requests'[p] = requests[p]
  BY ServeOne DEF IInv, TypeOK
<1>2. ASSUME NEW p \in Slots, NEW n, n = requests'[p]
      PROVE  HoldsRow(n)'
  <2>1. CASE p = q
    BY <1>1, <1>2, <2>1
  <2>2. CASE p # q
    BY <1>1, <1>2, <2>2, HoldingStays DEF OwnRow
  <2>. QED
    BY <2>1, <2>2
<1>3. ASSUME NEW p \in Slots
      PROVE  HoldsRow(requests[p])'
  <2>1. PICK n : n = requests'[p]
    OBVIOUS
  <2>. QED
    BY <1>2, <2>1 DEF HoldsRow
<1>. QED
  BY <1>3 DEF OwnRow

(* Steps that serve nobody. *)
LEMMA RestOwnRow ==
  ASSUME OwnRow, RowsStay, UNCHANGED requests \/ requests' = [q \in Slots |-> Idle]
  PROVE  OwnRow'
<1>1. CASE UNCHANGED requests
  BY <1>1 DEF OwnRow, HoldsRow, RowsStay
<1>2. CASE requests' = [q \in Slots |-> Idle]
  BY <1>2 DEF OwnRow, HoldsRow, Holding, Idle
<1>. QED
  BY <1>1, <1>2

LEMMA OthersServeNobody ==
  ASSUME \/ CronStart \/ \E i \in DOMAIN cron : CronSave(i)
         \/ Surroundings \/ UNCHANGED vars
  PROVE  UNCHANGED requests \/ requests' = [q \in Slots |-> Idle]
  BY DEF CronStart, CronSave, Surroundings, Due, Register, SweepUnverified, ChangeEmail, Crash, vars

LEMMA OwnRowStays == ASSUME IInv, OwnRow, [Next]_vars  PROVE  OwnRow'
<1>1. RowsStay
  BY RowsAlwaysStay
<1>2. ASSUME NEW q \in Slots, Begin(q)
      PROVE  OwnRow'
  BY <1>1, <1>2, BeginHolds, HoldingStays, ServedOwnRow
<1>3. ASSUME NEW q \in Slots, Continue(q)
      PROVE  OwnRow'
  <2>1. CASE Insert(q)
    BY <1>1, <2>1, InsertHolds, ServedOwnRow
  <2>2. CASE ~ Insert(q)
    <3>1. PICK r \in Request \cup {Idle} : Serve(q, r) /\ HoldsRow(r)
      BY <1>3, <2>2, ContinueHolds DEF Continue
    <3>. QED
      BY <1>1, <3>1, HoldingStays, ServedOwnRow
  <2>. QED
    BY <2>1, <2>2
<1>. QED
  BY <1>1, <1>2, <1>3, OthersServeNobody, RestOwnRow DEF Next

-----------------------------------------------------------------------------
(* Mails *)

(* A row that is mailed, or about to be, stays so. *)
LEMMA AboutStays ==
  ASSUME IInv, OwnRow, [Next]_vars, NEW i \in Ids, About(i)
  PROVE  About(i)'
<1>1. RowsStay /\ MailFor(i)' = MailFor(i)
  BY RowsAlwaysStay DEF RowsStay, MailFor
<1>2. mails \subseteq mails'
  BY DEF Next, Begin, Continue, Surroundings, InviteValidate, ResendBind, CancelBind,
     AcceptValidate, AcceptFind, AcceptCreateUser, ApplySave, SaveAgain, Insert, Enqueue,
     CronStart, CronSave, Due, Register, SweepUnverified, ChangeEmail, Crash, vars
<1>3. crashes \in Nat /\ crashes' \in Nat /\ crashes <= crashes'
  <2>1. crashes' = crashes \/ crashes' = crashes + 1
    BY DEF Next, Begin, Continue, Surroundings, InviteValidate, ResendBind, CancelBind,
       AcceptValidate, AcceptFind, AcceptCreateUser, ApplySave, SaveAgain, Insert, Enqueue,
       CronStart, CronSave, Due, Register, SweepUnverified, ChangeEmail, Crash, vars
  <2>2. crashes \in Nat
    BY BoundsAssumption DEF IInv, TypeOK
  <2>. QED
    BY <2>1, <2>2
<1>4. CASE MailFor(i) \in mails \/ crashes > 0
  BY <1>1, <1>2, <1>3, <1>4 DEF About
<1>5. ASSUME NEW q \in Slots, requests[q].at = "enqueue", requests[q].id = i
      PROVE  About(i)'
  <2>1. CASE Enqueue(q)
    <3>1. PICK r : r = requests[q]
      OBVIOUS
    <3>2. [to |-> r.email, role |-> r.role, token |-> r.id] \in mails'
      BY <2>1, <3>1 DEF Enqueue
    <3>3. r.email = invitations[i].email /\ r.role = invitations[i].role /\ r.id = i
      BY <1>5, <3>1 DEF OwnRow, HoldsRow, Holding
    <3>4. MailFor(i) \in mails'
      BY <3>2, <3>3 DEF MailFor
    <3>. QED
      BY <1>1, <3>4 DEF About
  <2>2. CASE requests'[q] = requests[q]
    BY <1>5, <2>2 DEF About
  <2>3. CASE Crash
    BY <1>3, <2>3 DEF Crash, IInv, TypeOK, About
  <2>4. ASSUME NEW p \in Slots, NEW r, Serve(p, r), p # q
        PROVE  requests'[q] = requests[q]
    BY <2>4 DEF Serve
  <2>5. ASSUME NEW p \in Slots, Begin(p) \/ Continue(p)
        PROVE  About(i)'
    <3>1. CASE p # q
      <4>1. \E r : Serve(p, r)
        BY <2>5, BeginHolds, ContinueHolds, InsertHolds DEF Continue
      <4>. QED
        BY <2>2, <2>4, <3>1, <4>1
    <3>2. CASE p = q
      <4>1. ~ CanStart(q)
        BY <1>5 DEF CanStart, Idle
      <4>2. ~ Begin(q)
        BY <4>1 DEF Begin, InviteValidate, ResendBind, CancelBind, AcceptValidate
      <4>3. Enqueue(q)
        BY <1>5, <2>5, <3>2, <4>2
        DEF Continue, AcceptFind, AcceptCreateUser, ApplySave, SaveAgain, Insert
      <4>. QED
        BY <2>1, <4>3
    <3>. QED
      BY <3>1, <3>2
  <2>6. CASE UNCHANGED requests
    BY <2>2, <2>6
  <2>7. ASSUME CronStart \/ (\E j \in DOMAIN cron : CronSave(j)) \/ Surroundings \/ UNCHANGED vars
        PROVE  UNCHANGED requests \/ Crash
    BY <2>7 DEF CronStart, CronSave, Surroundings, Due, Register, SweepUnverified, ChangeEmail, vars
  <2>. QED
    BY <2>3, <2>5, <2>6, <2>7 DEF Next
<1>. QED
  BY <1>4, <1>5 DEF About
LEMMA MailsStay ==
  ASSUME IInv, OwnRow, InvitationsAreMailed, [Next]_vars
  PROVE  InvitationsAreMailed'
<1>1. /\ \A m \in mails : \E i \in Ids : m = MailFor(i)
      /\ \A i \in Ids : About(i)
  BY MailedMeans
<1>2. RowsStay
  BY RowsAlwaysStay
<1>3. ASSUME NEW m, m \in mails'
      PROVE  \E i \in Ids' : m = MailFor(i)'
  <2>1. CASE m \in mails
    BY <1>1, <1>2, <2>1 DEF RowsStay, MailFor
  <2>2. CASE m \notin mails
    <3>1. PICK q \in Slots : Enqueue(q)
      BY <1>3, <2>2
      DEF Next, Begin, Continue, Surroundings, InviteValidate, ResendBind, CancelBind,
          AcceptValidate, AcceptFind, AcceptCreateUser, ApplySave, SaveAgain, Insert,
          CronStart, CronSave, Due, Register, SweepUnverified, ChangeEmail, Crash, vars
    <3>2. PICK r : r = requests[q]
      OBVIOUS
    <3>3. r.at = "enqueue" /\ m = [to |-> r.email, role |-> r.role, token |-> r.id]
      BY <1>3, <2>2, <3>1, <3>2 DEF Enqueue
    <3>4. r.id \in Ids /\ r.email = invitations[r.id].email /\ r.role = invitations[r.id].role
      BY <3>2, <3>3 DEF OwnRow, HoldsRow, Holding
    <3>. QED
      BY <1>2, <3>3, <3>4 DEF RowsStay, MailFor
  <2>. QED
    BY <2>1, <2>2
<1>4. ASSUME NEW i, i \in Ids', i \notin Ids
      PROVE  About(i)'
  <2>1. PICK q \in Slots : Insert(q)
    <3>1. UNCHANGED invitations => i \in Ids
      BY <1>4 DEF Ids
    <3>2. \A q \in Slots : ~ ApplySave(q) /\ ~ SaveAgain(q)
      BY <1>4, Saving, SaveStays
    <3>3. \A j \in DOMAIN cron : ~ CronSave(j)
      BY <1>4, Graph, SaveStays DEF CronSave, IInv, TypeOK
    <3>4. \A j \in Ids : ~ Due(j)
      BY <1>4, DueStays
    <3>5. UNCHANGED vars => UNCHANGED invitations
      BY DEF vars
    <3>. QED
      BY <1>4, <3>1, <3>2, <3>3, <3>4, <3>5, OthersLeaveRows DEF Next, Continue, Surroundings
  <2>2. i = Len(invitations) + 1
    BY <1>4, <2>1, Inserting
  <2>3. PICK r \in Request : Serve(q, r) /\ r.at = "enqueue" /\ r.id = i
    BY <2>1, <2>2, InsertHolds
  <2>4. requests'[q] = r
    BY <2>3, ServeOne DEF IInv, TypeOK
  <2>. QED
    BY <2>3, <2>4 DEF About
<1>5. \A i \in Ids' : About(i)'
  <2>. SUFFICES ASSUME NEW i, i \in Ids'
                PROVE  About(i)'
    OBVIOUS
  <2>. QED
    BY <1>1, <1>4, AboutStays
<1>. QED
  BY <1>3, <1>5 DEF InvitationsAreMailed, MailFor, About

LEMMA HInvInit == ASSUME Init  PROVE  HInv
<1>1. OwnRow
  BY DEF Init, OwnRow, HoldsRow, Holding, Idle
<1>2. InvitationsAreMailed
  BY MailedMeans DEF Init, Ids
<1>. QED
  BY <1>1, <1>2, InitIInv DEF HInv

LEMMA HInvNext == ASSUME HInv, [Next]_vars  PROVE  HInv'
  BY NextPreserves, OwnRowStays, MailsStay DEF HInv

LEMMA HInvHolds == Spec => []HInv
<1>1. Init => HInv
  BY HInvInit
<1>2. HInv /\ [Next]_vars => HInv'
  BY HInvNext
<1>. QED
  BY <1>1, <1>2, PTL DEF Spec

(* Every invitation is mailed to its address with its role and token, or about  *)
(* to be, unless the process was restarted; and nothing else is mailed.         *)
THEOREM AllInvitationsMailed == Spec => []InvitationsAreMailed
  BY HInvHolds, PTL DEF HInv
-----------------------------------------------------------------------------
(* Settled addresses *)

LEMMA OnlyPendingMoves ==
  ASSUME NEW s, NEW t \in {"acceptance", "expiration", "cancellation"},
         CanApply(InvitationGraph, t, s)
  PROVE  s = "pending"
  BY DEF CanApply, InvitationGraph

(* What Settled says, for a step. *)
Free(email) == \A q \in Slots : requests[q] # Idle => requests[q].email # email
Unswept(email) == \A i \in DOMAIN cron : invitations[i].email # email
Answered(email) == \A i \in Ids : invitations[i].email = email => invitations[i].status # "pending"

(* No row of the address comes or changes its status. *)
Unmoved(email) ==
  /\ \A i \in Ids' : invitations'[i].email = email => i \in Ids
  /\ \A i \in Ids : invitations[i].email = email => invitations'[i].status = invitations[i].status

LEMMA UnmovedIsSettled ==
  ASSUME NEW email, Settled(email), RowsStay, Unmoved(email), Free(email)', Unswept(email)'
  PROVE  Settled(email)'
<1>1. \A i : (i \in Ids' /\ invitations'[i].email = email) <=> (i \in Ids /\ invitations[i].email = email)
  BY DEF RowsStay, Unmoved
<1>2. InvitationsOf(email)' = InvitationsOf(email)
  BY <1>1 DEF InvitationsOf
<1>3. \A i \in InvitationsOf(email) : i \in Ids' /\ invitations'[i].status = invitations[i].status
  BY <1>1 DEF InvitationsOf, Unmoved
<1>4. \E i \in Ids' : IsLatest(i, email)' /\ invitations'[i].status \in {"accepted", "expired"}
  <2>1. PICK i \in Ids : IsLatest(i, email) /\ invitations[i].status \in {"accepted", "expired"}
    BY DEF Settled
  <2>. QED
    BY <1>2, <1>3, <2>1 DEF IsLatest
<1>5. \A i \in InvitationsOf(email)' : invitations'[i].status # "pending"
  BY <1>2, <1>3 DEF Settled
<1>6. ~ Working(email)'
  BY DEF Working, Free, Unswept
<1>. QED
  BY <1>4, <1>5, <1>6 DEF Settled

LEMMA SettledMeans ==
  ASSUME NEW email, Settled(email)
  PROVE  /\ Free(email) /\ Unswept(email) /\ Answered(email)
         /\ ~ ValidInvitationEmail(email)
  BY DEF Settled, Working, Free, Unswept, Answered, InvitationsOf, ValidInvitationEmail

(* No save in flight is of a row of the address, and no insert. *)
LEMMA RowsUnmoved ==
  ASSUME IInv, OwnRow, [Next]_vars, NEW email, Free(email), Unswept(email)
  PROVE  Unmoved(email)
<1>1. CASE UNCHANGED invitations
  BY <1>1 DEF Unmoved, Ids
<1>2. ASSUME NEW i \in Ids, NEW s \in InvitationStatus, SaveInvitation(i, s),
             invitations[i].email # email
      PROVE  Unmoved(email)
  BY <1>2, SaveStays DEF Unmoved
<1>3. ASSUME NEW q \in Slots, ApplySave(q) \/ SaveAgain(q)
      PROVE  Unmoved(email)
  <2>1. /\ requests[q] \in Request /\ requests[q].id \in Ids
        /\ requests[q].status \in InvitationStatus
        /\ SaveInvitation(requests[q].id, requests[q].status)
    BY <1>3, Saving
  <2>2. requests[q].at \in Holding /\ requests[q] # Idle
    BY <1>3 DEF ApplySave, SaveAgain, Holding, Idle
  <2>3. invitations[requests[q].id].email # email
    BY <2>2 DEF OwnRow, HoldsRow, Free
  <2>. QED
    BY <1>2, <2>1, <2>3
<1>4. ASSUME NEW q \in Slots, Insert(q)
      PROVE  Unmoved(email)
  BY <1>4, Inserting DEF Unmoved, Free
<1>5. ASSUME NEW i \in DOMAIN cron, CronSave(i)
      PROVE  Unmoved(email)
  <2>1. i \in Ids /\ SaveInvitation(i, "expired") /\ "expired" \in InvitationStatus
    BY <1>5, Graph DEF CronSave, IInv, TypeOK, InvitationStatus
  <2>. QED
    BY <1>2, <2>1 DEF Unswept
<1>6. ASSUME NEW i \in Ids, Due(i)
      PROVE  Unmoved(email)
  BY <1>6, DueStays DEF Unmoved
<1>7. UNCHANGED vars => UNCHANGED invitations
  BY DEF vars
<1>. QED
  BY <1>1, <1>3, <1>4, <1>5, <1>6, <1>7, OthersLeaveRows DEF Next, Continue, Surroundings

(* Validators and guards refuse to begin anything for the address. *)
LEMMA BeginsElsewhere ==
  ASSUME IInv, NEW q \in Slots, Begin(q), NEW email, Answered(email), ~ ValidInvitationEmail(email)
  PROVE  \E r : Serve(q, r) /\ r.email # email
<1>1. CASE InviteValidate(q)
  <2>1. PICK other \in Emails, role \in InvitedRoles :
          /\ ValidInvitationEmail(other)
          /\ Serve(q, [op |-> "invite", at |-> "insert", id |-> 0, email |-> other,
                       role |-> role, status |-> "pending"])
    BY <1>1 DEF InviteValidate
  <2>2. PICK r : r = [op |-> "invite", at |-> "insert", id |-> 0, email |-> other,
                      role |-> role, status |-> "pending"]
    OBVIOUS
  <2>3. r.email = other /\ other # email
    BY <2>1, <2>2
  <2>. QED
    BY <2>1, <2>2, <2>3
<1>2. CASE ~ InviteValidate(q)
  <2>1. PICK i \in Ids : /\ invitations[i].status = "pending"
                         /\ \E op, at, s : Serve(q, Loaded(op, at, i, s))
    BY <1>2, OnlyPendingMoves DEF Begin, ResendBind, CancelBind, AcceptValidate, ValidToken
  <2>2. PICK op, at, s : Serve(q, Loaded(op, at, i, s))
    BY <2>1
  <2>3. Loaded(op, at, i, s).email = invitations[i].email
    BY DEF Loaded
  <2>4. invitations[i].email # email
    BY <2>1 DEF Answered
  <2>. QED
    BY <2>2, <2>3, <2>4
<1>. QED
  BY <1>1, <1>2

LEMMA StaysFree ==
  ASSUME IInv, OwnRow, [Next]_vars, NEW email, Free(email), Answered(email),
         ~ ValidInvitationEmail(email)
  PROVE  Free(email)'
<1>1. ASSUME NEW q \in Slots, NEW r, Serve(q, r), r = Idle \/ r.email # email
      PROVE  Free(email)'
  <2>1. \A p \in Slots : requests'[p] = IF p = q THEN r ELSE requests[p]
    BY <1>1 DEF Serve, IInv, TypeOK
  <2>. QED
    BY <1>1, <2>1 DEF Free
<1>2. ASSUME NEW q \in Slots, Begin(q)
      PROVE  Free(email)'
  BY <1>1, <1>2, BeginsElsewhere
<1>3. ASSUME NEW q \in Slots, Insert(q)
      PROVE  Free(email)'
  <2>1. requests[q].email # email
    BY <1>3, Inserting DEF Free
  <2>. QED
    BY <1>1, <1>3, <2>1, InsertHolds
<1>4. ASSUME NEW q \in Slots, Continue(q), ~ Insert(q)
      PROVE  Free(email)'
  <2>1. PICK r : /\ Serve(q, r)
                 /\ r # Idle => r.email = requests[q].email
    BY <1>4, ContinueHolds DEF Continue
  <2>2. requests[q] # Idle
    BY <1>4 DEF Continue, AcceptFind, AcceptCreateUser, ApplySave, SaveAgain, Enqueue, Idle
  <2>. QED
    BY <1>1, <2>1, <2>2 DEF Free
<1>5. (UNCHANGED requests \/ requests' = [q \in Slots |-> Idle]) => Free(email)'
  BY DEF Free
<1>. QED
  BY <1>2, <1>3, <1>4, <1>5, OthersServeNobody DEF Next

(* The job finds no row of the address that can expire. *)
LEMMA StaysUnswept ==
  ASSUME IInv, [Next]_vars, NEW email, Unswept(email), Answered(email)
  PROVE  Unswept(email)'
<1>1. RowsStay /\ DOMAIN cron \subseteq Ids
  BY RowsAlwaysStay DEF IInv, TypeOK
<1>2. CASE DOMAIN cron' \subseteq DOMAIN cron
  BY <1>1, <1>2 DEF RowsStay, Unswept
<1>3. CASE CronStart
  BY <1>1, <1>3, OnlyPendingMoves DEF CronStart, RowsStay, Unswept, Answered
<1>4. ASSUME NEW i \in DOMAIN cron, CronSave(i)
      PROVE  DOMAIN cron' \subseteq DOMAIN cron
  BY <1>4 DEF CronSave
<1>5. Crash => DOMAIN cron' \subseteq DOMAIN cron
  BY DEF Crash
<1>6. CASE UNCHANGED cron
  BY <1>2, <1>6
<1>7. \/ CronStart \/ (\E i \in DOMAIN cron : CronSave(i)) \/ Crash \/ UNCHANGED cron
  BY DEF Next, Begin, Continue, Surroundings, InviteValidate, ResendBind, CancelBind,
     AcceptValidate, AcceptFind, AcceptCreateUser, ApplySave, SaveAgain, Insert, Enqueue,
     Due, Register, SweepUnverified, ChangeEmail, vars
<1>. QED
  BY <1>2, <1>3, <1>4, <1>5, <1>6, <1>7

(* Once the last invitation of an address was used or ran out and nothing is in *)
(* flight for it, no endpoint, job or restart ever changes that.                *)
THEOREM SettledStaysFinal == Spec => SettledIsFinal
<1>1. ASSUME HInv, [Next]_vars, NEW email \in Emails, Settled(email)
      PROVE  Settled(email)'
  <2>1. /\ Free(email) /\ Unswept(email) /\ Answered(email)
        /\ ~ ValidInvitationEmail(email)
    BY <1>1, SettledMeans
  <2>2. RowsStay /\ Unmoved(email) /\ Free(email)' /\ Unswept(email)'
    BY <1>1, <2>1, RowsAlwaysStay, RowsUnmoved, StaysFree, StaysUnswept DEF HInv
  <2>. QED
    BY <1>1, <2>2, UnmovedIsSettled
<1>2. HInv /\ [Next]_vars =>
        [\A email \in Emails : Settled(email) => Settled(email)']_vars
  BY <1>1
<1>. QED
  BY <1>2, HInvHolds, PTL DEF Spec, SettledIsFinal
=============================================================================
