----------------------- MODULE InvitationSerialProofs -----------------------
(***************************************************************************)
(* Proofs about Invitations as long as nothing overlaps: what one request  *)
(* or job run at a time keeps true, for any number of addresses, rows and  *)
(* restarts.                                                               *)
(***************************************************************************)
EXTENDS InvitationHistoryProofs, FiniteSetTheorems

OneAtATime ==
  /\ \A p, q \in Slots : requests[p] # Idle /\ requests[q] # Idle => p = q
  /\ cron # <<>> => \A q \in Slots : requests[q] = Idle

PendingIsLatest ==
  \A i \in Ids : invitations[i].status = "pending" => IsLatest(i, invitations[i].email)

(* What a request has read is still so. *)
FreshRequest(r) ==
  /\ r.at \in {"apply", "find", "createUser"} => invitations[r.id].status = "pending"
  /\ r.at = "createUser" => r.status = "pending" /\ r.op = "accept"
  /\ r.at = "save" => invitations[r.id].status = r.status
  /\ r.at \in {"save", "insert"} => Answered(r.email)
  /\ r.at = "apply" /\ r.op = "accept" => r.status = "accepted"
Fresh == \A q \in Slots : FreshRequest(requests[q])

CronFresh ==
  \A i \in DOMAIN cron :
    invitations[i].status = IF cron[i] = "apply" THEN "pending" ELSE "expired"

Known == \A a \in accounts : a.invitation # 0 => a.invitation \in Ids

SInv == /\ HInv /\ OneAtATime /\ PendingIsLatest /\ Fresh /\ CronFresh
        /\ Known /\ AccountUsesInvitation

-----------------------------------------------------------------------------
(* One at a time *)

LEMMA NothingBusy ==
  ASSUME MaxBusy = 1, IsFiniteSet(Slots), Busy < MaxBusy
  PROVE  cron = <<>> /\ \A q \in Slots : requests[q] = Idle
<1>. DEFINE S == {q \in Slots : requests[q] # Idle}
<1>1. IsFiniteSet(S)
  BY FS_Subset
<1>2. Cardinality(S) \in Nat
  BY <1>1, FS_CardinalityType
<1>3. Cardinality(S) = 0 /\ cron = <<>>
  BY <1>2 DEF Busy
<1>4. S = {}
  BY <1>1, <1>3, FS_EmptySet
<1>. QED
  BY <1>3, <1>4

LEMMA BeginAlone ==
  ASSUME MaxBusy = 1, IsFiniteSet(Slots), NEW q \in Slots, Begin(q)
  PROVE  /\ cron = <<>> /\ cron' = <<>> /\ \A p \in Slots : requests[p] = Idle
         /\ UNCHANGED <<invitations, accounts, crashes>>
<1>1. Busy < MaxBusy /\ UNCHANGED <<invitations, accounts, cron, crashes>>
  BY DEF Begin, InviteValidate, ResendBind, CancelBind, AcceptValidate, CanStart
<1>. QED
  BY <1>1, NothingBusy

LEMMA ContinueAlone ==
  ASSUME OneAtATime, NEW q \in Slots, Continue(q)
  PROVE  /\ cron = <<>> /\ cron' = <<>>
         /\ \A p \in Slots : p # q => requests[p] = Idle
<1>1. requests[q] # Idle /\ UNCHANGED cron
  BY DEF Continue, AcceptFind, AcceptCreateUser, ApplySave, SaveAgain, Insert, Enqueue, Idle
<1>. QED
  BY <1>1 DEF OneAtATime

(* The slot that is served alone decides what requests have read. *)
LEMMA AloneFresh ==
  ASSUME IInv, NEW q \in Slots, NEW r \in Request \cup {Idle}, Serve(q, r), cron' = <<>>,
         \A p \in Slots : p # q => requests[p] = Idle,
         FreshRequest(r)'
  PROVE  OneAtATime' /\ Fresh' /\ CronFresh'
<1>1. /\ requests'[q] = r
      /\ \A p \in Slots : p # q => requests'[p] = Idle
  BY ServeOne DEF IInv, TypeOK
<1>2. OneAtATime'
  BY <1>1 DEF OneAtATime
<1>3. CronFresh'
  BY DEF CronFresh
<1>4. ASSUME NEW p \in Slots
      PROVE  FreshRequest(requests[p])'
  <2>1. CASE p = q
    BY <1>1, <2>1 DEF FreshRequest
  <2>2. CASE p # q
    BY <1>1, <2>2 DEF FreshRequest, Idle
  <2>. QED
    BY <2>1, <2>2
<1>. QED
  BY <1>2, <1>3, <1>4 DEF Fresh

-----------------------------------------------------------------------------
(* Rows *)

(* Answering rows leaves at most the latest ones pending. *)
LEMMA LatestStays ==
  ASSUME RowsStay, Ids' = Ids, PendingIsLatest,
         \A i \in Ids : invitations'[i].status = "pending" => invitations[i].status = "pending"
  PROVE  PendingIsLatest'
  BY DEF RowsStay, PendingIsLatest, IsLatest, InvitationsOf

(* Once the pending row of an address is answered, none is left. *)
LEMMA LastAnswered ==
  ASSUME IInv, PendingIsLatest, NEW i \in Ids, invitations[i].status = "pending",
         NEW s \in InvitationStatus \ {"pending"}, SaveInvitation(i, s)
  PROVE  /\ Answered(invitations[i].email)'
         /\ PendingIsLatest'
         /\ invitations'[i].status = s
<1>1. /\ Ids' = Ids /\ RowsStay
      /\ \A j \in Ids : j # i => invitations'[j] = invitations[j]
  BY SaveStays
<1>2. invitations'[i].status = s
  <2>1. invitations[i] \in Row
    BY RowsOfIds DEF IInv, TypeOK
  <2>2. invitations'[i] = [invitations[i] EXCEPT !.status = s, !.due = TRUE]
    BY SaveChangesOneRow DEF IInv, TypeOK
  <2>. QED
    BY <2>1, <2>2 DEF Row
<1>3. ASSUME NEW j \in Ids, invitations[j].email = invitations[i].email,
             invitations[j].status = "pending"
      PROVE  j = i
  <2>1. i \in Nat /\ j \in Nat
    BY RowsOfIds DEF IInv, TypeOK
  <2>2. i <= j /\ j <= i
    BY <1>3 DEF PendingIsLatest, IsLatest, InvitationsOf
  <2>. QED
    BY <2>1, <2>2
<1>4. \A j \in Ids : invitations'[j].status = "pending" => invitations[j].status = "pending"
  BY <1>1, <1>2
<1>5. PendingIsLatest'
  BY <1>1, <1>4, LatestStays
<1>6. ASSUME NEW j \in Ids', invitations'[j].email = invitations'[i].email
      PROVE  invitations'[j].status # "pending"
  BY <1>1, <1>2, <1>3, <1>6 DEF RowsStay
<1>. QED
  BY <1>1, <1>2, <1>5, <1>6 DEF Answered, RowsStay

(* A save of the status a row has changes no status. *)
LEMMA SavedAgain ==
  ASSUME IInv, NEW i \in Ids, NEW s \in InvitationStatus, invitations[i].status = s,
         SaveInvitation(i, s)
  PROVE  /\ Ids' = Ids /\ RowsStay
         /\ \A j \in Ids : invitations'[j].status = invitations[j].status
<1>1. invitations[i] \in Row
  BY RowsOfIds DEF IInv, TypeOK
<1>2. invitations'[i] = [invitations[i] EXCEPT !.status = s, !.due = TRUE]
  BY SaveChangesOneRow DEF IInv, TypeOK
<1>3. invitations'[i].status = s
  BY <1>1, <1>2 DEF Row
<1>. QED
  BY <1>3, SaveStays

LEMMA FreshKeeps ==
  ASSUME UNCHANGED invitations, NEW r, FreshRequest(r)
  PROVE  FreshRequest(r)'
  BY DEF FreshRequest, Answered, Ids

(* As long as no status changes, what was read is still so. *)
LEMMA StillFresh ==
  ASSUME IInv, Fresh, CronFresh, PendingIsLatest, RowsStay, Ids' = Ids,
         \A i \in Ids : invitations'[i].status = invitations[i].status,
         UNCHANGED <<requests, cron>>
  PROVE  Fresh' /\ CronFresh' /\ PendingIsLatest'
<1>1. PendingIsLatest'
  BY LatestStays
<1>2. CronFresh'
  BY DEF CronFresh, IInv, TypeOK
<1>3. ASSUME NEW q \in Slots
      PROVE  FreshRequest(requests[q])'
  <2>1. requests[q].at \in {"apply", "save", "find", "createUser"} => requests[q].id \in Ids
    BY DEF IInv, TypeOK
  <2>2. FreshRequest(requests[q]) /\ requests'[q] = requests[q]
    BY DEF Fresh
  <2>3. \A email : Answered(email) => Answered(email)'
    BY DEF Answered, RowsStay
  <2>. QED
    BY <2>1, <2>2, <2>3 DEF FreshRequest
<1>. QED
  BY <1>1, <1>2, <1>3 DEF Fresh

-----------------------------------------------------------------------------
(* Requests and the job keep the rows fresh *)

FreshParts == OneAtATime /\ PendingIsLatest /\ Fresh /\ CronFresh

LEMMA BeginFresh ==
  ASSUME SInv, MaxBusy = 1, IsFiniteSet(Slots), NEW q \in Slots, Begin(q)
  PROVE  FreshParts'
<1>. USE DEF SInv, HInv
<1>1. /\ cron = <<>> /\ cron' = <<>> /\ UNCHANGED invitations
      /\ \A p \in Slots : requests[p] = Idle
  BY BeginAlone
<1>2. PendingIsLatest'
  BY <1>1 DEF PendingIsLatest, IsLatest, InvitationsOf, Ids
<1>3. ASSUME NEW r \in Request \cup {Idle}, Serve(q, r), FreshRequest(r)
      PROVE  FreshParts'
  BY <1>1, <1>2, <1>3, AloneFresh, FreshKeeps DEF FreshParts
<1>4. ASSUME NEW i \in Ids, NEW op \in Ops, NEW at \in {"apply", "find"},
             NEW s \in InvitationStatus, Serve(q, Loaded(op, at, i, s)),
             invitations[i].status = "pending", at = "apply" => op # "accept"
      PROVE  FreshParts'
  <2>1. /\ Loaded(op, at, i, s) \in Request /\ Loaded(op, at, i, s).at = at
        /\ Loaded(op, at, i, s).id = i
    BY LoadedType DEF IInv, TypeOK, Steps
  <2>2. Loaded(op, at, i, s).op = op
    BY DEF Loaded
  <2>. QED
    BY <1>3, <1>4, <2>1, <2>2 DEF FreshRequest
<1>5. CASE InviteValidate(q)
  <2>1. PICK email \in Emails, role \in InvitedRoles :
          /\ ValidInvitationEmail(email)
          /\ Serve(q, [op |-> "invite", at |-> "insert", id |-> 0, email |-> email,
                       role |-> role, status |-> "pending"])
    BY <1>5 DEF InviteValidate
  <2>2. PICK r : r = [op |-> "invite", at |-> "insert", id |-> 0, email |-> email,
                      role |-> role, status |-> "pending"]
    OBVIOUS
  <2>3. r \in Request /\ r.at = "insert" /\ r.email = email
    BY <2>2, RolesAssumption DEF Request, Ops, Steps, InvitationStatus
  <2>4. Answered(email)
    BY <2>1 DEF Answered, ValidInvitationEmail, PendingIsLatest
  <2>. QED
    BY <1>3, <2>1, <2>2, <2>3, <2>4 DEF FreshRequest
<1>6. CASE ResendBind(q)
  <2>1. PICK i \in Ids : /\ Serve(q, Loaded("resend", "apply", i, "expired"))
                         /\ invitations[i].status = "pending"
    BY <1>6, Graph, OnlyPendingMoves DEF ResendBind
  <2>. QED
    BY <1>4, <2>1 DEF Ops, InvitationStatus
<1>7. CASE CancelBind(q)
  <2>1. PICK i \in Ids : /\ Serve(q, Loaded("cancel", "apply", i, "cancelled"))
                         /\ invitations[i].status = "pending"
    BY <1>7, Graph, OnlyPendingMoves DEF CancelBind
  <2>. QED
    BY <1>4, <2>1 DEF Ops, InvitationStatus
<1>8. CASE AcceptValidate(q)
  <2>1. PICK i \in Ids : /\ Serve(q, Loaded("accept", "find", i, "pending"))
                         /\ invitations[i].status = "pending"
    BY <1>8 DEF AcceptValidate, ValidToken
  <2>. QED
    BY <1>4, <2>1 DEF Ops, InvitationStatus
<1>. QED
  BY <1>5, <1>6, <1>7, <1>8 DEF Begin

LEMMA ContinueFresh ==
  ASSUME SInv, NEW q \in Slots, Continue(q)
  PROVE  FreshParts'
<1>. USE DEF SInv, HInv
<1>1. /\ cron = <<>> /\ cron' = <<>>
      /\ \A p \in Slots : p # q => requests[p] = Idle
  BY ContinueAlone
<1>2. requests[q] \in Request
  BY BusySlot DEF IInv, TypeOK, Continue, AcceptFind, AcceptCreateUser, ApplySave, SaveAgain,
                  Insert, Enqueue, Steps
<1>. PICK old \in Request : old = requests[q]
  BY <1>2
<1>3. FreshRequest(old) /\ HoldsRow(old)
  BY DEF Fresh, OwnRow
<1>4. ASSUME NEW r \in Request \cup {Idle}, Serve(q, r), FreshRequest(r)', PendingIsLatest'
      PROVE  FreshParts'
  BY <1>1, <1>4, AloneFresh DEF FreshParts
<1>5. FreshRequest(Idle) /\ FreshRequest(Idle)'
  BY DEF FreshRequest, Idle
<1>6. UNCHANGED invitations => PendingIsLatest'
  BY DEF PendingIsLatest, IsLatest, InvitationsOf, Ids
<1>7. CASE AcceptFind(q)
  <2>1. /\ old.id \in Ids /\ invitations[old.id].status = "pending"
        /\ Serve(q, Loaded("accept", "createUser", old.id, "pending"))
        /\ UNCHANGED invitations
    BY <1>3, <1>7 DEF AcceptFind, FreshRequest, HoldsRow, Holding
  <2>2. PICK r : r = Loaded("accept", "createUser", old.id, "pending")
    OBVIOUS
  <2>3. /\ r \in Request /\ r.at = "createUser" /\ r.id = old.id /\ r.status = "pending"
        /\ r.op = "accept"
    <3>1. r.op = "accept"
      BY <2>2 DEF Loaded
    <3>. QED
      BY <2>1, <2>2, <3>1, LoadedType DEF IInv, TypeOK, Ops, Steps, InvitationStatus
  <2>4. FreshRequest(r)
    BY <2>1, <2>3 DEF FreshRequest
  <2>. QED
    BY <1>4, <1>6, <2>1, <2>2, <2>3, <2>4, FreshKeeps
<1>8. CASE AcceptCreateUser(q)
  <2>1. /\ old.at = "createUser" /\ UNCHANGED invitations
        /\ \/ Serve(q, Idle)
           \/ Serve(q, [old EXCEPT !.at = "apply", !.status = "accepted"])
    BY <1>8, Graph DEF AcceptCreateUser, Finish
  <2>2. PICK r : r = [old EXCEPT !.at = "apply", !.status = "accepted"]
    OBVIOUS
  <2>3. r \in Request /\ r.at = "apply" /\ r.id = old.id /\ r.status = "accepted"
    BY <2>2 DEF Request, Steps, InvitationStatus
  <2>4. FreshRequest(r)
    BY <1>3, <2>1, <2>3 DEF FreshRequest
  <2>. QED
    BY <1>4, <1>5, <1>6, <2>1, <2>2, <2>3, <2>4, FreshKeeps
<1>9. CASE ApplySave(q)
  <2>1. /\ old.at = "apply" /\ old.id \in Ids /\ old.status \in InvitationStatus \ {"pending"}
        /\ SaveInvitation(old.id, old.status)
    BY <1>9, Saving DEF ApplySave, IInv, SavesAnswers
  <2>2. invitations[old.id].status = "pending" /\ old.email = invitations[old.id].email
    BY <1>3, <2>1 DEF FreshRequest, HoldsRow, Holding
  <2>. PICK e : e = old.email
    OBVIOUS
  <2>3. PICK i \in Ids : i = old.id /\ e = invitations[i].email
    BY <2>1, <2>2
  <2>4. /\ Answered(invitations[i].email)' /\ PendingIsLatest' /\ RowsStay
        /\ invitations'[i].status = old.status
    BY <2>1, <2>2, <2>3, LastAnswered, SaveStays
  <2>5. Answered(e)'
    BY <2>3, <2>4 DEF RowsStay, Answered
  <2>6. PICK r : r = [old EXCEPT !.at = "save"]
    OBVIOUS
  <2>7. /\ r \in Request /\ r.at = "save" /\ r.id = i /\ r.email = e /\ r.status = old.status
    BY <2>3, <2>6 DEF Request, Steps
  <2>8. Serve(q, r)
    BY <1>9, <2>6 DEF ApplySave, Resume, Serve
  <2>9. FreshRequest(r)'
    BY <2>4, <2>5, <2>7 DEF FreshRequest
  <2>. QED
    BY <1>4, <2>4, <2>7, <2>8, <2>9
<1>10. CASE SaveAgain(q)
  <2>1. /\ old.at = "save" /\ old.id \in Ids /\ old.status \in InvitationStatus
        /\ SaveInvitation(old.id, old.status)
    BY <1>10, Saving DEF SaveAgain
  <2>2. invitations[old.id].status = old.status /\ Answered(old.email)
    BY <1>3, <2>1 DEF FreshRequest
  <2>3. /\ Ids' = Ids /\ RowsStay
        /\ \A j \in Ids : invitations'[j].status = invitations[j].status
    BY <2>1, <2>2, SavedAgain
  <2>4. PendingIsLatest'
    BY <2>3, LatestStays
  <2>5. PICK e : e = old.email
    OBVIOUS
  <2>6. Answered(e)'
    BY <2>2, <2>3, <2>5 DEF Answered, RowsStay
  <2>7. PICK r : r = [old EXCEPT !.at = "insert"]
    OBVIOUS
  <2>8. r \in Request /\ r.at = "insert" /\ r.email = e
    BY <2>5, <2>7 DEF Request, Steps
  <2>9. Serve(q, r) \/ Serve(q, Idle)
    BY <1>10, <2>7 DEF SaveAgain, Resume, Serve, Finish
  <2>10. FreshRequest(r)'
    BY <2>6, <2>8 DEF FreshRequest
  <2>. QED
    BY <1>4, <1>5, <2>4, <2>8, <2>9, <2>10
<1>11. CASE Insert(q)
  <2>1. PICK r \in Request : Serve(q, r) /\ r.at = "enqueue"
    BY <1>11, InsertHolds
  <2>2. FreshRequest(r)'
    BY <2>1 DEF FreshRequest
  <2>3. PICK new \in Nat : /\ new = Len(invitations) + 1 /\ new \notin Ids
                           /\ Ids' = Ids \cup {new}
                           /\ invitations'[new].email = old.email
                           /\ \A j \in Ids : invitations'[j] = invitations[j]
    BY <1>11, Inserting, LenProperties DEF IInv, TypeOK
  <2>4. Answered(old.email)
    BY <1>3, <1>11 DEF Insert, FreshRequest
  <2>5. \A j \in Ids : j \in Nat /\ j <= new
    BY <2>3, LenProperties DEF IInv, TypeOK, Ids
  <2>6. ASSUME NEW i \in Ids', invitations'[i].status = "pending",
               NEW j \in Ids', invitations'[j].email = invitations'[i].email
        PROVE  j <= i
    <3>1. CASE i = new
      BY <2>3, <2>5, <3>1
    <3>2. CASE i # new
      <4>1. i \in Ids /\ invitations[i].status = "pending" /\ invitations[i].email # old.email
        BY <2>3, <2>4, <2>6, <3>2 DEF Answered
      <4>2. j \in Ids /\ invitations[j].email = invitations[i].email
        BY <2>3, <2>6, <4>1
      <4>. QED
        BY <4>1, <4>2 DEF PendingIsLatest, IsLatest, InvitationsOf
    <3>. QED
      BY <3>1, <3>2
  <2>7. PendingIsLatest'
    BY <2>6 DEF PendingIsLatest, IsLatest, InvitationsOf
  <2>. QED
    BY <1>4, <2>1, <2>2, <2>7
<1>12. CASE Enqueue(q)
  BY <1>4, <1>5, <1>6, <1>12 DEF Enqueue, Finish
<1>. QED
  BY <1>7, <1>8, <1>9, <1>10, <1>11, <1>12 DEF Continue

LEMMA CronFreshly ==
  ASSUME SInv, MaxBusy = 1, IsFiniteSet(Slots),
         CronStart \/ \E i \in DOMAIN cron : CronSave(i)
  PROVE  FreshParts'
<1>. USE DEF SInv, HInv
<1>1. CASE CronStart
  <2>1. /\ \A q \in Slots : requests'[q] = Idle
        /\ UNCHANGED <<invitations, requests>>
    BY <1>1, NothingBusy DEF CronStart
  <2>2. \A i \in DOMAIN cron' : invitations[i].status = "pending" /\ cron'[i] = "apply"
    BY <1>1, OnlyPendingMoves DEF CronStart
  <2>3. OneAtATime' /\ CronFresh'
    BY <2>1, <2>2 DEF OneAtATime, CronFresh
  <2>4. PendingIsLatest' /\ Fresh'
    BY <2>1 DEF PendingIsLatest, IsLatest, InvitationsOf, Ids, Fresh, FreshRequest, Idle
  <2>. QED
    BY <2>3, <2>4 DEF FreshParts
<1>2. ASSUME NEW i \in DOMAIN cron, CronSave(i)
      PROVE  FreshParts'
  <2>1. i \in Ids /\ SaveInvitation(i, "expired") /\ UNCHANGED requests
    BY <1>2, Graph DEF CronSave, IInv, TypeOK
  <2>2. cron # <<>>
    OBVIOUS
  <2>3. \A q \in Slots : requests[q] = Idle
    BY <2>2 DEF OneAtATime
  <2>4. OneAtATime' /\ Fresh'
    BY <2>1, <2>3 DEF OneAtATime, Fresh, FreshRequest, Idle
  <2>5. /\ RowsStay /\ Ids' = Ids
        /\ \A j \in Ids : j # i => invitations'[j] = invitations[j]
    BY <2>1, SaveStays DEF InvitationStatus
  <2>6. PendingIsLatest' /\ invitations'[i].status = "expired"
    <3>1. CASE cron[i] = "apply"
      BY <2>1, <3>1, LastAnswered DEF CronFresh, InvitationStatus
    <3>2. CASE cron[i] # "apply"
      <4>1. invitations[i].status = "expired"
        BY <3>2 DEF CronFresh
      <4>2. \A j \in Ids : invitations'[j].status = invitations[j].status
        BY <2>1, <4>1, SavedAgain DEF InvitationStatus
      <4>. QED
        BY <2>1, <2>5, <4>1, <4>2, LatestStays
    <3>. QED
      BY <3>1, <3>2
  <2>7. /\ DOMAIN cron' \subseteq DOMAIN cron
        /\ \A j \in DOMAIN cron' : j # i => cron'[j] = cron[j]
        /\ i \in DOMAIN cron' => cron'[i] = "save"
    BY <1>2 DEF CronSave
  <2>8. CronFresh'
    BY <2>5, <2>6, <2>7 DEF CronFresh, IInv, TypeOK
  <2>. QED
    BY <2>4, <2>6, <2>8 DEF FreshParts
<1>. QED
  BY <1>1, <1>2

LEMMA OthersFresh ==
  ASSUME SInv, Surroundings \/ UNCHANGED vars
  PROVE  FreshParts'
<1>. USE DEF SInv, HInv
<1>1. CASE UNCHANGED <<invitations, requests, cron>>
  <2>1. OneAtATime' /\ PendingIsLatest' /\ CronFresh'
    BY <1>1 DEF OneAtATime, PendingIsLatest, IsLatest, InvitationsOf, Ids, CronFresh
  <2>2. Fresh'
    BY <1>1 DEF Fresh, FreshRequest, Answered, Ids
  <2>. QED
    BY <2>1, <2>2 DEF FreshParts
<1>2. ASSUME NEW i \in Ids, Due(i)
      PROVE  FreshParts'
  <2>1. /\ RowsStay /\ Ids' = Ids
        /\ \A j \in Ids : invitations'[j].status = invitations[j].status
    BY <1>2, DueStays
  <2>2. UNCHANGED <<requests, cron>>
    BY <1>2 DEF Due
  <2>3. OneAtATime'
    BY <2>2 DEF OneAtATime
  <2>. QED
    BY <2>1, <2>2, <2>3, StillFresh DEF FreshParts
<1>3. CASE Crash
  <2>1. /\ requests' = [q \in Slots |-> Idle] /\ cron' = <<>> /\ UNCHANGED invitations
    BY <1>3 DEF Crash
  <2>. QED
    BY <2>1 DEF FreshParts, OneAtATime, PendingIsLatest, IsLatest, InvitationsOf, Ids, CronFresh,
                Fresh, FreshRequest, Idle
<1>4. Surroundings => \/ Crash \/ (\E i \in Ids : Due(i)) \/ UNCHANGED <<invitations, requests, cron>>
  BY DEF Surroundings, Register, SweepUnverified, ChangeEmail
<1>. QED
  BY <1>1, <1>2, <1>3, <1>4 DEF vars

LEMMA FreshAlways ==
  ASSUME SInv, MaxBusy = 1, IsFiniteSet(Slots), [Next]_vars
  PROVE  FreshParts'
  BY BeginFresh, ContinueFresh, CronFreshly, OthersFresh DEF Next

-----------------------------------------------------------------------------
(* Statuses *)

(* A status changes from pending to an answer, or not at all. *)
LEMMA StatusMoves ==
  ASSUME SInv, [Next]_vars, NEW i \in Ids
  PROVE  \/ invitations'[i].status = invitations[i].status
         \/ /\ invitations[i].status = "pending"
            /\ invitations'[i].status \in InvitationStatus \ {"pending"}
<1>. USE DEF SInv, HInv
<1>. DEFINE Moves == \/ invitations'[i].status = invitations[i].status
                     \/ /\ invitations[i].status = "pending"
                        /\ invitations'[i].status \in InvitationStatus \ {"pending"}
<1>1. CASE UNCHANGED invitations
  BY <1>1
<1>2. ASSUME NEW j \in Ids, NEW s \in InvitationStatus \ {"pending"}, SaveInvitation(j, s),
             invitations[j].status \in {"pending", s}
      PROVE  Moves
  <2>1. CASE i = j /\ invitations[j].status = "pending"
    BY <1>2, <2>1, LastAnswered
  <2>2. CASE i # j
    BY <1>2, <2>2, SaveStays
  <2>3. CASE invitations[j].status = s
    BY <1>2, <2>3, SavedAgain
  <2>. QED
    BY <1>2, <2>1, <2>2, <2>3
<1>3. ASSUME NEW q \in Slots, ApplySave(q) \/ SaveAgain(q)
      PROVE  Moves
  <2>1. /\ requests[q].id \in Ids /\ requests[q].status \in InvitationStatus
        /\ SaveInvitation(requests[q].id, requests[q].status)
    BY <1>3, Saving
  <2>2. /\ requests[q].status # "pending"
        /\ invitations[requests[q].id].status \in {"pending", requests[q].status}
    BY <1>3 DEF ApplySave, SaveAgain, IInv, SavesAnswers, Fresh, FreshRequest
  <2>. QED
    BY <1>2, <2>1, <2>2
<1>4. ASSUME NEW q \in Slots, Insert(q)
      PROVE  Moves
  BY <1>4, Inserting
<1>5. ASSUME NEW j \in DOMAIN cron, CronSave(j)
      PROVE  Moves
  <2>1. j \in Ids /\ SaveInvitation(j, "expired")
    BY <1>5, Graph DEF CronSave, IInv, TypeOK
  <2>2. invitations[j].status \in {"pending", "expired"}
    BY DEF CronFresh
  <2>. QED
    BY <1>2, <2>1, <2>2 DEF InvitationStatus
<1>6. ASSUME NEW j \in Ids, Due(j)
      PROVE  Moves
  BY <1>6, DueStays
<1>7. UNCHANGED vars => UNCHANGED invitations
  BY DEF vars
<1>. QED
  BY <1>1, <1>3, <1>4, <1>5, <1>6, <1>7, OthersLeaveRows DEF Next, Continue, Surroundings

-----------------------------------------------------------------------------
(* Accounts use their invitation up *)

Spending(k) == \E q \in Slots : /\ requests[q].at = "apply" /\ requests[q].op = "accept"
                               /\ requests[q].id = k
UsedUp(k) == invitations[k].status = "accepted" \/ Spending(k)
Only(k) == \A a, b \in accounts : a.invitation = k /\ b.invitation = k => a = b

LEMMA UsesMeans ==
  AccountUsesInvitation <=>
    (crashes = 0 => \A a \in accounts :
                      a.invitation # 0 => Only(a.invitation) /\ UsedUp(a.invitation))
  BY DEF AccountUsesInvitation, Only, UsedUp, Spending

(* Nothing but its save ends a request that spends an invitation. *)
LEMMA UsedStays ==
  ASSUME SInv, MaxBusy = 1, IsFiniteSet(Slots), [Next]_vars, ~ Crash,
         NEW k \in Ids, UsedUp(k)
  PROVE  UsedUp(k)'
<1>. USE DEF SInv, HInv
<1>1. CASE invitations[k].status = "accepted"
  BY <1>1, StatusMoves DEF UsedUp
<1>2. ASSUME NEW q \in Slots, requests[q].at = "apply", requests[q].op = "accept",
             requests[q].id = k
      PROVE  UsedUp(k)'
  <2>1. requests[q] # Idle
    BY <1>2 DEF Idle
  <2>2. CASE UNCHANGED requests
    BY <1>2, <2>2 DEF UsedUp, Spending
  <2>3. \A p \in Slots : ~ Begin(p)
    BY <2>1, BeginAlone
  <2>4. ASSUME NEW p \in Slots, Continue(p)
        PROVE  UsedUp(k)'
    <3>1. p = q
      BY <2>1, <2>4, ContinueAlone
    <3>2. ApplySave(q)
      BY <1>2, <2>4, <3>1
      DEF Continue, AcceptFind, AcceptCreateUser, SaveAgain, Insert, Enqueue
    <3>3. requests[q].status = "accepted" /\ invitations[k].status = "pending"
      BY <1>2 DEF Fresh, FreshRequest
    <3>4. SaveInvitation(k, "accepted")
      BY <1>2, <3>2, <3>3 DEF ApplySave
    <3>5. invitations'[k].status = "accepted"
      BY <3>3, <3>4, LastAnswered DEF InvitationStatus
    <3>. QED
      BY <3>5 DEF UsedUp
  <2>5. \/ UNCHANGED requests \/ \E p \in Slots : Begin(p) \/ Continue(p)
    BY DEF Next, CronStart, CronSave, Surroundings, Due, Register, SweepUnverified, ChangeEmail, vars
  <2>. QED
    BY <2>2, <2>3, <2>4, <2>5
<1>. QED
  BY <1>1, <1>2 DEF UsedUp, Spending

LEMMA AccountsFresh ==
  ASSUME SInv, MaxBusy = 1, IsFiniteSet(Slots), [Next]_vars
  PROVE  Known' /\ AccountUsesInvitation'
<1>. USE DEF SInv, HInv
<1>1. Ids \subseteq Ids'
  BY RowsAlwaysStay DEF RowsStay
<1>2. crashes \in Nat
  BY BoundsAssumption DEF IInv, TypeOK
<1>3. CASE Crash
  <2>1. crashes' # 0 /\ UNCHANGED accounts
    BY <1>2, <1>3 DEF Crash
  <2>. QED
    BY <1>1, <2>1 DEF Known, AccountUsesInvitation
<1>4. CASE ~ Crash
  <2>1. crashes' = crashes
    BY <1>4 DEF Next, Begin, Continue, Surroundings, InviteValidate, ResendBind, CancelBind,
       AcceptValidate, AcceptFind, AcceptCreateUser, ApplySave, SaveAgain, Insert, Enqueue,
       CronStart, CronSave, Due, Register, SweepUnverified, ChangeEmail, vars
  <2>2. \A k \in Ids : UsedUp(k) => UsedUp(k)'
    BY <1>4, UsedStays
  <2>3. ASSUME \A a \in accounts' : a.invitation # 0 =>
                 \E b \in accounts : b.invitation = a.invitation,
               \A a, b \in accounts' : a.invitation # 0 /\ a.invitation = b.invitation => a = b
                 \/ \E c, d \in accounts : c.invitation = a.invitation /\ d.invitation = a.invitation
                                            /\ c # d
        PROVE  Known' /\ AccountUsesInvitation'
    <3>1. Known'
      BY <1>1, <2>3 DEF Known
    <3>2. ASSUME crashes' = 0, NEW a \in accounts', a.invitation # 0
          PROVE  Only(a.invitation)' /\ UsedUp(a.invitation)'
      <4>1. PICK b \in accounts, k \in Ids : k = b.invitation /\ k = a.invitation
        BY <2>3, <3>2 DEF Known
      <4>2. Only(k) /\ UsedUp(k)
        BY <2>1, <3>2, <4>1, UsesMeans
      <4>3. Only(k)' /\ UsedUp(k)'
        BY <2>2, <2>3, <3>2, <4>1, <4>2 DEF Only
      <4>. QED
        BY <4>1, <4>3 DEF Only, UsedUp, Spending
    <3>. QED
      BY <3>1, <3>2 DEF AccountUsesInvitation, Only, UsedUp, Spending
  <2>4. CASE UNCHANGED accounts
    BY <2>3, <2>4
  <2>5. ASSUME NEW email \in Emails, Register(email)
        PROVE  Known' /\ AccountUsesInvitation'
    <3>1. PICK new : new.invitation = 0 /\ accounts' = accounts \cup {new}
      BY <2>5 DEF Register
    <3>. QED
      BY <2>3, <3>1
  <2>6. ASSUME NEW account \in accounts, SweepUnverified(account)
        PROVE  Known' /\ AccountUsesInvitation'
    BY <2>3, <2>6 DEF SweepUnverified
  <2>7. ASSUME NEW account \in accounts, NEW email \in Emails, ChangeEmail(account, email)
        PROVE  Known' /\ AccountUsesInvitation'
    <3>1. PICK moved : moved = [account EXCEPT !.email = email]
      OBVIOUS
    <3>2. moved.invitation = account.invitation
      BY <3>1 DEF IInv, TypeOK, Account
    <3>3. accounts' = (accounts \ {account}) \cup {moved}
      BY <2>7, <3>1 DEF ChangeEmail
    <3>. QED
      BY <2>3, <3>2, <3>3
  <2>8. ASSUME NEW q \in Slots, AcceptCreateUser(q)
        PROVE  Known' /\ AccountUsesInvitation'
    <3>1. PICK old \in Request : old = requests[q]
      BY <2>8, BusySlot DEF AcceptCreateUser, IInv, TypeOK, Steps
    <3>2. /\ old.at = "createUser" /\ old.id \in Ids /\ old.id # 0
          /\ old.status = "pending" /\ old.op = "accept"
          /\ invitations[old.id].status = "pending"
      BY <2>8, <3>1, RowsOfIds DEF AcceptCreateUser, IInv, TypeOK, Fresh, FreshRequest
    <3>. PICK k \in Ids : k = old.id
      BY <3>2
    <3>3. crashes = 0 => \A a \in accounts : a.invitation # k
      <4>1. ~ Spending(k)
        BY <3>1, <3>2 DEF Spending, OneAtATime, Idle
      <4>2. ~ UsedUp(k)
        BY <3>2, <4>1 DEF UsedUp
      <4>. QED
        BY <3>2, <4>2, UsesMeans
    <3>4. CASE ~ UNCHANGED accounts
      <4>1. PICK new : new = [email |-> old.email, role |-> old.role, invitation |-> k]
        OBVIOUS
      <4>2. PICK r : r = [old EXCEPT !.at = "apply", !.status = "accepted"]
        OBVIOUS
      <4>3. accounts' = accounts \cup {new} /\ new.invitation = k
        BY <2>8, <3>1, <3>4, <4>1 DEF AcceptCreateUser
      <4>4. CanApply(InvitationGraph, "acceptance", old.status)
        BY <3>2 DEF CanApply, InvitationGraph
      <4>5. Serve(q, r)
        BY <2>8, <3>1, <3>4, <4>2, <4>4, Graph DEF AcceptCreateUser
      <4>6. r \in Request /\ r.at = "apply" /\ r.op = "accept" /\ r.id = k
        BY <3>2, <4>2 DEF Request, Steps, InvitationStatus
      <4>7. requests'[q] = r
        BY <4>5 DEF Serve, IInv, TypeOK
      <4>8. UsedUp(k)'
        BY <4>6, <4>7 DEF UsedUp, Spending
      <4>9. Known'
        BY <1>1, <4>3 DEF Known
      <4>10. ASSUME crashes' = 0, NEW a \in accounts', a.invitation # 0
             PROVE  Only(a.invitation)' /\ UsedUp(a.invitation)'
        <5>1. CASE a.invitation = k
          BY <2>1, <3>3, <4>3, <4>8, <4>10, <5>1 DEF Only, UsedUp, Spending
        <5>2. CASE a.invitation # k
          <6>1. PICK j \in Ids : a \in accounts /\ j = a.invitation
            BY <4>3, <4>10, <5>2 DEF Known
          <6>2. Only(j) /\ UsedUp(j)
            BY <2>1, <4>10, <6>1, UsesMeans
          <6>3. Only(j)' /\ UsedUp(j)'
            BY <2>2, <4>3, <5>2, <6>1, <6>2 DEF Only
          <6>. QED
            BY <6>1, <6>3 DEF Only, UsedUp, Spending
        <5>. QED
          BY <5>1, <5>2
      <4>. QED
        BY <4>9, <4>10 DEF AccountUsesInvitation, Only, UsedUp, Spending
    <3>. QED
      BY <2>4, <3>4
  <2>9. \/ UNCHANGED accounts
        \/ \E q \in Slots : AcceptCreateUser(q)
        \/ \E email \in Emails : Register(email)
        \/ \E account \in accounts : SweepUnverified(account)
        \/ \E account \in accounts, email \in Emails : ChangeEmail(account, email)
    BY <1>4 DEF Next, Begin, Continue, Surroundings, InviteValidate, ResendBind, CancelBind,
       AcceptValidate, AcceptFind, ApplySave, SaveAgain, Insert, Enqueue,
       CronStart, CronSave, Due, vars
  <2>. QED
    BY <2>4, <2>5, <2>6, <2>7, <2>8, <2>9
<1>. QED
  BY <1>3, <1>4

-----------------------------------------------------------------------------
(* Theorems *)

LEMMA SInvHolds ==
  ASSUME MaxBusy = 1, IsFiniteSet(Slots)
  PROVE  Spec => []SInv
<1>1. Init => SInv
  <2>. SUFFICES ASSUME Init
                PROVE  SInv
    OBVIOUS
  <2>1. OneAtATime /\ PendingIsLatest /\ CronFresh /\ Known /\ AccountUsesInvitation
    BY DEF Init, OneAtATime, PendingIsLatest, Ids, CronFresh, Known, AccountUsesInvitation
  <2>2. Fresh
    BY DEF Init, Fresh, FreshRequest, Idle
  <2>. QED
    BY <2>1, <2>2, HInvInit DEF SInv
<1>2. SInv /\ [Next]_vars => SInv'
  BY FreshAlways, AccountsFresh, HInvNext DEF SInv, FreshParts
<1>. QED
  BY <1>1, <1>2, PTL DEF Spec

(* One request at a time, an address never has two invitations that can be      *)
(* accepted.                                                                    *)
THEOREM OnePendingAtMost ==
  ASSUME MaxBusy = 1, IsFiniteSet(Slots)
  PROVE  Spec => []AtMostOnePending
<1>1. SInv => AtMostOnePending
  <2>. SUFFICES ASSUME SInv, NEW i \in Ids, NEW j \in Ids,
                       invitations[i].email = invitations[j].email,
                       invitations[i].status = "pending", invitations[j].status = "pending"
                PROVE  i = j
    BY DEF AtMostOnePending
  <2>1. i \in Nat /\ j \in Nat
    BY RowsOfIds DEF SInv, HInv, IInv, TypeOK
  <2>2. i <= j /\ j <= i
    BY DEF SInv, PendingIsLatest, IsLatest, InvitationsOf
  <2>. QED
    BY <2>1, <2>2
<1>. QED
  BY <1>1, SInvHolds, PTL

(* One request at a time and without a restart, who came by an invitation is    *)
(* the only one, and the invitation is accepted or about to be.                 *)
THEOREM InvitationsAreUsedUp ==
  ASSUME MaxBusy = 1, IsFiniteSet(Slots)
  PROVE  Spec => []AccountUsesInvitation
<1>1. SInv => AccountUsesInvitation
  BY DEF SInv
<1>. QED
  BY <1>1, SInvHolds, PTL

(* One request at a time, a stored status moves only along the graph's edges.   *)
THEOREM GraphIsFollowed ==
  ASSUME MaxBusy = 1, IsFiniteSet(Slots)
  PROVE  Spec => StatusFollowsGraph
<1>1. \A s \in InvitationStatus \ {"pending"} : <<"pending", s>> \in Edges(InvitationGraph)
  <2>1. Edges(InvitationGraph) = UNION {InvitationGraph[t].from \X {InvitationGraph[t].to} :
                                          t \in {"acceptance", "expiration", "cancellation"}}
    BY DEF Edges, InvitationGraph
  <2>2. ASSUME NEW t \in {"acceptance", "expiration", "cancellation"}
        PROVE  <<"pending", InvitationGraph[t].to>> \in Edges(InvitationGraph)
    <3>1. "pending" \in InvitationGraph[t].from
      BY DEF InvitationGraph
    <3>. QED
      BY <2>1, <3>1
  <2>. QED
    BY <2>2, Graph DEF InvitationStatus
<1>2. ASSUME SInv, [Next]_vars, NEW i \in Ids
      PROVE  \/ invitations[i].status = invitations'[i].status
             \/ <<invitations[i].status, invitations'[i].status>> \in Edges(InvitationGraph)
  BY <1>1, <1>2, StatusMoves
<1>3. SInv /\ [Next]_vars =>
        [\A i \in Ids : LET old == invitations[i].status
                            new == invitations'[i].status
                        IN old = new \/ <<old, new>> \in Edges(InvitationGraph)]_vars
  BY <1>2
<1>. QED
  BY <1>3, SInvHolds, PTL DEF Spec, StatusFollowsGraph
=============================================================================
