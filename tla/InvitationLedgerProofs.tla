------------------------ MODULE InvitationLedgerProofs ------------------------
(***************************************************************************)
(* Invitations implements InvitationLedger: a step of the module is a step *)
(* of the ledger or leaves it as it is.                                    *)
(***************************************************************************)
EXTENDS InvitationsProofs

(* The ledger the state of Invitations stands for. *)
Book == [i \in Ids |-> Answer(invitations[i].status)]
Members == {a.invitation : a \in accounts} \ {0}

LEMMA Answering ==
  /\ Answer("pending") = "open"
  /\ Answer("accepted") = "accepted"
  /\ Answer("expired") = "withdrawn"
  /\ Answer("cancelled") = "withdrawn"
  BY DEF Answer

LEMMA BookIsSeq ==
  ASSUME invitations \in Seq(Row)
  PROVE  /\ Book \in Seq({"open", "accepted", "withdrawn"})
         /\ Len(Book) = Len(invitations)
         /\ DOMAIN Book = Ids
<1>1. Ids = 1..Len(invitations) /\ Len(invitations) \in Nat
  BY LenProperties DEF Ids
<1>2. Book \in [1..Len(invitations) -> {"open", "accepted", "withdrawn"}]
  <2>1. \A i \in Ids : Answer(invitations[i].status) \in {"open", "accepted", "withdrawn"}
    BY RowsOfIds, Answering DEF Row, InvitationStatus
  <2>. QED
    BY <1>1, <2>1 DEF Book
<1>. QED
  BY <1>1, <1>2

(* A step that keeps every status and every membership leaves the ledger alone. *)
LEMMA LedgerStutters ==
  ASSUME Ids' = Ids, Members' = Members,
         \A i \in Ids : invitations'[i].status = invitations[i].status
  PROVE  UNCHANGED <<Book, Members>>
  BY DEF Book

(* Saving an answer enters it into the ledger; the row's ledger entry alone     *)
(* changes.                                                                     *)
LEMMA SaveEnters ==
  ASSUME IInv, NEW i \in Ids, NEW s \in InvitationStatus \ {"pending"},
         SaveInvitation(i, s), UNCHANGED accounts,
         s = "accepted" => \E a \in accounts : a.invitation = i
  PROVE  Ledger!LedgerNext
<1>1. /\ Ids' = Ids
      /\ invitations'[i] = [invitations[i] EXCEPT !.status = s, !.due = TRUE]
      /\ \A j \in Ids : j # i => invitations'[j] = invitations[j]
  BY SaveChangesOneRow DEF IInv, TypeOK
<1>2. invitations[i] \in Row /\ i # 0
  BY RowsOfIds DEF IInv, TypeOK
<1>3. invitations'[i].status = s
  BY <1>1, <1>2 DEF Row
<1>4. Book' = [Book EXCEPT ![i] = Answer(s)]
  BY <1>1, <1>3 DEF Book
<1>5. Members' = Members /\ DOMAIN Book = Ids
  BY DEF Members, Book
<1>6. CASE s = "accepted"
  <2>1. i \in Members
    BY <1>2, <1>6 DEF Members
  <2>2. Ledger!Accept(i)
    BY <1>4, <1>5, <1>6, <2>1, Answering DEF Ledger!Accept, Book, Members
  <2>. QED
    BY <1>5, <2>2 DEF Ledger!LedgerNext, Book
<1>7. CASE s # "accepted"
  <2>1. Answer(s) = "withdrawn"
    BY <1>7, Answering DEF InvitationStatus
  <2>2. Ledger!Withdraw(i)
    BY <1>4, <1>5, <2>1 DEF Ledger!Withdraw, Book, Members
  <2>. QED
    BY <1>5, <2>2 DEF Ledger!LedgerNext, Book
<1>. QED
  BY <1>6, <1>7

(* An inserted row is a new, open entry at the end of the ledger. *)
LEMMA InsertIssues ==
  ASSUME IInv, NEW q \in Slots, Insert(q)
  PROVE  Ledger!LedgerNext
<1>. USE DEF IInv, TypeOK
<1>. DEFINE new == [email |-> requests[q].email, role |-> requests[q].role,
                    status |-> "pending", due |-> FALSE]
            n == Len(invitations) + 1
<1>1. new \in Row /\ new.status = "pending"
  BY BusySlot DEF Insert, Steps, Request, Row, InvitationStatus
<1>2. invitations' = Append(invitations, new) /\ UNCHANGED accounts
  BY DEF Insert
<1>. HIDE DEF new
<1>3. /\ invitations' \in Seq(Row)
      /\ Ids' = Ids \cup {n}
      /\ n \notin Ids
      /\ invitations'[n] = new
      /\ \A j \in Ids : invitations'[j] = invitations[j]
  BY <1>1, <1>2, InsertAppendsRow
<1>4. Len(invitations') = n /\ Len(invitations) \in Nat /\ Ids = 1..Len(invitations)
  BY <1>1, <1>2, AppendProperties, LenProperties DEF Ids
<1>. DEFINE A == {"open", "accepted", "withdrawn"}
<1>5. Book \in Seq(A) /\ Len(Book) = Len(invitations) /\ Book' \in Seq(A) /\ Len(Book') = n
  <2>1. Book \in Seq(A) /\ Len(Book) = Len(invitations)
    BY BookIsSeq
  <2>2. Book' \in [1..n -> A]
    <3>1. Ids' = 1..n
      BY <1>3, <1>4
    <3>2. \A i \in Ids' : invitations'[i] \in Row
      BY <1>3, <1>4, <3>1, ElementOfSeq
    <3>3. \A i \in Ids' : Answer(invitations'[i].status) \in A
      BY <3>2, Answering DEF Row, InvitationStatus
    <3>. QED
      BY <3>1, <3>3 DEF Book
  <2>3. n \in Nat
    BY <1>4
  <2>. QED
    BY <2>1, <2>2, <2>3
<1>6. \A i \in Ids : Book'[i] = Book[i]
  BY <1>3 DEF Book
<1>7. Book'[n] = "open"
  BY <1>1, <1>3, Answering DEF Book
<1>8. Book' = Append(Book, "open")
  <2>1. /\ Append(Book, "open") \in Seq(A)
        /\ Len(Append(Book, "open")) = n
        /\ \A i \in 1..Len(Book) : Append(Book, "open")[i] = Book[i]
        /\ Append(Book, "open")[n] = "open"
    BY <1>5, AppendProperties, "open" \in A
  <2>2. \A i \in 1..n : Book'[i] = Append(Book, "open")[i]
    BY <1>4, <1>5, <1>6, <1>7, <2>1
  <2>. HIDE DEF A, n
  <2>. QED
    BY <1>5, <2>1, <2>2, SeqEqual
<1>9. Ledger!Issue
  BY <1>2, <1>8 DEF Ledger!Issue, Book, Members
<1>. QED
  BY <1>9 DEF Ledger!LedgerNext

(* Creating the account admits the invitation's holder to the ledger. *)
LEMMA CreateUserAdmits ==
  ASSUME IInv, NEW q \in Slots, AcceptCreateUser(q)
  PROVE  Ledger!LedgerNext \/ UNCHANGED <<Book, Members>>
<1>. USE DEF IInv, TypeOK
<1>. DEFINE r == requests[q]
            new == [email |-> r.email, role |-> r.role, invitation |-> r.id]
<1>1. r.id \in Ids /\ Ids' = Ids /\ UNCHANGED invitations
  BY DEF AcceptCreateUser, Ids
<1>2. r.id # 0
  BY <1>1, RowsOfIds
<1>3. CASE UNCHANGED accounts
  <2>1. Members' = Members
    BY <1>3 DEF Members
  <2>. QED
    BY <1>1, <2>1, LedgerStutters
<1>4. CASE accounts' = accounts \cup {new}
  <2>1. new.invitation = r.id
    OBVIOUS
  <2>. HIDE DEF new, r
  <2>2. Members' = Members \cup {r.id}
    BY <1>2, <1>4, <2>1 DEF Members
  <2>3. Book' = Book
    BY <1>1 DEF Book
  <2>4. PICK i \in Ids : i = r.id
    BY <1>1
  <2>5. Ledger!Admit(i)
    BY <2>2, <2>3, <2>4 DEF Ledger!Admit, Book, Members
  <2>. QED
    BY <2>5 DEF Ledger!LedgerNext
<1>. QED
  BY <1>3, <1>4 DEF AcceptCreateUser

(* Time and the life of accounts outside invitations do not show in the ledger. *)
LEMMA SurroundingsStutter ==
  ASSUME IInv, Surroundings
  PROVE  UNCHANGED <<Book, Members>>
<1>. USE DEF IInv, TypeOK
<1>1. ASSUME NEW i \in Ids, Due(i)
      PROVE  UNCHANGED <<Book, Members>>
  <2>1. invitations[i] \in Row
    BY RowsOfIds
  <2>. DEFINE new == [invitations[i] EXCEPT !.due = TRUE]
  <2>2. new.status = invitations[i].status
    BY <2>1 DEF Row
  <2>3. invitations' = [invitations EXCEPT ![i] = new]
    BY <1>1 DEF Due
  <2>. HIDE DEF new
  <2>4. Ids' = Ids /\ \A j \in Ids : invitations'[j].status = invitations[j].status
    BY <2>2, <2>3 DEF Ids
  <2>5. Members' = Members
    BY <1>1 DEF Due, Members
  <2>. QED
    BY <2>4, <2>5, LedgerStutters
<1>2. ASSUME \/ \E email \in Emails : Register(email)
             \/ \E account \in accounts : SweepUnverified(account)
             \/ \E account \in accounts, email \in Emails : ChangeEmail(account, email)
             \/ Crash
      PROVE  UNCHANGED <<Book, Members>>
  <2>1. UNCHANGED invitations /\ Ids' = Ids
    BY <1>2 DEF Register, SweepUnverified, ChangeEmail, Crash, Ids
  <2>2. Members' = Members
    <3>1. CASE \E email \in Emails : Register(email)
      BY <3>1 DEF Register, Members
    <3>2. CASE \E account \in accounts : SweepUnverified(account)
      BY <3>2 DEF SweepUnverified, Members
    <3>3. ASSUME NEW account \in accounts, NEW email \in Emails, ChangeEmail(account, email)
          PROVE  Members' = Members
      <4>. DEFINE moved == [account EXCEPT !.email = email]
      <4>1. moved.invitation = account.invitation
        BY DEF Account
      <4>. HIDE DEF moved
      <4>2. accounts' = (accounts \ {account}) \cup {moved}
        BY <3>3 DEF ChangeEmail, moved
      <4>. QED
        BY <4>1, <4>2 DEF Members
    <3>4. CASE Crash
      BY <3>4 DEF Crash, Members
    <3>. QED
      BY <1>2, <3>1, <3>2, <3>3, <3>4
  <2>. QED
    BY <2>1, <2>2, LedgerStutters
<1>. QED
  BY <1>1, <1>2 DEF Surroundings

(* Every step of the module is a step of the ledger or leaves it alone. *)
LEMMA StepsOfLedger ==
  ASSUME IInv, [Next]_vars
  PROVE  [Ledger!LedgerNext]_(<<Book, Members>>)
<1>1. ASSUME UNCHANGED <<invitations, accounts>>
      PROVE  UNCHANGED <<Book, Members>>
  BY <1>1 DEF Book, Members, Ids
<1>2. CASE UNCHANGED vars
  BY <1>1, <1>2 DEF vars
<1>3. ASSUME NEW q \in Slots, Begin(q) \/ AcceptFind(q) \/ Enqueue(q)
      PROVE  UNCHANGED <<Book, Members>>
  BY <1>1, <1>3
  DEF Begin, InviteValidate, ResendBind, CancelBind, AcceptValidate, AcceptFind, Enqueue
<1>4. ASSUME NEW q \in Slots, ApplySave(q) \/ SaveAgain(q)
      PROVE  Ledger!LedgerNext
  <2>. DEFINE r == requests[q]
  <2>1. /\ r.at \in {"apply", "save"} /\ r \in Request /\ r.id \in Ids
        /\ r.status \in InvitationStatus \ {"pending"}
        /\ r.status = "accepted" => \E a \in accounts : a.invitation = r.id
        /\ SaveInvitation(r.id, r.status) /\ UNCHANGED accounts
    BY <1>4, BusySlot DEF ApplySave, SaveAgain, Steps, IInv, TypeOK, SavesAnswers, Request
  <2>. QED
    BY <2>1, SaveEnters
<1>5. ASSUME NEW i \in DOMAIN cron, CronSave(i)
      PROVE  Ledger!LedgerNext
  <2>1. i \in Ids /\ SaveInvitation(i, "expired") /\ UNCHANGED accounts
    BY <1>5, Graph DEF CronSave, IInv, TypeOK
  <2>. QED
    BY <2>1, SaveEnters DEF InvitationStatus
<1>6. CASE CronStart
  BY <1>1, <1>6 DEF CronStart
<1>7. CASE Next
  BY <1>3, <1>4, <1>5, <1>6, <1>7, InsertIssues, CreateUserAdmits, SurroundingsStutter
  DEF Next, Continue
<1>. QED
  BY <1>2, <1>7

LEMMA LedgerStarts == Init => Ledger!LedgerInit
<1>1. SUFFICES ASSUME Init PROVE Ledger!LedgerInit
  OBVIOUS
<1>2. Ids = {}
  BY <1>1 DEF Init, Ids
<1>3. Book = <<>> /\ Members = {}
  BY <1>1, <1>2 DEF Init, Book, Members
<1>. QED
  BY <1>3 DEF Ledger!LedgerInit, Book, Members

(* The module implements the ledger: an answered invitation never reopens, and  *)
(* it reads accepted only for a member, under every interleaving of requests,   *)
(* job and restarts.                                                            *)
THEOREM LedgerKept == Spec => KeepsLedger
<1>1. Init => Ledger!LedgerInit
  BY LedgerStarts
<1>2. IInv /\ [Next]_vars => [Ledger!LedgerNext]_(Ledger!ledger)
  BY StepsOfLedger DEF Ledger!ledger, Book, Members
<1>. QED
  BY <1>1, <1>2, Inductive, PTL DEF Spec, KeepsLedger, Ledger!LedgerSpec
=============================================================================
