--------------------------- MODULE AccountsProofs ---------------------------
(***************************************************************************)
(* Proofs about Accounts, for any sets of users and slots and any bounds:  *)
(* its type correctness, that nobody reads as verified without a used      *)
(* token or is deleted who should not be, and, when nothing overlaps, that *)
(* Accounts implements AccountBook and that stored passwords open.         *)
(***************************************************************************)
EXTENDS Accounts, TLAPS, SequenceTheorems, FiniteSetTheorems

-----------------------------------------------------------------------------
(* The inductive invariant, variable by variable *)

RowsOK ==
  /\ Ids \subseteq Users
  /\ users \in [Ids -> Row]
  /\ aged \subseteq Ids
  /\ VerifiedByToken

TokensOK ==
  /\ tokens \in Seq(Token)
  /\ \A i \in TokenIds : tokens[i].user \in Ids

(* What a request has in memory is of its type, names a user and a token that  *)
(* exist, and an entity it is going to save is verified only if a token was    *)
(* used up, or is about to be by this very request.                            *)
GoodRequest(r) ==
  r # Idle =>
    /\ r.user \in Ids
    /\ r.at \in {"issue", "find", "spend"} => r.op \in {"verify", "reset"}
    /\ r.at \in {"find", "spend"} =>
         /\ r.token \in TokenIds
         /\ tokens[r.token].user = r.user
         /\ tokens[r.token].type = r.op
    /\ r.at \in {"spend", "select", "update"} /\ r.user \notin Invited /\ r.entity.verified
         => UsedToken(r.user) \/ (r.at = "spend" /\ r.op = "verify")

RequestsOK ==
  /\ requests \in [Slots -> Request \cup {Idle}]
  /\ \A q \in Slots : GoodRequest(requests[q])

(* The sweep saves only copies of users who were not verified. *)
SweepOK ==
  sweep # Idle =>
    \E found \in SUBSET Ids :
      /\ sweep \in [at : {"select", "update"}, entities : [found -> Row],
                    changed : [found -> SUBSET Columns]]
      /\ \A u \in found : ~ sweep.entities[u].verified

CountersOK == passwords \in Nat \ {0} /\ crashes \in 0..MaxCrashes

IInv == RowsOK /\ TokensOK /\ RequestsOK /\ SweepOK /\ CountersOK

(* The invariant implies the two properties. *)
LEMMA IInvImplies == IInv => TypeOK /\ VerifiedByToken
<1>. SUFFICES ASSUME IInv
              PROVE  TypeOK /\ VerifiedByToken
  OBVIOUS
<1>1. \A q \in Slots : requests[q] # Idle =>
        /\ requests[q].user \in Ids
        /\ requests[q].at \in {"issue", "find", "spend"} => requests[q].op \in {"verify", "reset"}
        /\ requests[q].at \in {"find", "spend"} => requests[q].token \in TokenIds
  BY DEF IInv, RequestsOK, GoodRequest
<1>2. sweep # Idle =>
        \E found \in SUBSET Ids :
          sweep \in [at : {"select", "update"}, entities : [found -> Row],
                    changed : [found -> SUBSET Columns]]
  BY DEF IInv, SweepOK
<1>. QED
  BY <1>1, <1>2 DEF IInv, RowsOK, TokensOK, RequestsOK, CountersOK, TypeOK

-----------------------------------------------------------------------------
(* What steps do to the tokens *)

(* Tokens are never taken back: who they are for stays, and a used one stays used. *)
TokensGrow ==
  /\ TokenIds \subseteq TokenIds'
  /\ \A i \in TokenIds : /\ tokens'[i].user = tokens[i].user
                         /\ tokens'[i].type = tokens[i].type
                         /\ tokens[i].state = "used" => tokens'[i] = tokens[i]

LEMMA TokensStay == UNCHANGED tokens => TokensGrow
  BY DEF TokensGrow, TokenIds

LEMMA UsedTokensStay == ASSUME TokensGrow, NEW u, UsedToken(u)  PROVE  UsedToken(u)'
<1>1. PICK i \in TokenIds : tokens[i] = [user |-> u, type |-> "verify", state |-> "used"]
  BY DEF UsedToken
<1>2. i \in TokenIds' /\ tokens'[i] = tokens[i]
  BY <1>1 DEF TokensGrow
<1>. QED
  BY <1>1, <1>2 DEF UsedToken

(* A request stays good while users and tokens are only added to. *)
LEMMA GoodStays ==
  ASSUME TokensGrow, Ids \subseteq Ids', NEW r, GoodRequest(r)
  PROVE  (GoodRequest(r))'
<1>. SUFFICES ASSUME r # Idle
              PROVE  (GoodRequest(r))'
  BY DEF GoodRequest
<1>1. r.at \in {"find", "spend"} =>
        r.token \in TokenIds' /\ tokens'[r.token].user = r.user /\ tokens'[r.token].type = r.op
  BY DEF GoodRequest, TokensGrow
<1>2. UsedToken(r.user) => UsedToken(r.user)'
  BY UsedTokensStay
<1>. QED
  BY <1>1, <1>2 DEF GoodRequest

LEMMA ServeKeepsRequests ==
  ASSUME RequestsOK, TokensGrow, Ids \subseteq Ids', NEW q \in Slots,
         NEW r \in Request \cup {Idle}, (GoodRequest(r))', Serve(q, r)
  PROVE  RequestsOK'
<1>1. requests' = [requests EXCEPT ![q] = r]
  BY DEF Serve
<1>2. requests' \in [Slots -> Request \cup {Idle}]
  BY <1>1 DEF RequestsOK
<1>3. ASSUME NEW p \in Slots
      PROVE  (GoodRequest(requests[p]))'
  <2>1. CASE p = q
    <3>1. requests'[p] = r
      BY <1>1, <2>1 DEF RequestsOK
    <3>. QED
      BY <3>1
  <2>2. CASE p # q
    <3>1. requests'[p] = requests[p]
      BY <1>1, <2>2 DEF RequestsOK
    <3>2. (GoodRequest(requests[p]))'
      BY <3>1, GoodStays DEF RequestsOK
    <3>. QED
      BY <3>2
  <2>. QED
    BY <2>1, <2>2
<1>. QED
  BY <1>2, <1>3 DEF RequestsOK

-----------------------------------------------------------------------------
(* What steps leave alone *)

LEMMA RowsStay ==
  ASSUME RowsOK, TokensGrow, UNCHANGED users, aged' \subseteq Ids'
  PROVE  RowsOK' /\ Ids' = Ids
<1>1. Ids' = Ids
  BY DEF Ids
<1>2. VerifiedByToken'
  <2>. SUFFICES ASSUME NEW u \in Ids' \ Invited, users'[u].verified
                PROVE  UsedToken(u)'
    BY DEF VerifiedByToken
  <2>. QED
    BY <1>1, UsedTokensStay DEF RowsOK, VerifiedByToken
<1>. QED
  BY <1>1, <1>2 DEF RowsOK

LEMMA TokensOKStays ==
  ASSUME TokensOK, UNCHANGED tokens, Ids \subseteq Ids'
  PROVE  TokensOK'
  BY DEF TokensOK, TokenIds

LEMMA SweepStays ==
  ASSUME SweepOK, UNCHANGED sweep, Ids \subseteq Ids'
  PROVE  SweepOK'
  BY DEF SweepOK

(* A step that only changes what one slot has in memory. *)
LEMMA ServePreserves ==
  ASSUME IInv, NEW q \in Slots, NEW r \in Request \cup {Idle}, GoodRequest(r), Serve(q, r),
         UNCHANGED <<users, aged, tokens, sweep, crashes>>, passwords' \in Nat \ {0}
  PROVE  IInv'
<1>1. TokensGrow
  BY TokensStay
<1>2. RowsOK' /\ Ids' = Ids
  BY <1>1, RowsStay DEF IInv, RowsOK, Ids
<1>3. RequestsOK'
  BY <1>1, <1>2, GoodStays, ServeKeepsRequests DEF IInv
<1>4. TokensOK' /\ SweepOK'
  BY <1>2, TokensOKStays, SweepStays DEF IInv
<1>. QED
  BY <1>2, <1>3, <1>4 DEF IInv, CountersOK

-----------------------------------------------------------------------------
(* Rows and requests *)

LEMMA NewRowType ==
  ASSUME NEW verified \in BOOLEAN
  PROVE  NewRow(verified) \in Row /\ NewRow(verified).verified = verified
  BY DEF NewRow, Row, UserStatus

LEMMA StartType ==
  ASSUME NEW op \in Ops, NEW at \in Steps, NEW u \in Users, NEW i \in Nat, NEW entity \in Row
  PROVE  /\ Start(op, at, u, i, entity) \in Request
         /\ Start(op, at, u, i, entity).op = op
         /\ Start(op, at, u, i, entity).at = at
         /\ Start(op, at, u, i, entity).user = u
         /\ Start(op, at, u, i, entity).token = i
         /\ Start(op, at, u, i, entity).entity = entity
  BY DEF Start, Request

LEMMA StartSaves ==
  ASSUME NEW op, NEW at, NEW u, NEW i, NEW entity
  PROVE  Start(op, at, u, i, entity).saves = IF op \in {"activate", "suspend"} THEN 2 ELSE 1
  BY DEF Start

(* The request that has loaded no user yet. *)
LEMMA StartUnread ==
  ASSUME NEW op \in {"verify", "reset"}, NEW at \in {"issue", "find"},
         NEW u \in Users, NEW i \in Nat
  PROVE  \E r \in Request : /\ r = Start(op, at, u, i, Unread)
                            /\ r.op = op /\ r.at = at /\ r.user = u /\ r.token = i
                            /\ r.saves = 1
<1>1. Unread \in Row
  BY NewRowType DEF Unread
<1>2. op \in Ops /\ at \in Steps
  BY DEF Ops, Steps
<1>. QED
  BY <1>1, <1>2, StartType, StartSaves

(* A request that is not idle is a request of the model's type. *)
LEMMA BusySlot ==
  ASSUME RequestsOK, NEW q \in Slots, requests[q].at \in Steps
  PROVE  requests[q] \in Request /\ requests[q] # Idle /\ GoodRequest(requests[q])
  BY DEF RequestsOK, Idle, Steps

LEMMA FoundRow ==
  ASSUME RowsOK, NEW u \in Ids
  PROVE  /\ u \in Users
         /\ users[u] \in Row
         /\ u \notin Invited /\ users[u].verified => UsedToken(u)
  BY DEF RowsOK, VerifiedByToken

(* What a save leaves is a row, verified only if the row or the copy was. *)
LEMMA WrittenRow ==
  ASSUME NEW row \in Row, NEW entity \in Row, NEW changed \in SUBSET Columns, NEW hash \in Nat
  PROVE  LET written == Written(row, entity, changed, hash)
         IN written \in Row /\ (written.verified => row.verified \/ entity.verified)
  BY DEF Written, Row, Columns

LEMMA InsertRow ==
  ASSUME RowsOK, NEW u \in Users \ Ids, NEW verified \in BOOLEAN, verified => u \in Invited,
         users' = [v \in Ids \cup {u} |-> IF v = u THEN NewRow(verified) ELSE users[v]],
         UNCHANGED <<aged, tokens>>
  PROVE  RowsOK' /\ Ids' = Ids \cup {u}
<1>1. Ids' = Ids \cup {u}
  BY DEF Ids
<1>2. users' \in [Ids' -> Row]
  BY <1>1, NewRowType DEF RowsOK
<1>3. ASSUME NEW v \in Ids' \ Invited, users'[v].verified
      PROVE  UsedToken(v)'
  <2>1. v \in Ids /\ users'[v] = users[v]
    BY <1>1, <1>3, NewRowType
  <2>2. UsedToken(v)
    BY <1>3, <2>1 DEF RowsOK, VerifiedByToken
  <2>. QED
    BY <2>2, TokensStay, UsedTokensStay
<1>. QED
  BY <1>1, <1>2, <1>3 DEF RowsOK, VerifiedByToken

LEMMA SaveRow ==
  ASSUME RowsOK, NEW u \in Ids, NEW row \in Row,
         u \notin Invited /\ row.verified => UsedToken(u),
         users' = [users EXCEPT ![u] = row], UNCHANGED <<aged, tokens>>
  PROVE  RowsOK' /\ Ids' = Ids
<1>1. Ids' = Ids /\ users' \in [Ids' -> Row]
  BY DEF RowsOK, Ids
<1>2. ASSUME NEW v \in Ids' \ Invited, users'[v].verified
      PROVE  UsedToken(v)'
  <2>1. UsedToken(v)
    BY <1>1, <1>2 DEF RowsOK, VerifiedByToken
  <2>. QED
    BY <2>1, TokensStay, UsedTokensStay
<1>. QED
  BY <1>1, <1>2 DEF RowsOK, VerifiedByToken

-----------------------------------------------------------------------------
(* The initial state *)

LEMMA InitIInv == Init => IInv
<1>. SUFFICES ASSUME Init
              PROVE  IInv
  OBVIOUS
<1>1. Ids = {} /\ users \in [Ids -> Row]
  BY DEF Init, Ids
<1>2. TokensOK
  BY EmptySeq DEF Init, TokensOK, TokenIds
<1>3. RequestsOK
  BY DEF Init, RequestsOK, GoodRequest
<1>4. CountersOK
  BY LimitsAssumption DEF Init, CountersOK
<1>. QED
  BY <1>1, <1>2, <1>3, <1>4 DEF Init, IInv, RowsOK, VerifiedByToken, SweepOK

-----------------------------------------------------------------------------
(* Requests *)

LEMMA RegisterPreserves == ASSUME IInv, NEW q \in Slots, Register(q)  PROVE  IInv'
<1>1. PICK u \in Users \ (Invited \cup Ids) :
        /\ users' = [v \in Ids \cup {u} |-> IF v = u THEN NewRow(FALSE) ELSE users[v]]
        /\ Serve(q, Start("verify", "issue", u, 0, Unread))
  BY DEF Register
<1>2. UNCHANGED <<aged, tokens, passwords, sweep, crashes>>
  BY DEF Register
<1>3. RowsOK' /\ Ids' = Ids \cup {u}
  BY <1>1, <1>2, InsertRow DEF IInv
<1>4. PICK r \in Request :
        /\ r = Start("verify", "issue", u, 0, Unread)
        /\ r.at = "issue" /\ r.op = "verify" /\ r.user = u
  BY StartUnread
<1>5. (GoodRequest(r))'
  BY <1>3, <1>4 DEF GoodRequest
<1>6. RequestsOK'
  BY <1>1, <1>2, <1>3, <1>4, <1>5, TokensStay, ServeKeepsRequests DEF IInv
<1>7. TokensOK' /\ SweepOK'
  BY <1>2, <1>3, TokensOKStays, SweepStays DEF IInv
<1>. QED
  BY <1>2, <1>3, <1>6, <1>7 DEF IInv, CountersOK

LEMMA AskPreserves == ASSUME IInv, NEW q \in Slots, AskForToken(q)  PROVE  IInv'
<1>1. PICK u \in Users, type \in {"verify", "reset"} :
        Found(u) /\ Serve(q, Start(type, "issue", u, 0, Unread))
  BY DEF AskForToken
<1>2. PICK r \in Request :
        /\ r = Start(type, "issue", u, 0, Unread)
        /\ r.at = "issue" /\ r.op = type /\ r.user = u
  BY StartUnread
<1>3. GoodRequest(r)
  BY <1>1, <1>2 DEF GoodRequest, Found
<1>4. Serve(q, r)
  BY <1>1, <1>2
<1>5. UNCHANGED <<users, aged, tokens, sweep, crashes>> /\ passwords' \in Nat \ {0}
  BY DEF AskForToken, IInv, CountersOK
<1>. QED
  BY <1>3, <1>4, <1>5, ServePreserves

LEMMA CheckPreserves == ASSUME IInv, NEW q \in Slots, CheckToken(q)  PROVE  IInv'
<1>1. PICK i \in TokenIds :
        Serve(q, Start(tokens[i].type, "find", tokens[i].user, i, Unread))
  BY DEF CheckToken
<1>2. i \in Nat /\ tokens[i] \in Token /\ tokens[i].user \in Ids
  BY ElementOfSeq, LenProperties DEF IInv, TokensOK, TokenIds
<1>3. PICK u \in Users, type \in {"verify", "reset"} : u = tokens[i].user /\ type = tokens[i].type
  BY <1>2 DEF Token
<1>4. PICK r \in Request :
        /\ r = Start(type, "find", u, i, Unread)
        /\ r.at = "find" /\ r.op = type /\ r.user = u /\ r.token = i
  BY <1>2, StartUnread
<1>5. GoodRequest(r)
  BY <1>2, <1>3, <1>4 DEF GoodRequest
<1>6. Serve(q, r)
  BY <1>1, <1>3, <1>4
<1>7. UNCHANGED <<users, aged, tokens, sweep, crashes>> /\ passwords' \in Nat \ {0}
  BY DEF CheckToken, IInv, CountersOK
<1>. QED
  BY <1>5, <1>6, <1>7, ServePreserves

(* A request that loads the row of u and saves it next, no more verified. *)
LEMMA LoadPreserves ==
  ASSUME IInv, NEW q \in Slots, NEW u \in Ids, NEW op \in Ops, NEW entity \in Row,
         entity.verified => users[u].verified,
         Serve(q, Start(op, "select", u, 0, entity)),
         UNCHANGED <<users, aged, tokens, sweep, crashes>>, passwords' \in Nat \ {0}
  PROVE  IInv'
<1>. DEFINE r == Start(op, "select", u, 0, entity)
<1>1. u \in Users /\ (u \notin Invited /\ users[u].verified => UsedToken(u))
  BY FoundRow DEF IInv
<1>2. r \in Request /\ r.at = "select" /\ r.user = u /\ r.entity = entity
  BY <1>1, StartType DEF Steps
<1>. HIDE DEF r
<1>3. GoodRequest(r)
  BY <1>1, <1>2 DEF GoodRequest
<1>. QED
  BY <1>2, <1>3, ServePreserves DEF r

LEMMA ChangePasswordPreserves == ASSUME IInv, NEW q \in Slots, ChangePassword(q)  PROVE  IInv'
<1>1. PICK u \in Users :
        /\ Found(u)
        /\ passwords' = passwords + 1
        /\ Serve(q, Start("password", "select", u, 0, [users[u] EXCEPT !.password = passwords']))
  BY DEF ChangePassword
<1>2. u \in Ids /\ users[u] \in Row /\ passwords' \in Nat \ {0}
  BY <1>1, FoundRow DEF IInv, CountersOK, Found
<1>. DEFINE entity == [users[u] EXCEPT !.password = passwords']
<1>3. entity \in Row /\ entity.verified = users[u].verified
  BY <1>2 DEF Row
<1>. HIDE DEF entity
<1>4. PICK e \in Row : e = entity
  BY <1>3
<1>5. Serve(q, Start("password", "select", u, 0, e))
  BY <1>1, <1>4 DEF entity
<1>. QED
  BY <1>2, <1>3, <1>4, <1>5, LoadPreserves DEF ChangePassword, Ops

LEMMA MovePreserves == ASSUME IInv, NEW q \in Slots, Activate(q) \/ Suspend(q)  PROVE  IInv'
<1>1. PICK u \in Users, op \in {"activate", "suspend"}, s \in {"active", "suspended"} :
        Found(u) /\ Serve(q, Start(op, "select", u, 0, [users[u] EXCEPT !.status = s]))
  BY DEF Activate, Suspend, UserGraph
<1>2. u \in Ids /\ users[u] \in Row
  BY <1>1, FoundRow DEF IInv, Found
<1>. DEFINE entity == [users[u] EXCEPT !.status = s]
<1>3. entity \in Row /\ entity.verified = users[u].verified
  BY <1>2 DEF Row, UserStatus
<1>. HIDE DEF entity
<1>4. PICK e \in Row : e = entity
  BY <1>3
<1>5. Serve(q, Start(op, "select", u, 0, e))
  BY <1>1, <1>4 DEF entity
<1>6. UNCHANGED <<users, aged, tokens, sweep, crashes>> /\ passwords' \in Nat \ {0}
  BY DEF Activate, Suspend, IInv, CountersOK
<1>. QED
  BY <1>2, <1>3, <1>4, <1>5, <1>6, LoadPreserves DEF Ops

LEMMA UpdatePreserves == ASSUME IInv, NEW q \in Slots, Update(q)  PROVE  IInv'
<1>1. PICK u \in Users : Found(u) /\ Serve(q, Start("update", "select", u, 0, users[u]))
  BY DEF Update
<1>2. u \in Ids /\ users[u] \in Row
  BY <1>1, FoundRow DEF IInv, Found
<1>3. PICK e \in Row : e = users[u]
  BY <1>2
<1>4. UNCHANGED <<users, aged, tokens, sweep, crashes>> /\ passwords' \in Nat \ {0}
  BY DEF Update, IInv, CountersOK
<1>. QED
  BY <1>1, <1>2, <1>3, <1>4, LoadPreserves DEF Ops

LEMMA BeginPreserves == ASSUME IInv, NEW q \in Slots, Begin(q)  PROVE  IInv'
  BY RegisterPreserves, AskPreserves, CheckPreserves, ChangePasswordPreserves, MovePreserves,
     UpdatePreserves DEF Begin

LEMMA IdleGood == GoodRequest(Idle) /\ (GoodRequest(Idle))'
  BY DEF GoodRequest

LEMMA IssuePreserves == ASSUME IInv, NEW q \in Slots, IssueToken(q)  PROVE  IInv'
<1>1. PICK r \in Request : r = requests[q] /\ r.at = "issue" /\ r # Idle /\ GoodRequest(r)
  BY BusySlot DEF IssueToken, IInv, Steps
<1>. DEFINE token == [user |-> r.user, type |-> r.op, state |-> "live"]
<1>2. tokens' = Append(tokens, token) /\ Serve(q, Idle)
  BY <1>1 DEF IssueToken, Finish
<1>3. UNCHANGED <<users, aged, passwords, sweep, crashes>>
  BY DEF IssueToken
<1>4. token \in Token /\ r.user \in Ids
  BY <1>1 DEF GoodRequest, Token, IInv, RowsOK
<1>. HIDE DEF token
<1>5. tokens \in Seq(Token)
  BY DEF IInv, TokensOK
<1>6. /\ tokens' \in Seq(Token)
      /\ TokenIds' = TokenIds \cup {Len(tokens) + 1}
      /\ tokens'[Len(tokens) + 1] = token
      /\ \A i \in TokenIds : tokens'[i] = tokens[i]
  BY <1>2, <1>4, <1>5, AppendProperties, LenProperties DEF TokenIds
<1>7. TokensGrow
  BY <1>6 DEF TokensGrow
<1>8. RowsOK' /\ Ids' = Ids
  BY <1>3, <1>7, RowsStay DEF IInv, RowsOK, Ids
<1>9. TokensOK'
  BY <1>4, <1>6, <1>8 DEF token, TokensOK, IInv
<1>10. RequestsOK'
  BY <1>2, <1>7, <1>8, IdleGood, ServeKeepsRequests DEF IInv
<1>11. SweepOK'
  BY <1>3, <1>8, SweepStays DEF IInv
<1>. QED
  BY <1>3, <1>8, <1>9, <1>10, <1>11 DEF IInv, CountersOK

LEMMA FindPreserves == ASSUME IInv, NEW q \in Slots, FindToken(q)  PROVE  IInv'
<1>1. PICK r \in Request : r = requests[q] /\ r.at = "find" /\ r # Idle /\ GoodRequest(r)
  BY BusySlot DEF FindToken, IInv, Steps
<1>2. UNCHANGED <<users, aged, tokens, sweep, crashes>> /\ passwords' \in Nat \ {0}
  BY DEF FindToken, IInv, CountersOK
<1>3. r.user \in Ids
  BY <1>1 DEF GoodRequest
<1>4. PICK row \in Row : row = users[r.user]
  BY <1>3, FoundRow DEF IInv
<1>5. r.user \notin Invited /\ row.verified => UsedToken(r.user)
  BY <1>3, <1>4, FoundRow DEF IInv
<1>6. CASE row.deleted /\ Finish(q)
  BY <1>2, <1>6, IdleGood, ServePreserves DEF Finish
<1>7. ASSUME NEW entity \in Row, r.op \in {"verify", "reset"},
             r.op = "reset" => entity.verified = row.verified,
             Serve(q, [r EXCEPT !.at = "spend", !.entity = entity])
      PROVE  IInv'
  <2>. DEFINE s == [r EXCEPT !.at = "spend", !.entity = entity]
  <2>1. /\ s \in Request /\ s.at = "spend" /\ s.op = r.op /\ s.user = r.user
        /\ s.token = r.token /\ s.entity = entity
    BY <1>1 DEF Request, Steps
  <2>. HIDE DEF s
  <2>2. GoodRequest(s)
    BY <1>1, <1>5, <1>7, <2>1 DEF GoodRequest
  <2>. QED
    BY <1>2, <1>7, <2>1, <2>2, ServePreserves DEF s
<1>8. \/ row.deleted /\ Finish(q)
      \/ r.op = "verify" /\ Serve(q, [r EXCEPT !.at = "spend", !.entity = [row EXCEPT !.verified = TRUE]])
      \/ r.op = "reset" /\ Serve(q, [r EXCEPT !.at = "spend", !.entity = [row EXCEPT !.password = passwords']])
  BY <1>1, <1>4 DEF FindToken
<1>9. PICK e \in Row : e = [row EXCEPT !.verified = TRUE]
  BY DEF Row
<1>10. PICK n \in Nat : n = passwords'
  BY <1>2
<1>11. [row EXCEPT !.password = n] \in Row /\ [row EXCEPT !.password = n].verified = row.verified
  BY DEF Row
<1>12. PICK f \in Row : f = [row EXCEPT !.password = n] /\ f.verified = row.verified
  BY <1>11
<1>. QED
  BY <1>6, <1>7, <1>8, <1>9, <1>10, <1>12

LEMMA SpendPreserves == ASSUME IInv, NEW q \in Slots, SpendToken(q)  PROVE  IInv'
<1>1. PICK r \in Request : r = requests[q] /\ r.at = "spend" /\ r # Idle /\ GoodRequest(r)
  BY BusySlot DEF SpendToken, IInv, Steps
<1>2. /\ tokens' = [tokens EXCEPT ![r.token].state = "used"]
      /\ Serve(q, [r EXCEPT !.at = "select"])
      /\ UNCHANGED <<users, aged, passwords, sweep, crashes>>
  BY <1>1 DEF SpendToken
<1>3. /\ r.token \in TokenIds
      /\ tokens[r.token].user = r.user
      /\ tokens[r.token].type = r.op
  BY <1>1 DEF GoodRequest
<1>4. tokens \in Seq(Token) /\ tokens[r.token] \in Token
  BY <1>3, ElementOfSeq DEF IInv, TokensOK, TokenIds
<1>. DEFINE token == [tokens[r.token] EXCEPT !.state = "used"]
<1>5. token \in Token /\ token.user = r.user /\ token = [user |-> r.user, type |-> r.op, state |-> "used"]
  BY <1>3, <1>4 DEF Token
<1>6. tokens' = [tokens EXCEPT ![r.token] = token]
  BY <1>2
<1>. HIDE DEF token
<1>7. /\ tokens' \in Seq(Token)
      /\ TokenIds' = TokenIds
      /\ tokens'[r.token] = token
      /\ \A i \in TokenIds : i # r.token => tokens'[i] = tokens[i]
  BY <1>3, <1>4, <1>5, <1>6, ExceptSeq DEF TokenIds
<1>8. TokensGrow
  <2>1. tokens[r.token].state = "used" => token = tokens[r.token]
    BY <1>4 DEF token, Token
  <2>. QED
    BY <1>3, <1>5, <1>7, <2>1 DEF TokensGrow
<1>9. RowsOK' /\ Ids' = Ids
  BY <1>2, <1>8, RowsStay DEF IInv, RowsOK, Ids
<1>10. TokensOK'
  BY <1>1, <1>5, <1>7, <1>9 DEF TokensOK, IInv, GoodRequest
<1>. DEFINE s == [r EXCEPT !.at = "select"]
<1>11. /\ s \in Request /\ s.at = "select" /\ s.op = r.op /\ s.user = r.user /\ s.entity = r.entity
  BY <1>1 DEF Request, Steps
<1>. HIDE DEF s
<1>12. r.op = "verify" => UsedToken(r.user)'
  BY <1>3, <1>5, <1>7 DEF UsedToken
<1>13. UsedToken(r.user) => UsedToken(r.user)'
  BY <1>8, UsedTokensStay
<1>14. (GoodRequest(s))'
  BY <1>1, <1>9, <1>11, <1>12, <1>13 DEF GoodRequest
<1>15. RequestsOK'
  BY <1>2, <1>8, <1>9, <1>11, <1>14, ServeKeepsRequests DEF IInv, s
<1>16. SweepOK'
  BY <1>2, <1>9, SweepStays DEF IInv
<1>. QED
  BY <1>2, <1>9, <1>10, <1>15, <1>16 DEF IInv, CountersOK

LEMMA SelectPreserves == ASSUME IInv, NEW q \in Slots, SaveSelect(q)  PROVE  IInv'
<1>1. PICK r \in Request : r = requests[q] /\ r.at = "select" /\ r # Idle /\ GoodRequest(r)
  BY BusySlot DEF SaveSelect, IInv, Steps
<1>2. PICK changed \in SUBSET Columns : changed = Changed(r.entity, users[r.user])
  BY DEF Changed
<1>. DEFINE s == [r EXCEPT !.at = "update", !.changed = changed]
<1>3. /\ s \in Request /\ s.at = "update" /\ s.op = r.op /\ s.user = r.user
      /\ s.entity = r.entity /\ s.token = r.token
  BY DEF Request, Steps
<1>4. Serve(q, s)
  BY <1>1, <1>2 DEF SaveSelect
<1>. HIDE DEF s
<1>5. GoodRequest(s)
  BY <1>1, <1>3 DEF GoodRequest
<1>6. UNCHANGED <<users, aged, tokens, sweep, crashes>> /\ passwords' \in Nat \ {0}
  BY DEF SaveSelect, IInv, CountersOK
<1>. QED
  BY <1>3, <1>4, <1>5, <1>6, ServePreserves

(* The request that is left when the first of two saves is done. *)
LEMMA SecondSave ==
  ASSUME NEW r \in Request, NEW password \in Nat
  PROVE  \E s \in Request :
           /\ s = [r EXCEPT !.at = "select", !.saves = 1, !.changed = {},
                            !.entity.password = password]
           /\ s.at = "select" /\ s.op = r.op /\ s.user = r.user
           /\ s.entity.verified = r.entity.verified
<1>1. PICK f \in Row : f = r.entity
  BY DEF Request
<1>2. /\ [f EXCEPT !.password = password] \in Row
      /\ [f EXCEPT !.password = password].verified = f.verified
  BY DEF Row
<1>3. PICK e \in Row : e = [f EXCEPT !.password = password] /\ e.verified = f.verified
  BY <1>2
<1>4. PICK none \in SUBSET Columns : none = {}
  OBVIOUS
<1>5. 1 \in 1..2
  OBVIOUS
<1>6. PICK one \in 1..2 : one = 1
  BY <1>5
<1>. DEFINE s == [r EXCEPT !.at = "select", !.saves = one, !.changed = none, !.entity = e]
<1>7. /\ s \in Request /\ s.at = "select" /\ s.op = r.op /\ s.user = r.user
      /\ s.entity = e
  BY DEF Request, Steps
<1>8. s = [r EXCEPT !.at = "select", !.saves = 1, !.changed = {},
                    !.entity.password = password]
  BY <1>1, <1>3, <1>4, <1>6 DEF Request
<1>. HIDE DEF s
<1>. QED
  BY <1>1, <1>3, <1>7, <1>8

LEMMA SaveUpdatePreserves == ASSUME IInv, NEW q \in Slots, SaveUpdate(q)  PROVE  IInv'
<1>1. PICK r \in Request : r = requests[q] /\ r.at = "update" /\ r # Idle /\ GoodRequest(r)
  BY BusySlot DEF SaveUpdate, IInv, Steps
<1>2. r.user \in Ids /\ r.entity \in Row /\ r.entity.password \in Nat /\ r.changed \in SUBSET Columns
  BY <1>1 DEF GoodRequest, Request, Row
<1>3. PICK hash \in Nat :
        hash = IF r.op \in {"password", "reset"} THEN r.entity.password ELSE Broken
  BY <1>2 DEF Broken
<1>4. PICK password \in Nat :
        password = IF "password" \in r.changed THEN hash ELSE r.entity.password
  BY <1>2
<1>5. users[r.user] \in Row
  BY <1>2, FoundRow DEF IInv
<1>6. PICK row \in Row :
        /\ row = Written(users[r.user], r.entity, r.changed, hash)
        /\ row.verified => users[r.user].verified \/ r.entity.verified
  BY <1>2, <1>5, WrittenRow
<1>7. UNCHANGED <<aged, tokens, sweep, crashes>> /\ passwords' \in Nat \ {0}
  BY DEF SaveUpdate, IInv, CountersOK
<1>8. \/ /\ users' = [users EXCEPT ![r.user] = row]
         /\ \/ Serve(q, [r EXCEPT !.at = "select", !.saves = 1, !.changed = {},
                                  !.entity.password = password])
            \/ Finish(q)
      \/ Finish(q) /\ UNCHANGED users
  BY <1>1, <1>3, <1>4, <1>6 DEF SaveUpdate
<1>9. PICK s \in Request :
        /\ s = [r EXCEPT !.at = "select", !.saves = 1, !.changed = {},
                         !.entity.password = password]
        /\ s.at = "select" /\ s.op = r.op /\ s.user = r.user
        /\ s.entity.verified = r.entity.verified
  BY SecondSave
<1>10. CASE Finish(q) /\ UNCHANGED users
  BY <1>7, <1>10, IdleGood, ServePreserves DEF Finish
<1>11. ASSUME users' = [users EXCEPT ![r.user] = row], Serve(q, s) \/ Serve(q, Idle)
       PROVE  IInv'
  <2>1. TokensGrow
    BY <1>7, TokensStay
  <2>2. r.user \notin Invited /\ row.verified => UsedToken(r.user)
    BY <1>1, <1>2, <1>6, FoundRow DEF GoodRequest, IInv
  <2>3. RowsOK' /\ Ids' = Ids
    BY <1>2, <1>7, <1>11, <2>2, SaveRow DEF IInv
  <2>4. GoodRequest(s)
    BY <1>1, <1>9 DEF GoodRequest
  <2>5. (GoodRequest(s))'
    BY <2>1, <2>3, <2>4, GoodStays
  <2>6. RequestsOK'
    BY <1>11, <2>1, <2>3, <2>5, IdleGood, ServeKeepsRequests DEF IInv
  <2>7. TokensOK' /\ SweepOK'
    BY <1>7, <2>3, TokensOKStays, SweepStays DEF IInv
  <2>. QED
    BY <1>7, <2>3, <2>6, <2>7 DEF IInv, CountersOK
<1>. QED
  BY <1>8, <1>9, <1>10, <1>11 DEF Finish

LEMMA ContinuePreserves == ASSUME IInv, NEW q \in Slots, Continue(q)  PROVE  IInv'
  BY IssuePreserves, FindPreserves, SpendPreserves, SelectPreserves, SaveUpdatePreserves
  DEF Continue

-----------------------------------------------------------------------------
(* The sweep *)

(* A step of the sweep that only changes what it has in memory. *)
LEMMA SweepingPreserves ==
  ASSUME IInv, SweepOK', UNCHANGED <<users, aged, tokens, passwords, requests, crashes>>
  PROVE  IInv'
<1>1. TokensGrow
  BY TokensStay
<1>2. RowsOK' /\ Ids' = Ids
  BY <1>1, RowsStay DEF IInv, RowsOK, Ids
<1>3. RequestsOK'
  BY <1>1, <1>2, GoodStays DEF IInv, RequestsOK
<1>4. TokensOK'
  BY <1>2, TokensOKStays DEF IInv
<1>. QED
  BY <1>2, <1>3, <1>4 DEF IInv, CountersOK

LEMMA SweepFindPreserves == ASSUME IInv, SweepFind  PROVE  IInv'
<1>. DEFINE found == OverGracePeriod
            entities == [u \in found |-> [users[u] EXCEPT !.deleted = TRUE]]
            changed == [u \in found |-> {}]
<1>1. sweep' = [at |-> "select", entities |-> entities, changed |-> changed]
  BY DEF SweepFind
<1>2. found \in SUBSET Ids /\ (\A u \in found : ~ users[u].verified)
  BY DEF OverGracePeriod
<1>3. ASSUME NEW u \in found
      PROVE  /\ [users[u] EXCEPT !.deleted = TRUE] \in Row
             /\ [users[u] EXCEPT !.deleted = TRUE].verified = users[u].verified
  <2>1. PICK row \in Row : row = users[u]
    BY <1>2, FoundRow DEF IInv
  <2>2. /\ [row EXCEPT !.deleted = TRUE] \in Row
        /\ [row EXCEPT !.deleted = TRUE].verified = row.verified
    BY DEF Row
  <2>. QED
    BY <2>1, <2>2
<1>4. entities \in [found -> Row] /\ (\A u \in found : ~ entities[u].verified)
  BY <1>2, <1>3
<1>5. changed \in [found -> SUBSET Columns]
  OBVIOUS
<1>. HIDE DEF found, entities, changed
<1>6. UNCHANGED <<users, aged, tokens, passwords, requests, crashes>>
  BY DEF SweepFind
<1>7. Ids' = Ids
  BY <1>6 DEF Ids
<1>8. SweepOK'
  BY <1>1, <1>2, <1>4, <1>5, <1>7 DEF SweepOK
<1>. QED
  BY <1>6, <1>8, SweepingPreserves

LEMMA SweepSelectPreserves == ASSUME IInv, SweepSelect  PROVE  IInv'
<1>1. sweep # Idle
  BY DEF SweepSelect, Idle
<1>2. PICK found \in SUBSET Ids :
        /\ sweep \in [at : {"select", "update"}, entities : [found -> Row],
                      changed : [found -> SUBSET Columns]]
        /\ \A u \in found : ~ sweep.entities[u].verified
  BY <1>1 DEF IInv, SweepOK
<1>. DEFINE changed == [u \in DOMAIN sweep.entities |-> Changed(sweep.entities[u], users[u])]
<1>3. changed \in [found -> SUBSET Columns]
  BY <1>2 DEF Changed
<1>4. sweep' = [sweep EXCEPT !.at = "update", !.changed = changed]
  BY DEF SweepSelect
<1>. HIDE DEF changed
<1>5. /\ sweep' \in [at : {"select", "update"}, entities : [found -> Row],
                     changed : [found -> SUBSET Columns]]
      /\ sweep'.entities = sweep.entities
  BY <1>2, <1>3, <1>4
<1>6. UNCHANGED <<users, aged, tokens, passwords, requests, crashes>>
  BY DEF SweepSelect
<1>7. Ids' = Ids
  BY <1>6 DEF Ids
<1>8. SweepOK'
  BY <1>2, <1>5, <1>7 DEF SweepOK
<1>. QED
  BY <1>6, <1>8, SweepingPreserves

LEMMA SweepUpdatePreserves == ASSUME IInv, SweepUpdate  PROVE  IInv'
<1>1. sweep # Idle
  BY DEF SweepUpdate, Idle
<1>2. PICK found \in SUBSET Ids :
        /\ sweep \in [at : {"select", "update"}, entities : [found -> Row],
                      changed : [found -> SUBSET Columns]]
        /\ \A u \in found : ~ sweep.entities[u].verified
  BY <1>1 DEF IInv, SweepOK
<1>3. /\ users' = [u \in Ids |->
                     IF u \in found
                       THEN Written(users[u], sweep.entities[u], sweep.changed[u], Broken)
                       ELSE users[u]]
      /\ sweep' = Idle
      /\ UNCHANGED <<aged, tokens, passwords, requests, crashes>>
  BY <1>2 DEF SweepUpdate
<1>4. Ids' = Ids
  BY <1>3 DEF Ids
<1>5. ASSUME NEW u \in Ids
      PROVE  users'[u] \in Row /\ (users'[u].verified => users[u].verified)
  <2>1. users[u] \in Row
    BY FoundRow DEF IInv
  <2>2. CASE u \in found
    <3>1. /\ sweep.entities[u] \in Row
          /\ sweep.changed[u] \in SUBSET Columns
          /\ ~ sweep.entities[u].verified
      BY <1>2, <2>2
    <3>2. Broken \in Nat
      BY DEF Broken
    <3>. QED
      BY <1>3, <2>1, <2>2, <3>1, <3>2, WrittenRow
  <2>3. CASE u \notin found
    BY <1>3, <2>1, <2>3
  <2>. QED
    BY <2>2, <2>3
<1>6. users' \in [Ids -> Row]
  BY <1>3, <1>5
<1>7. TokensGrow
  BY <1>3, TokensStay
<1>8. VerifiedByToken'
  BY <1>4, <1>5, <1>7, UsedTokensStay DEF VerifiedByToken, IInv, RowsOK
<1>9. RowsOK'
  BY <1>3, <1>4, <1>6, <1>8 DEF IInv, RowsOK
<1>10. RequestsOK'
  BY <1>3, <1>4, <1>7, GoodStays DEF IInv, RequestsOK
<1>11. TokensOK' /\ SweepOK'
  BY <1>3, <1>4, TokensOKStays DEF IInv, SweepOK
<1>. QED
  BY <1>3, <1>9, <1>10, <1>11 DEF IInv, CountersOK

-----------------------------------------------------------------------------
(* The surroundings *)

LEMMA JoinPreserves == ASSUME IInv, NEW u \in Users, Join(u)  PROVE  IInv'
<1>1. /\ u \in Invited \ Ids
      /\ users' = [v \in Ids \cup {u} |-> IF v = u THEN NewRow(TRUE) ELSE users[v]]
      /\ UNCHANGED <<aged, tokens, passwords, requests, sweep, crashes>>
  BY DEF Join
<1>2. RowsOK' /\ Ids' = Ids \cup {u}
  BY <1>1, InsertRow DEF IInv
<1>3. RequestsOK'
  BY <1>1, <1>2, TokensStay, GoodStays DEF IInv, RequestsOK
<1>4. TokensOK' /\ SweepOK'
  BY <1>1, <1>2, TokensOKStays, SweepStays DEF IInv
<1>. QED
  BY <1>1, <1>2, <1>3, <1>4 DEF IInv, CountersOK

LEMMA AgePreserves == ASSUME IInv, NEW u \in Users, Age(u)  PROVE  IInv'
<1>1. /\ u \in Ids /\ aged' = aged \cup {u}
      /\ UNCHANGED <<users, tokens, passwords, requests, sweep, crashes>>
  BY DEF Age
<1>2. RowsOK' /\ Ids' = Ids
  BY <1>1, TokensStay, RowsStay DEF IInv, RowsOK, Ids
<1>3. RequestsOK'
  BY <1>1, <1>2, TokensStay, GoodStays DEF IInv, RequestsOK
<1>4. TokensOK' /\ SweepOK'
  BY <1>1, <1>2, TokensOKStays, SweepStays DEF IInv
<1>. QED
  BY <1>1, <1>2, <1>3, <1>4 DEF IInv, CountersOK

LEMMA LapsePreserves == ASSUME IInv, NEW i \in TokenIds, Lapse(i)  PROVE  IInv'
<1>1. /\ tokens[i].state = "live"
      /\ tokens' = [tokens EXCEPT ![i].state = "lapsed"]
      /\ UNCHANGED <<users, aged, passwords, requests, sweep, crashes>>
  BY DEF Lapse
<1>2. tokens \in Seq(Token) /\ tokens[i] \in Token
  BY ElementOfSeq DEF IInv, TokensOK, TokenIds
<1>. DEFINE token == [tokens[i] EXCEPT !.state = "lapsed"]
<1>3. token \in Token /\ token.user = tokens[i].user /\ token.type = tokens[i].type
  BY <1>2 DEF Token
<1>4. tokens' = [tokens EXCEPT ![i] = token]
  BY <1>1
<1>. HIDE DEF token
<1>5. /\ tokens' \in Seq(Token)
      /\ TokenIds' = TokenIds
      /\ tokens'[i] = token
      /\ \A j \in TokenIds : j # i => tokens'[j] = tokens[j]
  BY <1>2, <1>3, <1>4, ExceptSeq DEF TokenIds
<1>6. TokensGrow
  BY <1>1, <1>3, <1>5 DEF TokensGrow
<1>7. RowsOK' /\ Ids' = Ids
  BY <1>1, <1>6, RowsStay DEF IInv, RowsOK, Ids
<1>8. TokensOK'
  BY <1>3, <1>5, <1>7 DEF TokensOK, IInv
<1>9. RequestsOK'
  BY <1>1, <1>6, <1>7, GoodStays DEF IInv, RequestsOK
<1>10. SweepOK'
  BY <1>1, <1>7, SweepStays DEF IInv
<1>. QED
  BY <1>1, <1>7, <1>8, <1>9, <1>10 DEF IInv, CountersOK

LEMMA CrashPreserves == ASSUME IInv, Crash  PROVE  IInv'
<1>1. /\ requests' = [q \in Slots |-> Idle]
      /\ sweep' = Idle
      /\ UNCHANGED <<users, aged, tokens, passwords>>
  BY DEF Crash
<1>2. crashes' \in 0..MaxCrashes
  BY LimitsAssumption DEF Crash, IInv, CountersOK
<1>3. RowsOK' /\ Ids' = Ids
  BY <1>1, TokensStay, RowsStay DEF IInv, RowsOK, Ids
<1>4. RequestsOK'
  BY <1>1, IdleGood DEF RequestsOK
<1>5. TokensOK' /\ SweepOK'
  BY <1>1, <1>3, TokensOKStays DEF IInv, SweepOK
<1>. QED
  BY <1>1, <1>2, <1>3, <1>4, <1>5 DEF IInv, CountersOK

LEMMA StutterPreserves == ASSUME IInv, UNCHANGED vars  PROVE  IInv'
<1>1. /\ UNCHANGED <<users, aged, tokens, passwords, requests, crashes>>
      /\ UNCHANGED sweep
      /\ Ids' = Ids
  BY DEF vars, Ids
<1>2. SweepOK'
  BY <1>1, SweepStays DEF IInv
<1>. QED
  BY <1>1, <1>2, SweepingPreserves

LEMMA NextPreserves == IInv /\ [Next]_vars => IInv'
<1>. SUFFICES ASSUME IInv, [Next]_vars
              PROVE  IInv'
  OBVIOUS
<1>1. ASSUME NEW q \in Slots, Begin(q) \/ Continue(q)
      PROVE  IInv'
  BY <1>1, BeginPreserves, ContinuePreserves
<1>2. CASE Sweeping
  BY <1>2, SweepFindPreserves, SweepSelectPreserves, SweepUpdatePreserves DEF Sweeping
<1>3. CASE Surroundings
  BY <1>3, JoinPreserves, AgePreserves, LapsePreserves, CrashPreserves DEF Surroundings
<1>4. CASE UNCHANGED vars
  BY <1>4, StutterPreserves
<1>. QED
  BY <1>1, <1>2, <1>3, <1>4 DEF Next

-----------------------------------------------------------------------------
(* The theorems *)

(* What is in memory stays good however requests, sweeps and restarts overlap. *)
THEOREM Inductive == Spec => []IInv
<1>1. Init => IInv
  BY InitIInv
<1>2. IInv /\ [Next]_vars => IInv'
  BY NextPreserves
<1>. QED
  BY <1>1, <1>2, PTL DEF Spec

(* The tables, the requests' memory and the sweep's have their types, and they  *)
(* only name users and tokens that exist, in AuthService and UserScheduler.     *)
THEOREM TypeCorrect == Spec => []TypeOK
<1>1. IInv => TypeOK
  BY IInvImplies
<1>. QED
  BY <1>1, Inductive, PTL

(* verifyEmail spends its token before it saves its user, and the saves of      *)
(* whole entities cannot make up for a token: a user who did not come by an     *)
(* invitation reads as verified only if one of their tokens was used up.        *)
THEOREM OnlyTokensVerify == Spec => []VerifiedByToken
<1>1. IInv => VerifiedByToken
  BY IInvImplies
<1>. QED
  BY <1>1, Inductive, PTL

-----------------------------------------------------------------------------
(* Who is ever deleted *)

(* An entity that is going to be saved by a request was loaded from a row that  *)
(* was not deleted, and that of an invited user reads verified.                 *)
Loads(user, entity) == ~ entity.deleted /\ (user \in Invited => entity.verified)
HoldsEntity(r) == r.at \in {"spend", "select", "update"}
EntityOpen(r) == HoldsEntity(r) => Loads(r.user, r.entity)

RowsClosed ==
  /\ ClosedRightly
  /\ \A u \in Ids \cap Invited : users[u].verified
EntitiesOpen == \A q \in Slots : EntityOpen(requests[q])
SweepClosed == sweep # Idle => DOMAIN sweep.entities \subseteq aged \ Invited

ClosedInv == RowsClosed /\ EntitiesOpen /\ SweepClosed

LEMMA IdleOpen == EntityOpen(Idle)
  BY DEF EntityOpen, HoldsEntity, Idle

LEMMA ServeOpen ==
  ASSUME IInv, EntitiesOpen, NEW q \in Slots, NEW r, Serve(q, r), EntityOpen(r)
  PROVE  EntitiesOpen'
  BY DEF IInv, RequestsOK, Serve, EntitiesOpen, EntityOpen, HoldsEntity, Loads

(* Steps that neither write a row nor touch the sweep. *)
LEMMA RowsClosedStay ==
  ASSUME ClosedInv, UNCHANGED <<users, aged, sweep>>
  PROVE  RowsClosed' /\ SweepClosed'
  BY DEF ClosedInv, RowsClosed, ClosedRightly, SweepClosed, Ids

LEMMA InsertClosed ==
  ASSUME ClosedInv, NEW u \in Users \ Ids, NEW verified \in BOOLEAN, u \in Invited => verified,
         users' = [v \in Ids \cup {u} |-> IF v = u THEN NewRow(verified) ELSE users[v]],
         UNCHANGED <<aged, sweep>>
  PROVE  RowsClosed' /\ SweepClosed'
<1>1. Ids' = Ids \cup {u}
  BY DEF Ids
<1>2. users'[u].verified = verified /\ ~ users'[u].deleted
  BY <1>1 DEF NewRow
<1>3. \A v \in Ids : v # u /\ users'[v] = users[v]
  BY <1>1
<1>. QED
  BY <1>1, <1>2, <1>3 DEF ClosedInv, RowsClosed, ClosedRightly, SweepClosed

(* What a save leaves is deleted only if the row was, and verified if both were. *)
LEMMA WrittenClosed ==
  ASSUME NEW row \in Row, NEW entity \in Row, NEW changed \in SUBSET Columns, NEW hash
  PROVE  LET written == Written(row, entity, changed, hash)
         IN /\ written.deleted => row.deleted \/ entity.deleted
            /\ row.verified /\ entity.verified => written.verified
  BY DEF Written, Row, Columns

LEMMA BeginClosed == ASSUME IInv, ClosedInv, NEW q \in Slots, Begin(q)  PROVE  ClosedInv'
<1>1. CASE Register(q)
  <2>1. PICK u \in Users \ (Invited \cup Ids) :
          /\ users' = [v \in Ids \cup {u} |-> IF v = u THEN NewRow(FALSE) ELSE users[v]]
          /\ Serve(q, Start("verify", "issue", u, 0, Unread))
    BY <1>1 DEF Register
  <2>2. EntityOpen(Start("verify", "issue", u, 0, Unread))
    BY DEF Start, EntityOpen, HoldsEntity
  <2>3. EntitiesOpen'
    BY <2>1, <2>2, ServeOpen DEF ClosedInv
  <2>4. UNCHANGED <<aged, sweep>>
    BY <1>1 DEF Register
  <2>. QED
    BY <2>1, <2>3, <2>4, InsertClosed DEF ClosedInv
<1>2. CASE AskForToken(q) \/ CheckToken(q)
  <2>1. PICK op, at, u, i : at \in {"issue", "find"} /\ Serve(q, Start(op, at, u, i, Unread))
    <3>1. CASE AskForToken(q)
      BY <3>1 DEF AskForToken
    <3>2. CASE CheckToken(q)
      BY <3>2 DEF CheckToken
    <3>. QED
      BY <1>2, <3>1, <3>2
  <2>2. PICK s : s = Start(op, at, u, i, Unread)
    OBVIOUS
  <2>3. Serve(q, s) /\ EntityOpen(s)
    BY <2>1, <2>2 DEF Start, EntityOpen, HoldsEntity
  <2>4. UNCHANGED <<users, aged, sweep>>
    BY <1>2 DEF AskForToken, CheckToken
  <2>. QED
    BY <2>3, <2>4, ServeOpen, RowsClosedStay DEF ClosedInv
<1>3. ASSUME NEW u \in Users, Found(u), NEW op, NEW entity,
             entity.deleted = users[u].deleted, entity.verified = users[u].verified,
             Serve(q, Start(op, "select", u, 0, entity)),
             UNCHANGED <<users, aged, sweep>>
      PROVE  ClosedInv'
  <2>1. Loads(u, entity)
    BY <1>3 DEF Loads, Found, ClosedInv, RowsClosed
  <2>2. EntityOpen(Start(op, "select", u, 0, entity))
    BY <2>1 DEF Start, EntityOpen
  <2>. QED
    BY <1>3, <2>2, ServeOpen, RowsClosedStay DEF ClosedInv
<1>4. CASE ChangePassword(q)
  <2>1. PICK u \in Users :
          /\ Found(u)
          /\ Serve(q, Start("password", "select", u, 0, [users[u] EXCEPT !.password = passwords']))
    BY <1>4 DEF ChangePassword
  <2>2. users[u] \in Row
    BY <2>1, FoundRow DEF IInv, Found
  <2>3. PICK e : e = [users[u] EXCEPT !.password = passwords']
    OBVIOUS
  <2>4. e.deleted = users[u].deleted /\ e.verified = users[u].verified
    BY <2>2, <2>3 DEF Row
  <2>5. UNCHANGED <<users, aged, sweep>>
    BY <1>4 DEF ChangePassword
  <2>. QED
    BY <1>3, <2>1, <2>3, <2>4, <2>5
<1>5. CASE Activate(q) \/ Suspend(q)
  <2>1. PICK u, op, s :
          u \in Users /\ Found(u) /\ Serve(q, Start(op, "select", u, 0, [users[u] EXCEPT !.status = s]))
    BY <1>5 DEF Activate, Suspend
  <2>2. users[u] \in Row
    BY <2>1, FoundRow DEF IInv, Found
  <2>3. PICK e : e = [users[u] EXCEPT !.status = s]
    OBVIOUS
  <2>4. e.deleted = users[u].deleted /\ e.verified = users[u].verified
    BY <2>2, <2>3 DEF Row
  <2>5. UNCHANGED <<users, aged, sweep>>
    BY <1>5 DEF Activate, Suspend
  <2>. QED
    BY <1>3, <2>1, <2>3, <2>4, <2>5
<1>6. CASE Update(q)
  <2>1. UNCHANGED <<users, aged, sweep>>
    BY <1>6 DEF Update
  <2>. QED
    BY <1>3, <1>6, <2>1 DEF Update
<1>. QED
  BY <1>1, <1>2, <1>4, <1>5, <1>6 DEF Begin

(* findVerificationByToken joins no deleted user, and a save of an entity that  *)
(* is not deleted deletes nobody.                                               *)
LEMMA ContinueClosed == ASSUME IInv, ClosedInv, NEW q \in Slots, Continue(q)  PROVE  ClosedInv'
<1>. PICK r : r = requests[q]
  OBVIOUS
<1>1. r \in Request /\ r # Idle /\ r.user \in Ids /\ EntityOpen(r)
  <2>1. r.at \in Steps
    BY DEF Continue, IssueToken, FindToken, SpendToken, SaveSelect, SaveUpdate, Steps
  <2>. QED
    BY <2>1, BusySlot DEF IInv, GoodRequest, ClosedInv, EntitiesOpen
<1>2. users[r.user] \in Row /\ r.entity \in Row /\ r.changed \in SUBSET Columns
  BY <1>1, FoundRow DEF IInv, Request
<1>3. CASE IssueToken(q)
  <2>1. Serve(q, Idle) /\ UNCHANGED <<users, aged, sweep>>
    BY <1>3 DEF IssueToken, Finish
  <2>. QED
    BY <2>1, IdleOpen, ServeOpen, RowsClosedStay DEF ClosedInv
<1>4. CASE FindToken(q)
  <2>. PICK row : row = users[r.user]
    OBVIOUS
  <2>1. UNCHANGED <<users, aged, sweep>>
    BY <1>4 DEF FindToken
  <2>2. \/ Serve(q, Idle)
        \/ ~ row.deleted /\ Serve(q, [r EXCEPT !.at = "spend", !.entity = [row EXCEPT !.verified = TRUE]])
        \/ /\ ~ row.deleted
           /\ Serve(q, [r EXCEPT !.at = "spend", !.entity = [row EXCEPT !.password = passwords']])
    BY <1>4 DEF FindToken, Finish
  <2>3. r.user \in Invited => row.verified
    BY <1>1 DEF ClosedInv, RowsClosed
  <2>4. ASSUME ~ row.deleted, NEW e, ~ e.deleted, r.user \in Invited => e.verified,
               Serve(q, [r EXCEPT !.at = "spend", !.entity = e])
        PROVE  EntitiesOpen'
    <3>1. PICK s : s = [r EXCEPT !.at = "spend", !.entity = e]
      OBVIOUS
    <3>2. s.entity = e /\ s.user = r.user
      BY <1>1, <3>1 DEF Request
    <3>3. EntityOpen(s)
      BY <2>4, <3>2 DEF EntityOpen, Loads
    <3>. QED
      BY <2>4, <3>1, <3>3, ServeOpen DEF ClosedInv
  <2>5. PICK e, f : e = [row EXCEPT !.verified = TRUE] /\ f = [row EXCEPT !.password = passwords']
    OBVIOUS
  <2>6. e.verified /\ e.deleted = row.deleted /\ f.verified = row.verified /\ f.deleted = row.deleted
    BY <1>2, <2>5 DEF Row
  <2>7. EntitiesOpen'
    BY <2>2, <2>3, <2>4, <2>5, <2>6, IdleOpen, ServeOpen DEF ClosedInv
  <2>. QED
    BY <2>1, <2>7, RowsClosedStay DEF ClosedInv
<1>5. CASE SpendToken(q) \/ SaveSelect(q)
  <2>1. PICK s : Serve(q, s) /\ \/ s = [r EXCEPT !.at = "select"]
                                \/ s = [r EXCEPT !.at = "update",
                                                 !.changed = Changed(r.entity, users[r.user])]
    BY <1>5 DEF SpendToken, SaveSelect
  <2>2. r.at \in {"spend", "select"} /\ UNCHANGED <<users, aged, sweep>>
    BY <1>5 DEF SpendToken, SaveSelect
  <2>3. s.entity = r.entity /\ s.user = r.user
    BY <1>1, <2>1 DEF Request
  <2>4. EntityOpen(s)
    BY <1>1, <2>2, <2>3 DEF EntityOpen, HoldsEntity
  <2>. QED
    BY <2>1, <2>2, <2>4, ServeOpen, RowsClosedStay DEF ClosedInv
<1>6. CASE SaveUpdate(q)
  <2>1. PICK hash, password, w :
          /\ w = Written(users[r.user], r.entity, r.changed, hash)
          /\ r.at = "update" /\ UNCHANGED <<aged, sweep>>
          /\ \/ /\ users' = [users EXCEPT ![r.user] = w]
                /\ \/ Serve(q, [r EXCEPT !.at = "select", !.saves = 1, !.changed = {},
                                         !.entity.password = password])
                   \/ Serve(q, Idle)
             \/ UNCHANGED users /\ Serve(q, Idle)
    BY <1>6 DEF SaveUpdate, Finish
  <2>2. ~ r.entity.deleted /\ (r.user \in Invited => r.entity.verified)
    BY <1>1, <2>1 DEF EntityOpen, HoldsEntity, Loads
  <2>3. PICK s : s = [r EXCEPT !.at = "select", !.saves = 1, !.changed = {},
                               !.entity.password = password]
    OBVIOUS
  <2>4. s.user = r.user /\ s.entity.deleted = r.entity.deleted /\ s.entity.verified = r.entity.verified
    BY <1>1, <1>2, <2>3 DEF Request, Row
  <2>5. EntityOpen(s)
    BY <2>2, <2>4 DEF EntityOpen, Loads
  <2>6. EntitiesOpen'
    BY <2>1, <2>3, <2>5, IdleOpen, ServeOpen DEF ClosedInv
  <2>7. CASE UNCHANGED users
    BY <2>1, <2>6, <2>7, RowsClosedStay DEF ClosedInv
  <2>8. CASE users' = [users EXCEPT ![r.user] = w]
    <3>1. /\ w.deleted => users[r.user].deleted
          /\ r.user \in Invited => w.verified
      <4>1. /\ w.deleted => users[r.user].deleted \/ r.entity.deleted
            /\ users[r.user].verified /\ r.entity.verified => w.verified
        BY <1>2, <2>1, WrittenClosed
      <4>2. r.user \in Invited => users[r.user].verified
        BY <1>1 DEF ClosedInv, RowsClosed
      <4>. QED
        BY <2>2, <4>1, <4>2
    <3>2. Ids' = Ids /\ users'[r.user] = w /\ \A u \in Ids : u # r.user => users'[u] = users[u]
      BY <1>1, <2>8 DEF Ids
    <3>3. RowsClosed'
      BY <1>1, <2>1, <3>1, <3>2 DEF ClosedInv, RowsClosed, ClosedRightly
    <3>4. SweepClosed'
      BY <2>1 DEF ClosedInv, SweepClosed
    <3>. QED
      BY <2>6, <3>3, <3>4 DEF ClosedInv
  <2>. QED
    BY <2>1, <2>7, <2>8
<1>. QED
  BY <1>3, <1>4, <1>5, <1>6 DEF Continue

(* Who was over the grace period when the sweep looked still is, and is nobody  *)
(* who was invited, since those read verified.                                  *)
LEMMA SweepingClosed == ASSUME IInv, ClosedInv, Sweeping  PROVE  ClosedInv'
<1>1. UNCHANGED <<aged, requests>> /\ EntitiesOpen'
  BY DEF Sweeping, SweepFind, SweepSelect, SweepUpdate, ClosedInv, EntitiesOpen
<1>2. CASE SweepFind
  <2>1. OverGracePeriod \subseteq aged \ Invited /\ UNCHANGED users
    BY <1>2 DEF SweepFind, OverGracePeriod, ClosedInv, RowsClosed
  <2>2. DOMAIN sweep'.entities = OverGracePeriod
    BY <1>2 DEF SweepFind
  <2>. QED
    BY <1>1, <2>1, <2>2 DEF ClosedInv, RowsClosed, ClosedRightly, SweepClosed, Ids
<1>3. CASE SweepSelect
  <2>1. UNCHANGED users /\ sweep # Idle
    BY <1>3 DEF SweepSelect, Idle
  <2>2. sweep'.entities = sweep.entities
    <3>1. PICK found \in SUBSET Ids :
            sweep \in [at : {"select", "update"}, entities : [found -> Row],
                       changed : [found -> SUBSET Columns]]
      BY <2>1 DEF IInv, SweepOK
    <3>. QED
      BY <1>3, <3>1 DEF SweepSelect
  <2>. QED
    BY <1>1, <2>1, <2>2 DEF ClosedInv, RowsClosed, ClosedRightly, SweepClosed, Ids
<1>4. CASE SweepUpdate
  <2>1. sweep # Idle /\ sweep' = Idle
    BY <1>4 DEF SweepUpdate, Idle
  <2>2. PICK found \in SUBSET Ids :
          sweep \in [at : {"select", "update"}, entities : [found -> Row],
                     changed : [found -> SUBSET Columns]]
    BY <2>1 DEF IInv, SweepOK
  <2>3. found \subseteq aged \ Invited
    BY <2>1, <2>2 DEF ClosedInv, SweepClosed
  <2>4. users' = [u \in Ids |->
                    IF u \in found
                      THEN Written(users[u], sweep.entities[u], sweep.changed[u], Broken)
                      ELSE users[u]]
    BY <1>4, <2>2 DEF SweepUpdate
  <2>5. Ids' = Ids /\ \A u \in Ids \ found : users'[u] = users[u]
    BY <2>4 DEF Ids
  <2>6. RowsClosed'
    BY <1>1, <2>3, <2>5 DEF ClosedInv, RowsClosed, ClosedRightly
  <2>. QED
    BY <1>1, <2>1, <2>6 DEF ClosedInv, SweepClosed
<1>. QED
  BY <1>2, <1>3, <1>4 DEF Sweeping

LEMMA SurroundingsClosed == ASSUME IInv, ClosedInv, Surroundings  PROVE  ClosedInv'
<1>1. ASSUME NEW u \in Users, Join(u)
      PROVE  ClosedInv'
  <2>1. RowsClosed' /\ SweepClosed'
    BY <1>1, InsertClosed DEF Join
  <2>. QED
    BY <1>1, <2>1 DEF Join, ClosedInv, EntitiesOpen
<1>2. ASSUME NEW u \in Users, Age(u)
      PROVE  ClosedInv'
  <2>1. aged \subseteq aged' /\ UNCHANGED <<users, requests, sweep>>
    BY <1>2 DEF Age
  <2>. QED
    BY <2>1 DEF ClosedInv, RowsClosed, ClosedRightly, SweepClosed, EntitiesOpen, Ids
<1>3. ASSUME NEW i \in TokenIds, Lapse(i)
      PROVE  ClosedInv'
  BY <1>3, RowsClosedStay DEF Lapse, ClosedInv, EntitiesOpen
<1>4. CASE Crash
  <2>1. UNCHANGED <<users, aged>> /\ sweep' = Idle /\ \A q \in Slots : requests'[q] = Idle
    BY <1>4 DEF Crash
  <2>2. RowsClosed' /\ SweepClosed'
    BY <2>1 DEF ClosedInv, RowsClosed, ClosedRightly, SweepClosed, Ids
  <2>3. EntitiesOpen'
    BY <2>1, IdleOpen DEF EntitiesOpen, EntityOpen, HoldsEntity, Loads
  <2>. QED
    BY <2>2, <2>3 DEF ClosedInv
<1>. QED
  BY <1>1, <1>2, <1>3, <1>4 DEF Surroundings

(* softDeleteUsersOverGracePeriod acts on what it found awaits ago, and every   *)
(* request writes back whole entities: still, only users over their grace       *)
(* period are ever deleted, and nobody who came by an invitation.               *)
THEOREM DeletedRightly == Spec => []ClosedRightly
<1>1. Init => ClosedInv
  BY IdleOpen DEF Init, ClosedInv, RowsClosed, ClosedRightly, EntitiesOpen, SweepClosed, Ids
<1>2. IInv /\ ClosedInv /\ [Next]_vars => ClosedInv'
  <2>1. ASSUME ClosedInv, UNCHANGED vars
        PROVE  ClosedInv'
    BY <2>1, RowsClosedStay DEF vars, ClosedInv, EntitiesOpen
  <2>. QED
    BY <2>1, BeginClosed, ContinueClosed, SweepingClosed, SurroundingsClosed DEF Next
<1>3. ClosedInv => ClosedRightly
  BY DEF ClosedInv, RowsClosed
<1>. QED
  BY <1>1, <1>2, <1>3, Inductive, PTL DEF Spec

-----------------------------------------------------------------------------
(* As long as nothing overlaps *)

OneAtATime ==
  /\ \A p, q \in Slots : requests[p] # Idle /\ requests[q] # Idle => p = q
  /\ sweep # Idle => \A q \in Slots : requests[q] = Idle

Chosen == \A u \in Ids : users[u].password <= passwords

(* The entity of a request differs from its row only in what the handler meant *)
(* to change.                                                                  *)
Meant(r, row) ==
  /\ r.op = "verify" => r.entity = [row EXCEPT !.verified = TRUE]
  /\ r.op \in {"reset", "password"} =>
       /\ r.entity = [row EXCEPT !.password = r.entity.password]
       /\ r.entity.password > row.password
  /\ r.saves = 2 =>
       \E s \in {"active", "suspended"} : row.status # s /\ r.entity = [row EXCEPT !.status = s]
  /\ r.op = "update" \/ (r.op \in {"activate", "suspend"} /\ r.saves = 1) => r.entity = row

(* What a request has read is still so. *)
FreshRequest(r) ==
  /\ r.at \in Steps /\ r.saves = 2 => r.op \in {"activate", "suspend"}
  /\ r.at \in {"find", "spend"} => tokens[r.token].state # "used"
  /\ r.at \in {"spend", "select", "update"} =>
       /\ ~ users[r.user].deleted
       /\ r.entity.password <= passwords
       /\ Meant(r, users[r.user])
  /\ r.at = "update" => r.changed = Changed(r.entity, users[r.user])
RequestsFresh == \A q \in Slots : FreshRequest(requests[q])

SweepFresh ==
  sweep # Idle => \A u \in DOMAIN sweep.entities :
    /\ u \in aged /\ ~ users[u].verified /\ ~ users[u].deleted
    /\ sweep.entities[u] = [users[u] EXCEPT !.deleted = TRUE]
    /\ sweep.at = "update" => sweep.changed[u] = Changed(sweep.entities[u], users[u])

FreshParts == OneAtATime /\ Chosen /\ RequestsFresh /\ SweepFresh

(* What AccountBook sees of the tokens and of the requests. *)
Unspent == {[id |-> i, user |-> tokens[i].user, type |-> tokens[i].type] :
              i \in {j \in TokenIds : tokens[j].state # "used"}}
Owing(r) == r.at \in {"select", "update"} /\ r.op \in {"verify", "reset"}
Owed(memory) == {[user |-> memory[q].user, type |-> memory[q].op] :
                   q \in {p \in Slots : Owing(memory[p])}}
Credits == Owed(requests)

BookVars == <<users, aged, Unspent, Credits>>

Kept == FreshParts' /\ [Book!BookNext]_BookVars

LEMMA NothingBusy ==
  ASSUME MaxBusy = 1, IsFiniteSet(Slots), Busy < MaxBusy
  PROVE  sweep = Idle /\ \A q \in Slots : requests[q] = Idle
<1>. DEFINE S == {q \in Slots : requests[q] # Idle}
<1>1. IsFiniteSet(S)
  BY FS_Subset
<1>2. Cardinality(S) \in Nat
  BY <1>1, FS_CardinalityType
<1>3. Cardinality(S) = 0 /\ sweep = Idle
  BY <1>2 DEF Busy
<1>4. S = {}
  BY <1>1, <1>3, FS_EmptySet
<1>. QED
  BY <1>3, <1>4

LEMMA BeginAlone ==
  ASSUME MaxBusy = 1, IsFiniteSet(Slots), NEW q \in Slots, Begin(q)
  PROVE  /\ sweep = Idle /\ \A p \in Slots : requests[p] = Idle
         /\ UNCHANGED <<aged, tokens, sweep>>
<1>1. Busy < MaxBusy /\ UNCHANGED <<aged, tokens, sweep>>
  BY DEF Begin, Register, AskForToken, CheckToken, ChangePassword, Activate, Suspend, Update, CanStart
<1>. QED
  BY <1>1, NothingBusy

LEMMA ContinueAlone ==
  ASSUME OneAtATime, NEW q \in Slots, Continue(q)
  PROVE  /\ sweep = Idle /\ sweep' = Idle
         /\ \A p \in Slots : p # q => requests[p] = Idle
<1>1. requests[q] # Idle /\ UNCHANGED sweep
  BY DEF Continue, IssueToken, FindToken, SpendToken, SaveSelect, SaveUpdate, Idle
<1>. QED
  BY <1>1 DEF OneAtATime

LEMMA OwedByOne ==
  ASSUME NEW memory, NEW q \in Slots, \A p \in Slots : p # q => memory[p] = Idle
  PROVE  Owed(memory) = IF Owing(memory[q])
                          THEN {[user |-> memory[q].user, type |-> memory[q].op]}
                          ELSE {}
  BY DEF Owed, Owing, Idle

LEMMA NothingOwed ==
  ASSUME NEW memory, \A p \in Slots : ~ Owing(memory[p])
  PROVE  Owed(memory) = {}
  BY DEF Owed

(* The slot that is served alone decides what is fresh and what is owed. *)
LEMMA AloneFresh ==
  ASSUME IInv, NEW q \in Slots, NEW r \in Request \cup {Idle}, Serve(q, r), sweep' = Idle,
         \A p \in Slots : p # q => requests[p] = Idle,
         (FreshRequest(r))'
  PROVE  /\ OneAtATime' /\ RequestsFresh' /\ SweepFresh'
         /\ Credits = IF Owing(requests[q])
                        THEN {[user |-> requests[q].user, type |-> requests[q].op]} ELSE {}
         /\ Credits' = IF Owing(r) THEN {[user |-> r.user, type |-> r.op]} ELSE {}
<1>1. /\ requests'[q] = r
      /\ \A p \in Slots : p # q => requests'[p] = Idle
  BY DEF Serve, IInv, RequestsOK
<1>2. OneAtATime' /\ SweepFresh'
  BY <1>1 DEF OneAtATime, SweepFresh
<1>3. ASSUME NEW p \in Slots
      PROVE  (FreshRequest(requests[p]))'
  <2>1. CASE p = q
    <3>1. requests'[p] = r
      BY <1>1, <2>1
    <3>. QED
      BY <3>1
  <2>2. CASE p # q
    BY <1>1, <2>2 DEF FreshRequest, Idle, Steps
  <2>. QED
    BY <2>1, <2>2
<1>4. PICK memory : memory = requests'
  OBVIOUS
<1>5. Owed(memory) = IF Owing(r) THEN {[user |-> r.user, type |-> r.op]} ELSE {}
  BY <1>1, <1>4, OwedByOne
<1>6. Credits' = Owed(memory)
  BY <1>4 DEF Credits, Owed
<1>7. PICK before : before = requests
  OBVIOUS
<1>8. Owed(before) = IF Owing(requests[q])
                        THEN {[user |-> requests[q].user, type |-> requests[q].op]} ELSE {}
  BY <1>7, OwedByOne
<1>. QED
  BY <1>2, <1>3, <1>5, <1>6, <1>7, <1>8 DEF RequestsFresh, Credits

LEMMA UnspentStays == UNCHANGED tokens => UNCHANGED Unspent
  BY DEF Unspent, TokenIds

-----------------------------------------------------------------------------
(* Requests *)

LEMMA BeginKeeps ==
  ASSUME IInv, FreshParts, MaxBusy = 1, IsFiniteSet(Slots), NEW q \in Slots, Begin(q)
  PROVE  Kept
<1>1. /\ sweep = Idle /\ sweep' = Idle /\ UNCHANGED <<aged, tokens>>
      /\ \A p \in Slots : requests[p] = Idle
  BY BeginAlone
<1>2. ~ Owing(requests[q])
  BY <1>1 DEF Owing, Idle
<1>3. passwords \in Nat
  BY DEF IInv, CountersOK
<1>4. ASSUME NEW r \in Request, Serve(q, r), (FreshRequest(r))', ~ Owing(r),
             UNCHANGED users, passwords' \in {passwords, passwords + 1}
      PROVE  Kept
  <2>1. OneAtATime' /\ RequestsFresh' /\ SweepFresh' /\ Credits = {} /\ Credits' = {}
    BY <1>1, <1>2, <1>4, AloneFresh
  <2>2. ASSUME NEW u \in Ids
        PROVE  users[u].password <= passwords'
    <3>1. users[u].password \in Nat /\ users[u].password <= passwords
      BY FoundRow DEF IInv, Row, FreshParts, Chosen
    <3>. QED
      BY <1>3, <1>4, <3>1
  <2>3. Chosen'
    BY <1>4, <2>2 DEF Chosen, Ids
  <2>. QED
    BY <1>1, <1>4, <2>1, <2>3, UnspentStays DEF Kept, FreshParts, BookVars
(* The copy that was loaded, changed as the handler means to. *)
<1>5. ASSUME NEW u \in Ids, NEW op \in {"password", "activate", "suspend", "update"},
             NEW entity \in Row, ~ users[u].deleted, entity.password <= passwords',
             Serve(q, Start(op, "select", u, 0, entity)),
             Meant(Start(op, "select", u, 0, entity), users[u]),
             UNCHANGED users, passwords' \in {passwords, passwords + 1}
      PROVE  Kept
  <2>1. PICK r : r = Start(op, "select", u, 0, entity)
    OBVIOUS
  <2>2. r \in Request /\ r.at = "select" /\ r.op = op /\ r.user = u /\ r.entity = entity
    BY <2>1, StartType, FoundRow DEF IInv, Ops, Steps
  <2>3. (FreshRequest(r))'
    BY <1>5, <2>1, <2>2, StartSaves DEF FreshRequest, Meant
  <2>. QED
    BY <1>4, <1>5, <2>1, <2>2, <2>3 DEF Owing
<1>6. CASE Register(q)
  <2>1. PICK u \in Users \ (Invited \cup Ids) :
          /\ users' = [v \in Ids \cup {u} |-> IF v = u THEN NewRow(FALSE) ELSE users[v]]
          /\ Serve(q, Start("verify", "issue", u, 0, Unread))
    BY <1>6 DEF Register
  <2>2. PICK r \in Request : r = Start("verify", "issue", u, 0, Unread) /\ r.at = "issue" /\ r.saves = 1
    BY StartUnread
  <2>3. (FreshRequest(r))' /\ ~ Owing(r)
    BY <2>2 DEF FreshRequest, Owing
  <2>4. OneAtATime' /\ RequestsFresh' /\ SweepFresh' /\ Credits = {} /\ Credits' = {}
    BY <1>1, <1>2, <2>1, <2>2, <2>3, AloneFresh
  <2>5. /\ Ids' = Ids \cup {u}
        /\ \A v \in Ids : users'[v] = users[v]
        /\ users'[u] = NewRow(FALSE)
    BY <2>1 DEF Ids
  <2>6. UNCHANGED passwords
    BY <1>6 DEF Register
  <2>7. Chosen'
    <3>1. NewRow(FALSE).password <= passwords
      BY DEF NewRow, IInv, CountersOK
    <3>. QED
      BY <2>5, <2>6, <3>1 DEF Chosen, FreshParts
  <2>8. Book!Open(u)
    BY <1>1, <2>1, <2>4, <2>5, UnspentStays DEF Book!Open, Ids, NewRow, Unspent, Credits, Owed, Owing
  <2>. QED
    BY <2>4, <2>7, <2>8 DEF Kept, FreshParts, Book!BookNext
<1>7. CASE AskForToken(q)
  <2>1. PICK u \in Users, type \in {"verify", "reset"} : Serve(q, Start(type, "issue", u, 0, Unread))
    BY <1>7 DEF AskForToken
  <2>2. PICK r \in Request : r = Start(type, "issue", u, 0, Unread) /\ r.at = "issue" /\ r.saves = 1
    BY StartUnread
  <2>3. (FreshRequest(r))' /\ ~ Owing(r)
    BY <2>2 DEF FreshRequest, Owing
  <2>. QED
    BY <1>4, <1>7, <2>1, <2>2, <2>3 DEF AskForToken
<1>8. CASE CheckToken(q)
  <2>1. PICK i \in TokenIds :
          ValidToken(i) /\ Serve(q, Start(tokens[i].type, "find", tokens[i].user, i, Unread))
    BY <1>8 DEF CheckToken
  <2>2. i \in Nat /\ tokens[i] \in Token
    BY ElementOfSeq, LenProperties DEF IInv, TokensOK, TokenIds
  <2>3. PICK u \in Users, type \in {"verify", "reset"} : u = tokens[i].user /\ type = tokens[i].type
    BY <2>2 DEF Token
  <2>4. PICK r \in Request : r = Start(type, "find", u, i, Unread) /\ r.at = "find" /\ r.token = i
                           /\ r.saves = 1
    BY <2>2, StartUnread
  <2>5. (FreshRequest(r))' /\ ~ Owing(r)
    BY <1>1, <2>1, <2>4 DEF FreshRequest, Owing, ValidToken
  <2>6. Serve(q, r)
    BY <2>1, <2>3, <2>4
  <2>. QED
    BY <1>4, <1>8, <2>5, <2>6 DEF CheckToken
<1>9. CASE ChangePassword(q)
  <2>1. PICK u \in Users :
          /\ Found(u)
          /\ passwords' = passwords + 1
          /\ Serve(q, Start("password", "select", u, 0, [users[u] EXCEPT !.password = passwords']))
    BY <1>9 DEF ChangePassword
  <2>2. PICK row \in Row : row = users[u] /\ u \in Ids /\ ~ row.deleted
    BY <2>1, FoundRow DEF IInv, Found
  <2>3. PICK n \in Nat : n = passwords' /\ n > row.password
    <3>1. row.password \in Nat /\ row.password <= passwords
      BY <2>2 DEF Row, FreshParts, Chosen
    <3>. QED
      BY <1>3, <2>1, <3>1
  <2>4. PICK entity \in Row : /\ entity = [row EXCEPT !.password = n]
                              /\ entity.password = n
    <3>1. [row EXCEPT !.password = n] \in Row /\ [row EXCEPT !.password = n].password = n
      BY DEF Row
    <3>. QED
      BY <3>1
  <2>5. PICK r : r = Start("password", "select", u, 0, entity)
    OBVIOUS
  <2>6. r.op = "password" /\ r.entity = entity /\ r.saves = 1
    BY <2>5 DEF Start
  <2>7. Meant(r, row)
    BY <2>3, <2>4, <2>6 DEF Meant
  <2>8. Serve(q, r) /\ UNCHANGED users
    BY <1>9, <2>1, <2>2, <2>3, <2>4, <2>5 DEF ChangePassword
  <2>9. entity.password <= passwords' /\ passwords' \in {passwords, passwords + 1}
    BY <2>1, <2>3, <2>4
  <2>10. Serve(q, Start("password", "select", u, 0, entity))
    BY <2>5, <2>8
  <2>11. Meant(Start("password", "select", u, 0, entity), users[u])
    BY <2>2, <2>5, <2>7
  <2>. QED
    BY <1>5, <2>2, <2>8, <2>9, <2>10, <2>11
<1>10. CASE Activate(q) \/ Suspend(q)
  <2>1. PICK u \in Users, op \in {"activate", "suspend"}, s \in {"active", "suspended"} :
          /\ Found(u) /\ users[u].status # s
          /\ Serve(q, Start(op, "select", u, 0, [users[u] EXCEPT !.status = s]))
    BY <1>10 DEF Activate, Suspend, UserGraph, CanApply
  <2>2. PICK row \in Row : row = users[u] /\ u \in Ids /\ ~ row.deleted
    BY <2>1, FoundRow DEF IInv, Found
  <2>3. PICK entity \in Row : /\ entity = [row EXCEPT !.status = s]
                              /\ entity.password = row.password
    <3>1. /\ [row EXCEPT !.status = s] \in Row
          /\ [row EXCEPT !.status = s].password = row.password
      BY DEF Row, UserStatus
    <3>. QED
      BY <3>1
  <2>4. PICK r : r = Start(op, "select", u, 0, entity)
    OBVIOUS
  <2>5. r.op = op /\ r.entity = entity /\ r.saves = 2
    BY <2>4 DEF Start
  <2>6. Meant(r, row)
    BY <2>1, <2>2, <2>3, <2>5 DEF Meant
  <2>7. Serve(q, r) /\ UNCHANGED <<users, passwords>>
    BY <1>10, <2>1, <2>2, <2>3, <2>4 DEF Activate, Suspend
  <2>8. entity.password <= passwords
    BY <2>2, <2>3 DEF FreshParts, Chosen
  <2>. QED
    BY <1>5, <2>2, <2>4, <2>6, <2>7, <2>8
<1>11. CASE Update(q)
  <2>1. PICK u \in Users : Found(u) /\ Serve(q, Start("update", "select", u, 0, users[u]))
    BY <1>11 DEF Update
  <2>2. PICK row \in Row : row = users[u] /\ u \in Ids /\ ~ row.deleted
    BY <2>1, FoundRow DEF IInv, Found
  <2>3. PICK r : r = Start("update", "select", u, 0, row)
    OBVIOUS
  <2>4. r.op = "update" /\ r.entity = row /\ r.saves = 1
    BY <2>3 DEF Start
  <2>5. Meant(r, row)
    BY <2>4 DEF Meant
  <2>6. Serve(q, r) /\ UNCHANGED <<users, passwords>> /\ row.password <= passwords
    BY <1>11, <2>1, <2>2, <2>3 DEF Update, FreshParts, Chosen
  <2>. QED
    BY <1>5, <2>2, <2>3, <2>5, <2>6
<1>. QED
  BY <1>6, <1>7, <1>8, <1>9, <1>10, <1>11 DEF Begin

(* A save that found nothing but what was meant leaves the entity as the row. *)
LEMMA SavedEntity ==
  ASSUME NEW row \in Row, NEW entity \in Row, NEW hash \in Nat,
         entity.password # row.password => hash = entity.password
  PROVE  Written(row, entity, Changed(entity, row), hash) = entity
<1>1. /\ "password" \in Changed(entity, row) <=> entity.password # row.password
      /\ "verified" \in Changed(entity, row) <=> entity.verified # row.verified
      /\ "status" \in Changed(entity, row) <=> entity.status # row.status
      /\ "deleted" \in Changed(entity, row) <=> entity.deleted # row.deleted
  BY DEF Changed, Columns
<1>2. entity = [password |-> entity.password, verified |-> entity.verified,
                status |-> entity.status, deleted |-> entity.deleted]
  BY DEF Row
<1>3. row.password \in Nat /\ row.verified \in BOOLEAN /\ entity.verified \in BOOLEAN
      /\ row.deleted \in BOOLEAN /\ entity.deleted \in BOOLEAN
  BY DEF Row
<1>. QED
  BY <1>1, <1>2, <1>3 DEF Written

LEMMA IssueKeeps ==
  ASSUME IInv, FreshParts, NEW q \in Slots, IssueToken(q)
  PROVE  Kept
<1>1. /\ sweep = Idle /\ sweep' = Idle
      /\ \A p \in Slots : p # q => requests[p] = Idle
  BY ContinueAlone DEF FreshParts, Continue
<1>2. /\ requests[q].at = "issue" /\ Serve(q, Idle)
      /\ UNCHANGED <<users, aged, passwords>>
      /\ \E token : tokens' = Append(tokens, token)
  BY DEF IssueToken, Finish
<1>3. (FreshRequest(Idle))' /\ ~ Owing(Idle) /\ ~ Owing(requests[q])
  BY <1>2 DEF FreshRequest, Owing, Idle, Steps
<1>4. OneAtATime' /\ RequestsFresh' /\ SweepFresh' /\ Credits = {} /\ Credits' = {}
  BY <1>1, <1>2, <1>3, AloneFresh
<1>5. Chosen'
  BY <1>2 DEF Chosen, FreshParts, Ids
<1>6. TokenIds \subseteq TokenIds' /\ \A i \in TokenIds : tokens'[i] = tokens[i]
  BY <1>2, AppendProperties, LenProperties DEF TokenIds, IInv, TokensOK
<1>7. Unspent \subseteq Unspent'
  BY <1>6 DEF Unspent
<1>8. Book!Issue
  BY <1>2, <1>4, <1>7 DEF Book!Issue, Unspent, Credits, Owed, Owing
<1>. QED
  BY <1>4, <1>5, <1>8 DEF Kept, FreshParts, Book!BookNext

(* A step that changes only what the slot has in memory, and nothing it owes. *)
LEMMA ServeKeeps ==
  ASSUME IInv, FreshParts, NEW q \in Slots, Continue(q), NEW r \in Request \cup {Idle},
         Serve(q, r), (FreshRequest(r))', UNCHANGED <<users, aged, tokens>>,
         passwords' \in {passwords, passwords + 1},
         Owing(r) <=> Owing(requests[q]),
         Owing(r) => r.user = requests[q].user /\ r.op = requests[q].op
  PROVE  Kept
<1>1. /\ sweep = Idle /\ sweep' = Idle
      /\ \A p \in Slots : p # q => requests[p] = Idle
  BY ContinueAlone DEF FreshParts
<1>2. OneAtATime' /\ RequestsFresh' /\ SweepFresh' /\ Credits' = Credits
  BY <1>1, AloneFresh
<1>3. ASSUME NEW u \in Ids
      PROVE  users[u].password <= passwords'
  <2>1. users[u].password \in Nat /\ users[u].password <= passwords
    BY FoundRow DEF IInv, Row, FreshParts, Chosen
  <2>2. passwords \in Nat
    BY DEF IInv, CountersOK
  <2>. QED
    BY <2>1, <2>2
<1>4. Chosen'
  BY <1>3 DEF Chosen, Ids
<1>. QED
  BY <1>2, <1>4, UnspentStays DEF Kept, FreshParts, BookVars

LEMMA FindKeeps ==
  ASSUME IInv, FreshParts, NEW q \in Slots, FindToken(q)
  PROVE  Kept
<1>1. PICK r \in Request : r = requests[q] /\ r.at = "find" /\ r # Idle /\ GoodRequest(r)
  BY BusySlot DEF FindToken, IInv, Steps
<1>2. Continue(q) /\ UNCHANGED <<users, aged, tokens>>
  BY DEF Continue, FindToken
<1>3. PICK row \in Row : row = users[r.user] /\ r.user \in Ids /\ row.password <= passwords
  BY <1>1, FoundRow DEF GoodRequest, IInv, FreshParts, Chosen
<1>4. FreshRequest(r) /\ ~ Owing(requests[q])
  BY <1>1 DEF FreshParts, RequestsFresh, Owing
<1>5. passwords \in Nat
  BY DEF IInv, CountersOK
<1>6. ASSUME NEW entity \in Row, entity.password <= passwords', ~ row.deleted,
             Serve(q, [r EXCEPT !.at = "spend", !.entity = entity]),
             passwords' \in {passwords, passwords + 1},
             r.op \in {"verify", "reset"},
             r.op = "verify" => entity = [row EXCEPT !.verified = TRUE],
             r.op = "reset" => /\ entity = [row EXCEPT !.password = entity.password]
                               /\ entity.password > row.password
      PROVE  Kept
  <2>1. PICK s : s = [r EXCEPT !.at = "spend", !.entity = entity]
    OBVIOUS
  <2>2. /\ s \in Request /\ s.at = "spend" /\ s.op = r.op /\ s.user = r.user
        /\ s.token = r.token /\ s.entity = entity /\ s.saves = r.saves
    BY <2>1 DEF Request, Steps
  <2>3. (FreshRequest(s))' /\ ~ Owing(s)
    BY <1>1, <1>2, <1>3, <1>4, <1>6, <2>2 DEF FreshRequest, Meant, Owing, Steps
  <2>. QED
    BY <1>2, <1>4, <1>6, <2>1, <2>2, <2>3, ServeKeeps
<1>7. CASE Finish(q) /\ UNCHANGED passwords
  <2>1. (FreshRequest(Idle))' /\ ~ Owing(Idle)
    BY DEF FreshRequest, Owing, Idle, Steps
  <2>. QED
    BY <1>2, <1>4, <1>7, <2>1, ServeKeeps DEF Finish
<1>8. CASE /\ ~ row.deleted /\ r.op = "verify" /\ UNCHANGED passwords
           /\ Serve(q, [r EXCEPT !.at = "spend", !.entity = [row EXCEPT !.verified = TRUE]])
  <2>1. PICK entity \in Row : /\ entity = [row EXCEPT !.verified = TRUE]
                              /\ entity.password = row.password
    <3>1. /\ [row EXCEPT !.verified = TRUE] \in Row
          /\ [row EXCEPT !.verified = TRUE].password = row.password
      BY DEF Row
    <3>. QED
      BY <3>1
  <2>. QED
    BY <1>3, <1>6, <1>8, <2>1
<1>9. CASE /\ ~ row.deleted /\ r.op = "reset" /\ passwords' = passwords + 1
           /\ Serve(q, [r EXCEPT !.at = "spend", !.entity = [row EXCEPT !.password = passwords']])
  <2>1. PICK n \in Nat : n = passwords' /\ n > row.password /\ n <= passwords'
    <3>1. row.password \in Nat /\ row.password <= passwords
      BY <1>3 DEF Row
    <3>. QED
      BY <1>5, <1>9, <3>1
  <2>2. PICK entity \in Row : entity = [row EXCEPT !.password = n] /\ entity.password = n
    <3>1. [row EXCEPT !.password = n] \in Row /\ [row EXCEPT !.password = n].password = n
      BY DEF Row
    <3>. QED
      BY <3>1
  <2>. QED
    BY <1>6, <1>9, <2>1, <2>2
<1>. QED
  BY <1>1, <1>3, <1>7, <1>8, <1>9 DEF FindToken

LEMMA SpendKeeps ==
  ASSUME IInv, FreshParts, NEW q \in Slots, SpendToken(q)
  PROVE  Kept
<1>1. PICK r \in Request : r = requests[q] /\ r.at = "spend" /\ r # Idle /\ GoodRequest(r)
  BY BusySlot DEF SpendToken, IInv, Steps
<1>2. /\ tokens' = [tokens EXCEPT ![r.token].state = "used"]
      /\ Serve(q, [r EXCEPT !.at = "select"])
      /\ UNCHANGED <<users, aged, passwords>>
  BY <1>1 DEF SpendToken
<1>3. /\ r.op \in {"verify", "reset"}
      /\ r.token \in TokenIds
      /\ tokens[r.token].user = r.user
      /\ tokens[r.token].type = r.op
  BY <1>1 DEF GoodRequest
<1>4. FreshRequest(r) /\ ~ Owing(r)
  BY <1>1 DEF FreshParts, RequestsFresh, Owing
<1>5. PICK s : s = [r EXCEPT !.at = "select"]
  OBVIOUS
<1>6. /\ s \in Request /\ s.at = "select" /\ s.op = r.op /\ s.user = r.user
      /\ s.entity = r.entity /\ s.saves = r.saves
  BY <1>5 DEF Request, Steps
<1>7. (FreshRequest(s))'
  BY <1>1, <1>2, <1>4, <1>6 DEF FreshRequest, Meant, Steps
<1>8. /\ sweep = Idle /\ sweep' = Idle
      /\ \A p \in Slots : p # q => requests[p] = Idle
  BY ContinueAlone DEF FreshParts, Continue
<1>9. /\ OneAtATime' /\ RequestsFresh' /\ SweepFresh'
      /\ Credits = {} /\ Credits' = {[user |-> r.user, type |-> r.op]}
  BY <1>1, <1>2, <1>3, <1>4, <1>5, <1>6, <1>7, <1>8, AloneFresh DEF Owing
<1>10. Chosen'
  BY <1>2 DEF Chosen, FreshParts, Ids
<1>11. PICK i \in TokenIds, token \in Token : i = r.token /\ token = tokens[i]
  BY <1>3, ElementOfSeq DEF IInv, TokensOK, TokenIds
<1>12. token.state # "used"
  BY <1>1, <1>4, <1>11 DEF FreshRequest
<1>13. PICK after \in Token : after = [token EXCEPT !.state = "used"] /\ after.state = "used"
  <2>1. /\ [token EXCEPT !.state = "used"] \in Token
        /\ [token EXCEPT !.state = "used"].state = "used"
    BY DEF Token
  <2>. QED
    BY <2>1
<1>14. /\ TokenIds' = TokenIds
       /\ tokens'[i] = after
       /\ \A j \in TokenIds : j # i => tokens'[j] = tokens[j]
  BY <1>2, <1>11, <1>13 DEF TokenIds, IInv, TokensOK
<1>15. PICK spent : spent = [id |-> i, user |-> token.user, type |-> token.type]
  OBVIOUS
<1>16. spent.user = r.user /\ spent.type = r.op /\ spent.id = i
  BY <1>3, <1>11, <1>15
<1>17. spent \in Unspent
  BY <1>11, <1>12, <1>15 DEF Unspent
<1>18. Unspent' = Unspent \ {spent}
  <2>1. ASSUME NEW j \in TokenIds, j # i
        PROVE  [id |-> j, user |-> tokens[j].user, type |-> tokens[j].type] # spent
    BY <2>1, <1>16
  <2>2. Unspent' = {[id |-> j, user |-> tokens[j].user, type |-> tokens[j].type] :
                      j \in {k \in TokenIds : k # i /\ tokens[k].state # "used"}}
    BY <1>13, <1>14 DEF Unspent
  <2>3. Unspent = {[id |-> j, user |-> tokens[j].user, type |-> tokens[j].type] :
                     j \in {k \in TokenIds : k # i /\ tokens[k].state # "used"}} \cup {spent}
    BY <1>11, <1>12, <1>15 DEF Unspent
  <2>. QED
    BY <2>1, <2>2, <2>3
<1>19. Book!Spend(spent)
  BY <1>2, <1>9, <1>16, <1>17, <1>18 DEF Book!Spend, Unspent, Credits, Owed, Owing
<1>. QED
  BY <1>9, <1>10, <1>17, <1>19 DEF Kept, FreshParts, Book!BookNext, Unspent

LEMMA SelectKeeps ==
  ASSUME IInv, FreshParts, NEW q \in Slots, SaveSelect(q)
  PROVE  Kept
<1>1. PICK r \in Request : r = requests[q] /\ r.at = "select" /\ r # Idle /\ GoodRequest(r)
  BY BusySlot DEF SaveSelect, IInv, Steps
<1>2. PICK changed \in SUBSET Columns : changed = Changed(r.entity, users[r.user])
  BY DEF Changed
<1>3. PICK s : s = [r EXCEPT !.at = "update", !.changed = changed]
  OBVIOUS
<1>4. /\ s \in Request /\ s.at = "update" /\ s.op = r.op /\ s.user = r.user
      /\ s.entity = r.entity /\ s.saves = r.saves /\ s.changed = changed
  BY <1>3 DEF Request, Steps
<1>5. Serve(q, s) /\ UNCHANGED <<users, aged, tokens, passwords>> /\ Continue(q)
  BY <1>1, <1>2, <1>3 DEF SaveSelect, Continue
<1>6. FreshRequest(r)
  BY <1>1 DEF FreshParts, RequestsFresh
<1>7. (FreshRequest(s))'
  BY <1>1, <1>2, <1>4, <1>5, <1>6 DEF FreshRequest, Meant, Changed, Steps
<1>. QED
  BY <1>1, <1>4, <1>5, <1>7, ServeKeeps DEF Owing

(* The save writes the entity, which is the row but for what was meant. *)
LEMMA SaveWrites ==
  ASSUME IInv, FreshParts, NEW q \in Slots, SaveUpdate(q)
  PROVE  \E r \in Request :
           /\ r = requests[q] /\ r.at = "update" /\ r.user \in Ids
           /\ r.entity \in Row /\ FreshRequest(r)
           /\ \/ /\ users' = [users EXCEPT ![r.user] = r.entity]
                 /\ IF r.saves = 2
                      THEN Serve(q, [r EXCEPT !.at = "select", !.saves = 1, !.changed = {}])
                      ELSE Finish(q)
              \/ r.op = "update" /\ Finish(q) /\ UNCHANGED users
<1>1. PICK r \in Request : r = requests[q] /\ r.at = "update" /\ r # Idle /\ GoodRequest(r)
  BY BusySlot DEF SaveUpdate, IInv, Steps
<1>2. FreshRequest(r)
  BY <1>1 DEF FreshParts, RequestsFresh
<1>3. PICK entity \in Row : entity = r.entity
  BY DEF Request
<1>4. PICK row \in Row : row = users[r.user] /\ r.user \in Ids
  BY <1>1, FoundRow DEF GoodRequest, IInv
<1>5. Meant(r, row) /\ r.changed = Changed(entity, row)
  BY <1>1, <1>2, <1>3, <1>4 DEF FreshRequest
<1>6. r.op \notin {"password", "reset"} => entity.password = row.password
  <2>1. r.op = "verify" => entity = [row EXCEPT !.verified = TRUE]
    BY <1>3, <1>5 DEF Meant
  <2>2. r.op \in {"activate", "suspend", "update"} =>
          entity = row \/ \E s \in {"active", "suspended"} : entity = [row EXCEPT !.status = s]
    BY <1>3, <1>5 DEF Meant, Request
  <2>3. [row EXCEPT !.verified = TRUE].password = row.password
    BY DEF Row
  <2>4. \A s \in {"active", "suspended"} : [row EXCEPT !.status = s].password = row.password
    BY DEF Row
  <2>. QED
    BY <2>1, <2>2, <2>3, <2>4 DEF Request, Ops
<1>7. PICK hash \in Nat : hash = IF r.op \in {"password", "reset"} THEN entity.password ELSE Broken
  BY DEF Row, Broken
<1>8. Written(row, entity, r.changed, hash) = entity
  BY <1>5, <1>6, <1>7, SavedEntity
<1>9. (IF "password" \in r.changed THEN hash ELSE entity.password) = entity.password
  BY <1>5, <1>6, <1>7 DEF Changed
<1>10. \/ /\ users' = [users EXCEPT ![r.user] = entity]
          /\ IF r.saves = 2
               THEN Serve(q, [r EXCEPT !.at = "select", !.saves = 1, !.changed = {},
                                       !.entity.password = entity.password])
               ELSE Finish(q)
       \/ r.op = "update" /\ Finish(q) /\ UNCHANGED users
  BY <1>1, <1>3, <1>4, <1>7, <1>8, <1>9 DEF SaveUpdate
<1>11. [r EXCEPT !.at = "select", !.saves = 1, !.changed = {}, !.entity.password = entity.password]
         = [r EXCEPT !.at = "select", !.saves = 1, !.changed = {}]
  <2>1. [entity EXCEPT !.password = entity.password] = entity
    BY DEF Row
  <2>2. [r EXCEPT !.at = "select", !.saves = 1, !.changed = {}, !.entity.password = entity.password]
          = [r EXCEPT !.at = "select", !.saves = 1, !.changed = {},
                      !.entity = [entity EXCEPT !.password = entity.password]]
    BY <1>3 DEF Request
  <2>. QED
    BY <1>3, <2>1, <2>2 DEF Request
<1>. QED
  BY <1>1, <1>2, <1>3, <1>4, <1>10, <1>11

LEMMA UpdateKeeps ==
  ASSUME IInv, FreshParts, NEW q \in Slots, SaveUpdate(q)
  PROVE  Kept
<1>1. PICK r \in Request :
        /\ r = requests[q] /\ r.at = "update" /\ r.user \in Ids
        /\ r.entity \in Row /\ FreshRequest(r)
        /\ \/ /\ users' = [users EXCEPT ![r.user] = r.entity]
              /\ IF r.saves = 2
                   THEN Serve(q, [r EXCEPT !.at = "select", !.saves = 1, !.changed = {}])
                   ELSE Finish(q)
           \/ r.op = "update" /\ Finish(q) /\ UNCHANGED users
  BY SaveWrites
<1>2. UNCHANGED <<aged, tokens, passwords>> /\ Continue(q)
  BY DEF SaveUpdate, Continue
<1>3. /\ sweep = Idle /\ sweep' = Idle
      /\ \A p \in Slots : p # q => requests[p] = Idle
  BY <1>2, ContinueAlone DEF FreshParts
<1>4. PICK u \in Ids, entity \in Row, row \in Row :
        u = r.user /\ entity = r.entity /\ row = users[u]
  BY <1>1, FoundRow DEF IInv
<1>5. Meant(r, row) /\ ~ row.deleted /\ entity.password <= passwords
  BY <1>1, <1>4 DEF FreshRequest
<1>6. (FreshRequest(Idle))' /\ ~ Owing(Idle)
  BY DEF FreshRequest, Owing, Idle, Steps
<1>7. UNCHANGED Unspent
  BY <1>2, UnspentStays
<1>8. CASE r.op = "update" /\ Finish(q) /\ UNCHANGED users
  BY <1>1, <1>2, <1>6, <1>8, ServeKeeps DEF Finish, Owing
<1>9. ASSUME users' = [users EXCEPT ![u] = entity]
      PROVE  Chosen' /\ Ids' = Ids /\ users'[u] = entity
  BY <1>2, <1>4, <1>5, <1>9 DEF Chosen, FreshParts, Ids, IInv, RowsOK
<1>10. CASE /\ users' = [users EXCEPT ![u] = entity] /\ r.saves = 2
            /\ Serve(q, [r EXCEPT !.at = "select", !.saves = 1, !.changed = {}])
  <2>1. PICK s : s = [r EXCEPT !.at = "select", !.saves = 1, !.changed = {}]
    OBVIOUS
  <2>2. /\ s \in Request /\ s.at = "select" /\ s.op = r.op /\ s.user = u
        /\ s.entity = entity /\ s.saves = 1
    <3>. PICK none \in SUBSET Columns : none = {}
      OBVIOUS
    <3>1. 1 \in 1..2
      OBVIOUS
    <3>. PICK one \in 1..2 : one = 1
      BY <3>1
    <3>2. s = [r EXCEPT !.at = "select", !.saves = one, !.changed = none]
      BY <2>1
    <3>. QED
      BY <1>4, <3>2 DEF Request, Steps
  <2>3. r.op \in {"activate", "suspend"}
    BY <1>1, <1>10 DEF FreshRequest, Steps
  <2>4. PICK to \in {"active", "suspended"} : row.status # to /\ entity = [row EXCEPT !.status = to]
    BY <1>4, <1>5, <1>10 DEF Meant
  <2>5. ~ entity.deleted
    BY <1>5, <2>4 DEF Row
  <2>6. (FreshRequest(s))'
    BY <1>2, <1>5, <1>9, <1>10, <2>2, <2>3, <2>5 DEF FreshRequest, Meant, Steps
  <2>7. OneAtATime' /\ RequestsFresh' /\ SweepFresh' /\ Credits = {} /\ Credits' = {}
    BY <1>1, <1>3, <1>10, <2>1, <2>2, <2>3, <2>6, AloneFresh DEF Owing
  <2>8. Book!Move(u)
    BY <1>2, <1>4, <1>5, <1>7, <1>10, <2>4, <2>7
    DEF Book!Move, Book!Standing, Ids, Unspent, Credits, Owed, Owing
  <2>. QED
    BY <1>9, <1>10, <2>7, <2>8, FoundRow DEF Kept, FreshParts, Book!BookNext, IInv
<1>11. CASE /\ users' = [users EXCEPT ![u] = entity] /\ r.saves # 2 /\ Finish(q)
  <2>1. /\ OneAtATime' /\ RequestsFresh' /\ SweepFresh' /\ Credits' = {}
        /\ Credits = IF Owing(r) THEN {[user |-> u, type |-> r.op]} ELSE {}
    BY <1>1, <1>3, <1>4, <1>6, <1>11, AloneFresh DEF Finish
  <2>2. u \in Users /\ Book!Standing(u)
    BY <1>4, <1>5, FoundRow DEF Book!Standing, Ids, IInv
  <2>6. r.op \in {"reset", "password"} => Book!Rekeyed(u)
    <3>. SUFFICES ASSUME r.op \in {"reset", "password"}
                  PROVE  Book!Rekeyed(u)
      OBVIOUS
    <3>1. entity = [row EXCEPT !.password = entity.password] /\ entity.password > row.password
      BY <1>4, <1>5 DEF Meant
    <3>2. users' = [users EXCEPT ![u].password = entity.password]
      BY <1>4, <1>11, <3>1
    <3>. QED
      BY <1>4, <1>9, <1>11, <3>1, <3>2 DEF Book!Rekeyed
  <2>3. CASE r.op \in {"verify", "reset"}
    <3>1. PICK credit : credit = [user |-> u, type |-> r.op]
      OBVIOUS
    <3>2. credit.user = u /\ credit.type = r.op
      BY <3>1
    <3>3. Credits = {credit} /\ Credits' = Credits \ {credit}
      BY <1>1, <2>1, <2>3, <3>1 DEF Owing
    <3>4. r.op = "verify" => users' = [users EXCEPT ![u].verified = TRUE]
      BY <1>4, <1>5, <1>11 DEF Meant
    <3>5. r.op = "reset" => Book!Rekeyed(u)
      BY <2>6
    <3>6. Book!Honour(credit)
      BY <1>2, <1>7, <2>2, <2>3, <3>2, <3>3, <3>4, <3>5
      DEF Book!Honour, Unspent, Credits, Owed, Owing
    <3>7. credit \in Credits
      BY <3>3
    <3>. QED
      BY <1>9, <1>11, <2>1, <3>6, <3>7 DEF Kept, FreshParts, Book!BookNext, Credits, Owed, Owing
  <2>4. CASE r.op = "password"
    <3>1. Book!Rekeyed(u)
      BY <2>4, <2>6
    <3>2. Credits = {}
      BY <2>1, <2>4 DEF Owing
    <3>3. Book!ChangePassword(u)
      BY <1>2, <1>7, <2>1, <2>2, <3>1, <3>2 DEF Book!ChangePassword, Unspent, Credits, Owed, Owing
    <3>. QED
      BY <1>9, <1>11, <2>1, <2>2, <3>3 DEF Kept, FreshParts, Book!BookNext
  <2>5. CASE r.op \in {"activate", "suspend", "update"}
    <3>1. entity = row
      BY <1>4, <1>5, <1>11, <2>5 DEF Meant, Request
    <3>2. users' = users
      BY <1>4, <1>11, <3>1 DEF IInv, RowsOK
    <3>3. Credits = {}
      BY <2>1, <2>5 DEF Owing
    <3>. QED
      BY <1>2, <1>7, <1>9, <1>11, <2>1, <3>2, <3>3 DEF Kept, FreshParts, BookVars
  <2>. QED
    BY <2>3, <2>4, <2>5 DEF Request, Ops
<1>. QED
  BY <1>1, <1>4, <1>8, <1>10, <1>11

LEMMA ContinueKeeps ==
  ASSUME IInv, FreshParts, NEW q \in Slots, Continue(q)
  PROVE  Kept
  BY IssueKeeps, FindKeeps, SpendKeeps, SelectKeeps, UpdateKeeps DEF Continue

-----------------------------------------------------------------------------
(* The sweep *)

(* A step of the sweep that only changes what it has in memory. *)
LEMMA SweepingKeeps ==
  ASSUME FreshParts, UNCHANGED <<users, aged, tokens, passwords, requests>>,
         \A q \in Slots : requests[q] = Idle, SweepFresh'
  PROVE  Kept
<1>1. OneAtATime' /\ Chosen'
  BY DEF FreshParts, OneAtATime, Chosen, Ids
<1>2. RequestsFresh'
  BY DEF RequestsFresh, FreshRequest, Idle, Steps
<1>3. UNCHANGED BookVars
  BY UnspentStays DEF BookVars, Credits, Owed
<1>. QED
  BY <1>1, <1>2, <1>3 DEF Kept, FreshParts

LEMMA SweepFindKeeps ==
  ASSUME IInv, FreshParts, MaxBusy = 1, IsFiniteSet(Slots), SweepFind
  PROVE  Kept
<1>1. /\ sweep'.at = "select"
      /\ sweep'.entities = [u \in OverGracePeriod |-> [users[u] EXCEPT !.deleted = TRUE]]
      /\ UNCHANGED <<users, aged, tokens, passwords, requests>>
  BY DEF SweepFind
<1>2. \A q \in Slots : requests[q] = Idle
  BY NothingBusy DEF SweepFind
<1>3. \A u \in OverGracePeriod : u \in aged /\ ~ users[u].verified /\ ~ users[u].deleted
  BY DEF OverGracePeriod
<1>4. SweepFresh'
  BY <1>1, <1>3 DEF SweepFresh
<1>. QED
  BY <1>1, <1>2, <1>4, SweepingKeeps

(* What the sweep holds. *)
LEMMA SweepHolds ==
  ASSUME IInv, FreshParts, sweep # Idle
  PROVE  /\ \A q \in Slots : requests[q] = Idle
         /\ DOMAIN sweep.entities \subseteq Ids
         /\ \E found \in SUBSET Ids :
              sweep \in [at : {"select", "update"}, entities : [found -> Row],
                         changed : [found -> SUBSET Columns]]
<1>1. \A q \in Slots : requests[q] = Idle
  BY DEF FreshParts, OneAtATime
<1>2. PICK found \in SUBSET Ids :
        sweep \in [at : {"select", "update"}, entities : [found -> Row],
                   changed : [found -> SUBSET Columns]]
  BY DEF IInv, SweepOK
<1>. QED
  BY <1>1, <1>2

LEMMA SweepSelectKeeps ==
  ASSUME IInv, FreshParts, SweepSelect
  PROVE  Kept
<1>1. sweep # Idle
  BY DEF SweepSelect, Idle
<1>2. PICK found \in SUBSET Ids :
        sweep \in [at : {"select", "update"}, entities : [found -> Row],
                   changed : [found -> SUBSET Columns]]
  BY <1>1, SweepHolds
<1>3. /\ sweep'.entities = sweep.entities
      /\ sweep'.changed = [u \in DOMAIN sweep.entities |-> Changed(sweep.entities[u], users[u])]
      /\ UNCHANGED <<users, aged, tokens, passwords, requests>>
  BY <1>2 DEF SweepSelect
<1>4. ASSUME NEW u \in DOMAIN sweep'.entities
      PROVE  /\ u \in aged' /\ ~ users'[u].verified /\ ~ users'[u].deleted
             /\ sweep'.entities[u] = [users'[u] EXCEPT !.deleted = TRUE]
             /\ sweep'.changed[u] = Changed(sweep.entities[u], users[u])
  BY <1>1, <1>3, <1>4 DEF SweepFresh, FreshParts
<1>5. SweepFresh'
  BY <1>3, <1>4 DEF SweepFresh, Changed
<1>. QED
  BY <1>1, <1>3, <1>5, SweepHolds, SweepingKeeps

LEMMA SweepUpdateKeeps ==
  ASSUME IInv, FreshParts, SweepUpdate
  PROVE  Kept
<1>1. sweep # Idle /\ sweep.at = "update"
  BY DEF SweepUpdate, Idle
<1>2. PICK found \in SUBSET Ids :
        sweep \in [at : {"select", "update"}, entities : [found -> Row],
                   changed : [found -> SUBSET Columns]]
  BY <1>1, SweepHolds
<1>3. /\ users' = [u \in Ids |->
                     IF u \in found
                       THEN Written(users[u], sweep.entities[u], sweep.changed[u], Broken)
                       ELSE users[u]]
      /\ sweep' = Idle
      /\ UNCHANGED <<aged, tokens, passwords, requests>>
  BY <1>2 DEF SweepUpdate
<1>4. \A q \in Slots : requests[q] = Idle
  BY <1>1, SweepHolds
<1>5. ASSUME NEW u \in Ids
      PROVE  users'[u] = [users[u] EXCEPT !.deleted = @ \/ u \in found]
  <2>1. PICK row \in Row : row = users[u]
    BY FoundRow DEF IInv
  <2>2. CASE u \notin found
    <3>1. [row EXCEPT !.deleted = row.deleted] = row
      BY DEF Row
    <3>. QED
      BY <1>3, <2>1, <2>2, <3>1 DEF Row
  <2>3. CASE u \in found
    <3>1. PICK entity \in Row : entity = sweep.entities[u]
      BY <1>2, <2>3
    <3>2. entity = [row EXCEPT !.deleted = TRUE] /\ sweep.changed[u] = Changed(entity, row)
      BY <1>1, <1>2, <2>1, <2>3, <3>1 DEF FreshParts, SweepFresh
    <3>3. entity.password = row.password
      BY <3>2 DEF Row
    <3>4. Written(row, entity, Changed(entity, row), Broken) = entity
      BY <3>3, SavedEntity DEF Broken
    <3>. QED
      BY <1>3, <2>1, <2>3, <3>1, <3>2, <3>4
  <2>. QED
    BY <2>2, <2>3
<1>6. \A u \in found : u \in aged /\ ~ users[u].verified /\ ~ users[u].deleted
  BY <1>1, <1>2 DEF FreshParts, SweepFresh
<1>7. users' = [u \in Ids |-> [users[u] EXCEPT !.deleted = @ \/ u \in found]]
  BY <1>3, <1>5
<1>8. UNCHANGED <<Unspent, Credits>>
  BY <1>3, UnspentStays DEF Credits, Owed
<1>9. Book!Close(found)
  BY <1>2, <1>3, <1>6, <1>7, <1>8 DEF Book!Close, Book!Standing, Ids, Unspent, Credits, Owed, Owing
<1>10. \A u \in Ids : users'[u].password = users[u].password
  <2>1. ASSUME NEW u \in Ids
        PROVE  users'[u].password = users[u].password
    <3>1. PICK row \in Row : row = users[u]
      BY FoundRow DEF IInv
    <3>2. \A b : [row EXCEPT !.deleted = b].password = row.password
      BY DEF Row
    <3>. QED
      BY <1>5, <3>1, <3>2
  <2>. QED
    BY <2>1
<1>11. Chosen' /\ OneAtATime' /\ SweepFresh'
  BY <1>3, <1>4, <1>10 DEF Chosen, FreshParts, OneAtATime, SweepFresh, Ids
<1>12. RequestsFresh'
  BY <1>3, <1>4 DEF RequestsFresh, FreshRequest, Idle, Steps
<1>13. Book!BookNext
  BY <1>9 DEF Book!BookNext, Ids
<1>. QED
  BY <1>11, <1>12, <1>13 DEF Kept, FreshParts

-----------------------------------------------------------------------------
(* The surroundings *)

(* While the rows there are and the tokens' use stay, what was read is still so. *)
LEMMA StillFresh ==
  ASSUME IInv, FreshParts, UNCHANGED <<requests, sweep, passwords>>,
         Ids \subseteq Ids', \A u \in Ids : users'[u] = users[u], aged \subseteq aged',
         \A i \in TokenIds : tokens'[i].state = "used" => tokens[i].state = "used"
  PROVE  OneAtATime' /\ RequestsFresh' /\ SweepFresh'
<1>1. OneAtATime'
  BY DEF FreshParts, OneAtATime
<1>2. ASSUME NEW q \in Slots
      PROVE  (FreshRequest(requests[q]))'
  <2>1. CASE requests[q] = Idle
    BY <2>1 DEF FreshRequest, Idle, Steps
  <2>2. CASE requests[q] # Idle
    <3>1. PICK r \in Request : r = requests[q] /\ GoodRequest(r) /\ r # Idle
      BY <2>2 DEF IInv, RequestsOK
    <3>2. FreshRequest(r)
      BY <3>1 DEF FreshParts, RequestsFresh
    <3>3. users'[r.user] = users[r.user]
      BY <3>1 DEF GoodRequest
    <3>4. r.at \in {"find", "spend"} => r.token \in TokenIds
      BY <3>1 DEF GoodRequest
    <3>5. (FreshRequest(r))'
      BY <3>2, <3>3, <3>4 DEF FreshRequest
    <3>. QED
      BY <3>1, <3>5
  <2>. QED
    BY <2>1, <2>2
<1>3. SweepFresh'
  <2>1. sweep # Idle => DOMAIN sweep.entities \subseteq Ids
    BY SweepHolds
  <2>. QED
    BY <2>1 DEF SweepFresh, FreshParts
<1>. QED
  BY <1>1, <1>2, <1>3 DEF RequestsFresh

LEMMA SurroundingsKeep ==
  ASSUME IInv, FreshParts, Surroundings \/ UNCHANGED vars
  PROVE  Kept
<1>1. ASSUME NEW u \in Users, Join(u)
      PROVE  Kept
  <2>1. /\ u \in Invited \ Ids
        /\ users' = [v \in Ids \cup {u} |-> IF v = u THEN NewRow(TRUE) ELSE users[v]]
        /\ UNCHANGED <<aged, tokens, passwords, requests, sweep>>
    BY <1>1 DEF Join
  <2>2. /\ Ids' = Ids \cup {u}
        /\ \A v \in Ids : users'[v] = users[v]
        /\ users'[u] = NewRow(TRUE)
    BY <2>1 DEF Ids
  <2>3. OneAtATime' /\ RequestsFresh' /\ SweepFresh'
    BY <2>1, <2>2, StillFresh
  <2>4. Chosen'
    <3>1. NewRow(TRUE).password <= passwords
      BY DEF NewRow, IInv, CountersOK
    <3>. QED
      BY <2>1, <2>2, <3>1 DEF Chosen, FreshParts
  <2>5. UNCHANGED <<Unspent, Credits>>
    BY <2>1, UnspentStays DEF Credits, Owed
  <2>6. Book!Open(u)
    BY <2>1, <2>2, <2>5 DEF Book!Open, Ids, NewRow, Unspent, Credits, Owed, Owing
  <2>. QED
    BY <2>3, <2>4, <2>6 DEF Kept, FreshParts, Book!BookNext
<1>2. ASSUME NEW u \in Users, Age(u)
      PROVE  Kept
  <2>1. aged' = aged \cup {u} /\ UNCHANGED <<users, tokens, passwords, requests, sweep>>
    BY <1>2 DEF Age
  <2>2. OneAtATime' /\ RequestsFresh' /\ SweepFresh'
    BY <2>1, StillFresh DEF Ids
  <2>3. Chosen' /\ UNCHANGED <<Unspent, Credits>>
    BY <2>1, UnspentStays DEF Chosen, FreshParts, Ids, Credits, Owed
  <2>4. Book!Age(u)
    BY <2>1, <2>3 DEF Book!Age, Unspent, Credits, Owed, Owing
  <2>. QED
    BY <2>2, <2>3, <2>4 DEF Kept, FreshParts, Book!BookNext
<1>3. ASSUME NEW i \in TokenIds, Lapse(i)
      PROVE  Kept
  <2>1. /\ tokens[i].state = "live" /\ tokens' = [tokens EXCEPT ![i].state = "lapsed"]
        /\ UNCHANGED <<users, aged, passwords, requests, sweep>>
    BY <1>3 DEF Lapse
  <2>2. PICK token \in Token : token = tokens[i]
    BY ElementOfSeq DEF IInv, TokensOK, TokenIds
  <2>3. PICK after \in Token : /\ after = [token EXCEPT !.state = "lapsed"]
                               /\ after.state = "lapsed"
                               /\ after.user = token.user /\ after.type = token.type
    <3>1. /\ [token EXCEPT !.state = "lapsed"] \in Token
          /\ [token EXCEPT !.state = "lapsed"].state = "lapsed"
          /\ [token EXCEPT !.state = "lapsed"].user = token.user
          /\ [token EXCEPT !.state = "lapsed"].type = token.type
      BY DEF Token
    <3>. QED
      BY <3>1
  <2>4. /\ TokenIds' = TokenIds
        /\ tokens'[i] = after
        /\ \A j \in TokenIds : j # i => tokens'[j] = tokens[j]
    BY <2>1, <2>2, <2>3 DEF TokenIds, IInv, TokensOK
  <2>5. OneAtATime' /\ RequestsFresh' /\ SweepFresh'
    <3>1. \A j \in TokenIds : tokens'[j].state = "used" => tokens[j].state = "used"
      BY <2>3, <2>4
    <3>. QED
      BY <2>1, <3>1, StillFresh DEF Ids
  <2>6. \A j \in TokenIds : /\ tokens'[j].user = tokens[j].user
                            /\ tokens'[j].type = tokens[j].type
                            /\ tokens'[j].state = "used" <=> tokens[j].state = "used"
    BY <2>1, <2>2, <2>3, <2>4
  <2>7. UNCHANGED <<Unspent, Credits>>
    BY <2>1, <2>4, <2>6 DEF Unspent, Credits, Owed
  <2>8. Chosen'
    BY <2>1 DEF Chosen, FreshParts, Ids
  <2>. QED
    BY <2>1, <2>5, <2>7, <2>8 DEF Kept, FreshParts, BookVars
<1>4. CASE Crash
  <2>1. /\ requests' = [q \in Slots |-> Idle] /\ sweep' = Idle
        /\ UNCHANGED <<users, aged, tokens, passwords>>
    BY <1>4 DEF Crash
  <2>2. FreshParts'
    BY <2>1 DEF FreshParts, OneAtATime, Chosen, Ids, RequestsFresh, FreshRequest, Idle, Steps,
                SweepFresh
  <2>3. Credits' = {} /\ UNCHANGED Unspent
    BY <2>1, UnspentStays DEF Credits, Owed, Owing, Idle
  <2>4. Book!Lose
    BY <2>1, <2>3 DEF Book!Lose, Unspent, Credits, Owed, Owing
  <2>. QED
    BY <2>2, <2>4 DEF Kept, Book!BookNext
<1>5. CASE UNCHANGED vars
  <2>1. UNCHANGED <<users, aged, tokens, passwords, requests, sweep>>
    BY <1>5 DEF vars
  <2>2. OneAtATime' /\ RequestsFresh' /\ SweepFresh'
    BY <2>1, StillFresh DEF Ids
  <2>3. Chosen' /\ UNCHANGED BookVars
    BY <2>1, UnspentStays DEF Chosen, FreshParts, Ids, Credits, Owed, BookVars
  <2>. QED
    BY <2>2, <2>3 DEF Kept, FreshParts
<1>. QED
  BY <1>1, <1>2, <1>3, <1>4, <1>5 DEF Surroundings

LEMMA NextKeeps ==
  ASSUME IInv, FreshParts, MaxBusy = 1, IsFiniteSet(Slots), [Next]_vars
  PROVE  Kept
  BY BeginKeeps, ContinueKeeps, SweepFindKeeps, SweepSelectKeeps, SweepUpdateKeeps,
     SurroundingsKeep DEF Next, Sweeping

LEMMA InitFresh == Init => FreshParts
<1>. SUFFICES ASSUME Init
              PROVE  FreshParts
  OBVIOUS
<1>1. Ids = {}
  BY DEF Init, Ids
<1>2. \A q \in Slots : requests[q] = Idle
  BY DEF Init
<1>. QED
  BY <1>1, <1>2 DEF Init, FreshParts, OneAtATime, Chosen, RequestsFresh, FreshRequest, Idle, Steps,
                    SweepFresh

(* One request or sweep at a time, Accounts implements AccountBook: each save   *)
(* changes what its handler meant to change and nothing else, a token has its   *)
(* effect once or never, and only old users who never verified are closed.      *)
THEOREM BookKept ==
  ASSUME MaxBusy = 1, IsFiniteSet(Slots)
  PROVE  Spec => KeepsBook
<1>1. Init => Book!BookInit
  <2>. SUFFICES ASSUME Init
                PROVE  Book!BookInit
    OBVIOUS
  <2>1. Ids = {} /\ TokenIds = {}
    BY DEF Init, Ids, TokenIds
  <2>2. \A q \in Slots : requests[q] = Idle
    BY DEF Init
  <2>3. Unspent = {} /\ Credits = {}
    BY <2>1, <2>2 DEF Unspent, Credits, Owed, Owing, Idle
  <2>. QED
    BY <2>1, <2>3 DEF Init, Book!BookInit, Ids, Unspent, Credits, Owed, Owing
<1>2. IInv /\ FreshParts /\ [Next]_vars => FreshParts' /\ [Book!BookNext]_(Book!book)
  <2>1. Book!book = BookVars
    BY DEF Book!book, BookVars, Unspent, Credits, Owed, Owing
  <2>. QED
    BY <2>1, NextKeeps DEF Kept, Book!book, BookVars, Unspent, Credits, Owed, Owing
<1>. QED
  BY <1>1, <1>2, InitFresh, Inductive, PTL DEF Spec, KeepsBook, Book!BookSpec

(* A row in the book gets a password that was chosen later, or keeps its own. *)
SameOrLater(row, next) == next.password = row.password \/ next.password > row.password

LEMMA BookRekeys ==
  ASSUME IInv, [Book!BookNext]_BookVars, NEW u \in Ids
  PROVE  SameOrLater(users[u], users'[u])
<1>1. PICK row \in Row : row = users[u]
  BY FoundRow DEF IInv
<1>2. ASSUME NEW r, r.password = row.password, users'[u] = r
      PROVE  SameOrLater(users[u], users'[u])
  BY <1>1, <1>2 DEF SameOrLater
<1>3. CASE UNCHANGED users
  BY <1>3 DEF SameOrLater
<1>4. ASSUME NEW v, NEW n, n > users[v].password, users' = [users EXCEPT ![v].password = n]
      PROVE  SameOrLater(users[u], users'[u])
  <2>1. CASE u = v
    <3>1. users'[u] = [row EXCEPT !.password = n]
      BY <1>1, <1>4, <2>1 DEF Ids
    <3>2. users'[u].password = n
      BY <3>1 DEF Row
    <3>. QED
      BY <1>4, <2>1, <3>2 DEF SameOrLater
  <2>2. CASE u # v
    <3>1. users'[u] = users[u]
      BY <1>4, <2>2
    <3>. QED
      BY <3>1 DEF SameOrLater
  <2>. QED
    BY <2>1, <2>2
<1>5. ASSUME NEW v, Book!Rekeyed(v)
      PROVE  SameOrLater(users[u], users'[u])
  BY <1>4, <1>5 DEF Book!Rekeyed
<1>6. ASSUME NEW v, NEW column \in {"verified", "status"}, NEW x,
             users' = [users EXCEPT ![v] = [@ EXCEPT ![column] = x]]
      PROVE  SameOrLater(users[u], users'[u])
  <2>1. users'[u] = row \/ users'[u] = [row EXCEPT ![column] = x]
    BY <1>1, <1>6 DEF Ids
  <2>2. [row EXCEPT ![column] = x].password = row.password
    BY DEF Row
  <2>. QED
    BY <1>2, <2>1, <2>2
<1>7. ASSUME NEW v, Book!Open(v)
      PROVE  SameOrLater(users[u], users'[u])
  <2>1. users'[u] = users[u]
    BY <1>7 DEF Book!Open, Ids
  <2>. QED
    BY <2>1 DEF SameOrLater
<1>8. ASSUME NEW v, Book!Move(v)
      PROVE  SameOrLater(users[u], users'[u])
  <2>1. PICK x : users' = [users EXCEPT ![v].status = x]
    BY <1>8 DEF Book!Move
  <2>. QED
    BY <1>6, <2>1
<1>9. ASSUME NEW credit, Book!Honour(credit)
      PROVE  SameOrLater(users[u], users'[u])
  <2>1. CASE Book!Rekeyed(credit.user)
    BY <1>5, <2>1
  <2>2. CASE users' = [users EXCEPT ![credit.user].verified = TRUE]
    BY <1>6, <2>2
  <2>. QED
    BY <1>9, <2>1, <2>2 DEF Book!Honour
<1>10. ASSUME NEW closed, Book!Close(closed)
       PROVE  SameOrLater(users[u], users'[u])
  <2>1. users'[u] = [row EXCEPT !.deleted = row.deleted \/ u \in closed]
    BY <1>1, <1>10 DEF Book!Close, Ids
  <2>2. PICK b : b = (row.deleted \/ u \in closed)
    OBVIOUS
  <2>3. [row EXCEPT !.deleted = b].password = row.password
    BY DEF Row
  <2>. QED
    BY <1>2, <2>1, <2>2, <2>3
<1>11. CASE Book!BookNext
  <2>1. \/ \E v : \/ Book!Open(v) \/ Book!Move(v) \/ Book!Rekeyed(v)
        \/ \E credit : Book!Honour(credit)
        \/ \E closed : Book!Close(closed)
        \/ UNCHANGED users
    BY <1>11 DEF Book!BookNext, Book!ChangePassword, Book!Issue, Book!Spend, Book!Lose, Book!Age
  <2>. QED
    BY <1>3, <1>5, <1>7, <1>8, <1>9, <1>10, <2>1
<1>. QED
  BY <1>3, <1>11 DEF BookVars

(* Users begin with the password they chose. *)
LEMMA NewPasswords ==
  ASSUME IInv, [Next]_vars, NEW u \in Ids' \ Ids
  PROVE  users'[u].password = 1
<1>1. ASSUME NEW v, NEW verified,
             users' = [w \in Ids \cup {v} |-> IF w = v THEN NewRow(verified) ELSE users[w]]
      PROVE  users'[u].password = 1
  BY <1>1 DEF Ids, NewRow
<1>2. ASSUME NEW q \in Slots, SaveUpdate(q)
      PROVE  Ids' = Ids
  BY <1>2 DEF SaveUpdate, IInv, RowsOK, Ids
<1>3. SweepUpdate => Ids' = Ids
  BY DEF SweepUpdate, Ids
<1>4. UNCHANGED users => Ids' = Ids
  BY DEF Ids
<1>5. ASSUME NEW q \in Slots, Begin(q), ~ Register(q)
      PROVE  UNCHANGED users
  BY <1>5 DEF Begin, AskForToken, CheckToken, ChangePassword, Activate, Suspend, Update
<1>6. ASSUME NEW q \in Slots, Continue(q), ~ SaveUpdate(q)
      PROVE  UNCHANGED users
  BY <1>6 DEF Continue, IssueToken, FindToken, SpendToken, SaveSelect
<1>7. CASE Sweeping
  BY <1>3, <1>4, <1>7 DEF Sweeping, SweepFind, SweepSelect
<1>8. CASE Surroundings
  <2>1. ASSUME NEW v \in Users, Join(v)
        PROVE  users'[u].password = 1
    BY <1>1, <2>1 DEF Join
  <2>. QED
    BY <1>4, <1>8, <2>1 DEF Surroundings, Age, Lapse, Crash
<1>9. CASE UNCHANGED vars
  BY <1>4, <1>9 DEF vars
<1>10. ASSUME NEW q \in Slots, Register(q)
       PROVE  users'[u].password = 1
  BY <1>1, <1>10 DEF Register
<1>. QED
  BY <1>2, <1>4, <1>5, <1>6, <1>7, <1>8, <1>9, <1>10 DEF Next

(* One request or sweep at a time, no save hashes a hash: what the book says of *)
(* passwords, and the password a user registers with, make every stored         *)
(* password one that somebody chose.                                            *)
THEOREM PasswordsStayOpen ==
  ASSUME MaxBusy = 1, IsFiniteSet(Slots)
  PROVE  Spec => []PasswordsOpen
<1>1. Init => PasswordsOpen
  BY DEF Init, PasswordsOpen, Ids
<1>2. IInv /\ IInv' /\ FreshParts /\ PasswordsOpen /\ [Next]_vars => FreshParts' /\ PasswordsOpen'
  <2>. SUFFICES ASSUME IInv, IInv', FreshParts, PasswordsOpen, [Next]_vars
                PROVE  FreshParts' /\ PasswordsOpen'
    OBVIOUS
  <2>1. FreshParts' /\ [Book!BookNext]_BookVars
    BY NextKeeps DEF Kept
  <2>2. ASSUME NEW u \in Ids'
        PROVE  users'[u].password # Broken
    <3>1. CASE u \in Ids
      <4>1. users[u].password \in Nat /\ users'[u].password \in Nat
        BY <3>1 DEF IInv, RowsOK, Row
      <4>2. SameOrLater(users[u], users'[u]) /\ users[u].password # 0
        BY <2>1, <3>1, BookRekeys DEF PasswordsOpen, Broken
      <4>. QED
        BY <4>1, <4>2 DEF SameOrLater, Broken
    <3>2. CASE u \notin Ids
      BY <3>2, NewPasswords DEF Broken
    <3>. QED
      BY <3>1, <3>2
  <2>. QED
    BY <2>1, <2>2 DEF PasswordsOpen
<1>. QED
  BY <1>1, <1>2, InitFresh, Inductive, PTL DEF Spec
=============================================================================
