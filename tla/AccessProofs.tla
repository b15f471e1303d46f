---------------------------- MODULE AccessProofs ----------------------------
(***************************************************************************)
(* Proofs about Access, for any users, slots, lifetimes, workloads and     *)
(* bounds: who is let in had the current session and the right, who is     *)
(* refused did not, a listing stays within reach, roles change by whoever  *)
(* may change them, and who waits for redis is answered.                   *)
(***************************************************************************)
EXTENDS Access, SearchProofs, SequenceTheorems

-----------------------------------------------------------------------------
(* What redis holds once it has executed the first commands of a sequence *)

WritesTo(command, u) == command.user = u /\ command.do # "get"

(* The value of u's session after n commands, when it was first before them. *)
Reads(commands, first, n, u, v) ==
  \/ v = first /\ \A i \in 1..n : ~ WritesTo(commands[i], u)
  \/ \E i \in 1..n : /\ WritesTo(commands[i], u) /\ v = commands[i].token
                     /\ \A j \in (i + 1)..n : ~ WritesTo(commands[j], u)

LEMMA NothingRead ==
  ASSUME NEW commands, NEW first, NEW u, NEW v, Reads(commands, first, 0, u, v)
  PROVE  v = first
  BY DEF Reads

(* Only the commands that are executed matter. *)
LEMMA SamePrefix ==
  ASSUME NEW c, NEW d, NEW first, NEW n \in Nat, NEW u, NEW v,
         \A i \in 1..n : d[i] = c[i], Reads(c, first, n, u, v)
  PROVE  Reads(d, first, n, u, v)
  BY DEF Reads

LEMMA WriteRead ==
  ASSUME NEW c, NEW first, NEW n \in Nat, NEW u, WritesTo(c[n + 1], u)
  PROVE  Reads(c, first, n + 1, u, c[n + 1].token)
  BY DEF Reads

LEMMA GetReadsOn ==
  ASSUME NEW c, NEW first, NEW n \in Nat, NEW u, NEW v, ~ WritesTo(c[n + 1], u),
         Reads(c, first, n, u, v)
  PROVE  Reads(c, first, n + 1, u, v)
<1>1. CASE v = first /\ \A i \in 1..n : ~ WritesTo(c[i], u)
  <2>1. \A i \in 1..(n + 1) : i \in 1..n \/ i = n + 1
    OBVIOUS
  <2>. QED
    BY <1>1, <2>1 DEF Reads
<1>2. CASE \E i \in 1..n : /\ WritesTo(c[i], u) /\ v = c[i].token
                           /\ \A j \in (i + 1)..n : ~ WritesTo(c[j], u)
  <2>1. PICK i \in 1..n : /\ WritesTo(c[i], u) /\ v = c[i].token
                          /\ \A j \in (i + 1)..n : ~ WritesTo(c[j], u)
    BY <1>2
  <2>2. i \in 1..(n + 1) /\ \A j \in (i + 1)..(n + 1) : j \in (i + 1)..n \/ j = n + 1
    OBVIOUS
  <2>. QED
    BY <2>1, <2>2 DEF Reads
<1>. QED
  BY <1>1, <1>2 DEF Reads

(* Without the first k commands, the value is the same or the first one. *)
LEMMA Suffix ==
  ASSUME NEW c, NEW d, NEW first, NEW k \in Nat, NEW n \in Nat, NEW u, NEW v,
         \A i \in 1..n : d[i] = c[i + k], Reads(c, first, n + k, u, v)
  PROVE  \/ Reads(d, first, n, u, v)
         \/ Reads(d, first, n, u, first)
<1>1. CASE \A i \in 1..n : ~ WritesTo(d[i], u)
  BY <1>1 DEF Reads
<1>2. CASE \E i \in 1..n : WritesTo(d[i], u)
  <2>1. PICK i \in 1..n : WritesTo(d[i], u)
    BY <1>2
  <2>2. i + k \in 1..(n + k) /\ WritesTo(c[i + k], u)
    BY <2>1
  <2>3. PICK l \in 1..(n + k) : /\ WritesTo(c[l], u) /\ v = c[l].token
                                /\ \A j \in (l + 1)..(n + k) : ~ WritesTo(c[j], u)
    BY <2>2 DEF Reads
  <2>4. i + k <= l
    BY <2>2, <2>3
  <2>5. /\ l - k \in 1..n /\ d[l - k] = c[l]
    <3>1. l - k \in 1..n
      BY <2>4
    <3>2. d[l - k] = c[(l - k) + k]
      BY <3>1
    <3>. QED
      BY <3>1, <3>2
  <2>6. ASSUME NEW j \in ((l - k) + 1)..n
        PROVE  ~ WritesTo(d[j], u)
    <3>1. j \in 1..n /\ j + k \in (l + 1)..(n + k)
      BY <2>5
    <3>. QED
      BY <2>3, <3>1
  <2>. QED
    BY <2>3, <2>5, <2>6 DEF Reads
<1>. QED
  BY <1>1, <1>2

(* Once the first command is executed, the others lead to the same value. *)
LEMMA FirstDone ==
  ASSUME NEW c, NEW d, NEW first, NEW n \in Nat, NEW u, NEW v,
         \A i \in 1..n : d[i] = c[i + 1], Reads(c, first, n + 1, u, v)
  PROVE  Reads(d, IF WritesTo(c[1], u) THEN c[1].token ELSE first, n, u, v)
<1>1. CASE v = first /\ \A i \in 1..(n + 1) : ~ WritesTo(c[i], u)
  <2>1. \A i \in 1..n : i + 1 \in 1..(n + 1)
    OBVIOUS
  <2>2. 1 \in 1..(n + 1)
    OBVIOUS
  <2>. QED
    BY <1>1, <2>1, <2>2 DEF Reads
<1>2. CASE \E i \in 1..(n + 1) : /\ WritesTo(c[i], u) /\ v = c[i].token
                                 /\ \A j \in (i + 1)..(n + 1) : ~ WritesTo(c[j], u)
  <2>1. PICK l \in 1..(n + 1) : /\ WritesTo(c[l], u) /\ v = c[l].token
                                /\ \A j \in (l + 1)..(n + 1) : ~ WritesTo(c[j], u)
    BY <1>2
  <2>2. ASSUME NEW j \in 1..n, j + 1 > l
        PROVE  ~ WritesTo(d[j], u)
    <3>1. j + 1 \in (l + 1)..(n + 1)
      BY <2>2
    <3>. QED
      BY <2>1, <3>1
  <2>3. CASE l = 1
    <3>1. \A j \in 1..n : ~ WritesTo(d[j], u)
      BY <2>2, <2>3
    <3>. QED
      BY <2>1, <2>3, <3>1 DEF Reads
  <2>4. CASE l # 1
    <3>1. l - 1 \in 1..n /\ d[l - 1] = c[(l - 1) + 1]
      BY <2>4
    <3>2. WritesTo(d[l - 1], u) /\ v = d[l - 1].token
      BY <2>1, <3>1
    <3>3. \A j \in ((l - 1) + 1)..n : ~ WritesTo(d[j], u)
      BY <2>2, <2>4, <3>1
    <3>. QED
      BY <3>1, <3>2, <3>3 DEF Reads
  <2>. QED
    BY <2>3, <2>4
<1>. QED
  BY <1>1, <1>2 DEF Reads

(* Another value at first is read in its place, or no more than before. *)
LEMMA OtherFirst ==
  ASSUME NEW c, NEW first, NEW other, NEW n \in Nat, NEW u, NEW v, Reads(c, first, n, u, v)
  PROVE  \/ Reads(c, other, n, u, v)
         \/ v = first /\ Reads(c, other, n, u, other)
  BY DEF Reads

(* SettlesOn is the value after all commands. *)
LEMMA SettlesOnRead ==
  ASSUME NEW c \in Seq(Command), NEW u \in Users, NEW v,
         Reads(c, session[u].token, Len(c), u, v)
  PROVE  SettlesOn(c, u) = v
<1>1. DOMAIN c = 1..Len(c) /\ Len(c) \in Nat
  BY LenProperties
<1>2. \A i \in 1..Len(c) : i \in Writes(c, u) <=> WritesTo(c[i], u)
  BY <1>1 DEF Writes, WritesTo
<1>3. CASE v = session[u].token /\ \A i \in 1..Len(c) : ~ WritesTo(c[i], u)
  <2>1. Writes(c, u) = {}
    BY <1>1, <1>2, <1>3 DEF Writes
  <2>. QED
    BY <1>3, <2>1 DEF SettlesOn
<1>4. CASE \E i \in 1..Len(c) : /\ WritesTo(c[i], u) /\ v = c[i].token
                                /\ \A j \in (i + 1)..Len(c) : ~ WritesTo(c[j], u)
  <2>1. PICK i \in 1..Len(c) : /\ WritesTo(c[i], u) /\ v = c[i].token
                               /\ \A j \in (i + 1)..Len(c) : ~ WritesTo(c[j], u)
    BY <1>4
  <2>2. ASSUME NEW j \in Writes(c, u)
        PROVE  j \in Nat /\ j <= i
    <3>1. j \in 1..Len(c) /\ WritesTo(c[j], u)
      BY <1>1 DEF Writes, WritesTo
    <3>. QED
      BY <1>1, <2>1, <3>1
  <2>3. i \in Writes(c, u)
    BY <1>2, <2>1
  <2>4. IsLastWrite(c, u, i)
    BY <2>2, <2>3 DEF IsLastWrite
  <2>. DEFINE last == CHOOSE l \in DOMAIN c : IsLastWrite(c, u, l)
  <2>5. IsLastWrite(c, u, last)
    BY <1>1, <2>4
  <2>6. last \in Writes(c, u) /\ i <= last
    BY <2>3, <2>5 DEF IsLastWrite
  <2>. HIDE DEF last
  <2>7. last = i
    BY <2>2, <2>6
  <2>. QED
    BY <2>1, <2>3, <2>7 DEF SettlesOn, last
<1>. QED
  BY <1>3, <1>4 DEF Reads

-----------------------------------------------------------------------------
(* The inductive invariant, part by part *)

ExpiredAt(token, t) == t >= token.at + JwtLife
Owned(token, ms) == \E m \in ms : m.owner = token
Disowned(token, ms) == \E m \in ms : m.owner # token

(* An answer of redis tells the guard the truth: the token it finds was the     *)
(* current one, and one it does not find was not, or has expired.               *)
Fits(token, v, ms, t) ==
  /\ v = token => Owned(token, ms)
  /\ v # token => ExpiredAt(token, t) \/ Disowned(token, ms)

(* The copy of the caller is one of what they were since the request began.     *)
Held(r, ms) == \E m \in ms : m.role = r.role /\ m.keys = r.keys

(* Whom a save concerns: a profile has a role its user had since the request    *)
(* began, and the caller's own profile is the caller's, while anybody else was  *)
(* within the reach of the role the caller is judged by.                        *)
HadIn(u, role, ms) == \E m \in ms : m.roles[u] = role
ReachedIn(u, role, ms) == \E m \in ms : m.roles[u] \in DependentRoles[role]
Bound(r) == r.at \in {"select", "write"}
SubjectWith(r, ms) ==
  /\ Bound(r) => r.op \in {"update", "updateOther", "assignRole"}
  /\ r.op = "update" => r.subject = r.user /\ HadIn(r.subject, r.wanted, ms)
  /\ Bound(r) /\ r.op = "updateOther" => HadIn(r.subject, r.wanted, ms)
  /\ Bound(r) /\ r.op # "update" => ReachedIn(r.subject, r.role, ms)

GoodWith(r, ms, t) ==
  /\ r.at # "sign" => r.token \in Token
  /\ Held(r, ms)
  /\ r.at = "read" => Fits(r.token, r.value, ms, t)
  /\ Guarded(r) => Owned(r.token, ms) /\ Allowed(r.op, r.role, r.keys)
  /\ SubjectWith(r, ms)
  /\ r.at = "listed" => r.found \subseteq DependentRoles[r.role] /\ Narrowed(r.query, r.found)
GoodRequest(r) == r # Idle => GoodWith(r, r.moments, now)

RequestsOK ==
  /\ requests \in [Slots -> Request \cup {Idle}]
  /\ \A q \in Slots : GoodRequest(requests[q])

(* Of a command on its way: a token is one that was signed, somebody waits for  *)
(* an answer, and that of a GET will be true.                                   *)
GoodCommand(i) ==
  LET c == pipe[i]
      r == requests[c.slot]
  IN /\ c.do = "set" => c.token \in Token /\ c.token.at <= now
     /\ c.do = "del" => c.token = NoToken
     /\ c.do # "set" => c.slot \in Slots /\ r.at = c.do /\ r.user = c.user
     /\ c.do = "get" =>
          \E v \in TokenOrNone : /\ Reads(pipe, session[c.user].token, i - 1, c.user, v)
                                 /\ Fits(r.token, v, r.moments, now)

PipeOK ==
  /\ pipe \in Seq(Command)
  /\ \A i \in 1..Len(pipe) : GoodCommand(i)
  /\ \A i, j \in 1..Len(pipe) :
       pipe[i].do # "set" /\ pipe[j].do # "set" /\ pipe[i].slot = pipe[j].slot => i = j

(* A record does not end before its token. *)
GoodRecord(record) ==
  record.token # NoToken => record.until >= record.token.at + JwtLife

SessionOK ==
  /\ session \in [Users -> Record]
  /\ \A u \in Users : GoodRecord(session[u])

(* Redis is going to hold the token of the last login, unless it has expired.   *)
Agrees(token, v, t) ==
  v = token \/ (v = NoToken /\ token \in Token /\ ExpiredAt(token, t))
OwnerOK ==
  /\ owner \in [Users -> TokenOrNone]
  /\ \A u \in Users : \E v \in TokenOrNone :
       Reads(pipe, session[u].token, Len(pipe), u, v) /\ Agrees(owner[u], v, now)

PlainOK ==
  /\ now \in 0..MaxTime
  /\ roles \in [Users -> RoleId]
  /\ grants \in [RoleId -> SUBSET PermissionKeys]
  /\ signed \subseteq Token
  /\ workload \in Workloads
  /\ faults \in 0..MaxFaults

IInv == PlainOK /\ RequestsOK /\ PipeOK /\ SessionOK /\ OwnerOK

(* The invariant implies the four invariants of the run. *)
LEMMA IInvImplies ==
  IInv => TypeOK /\ LetInRightly /\ RefusedRightly /\ ListingWithinReach
<1>. SUFFICES ASSUME IInv
              PROVE  TypeOK /\ LetInRightly /\ RefusedRightly /\ ListingWithinReach
  OBVIOUS
<1>. USE DEF IInv
<1>1. TypeOK
  BY DEF TypeOK, PlainOK, RequestsOK, PipeOK, SessionOK, OwnerOK
<1>2. \A q \in Slots : requests[q].at \in Steps => GoodWith(requests[q], requests[q].moments, now)
  <2>1. Idle.at \notin Steps
    BY DEF Idle, Steps
  <2>. QED
    BY <2>1 DEF RequestsOK, GoodRequest
<1>3. LetInRightly
  <2>. SUFFICES ASSUME NEW q \in Slots, Guarded(requests[q])
                PROVE  /\ \E m \in requests[q].moments : m.owner = requests[q].token
                       /\ \E m \in requests[q].moments : Allowed(requests[q].op, m.role, m.keys)
    BY DEF LetInRightly
  <2>1. GoodWith(requests[q], requests[q].moments, now)
    BY <1>2 DEF Guarded
  <2>2. /\ Owned(requests[q].token, requests[q].moments)
        /\ Allowed(requests[q].op, requests[q].role, requests[q].keys)
        /\ Held(requests[q], requests[q].moments)
    BY <2>1 DEF GoodWith
  <2>. QED
    BY <2>2 DEF Owned, Held
<1>4. RefusedRightly
  <2>. SUFFICES ASSUME NEW q \in Slots, requests[q].at = "read"
                PROVE  /\ requests[q].value # requests[q].token =>
                            Expired(requests[q].token)
                              \/ \E m \in requests[q].moments : m.owner # requests[q].token
                       /\ ~ Allowed(requests[q].op, requests[q].role, requests[q].keys) =>
                            \E m \in requests[q].moments :
                              ~ Allowed(requests[q].op, m.role, m.keys)
    BY DEF RefusedRightly
  <2>1. GoodWith(requests[q], requests[q].moments, now)
    BY <1>2 DEF Steps
  <2>2. /\ Fits(requests[q].token, requests[q].value, requests[q].moments, now)
        /\ Held(requests[q], requests[q].moments)
    BY <2>1 DEF GoodWith
  <2>. QED
    BY <2>2 DEF Fits, Held, ExpiredAt, Expired, Disowned
<1>5. ListingWithinReach
  <2>. SUFFICES ASSUME NEW q \in Slots, requests[q].at = "listed"
                PROVE  /\ \E m \in requests[q].moments :
                            \A role \in requests[q].found : role \in DependentRoles[m.role]
                       /\ Narrowed(requests[q].query, requests[q].found)
    BY DEF ListingWithinReach
  <2>1. GoodWith(requests[q], requests[q].moments, now)
    BY <1>2 DEF Steps
  <2>2. /\ requests[q].found \subseteq DependentRoles[requests[q].role]
        /\ Narrowed(requests[q].query, requests[q].found)
        /\ Held(requests[q], requests[q].moments)
    BY <2>1 DEF GoodWith
  <2>. QED
    BY <2>2 DEF Held
<1>. QED
  BY <1>1, <1>3, <1>4, <1>5

-----------------------------------------------------------------------------
(* Requests that go on *)

(* What a request is judged by, apart from its moments. *)
Like(x, r) ==
  /\ x.op = r.op /\ x.at = r.at /\ x.user = r.user /\ x.token = r.token /\ x.role = r.role
  /\ x.keys = r.keys /\ x.value = r.value /\ x.subject = r.subject /\ x.wanted = r.wanted
  /\ x.query = r.query /\ x.found = r.found

Added(r, M) == [r EXCEPT !.moments = @ \cup M]

LEMMA AddedIs ==
  ASSUME NEW r \in Request, NEW M \in SUBSET Moment
  PROVE  /\ Added(r, M) \in Request
         /\ Like(Added(r, M), r)
         /\ Added(r, M).moments = r.moments \cup M
<1>1. Added(r, M) \in Request
  BY DEF Added, Request
<1>2. Like(Added(r, M), r)
  BY DEF Added, Request, Like
<1>3. Added(r, M).moments = r.moments \cup M
  BY DEF Added, Request
<1>. QED
  BY <1>1, <1>2, <1>3

LEMMA IdleIsNoRequest == Idle \notin Request /\ Idle.at \notin Steps
<1>1. Idle.at = "idle" /\ "idle" \notin Steps
  BY DEF Idle, Steps
<1>2. \A r \in Request : r.at \in Steps
  BY DEF Request
<1>. QED
  BY <1>1, <1>2

LEMMA LaterIsExpired ==
  ASSUME NEW token \in Token, NEW t \in Nat, NEW later \in Nat, t <= later, ExpiredAt(token, t)
  PROVE  ExpiredAt(token, later)
<1>1. PICK a \in 0..MaxTime : token.at = a
  BY DEF Token
<1>2. JwtLife \in Nat /\ MaxTime \in Nat
  BY LivesAssumption
<1>. QED
  BY <1>1, <1>2 DEF ExpiredAt

(* What was true of a request stays true while it collects moments. *)
LEMMA FitsStays ==
  ASSUME NEW token \in Token, NEW v, NEW ms, NEW more, ms \subseteq more,
         NEW t \in Nat, NEW later \in Nat, t <= later, Fits(token, v, ms, t)
  PROVE  Fits(token, v, more, later)
  BY LaterIsExpired DEF Fits, Owned, Disowned

LEMMA SubjectStays ==
  ASSUME NEW r, NEW x, NEW ms, NEW more, ms \subseteq more, SubjectWith(r, ms),
         x.op = r.op, x.user = r.user, x.subject = r.subject, x.wanted = r.wanted,
         x.role = r.role, Bound(x) => Bound(r) \/ x.op = "update"
  PROVE  SubjectWith(x, more)
  BY DEF SubjectWith, HadIn, ReachedIn

LEMMA GoodStays ==
  ASSUME NEW r \in Request, NEW x, Like(x, r), NEW ms, NEW more, ms \subseteq more,
         NEW t \in Nat, NEW later \in Nat, t <= later, GoodWith(r, ms, t)
  PROVE  GoodWith(x, more, later)
<1>1. x.at # "sign" => x.token \in Token
  BY DEF GoodWith, Like
<1>2. Held(x, more)
  BY DEF GoodWith, Like, Held
<1>3. x.at = "read" => Fits(x.token, x.value, more, later)
  BY <1>1, FitsStays DEF GoodWith, Like
<1>4. Guarded(x) => Owned(x.token, more) /\ Allowed(x.op, x.role, x.keys)
  BY DEF GoodWith, Like, Guarded, Owned
<1>5. SubjectWith(x, more)
  BY SubjectStays DEF GoodWith, Like, Bound
<1>6. x.at = "listed" => x.found \subseteq DependentRoles[x.role] /\ Narrowed(x.query, x.found)
  BY DEF GoodWith, Like
<1>. QED
  BY <1>1, <1>2, <1>3, <1>4, <1>5, <1>6 DEF GoodWith

LEMMA CircumstancesAreMoment ==
  ASSUME PlainOK', (owner \in [Users -> TokenOrNone])', NEW u \in Users
  PROVE  Circumstances(u) \in Moment
  BY DEF PlainOK, TokenOrNone, Circumstances, Moment

(* A request keeps its place and its caller while others are served. *)
Follows(x, r) ==
  x.at = r.at /\ x.user = r.user /\ x.token = r.token /\ r.moments \subseteq x.moments

LEMMA WitnessOfRequest ==
  ASSUME PlainOK', (owner \in [Users -> TokenOrNone])', NEW r \in Request
  PROVE  /\ Witness(r) = Added(r, {Circumstances(r.user)})
         /\ Witness(r) \in Request
         /\ Like(Witness(r), r)
         /\ Witness(r).moments = r.moments \cup {Circumstances(r.user)}
         /\ Follows(Witness(r), r)
<1>1. r # Idle /\ r.user \in Users
  BY IdleIsNoRequest DEF Request
<1>2. Witness(r) = Added(r, {Circumstances(r.user)})
  BY <1>1 DEF Witness, Added
<1>3. {Circumstances(r.user)} \in SUBSET Moment
  BY <1>1, CircumstancesAreMoment
<1>. QED
  BY <1>2, <1>3, AddedIs DEF Like, Follows

LEMMA ServeKeepsRequests ==
  ASSUME RequestsOK, PlainOK, PlainOK', now <= now', (owner \in [Users -> TokenOrNone])',
         NEW q \in Slots, NEW r \in Request \cup {Idle}, Serve(q, r),
         r # Idle => GoodWith(r, r.moments \cup {Circumstances(r.user)}, now')
  PROVE  /\ RequestsOK'
         /\ requests'[q] = Witness(r)
         /\ \A p \in Slots \ {q} : Follows(requests'[p], requests[p])
<1>1. requests' = [p \in Slots |-> Witness(IF p = q THEN r ELSE requests[p])]
  BY DEF Serve
<1>2. now \in Nat /\ now' \in Nat
  BY LivesAssumption DEF PlainOK
<1>3. Witness(Idle) = Idle
  BY DEF Witness
<1>4. ASSUME NEW p \in Slots
      PROVE  /\ requests'[p] \in Request \cup {Idle}
             /\ p # q => Follows(requests'[p], requests[p])
             /\ requests'[p] # Idle => GoodWith(requests'[p], requests'[p].moments, now')
  <2>1. CASE p = q
    <3>1. requests'[p] = Witness(r)
      BY <1>1, <2>1
    <3>2. CASE r = Idle
      BY <1>3, <2>1, <3>1, <3>2
    <3>3. CASE r # Idle
      <4>1. /\ Witness(r) \in Request
            /\ Like(Witness(r), r)
            /\ Witness(r).moments = r.moments \cup {Circumstances(r.user)}
        BY <3>3, WitnessOfRequest
      <4>2. GoodWith(Witness(r), Witness(r).moments, now')
        BY <1>2, <3>3, <4>1, GoodStays
      <4>. QED
        BY <2>1, <3>1, <4>1, <4>2
    <3>. QED
      BY <3>2, <3>3
  <2>2. CASE p # q
    <3>1. requests'[p] = Witness(requests[p])
      BY <1>1, <2>2
    <3>2. CASE requests[p] = Idle
      BY <1>3, <3>1, <3>2 DEF Follows
    <3>3. CASE requests[p] # Idle
      <4>1. requests[p] \in Request /\ GoodWith(requests[p], requests[p].moments, now)
        BY <3>3 DEF RequestsOK, GoodRequest
      <4>2. /\ Witness(requests[p]) \in Request
            /\ Like(Witness(requests[p]), requests[p])
            /\ requests[p].moments \subseteq Witness(requests[p]).moments
            /\ Follows(Witness(requests[p]), requests[p])
        BY <4>1, WitnessOfRequest
      <4>3. GoodWith(Witness(requests[p]), Witness(requests[p]).moments, now')
        BY <1>2, <4>1, <4>2, GoodStays
      <4>. QED
        BY <3>1, <4>2, <4>3
    <3>. QED
      BY <3>2, <3>3
  <2>. QED
    BY <2>1, <2>2
<1>5. requests'[q] = Witness(r)
  BY <1>1
<1>6. RequestsOK'
  BY <1>1, <1>4 DEF RequestsOK, GoodRequest
<1>. QED
  BY <1>4, <1>5, <1>6

-----------------------------------------------------------------------------
(* Commands on their way *)

(* What redis is going to answer fits a waiting request as it did before. *)
LEMMA GetFits ==
  ASSUME RequestsOK, PlainOK, PlainOK', now <= now',
         NEW r \in Request, r.at = "get", NEW x, Follows(x, r), GoodRequest(r),
         NEW v, Fits(r.token, v, r.moments, now)
  PROVE  Fits(x.token, v, x.moments, now')
<1>1. now \in Nat /\ now' \in Nat
  BY LivesAssumption DEF PlainOK
<1>2. r # Idle
  BY IdleIsNoRequest
<1>3. r.token \in Token
  BY <1>2 DEF GoodRequest, GoodWith
<1>4. x.token = r.token /\ r.moments \subseteq x.moments
  BY DEF Follows
<1>. QED
  BY <1>1, <1>3, <1>4, FitsStays

(* The request a command belongs to. *)
LEMMA Waiting ==
  ASSUME RequestsOK, PipeOK, NEW i \in 1..Len(pipe), pipe[i].do # "set"
  PROVE  /\ pipe[i].slot \in Slots
         /\ requests[pipe[i].slot] \in Request
         /\ requests[pipe[i].slot].at = pipe[i].do
         /\ requests[pipe[i].slot].user = pipe[i].user
         /\ pipe[i].do \in {"get", "del"}
         /\ pipe[i].user \in Users
<1>1. pipe[i] \in Command
  BY ElementOfSeq DEF PipeOK
<1>2. pipe[i].do \in {"get", "del"} /\ pipe[i].user \in Users
  BY <1>1 DEF Command
<1>3. /\ pipe[i].slot \in Slots
      /\ requests[pipe[i].slot].at = pipe[i].do
      /\ requests[pipe[i].slot].user = pipe[i].user
  BY DEF PipeOK, GoodCommand
<1>4. requests[pipe[i].slot] # Idle
  BY <1>2, <1>3 DEF Idle
<1>. QED
  BY <1>2, <1>3, <1>4 DEF RequestsOK

(* One command, at place i before and at place k after a step. *)
LEMMA CommandGoesOn ==
  ASSUME RequestsOK, PlainOK, PipeOK, PlainOK', now <= now',
         NEW i \in 1..Len(pipe), NEW k, pipe'[k] = pipe[i],
         pipe[i].do # "set" => Follows(requests'[pipe[i].slot], requests[pipe[i].slot]),
         pipe[i].do = "get" =>
           \E v \in TokenOrNone :
              /\ Reads(pipe', session'[pipe[i].user].token, k - 1, pipe[i].user, v)
              /\ Fits(requests'[pipe[i].slot].token, v, requests'[pipe[i].slot].moments, now')
  PROVE  GoodCommand(k)'
<1>. DEFINE c == pipe[i]
<1>1. GoodCommand(i)
  BY DEF PipeOK
<1>2. c.do = "set" => c.token \in Token /\ c.token.at <= now'
  <2>. SUFFICES ASSUME c.do = "set"
                PROVE  c.token \in Token /\ c.token.at <= now'
    OBVIOUS
  <2>1. c.token \in Token /\ c.token.at <= now
    BY <1>1 DEF GoodCommand
  <2>2. c.token.at \in Nat
    BY <2>1, LivesAssumption DEF Token
  <2>3. now \in Nat /\ now' \in Nat
    BY LivesAssumption DEF PlainOK
  <2>. QED
    BY <2>1, <2>2, <2>3
<1>3. c.do = "del" => c.token = NoToken
  BY <1>1 DEF GoodCommand
<1>4. c.do # "set" =>
        /\ c.slot \in Slots
        /\ requests'[c.slot].at = c.do
        /\ requests'[c.slot].user = c.user
  BY Waiting DEF Follows
<1>. QED
  BY <1>2, <1>3, <1>4 DEF GoodCommand

(* If the same value will be read at its place, it fits as before. *)
LEMMA CommandStays ==
  ASSUME RequestsOK, PlainOK, PipeOK, PlainOK', now <= now',
         NEW i \in 1..Len(pipe), NEW k, pipe'[k] = pipe[i],
         pipe[i].do # "set" => Follows(requests'[pipe[i].slot], requests[pipe[i].slot]),
         pipe[i].do = "get" =>
           \A v \in TokenOrNone :
              Reads(pipe, session[pipe[i].user].token, i - 1, pipe[i].user, v)
              => Reads(pipe', session'[pipe[i].user].token, k - 1, pipe[i].user, v)
  PROVE  GoodCommand(k)'
<1>. DEFINE c == pipe[i]
<1>1. ASSUME c.do = "get"
      PROVE  \E v \in TokenOrNone :
               /\ Reads(pipe', session'[c.user].token, k - 1, c.user, v)
               /\ Fits(requests'[c.slot].token, v, requests'[c.slot].moments, now')
  <2>1. PICK v \in TokenOrNone :
          /\ Reads(pipe, session[c.user].token, i - 1, c.user, v)
          /\ Fits(requests[c.slot].token, v, requests[c.slot].moments, now)
    BY <1>1 DEF PipeOK, GoodCommand
  <2>2. /\ requests[c.slot] \in Request
        /\ requests[c.slot].at = "get"
        /\ GoodRequest(requests[c.slot])
    BY <1>1, Waiting DEF RequestsOK
  <2>3. Fits(requests'[c.slot].token, v, requests'[c.slot].moments, now')
    BY <1>1, <2>1, <2>2, GetFits
  <2>. QED
    BY <1>1, <2>1, <2>3
<1>. QED
  BY <1>1, CommandGoesOn

(* Nothing happens to the pipe or to the sessions. *)
LEMMA PipeStays ==
  ASSUME RequestsOK, PlainOK, PipeOK, PlainOK', now <= now', pipe' = pipe, session' = session,
         \A i \in 1..Len(pipe) :
           pipe[i].do # "set" => Follows(requests'[pipe[i].slot], requests[pipe[i].slot])
  PROVE  PipeOK'
<1>1. ASSUME NEW i \in 1..Len(pipe)
      PROVE  GoodCommand(i)'
  BY CommandStays
<1>. QED
  BY <1>1 DEF PipeOK

(* Nothing happens but to one request that waits for no answer. *)
LEMMA LocalKeeps ==
  ASSUME IInv, PlainOK', UNCHANGED <<now, session, pipe, owner>>,
         NEW q \in Slots, requests[q].at \notin {"get", "del"},
         NEW r \in Request \cup {Idle}, Serve(q, r),
         r # Idle => GoodWith(r, r.moments \cup {Circumstances(r.user)}, now)
  PROVE  IInv'
<1>1. now <= now' /\ now' = now
  BY LivesAssumption DEF IInv, PlainOK
<1>2. SessionOK'
  BY DEF IInv, SessionOK
<1>3. OwnerOK'
  BY <1>1 DEF IInv, OwnerOK
<1>4. /\ RequestsOK'
      /\ \A p \in Slots \ {q} : Follows(requests'[p], requests[p])
  BY <1>1, <1>3, ServeKeepsRequests DEF IInv, OwnerOK
<1>5. \A i \in 1..Len(pipe) :
        pipe[i].do # "set" => Follows(requests'[pipe[i].slot], requests[pipe[i].slot])
  BY <1>4, Waiting DEF IInv
<1>6. PipeOK'
  BY <1>1, <1>5, PipeStays DEF IInv
<1>. QED
  BY <1>2, <1>3, <1>4, <1>6 DEF IInv

(* The same for a request that goes on. *)
LEMMA GoingOnKeeps ==
  ASSUME IInv, PlainOK', UNCHANGED <<now, session, pipe, owner>>,
         NEW q \in Slots, requests[q].at \in Steps \ {"get", "del"},
         NEW r \in Request \cup {Idle}, Serve(q, r),
         r # Idle => GoodWith(r, r.moments, now)
  PROVE  IInv'
<1>1. now \in Nat
  BY LivesAssumption DEF IInv, PlainOK
<1>2. ASSUME r # Idle
      PROVE  GoodWith(r, r.moments \cup {Circumstances(r.user)}, now)
  <2>1. r \in Request /\ Like(r, r)
    BY <1>2 DEF Like
  <2>2. r.moments \subseteq r.moments \cup {Circumstances(r.user)}
    OBVIOUS
  <2>. QED
    BY <1>1, <1>2, <2>1, <2>2, GoodStays
<1>. QED
  BY <1>2, LocalKeeps

LEMMA Serving ==
  ASSUME IInv, NEW q \in Slots, requests[q].at \in Steps
  PROVE  /\ requests[q] \in Request
         /\ GoodWith(requests[q], requests[q].moments, now)
  BY IdleIsNoRequest DEF IInv, RequestsOK, GoodRequest

LEMMA PlainStays ==
  ASSUME PlainOK, UNCHANGED <<now, roles, grants, signed, workload, faults>>
  PROVE  PlainOK'
  BY DEF PlainOK

(* A request the guards have let in goes on. *)
LEMMA StaysLetIn ==
  ASSUME NEW r \in Request, GoodWith(r, r.moments, now), Guarded(r), NEW s,
         s.op = r.op, s.token = r.token, s.role = r.role, s.keys = r.keys,
         s.moments = r.moments, s.at \notin {"sign", "read"},
         SubjectWith(s, s.moments),
         s.at = "listed" => s.found \subseteq DependentRoles[r.role] /\ Narrowed(s.query, s.found)
  PROVE  GoodWith(s, s.moments, now)
<1>1. r.at # "sign" /\ r.token \in Token
  BY DEF Guarded, GoodWith
<1>2. Held(s, s.moments)
  BY DEF GoodWith, Held
<1>3. Owned(s.token, s.moments) /\ Allowed(s.op, s.role, s.keys)
  BY DEF GoodWith
<1>. QED
  BY <1>1, <1>2, <1>3 DEF GoodWith

-----------------------------------------------------------------------------
(* The actions that concern one request *)

LEMMA StartKeeps ==
  ASSUME IInv, UNCHANGED <<now, session, pipe, roles, grants, signed, owner, workload, faults>>,
         NEW q \in Slots, requests[q] = Idle,
         NEW op \in Ops, NEW at \in {"sign", "ask"}, NEW u \in Users,
         NEW token \in Token \cup {NoToken}, at = "ask" => token \in Token,
         Serve(q, Start(op, at, u, token))
  PROVE  IInv'
<1>. DEFINE r == Start(op, at, u, token)
<1>1. PlainOK'
  BY PlainStays DEF IInv
<1>2. roles[u] \in RoleId /\ grants[roles[u]] \in SUBSET PermissionKeys
  BY DEF IInv, PlainOK
<1>3. at \in Steps
  BY DEF Steps
<1>4. r \in Request
  BY <1>2, <1>3 DEF Start, Request
<1>5. /\ r.op = op /\ r.at = at /\ r.user = u /\ r.token = token /\ r.role = roles[u]
      /\ r.keys = grants[roles[u]] /\ r.subject = u /\ r.wanted = roles[u] /\ r.moments = {}
  BY DEF Start
<1>6. /\ Circumstances(u).role = roles[u] /\ Circumstances(u).keys = grants[roles[u]]
      /\ Circumstances(u).roles[u] = roles[u]
  BY DEF Circumstances
<1>. HIDE DEF r
<1>7. Held(r, r.moments \cup {Circumstances(r.user)})
  BY <1>5, <1>6 DEF Held
<1>8. SubjectWith(r, r.moments \cup {Circumstances(r.user)})
  BY <1>5, <1>6 DEF SubjectWith, HadIn, Bound
<1>9. GoodWith(r, r.moments \cup {Circumstances(r.user)}, now)
  BY <1>5, <1>7, <1>8 DEF GoodWith, Guarded
<1>10. requests[q].at \notin {"get", "del"}
  BY DEF Idle
<1>11. Serve(q, r)
  BY DEF r
<1>. QED
  BY <1>1, <1>4, <1>9, <1>10, <1>11, LocalKeeps

LEMMA LoginFindKeeps == ASSUME IInv, NEW q \in Slots, LoginFind(q)  PROVE  IInv'
<1>1. PICK u \in Users : CanStart(q, "login", u) /\ Serve(q, Start("login", "sign", u, NoToken))
  BY DEF LoginFind
<1>2. requests[q] = Idle /\ "login" \in Ops
  BY <1>1 DEF CanStart, Ops
<1>3. UNCHANGED <<now, session, pipe, roles, grants, signed, owner, workload, faults>>
  BY DEF LoginFind
<1>. QED
  BY <1>1, <1>2, <1>3, StartKeeps

LEMMA PresentKeeps == ASSUME IInv, NEW q \in Slots, Present(q)  PROVE  IInv'
<1>1. PICK op \in Ops \ {"login"}, token \in signed :
        CanStart(q, op, token.user) /\ Serve(q, Start(op, "ask", token.user, token))
  BY DEF Present
<1>2. token \in Token
  BY DEF IInv, PlainOK
<1>3. requests[q] = Idle /\ token.user \in Users
  BY <1>1, <1>2 DEF CanStart, Token
<1>4. UNCHANGED <<now, session, pipe, roles, grants, signed, owner, workload, faults>>
  BY DEF Present
<1>. QED
  BY <1>1, <1>2, <1>3, <1>4, StartKeeps

LEMMA DecideKeeps == ASSUME IInv, NEW q \in Slots, Decide(q)  PROVE  IInv'
<1>. DEFINE r == requests[q]
            s == [r EXCEPT !.at = Entry(r.op)]
<1>1. /\ r.at = "read"
      /\ UNCHANGED <<now, session, pipe, roles, grants, signed, owner, workload, faults>>
  BY DEF Decide
<1>2. r.at \in Steps \ {"get", "del"}
  BY <1>1 DEF Steps
<1>3. r \in Request /\ GoodWith(r, r.moments, now)
  BY <1>2, Serving
<1>4. PlainOK'
  BY <1>1, PlainStays DEF IInv
<1>5. CASE r.value = r.token /\ Allowed(r.op, r.role, r.keys)
  <2>1. Serve(q, s)
    BY <1>5 DEF Decide
  <2>2. Entry(r.op) \in {"leave", "query", "select", "bind"}
    BY DEF Entry
  <2>3. s \in Request
    BY <1>3, <2>2 DEF Request, Steps
  <2>4. /\ s.op = r.op /\ s.token = r.token /\ s.role = r.role /\ s.keys = r.keys
        /\ s.moments = r.moments /\ s.user = r.user /\ s.subject = r.subject
        /\ s.wanted = r.wanted /\ s.at = Entry(r.op)
    BY <1>3 DEF Request
  <2>. HIDE DEF s
  <2>5. Owned(s.token, s.moments) /\ Held(s, s.moments)
    BY <1>1, <1>3, <1>5, <2>4 DEF GoodWith, Fits, Held
  <2>6. r.token \in Token
    BY <1>1, <1>3 DEF GoodWith
  <2>7. SubjectWith(s, s.moments)
    <3>1. SubjectWith(r, r.moments)
      BY <1>3 DEF GoodWith
    <3>2. Bound(s) => s.op = "update"
      BY <2>4 DEF Bound, Entry
    <3>. QED
      BY <2>4, <3>1, <3>2, SubjectStays
  <2>8. GoodWith(s, s.moments, now)
    BY <1>5, <2>2, <2>4, <2>5, <2>6, <2>7 DEF GoodWith
  <2>. QED
    BY <1>1, <1>2, <1>4, <2>1, <2>3, <2>8, GoingOnKeeps
<1>6. CASE ~ (r.value = r.token /\ Allowed(r.op, r.role, r.keys))
  <2>1. Serve(q, Idle)
    BY <1>6 DEF Decide, Finish
  <2>. QED
    BY <1>1, <1>2, <1>4, <2>1, GoingOnKeeps
<1>. QED
  BY <1>5, <1>6

LEMMA QueryKeeps == ASSUME IInv, NEW q \in Slots, Query(q)  PROVE  IInv'
<1>. DEFINE r == requests[q]
            enforced == [role |-> DependentRoles[r.role]]
            table == {UserRow(u) : u \in Users}
<1>1. /\ r.at = "query"
      /\ UNCHANGED <<now, session, pipe, roles, grants, signed, owner, workload, faults>>
  BY DEF Query
<1>2. r.at \in Steps \ {"get", "del"} /\ Guarded(r)
  BY <1>1 DEF Steps, Guarded
<1>3. r \in Request /\ GoodWith(r, r.moments, now)
  BY <1>2, Serving
<1>4. PlainOK'
  BY <1>1, PlainStays DEF IInv
<1>5. PICK query \in Queries :
        Serve(q, [r EXCEPT !.at = "listed", !.query = query,
                           !.found = {row.role : row \in Listed("User", query, enforced, table)}])
  BY DEF Query
<1>6. /\ "User" \in Entities /\ DOMAIN enforced \subseteq Enforceable
      /\ TakesFilters("User", query.filters)
  BY DEF Entities, entitiesSearchableFields, Enforceable, TakesFilters, entitiesFilterFields
<1>7. ASSUME NEW row \in Listed("User", query, enforced, table)
      PROVE  row.role \in RoleId /\ row.role \in DependentRoles[r.role]
  <2>1. row \in table /\ \A key \in DOMAIN enforced : row[key] \in enforced[key]
    BY <1>6, EnforcedAlwaysHolds
  <2>2. PICK u \in Users : row = UserRow(u)
    BY <2>1
  <2>3. row.role = roles[u] /\ roles[u] \in RoleId
    BY <2>2 DEF UserRow, IInv, PlainOK
  <2>4. "role" \in DOMAIN enforced /\ enforced["role"] = DependentRoles[r.role]
    OBVIOUS
  <2>5. row["role"] \in enforced["role"]
    BY <2>1, <2>4
  <2>. QED
    BY <2>3, <2>4, <2>5
<1>8. PICK found : found = {row.role : row \in Listed("User", query, enforced, table)}
  OBVIOUS
<1>9. found \in SUBSET RoleId /\ found \subseteq DependentRoles[r.role]
  BY <1>7, <1>8
<1>10. Narrowed(query, found)
  <2>. SUFFICES ASSUME NEW i \in Given(query.filters, "role"),
                       \A j \in Given(query.filters, "role") : i <= j,
                       NEW row \in Listed("User", query, enforced, table)
                PROVE  row.role \in query.filters[i].values
    BY <1>8 DEF Narrowed
  <2>1. IsRolesFilter(query.filters, i)
    BY DEF IsRolesFilter
  <2>2. "role" \in DOMAIN enforced /\ query.filters \in Filters
    BY QueriesAssumption
  <2>. QED
    BY <1>6, <2>1, <2>2, RolesAreIntersected
<1>. DEFINE s == [r EXCEPT !.at = "listed", !.query = query, !.found = found]
<1>11. Serve(q, s)
  BY <1>5, <1>8
<1>12. s \in Request
  BY <1>3, <1>9 DEF Request, Steps
<1>13. /\ s.op = r.op /\ s.token = r.token /\ s.role = r.role /\ s.keys = r.keys
       /\ s.moments = r.moments /\ s.user = r.user /\ s.subject = r.subject
       /\ s.wanted = r.wanted /\ s.at = "listed" /\ s.query = query /\ s.found = found
  BY <1>3 DEF Request
<1>. HIDE DEF s
<1>14. SubjectWith(s, s.moments)
  BY <1>3, <1>13, SubjectStays DEF GoodWith, Bound
<1>15. GoodWith(s, s.moments, now)
  BY <1>2, <1>3, <1>9, <1>10, <1>13, <1>14, StaysLetIn
<1>. QED
  BY <1>1, <1>2, <1>4, <1>11, <1>12, <1>15, GoingOnKeeps

LEMMA AnswerListingKeeps == ASSUME IInv, NEW q \in Slots, AnswerListing(q)  PROVE  IInv'
<1>1. /\ requests[q].at = "listed"
      /\ UNCHANGED <<now, session, pipe, roles, grants, signed, owner, workload, faults>>
      /\ Serve(q, Idle)
  BY DEF AnswerListing, Finish
<1>2. requests[q].at \in Steps \ {"get", "del"}
  BY <1>1 DEF Steps
<1>3. PlainOK'
  BY <1>1, PlainStays DEF IInv
<1>. QED
  BY <1>1, <1>2, <1>3, GoingOnKeeps

LEMMA BindUserKeeps == ASSUME IInv, NEW q \in Slots, BindUser(q)  PROVE  IInv'
<1>. DEFINE r == requests[q]
<1>1. /\ r.at = "bind" /\ r.op \in {"assignRole", "updateOther"}
      /\ UNCHANGED <<now, session, pipe, roles, grants, signed, owner, workload, faults>>
  BY DEF BindUser
<1>2. r.at \in Steps \ {"get", "del"} /\ Guarded(r)
  BY <1>1 DEF Steps, Guarded
<1>3. r \in Request /\ GoodWith(r, r.moments, now)
  BY <1>2, Serving
<1>4. PlainOK'
  BY <1>1, PlainStays DEF IInv
<1>5. PICK u \in Users :
        \/ Serve(q, Idle)
        \/ /\ WithinReach(r.role, roles[u])
           /\ \E role \in IF r.op = "assignRole" THEN {FirstRole[v] : v \in Users}
                                                ELSE {roles[u]} :
                Serve(q, [r EXCEPT !.at = "select", !.subject = u, !.wanted = role])
  BY DEF BindUser, Finish
<1>6. CASE Serve(q, Idle)
  BY <1>1, <1>2, <1>4, <1>6, GoingOnKeeps
<1>7. ASSUME NEW role \in IF r.op = "assignRole" THEN {FirstRole[v] : v \in Users}
                                                ELSE {roles[u]},
             WithinReach(r.role, roles[u]),
             Serve(q, [r EXCEPT !.at = "select", !.subject = u, !.wanted = role])
      PROVE  IInv'
  <2>. DEFINE s == [r EXCEPT !.at = "select", !.subject = u, !.wanted = role]
  <2>1. role \in RoleId
    BY <1>7, FirstRoleAssumption DEF IInv, PlainOK
  <2>2. s \in Request
    BY <1>3, <2>1 DEF Request, Steps
  <2>3. /\ s.op = r.op /\ s.token = r.token /\ s.role = r.role /\ s.keys = r.keys
        /\ s.moments = r.moments /\ s.at = "select" /\ s.user = r.user
        /\ s.subject = u /\ s.wanted = role
    BY <1>3 DEF Request
  <2>4. Serve(q, s)
    BY <1>7
  <2>. HIDE DEF s
  <2>5. PICK more : more = s.moments \cup {Circumstances(s.user)}
    OBVIOUS
  <2>6. Held(s, more) /\ Owned(s.token, more) /\ s.token \in Token
    BY <1>1, <1>2, <1>3, <2>3, <2>5 DEF GoodWith, Held, Owned
  <2>7. SubjectWith(s, more)
    <3>1. Circumstances(s.user) \in more /\ Circumstances(s.user).roles = roles
      BY <1>1, <2>5 DEF Circumstances
    <3>2. ReachedIn(u, s.role, more)
      BY <1>7, <2>3, <3>1 DEF ReachedIn, WithinReach
    <3>3. s.op = "updateOther" => HadIn(u, role, more)
      BY <1>7, <2>3, <3>1 DEF HadIn
    <3>. QED
      BY <1>1, <2>3, <3>2, <3>3 DEF SubjectWith
  <2>8. Allowed(s.op, s.role, s.keys)
    BY <1>2, <1>3, <2>3 DEF GoodWith
  <2>9. GoodWith(s, more, now)
    BY <2>3, <2>6, <2>7, <2>8 DEF GoodWith
  <2>10. requests[q].at \notin {"get", "del"}
    BY <1>2
  <2>. QED
    BY <1>1, <1>4, <2>2, <2>4, <2>5, <2>9, <2>10, LocalKeeps
<1>. QED
  BY <1>5, <1>6, <1>7

LEMMA SaveSelectKeeps == ASSUME IInv, NEW q \in Slots, SaveSelect(q)  PROVE  IInv'
<1>. DEFINE r == requests[q]
            s == [r EXCEPT !.at = "write"]
<1>1. /\ r.at = "select"
      /\ UNCHANGED <<now, session, pipe, roles, grants, signed, owner, workload, faults>>
      /\ Serve(q, Idle) \/ Serve(q, s)
  BY DEF SaveSelect, Finish
<1>2. r.at \in Steps \ {"get", "del"} /\ Guarded(r)
  BY <1>1 DEF Steps, Guarded
<1>3. r \in Request /\ GoodWith(r, r.moments, now)
  BY <1>2, Serving
<1>4. PlainOK'
  BY <1>1, PlainStays DEF IInv
<1>5. CASE Serve(q, Idle)
  BY <1>1, <1>2, <1>4, <1>5, GoingOnKeeps
<1>6. CASE Serve(q, s)
  <2>1. s \in Request
    BY <1>3 DEF Request, Steps
  <2>2. /\ s.op = r.op /\ s.token = r.token /\ s.role = r.role /\ s.keys = r.keys
        /\ s.moments = r.moments /\ s.user = r.user /\ s.subject = r.subject
        /\ s.wanted = r.wanted /\ s.at = "write"
    BY <1>3 DEF Request
  <2>. HIDE DEF s
  <2>3. SubjectWith(s, s.moments)
    BY <1>1, <1>3, <2>2, SubjectStays DEF GoodWith, Bound
  <2>4. GoodWith(s, s.moments, now)
    BY <1>2, <1>3, <2>2, <2>3, StaysLetIn
  <2>. QED
    BY <1>1, <1>2, <1>4, <1>6, <2>1, <2>4, GoingOnKeeps
<1>. QED
  BY <1>1, <1>5, <1>6

LEMMA SaveWriteKeeps == ASSUME IInv, NEW q \in Slots, SaveWrite(q)  PROVE  IInv'
<1>. DEFINE r == requests[q]
<1>1. /\ r.at = "write"
      /\ roles' = [roles EXCEPT ![r.subject] = r.wanted]
      /\ UNCHANGED <<now, session, pipe, grants, signed, owner, workload, faults>>
      /\ Serve(q, Idle)
  BY DEF SaveWrite, Finish
<1>2. r.at \in Steps \ {"get", "del"}
  BY <1>1 DEF Steps
<1>3. r.subject \in Users /\ r.wanted \in RoleId
  BY <1>2, Serving DEF Request
<1>4. PlainOK'
  BY <1>1, <1>3 DEF IInv, PlainOK
<1>. QED
  BY <1>1, <1>2, <1>4, GoingOnKeeps

LEMMA ReadRowsKeeps == ASSUME IInv, NEW q \in Slots, ReadRows(q)  PROVE  IInv'
<1>. DEFINE r == requests[q]
<1>1. /\ r.at = "bind" /\ r.op = "assignPermissions"
      /\ UNCHANGED <<now, session, pipe, roles, grants, signed, owner, workload, faults>>
  BY DEF ReadRows
<1>2. r.at \in Steps \ {"get", "del"} /\ Guarded(r)
  BY <1>1 DEF Steps, Guarded
<1>3. r \in Request /\ GoodWith(r, r.moments, now)
  BY <1>2, Serving
<1>4. PlainOK'
  BY <1>1, PlainStays DEF IInv
<1>5. PICK role \in {FirstRole[u] : u \in Users}, bundle \in Bundles :
        Serve(q, [r EXCEPT !.at = "rows", !.wanted = role, !.bundle = bundle,
                           !.rows = grants[role]])
  BY DEF ReadRows
<1>6. role \in RoleId /\ bundle \in SUBSET PermissionKeys
  BY FirstRoleAssumption, BundlesAssumption
<1>7. PICK rows \in SUBSET PermissionKeys : rows = grants[role]
  BY <1>6 DEF IInv, PlainOK
<1>. DEFINE s == [r EXCEPT !.at = "rows", !.wanted = role, !.bundle = bundle, !.rows = rows]
<1>8. Serve(q, s)
  BY <1>5, <1>7
<1>9. s \in Request
  BY <1>3, <1>6, <1>7 DEF Request, Steps
<1>10. /\ s.op = r.op /\ s.token = r.token /\ s.role = r.role /\ s.keys = r.keys
       /\ s.moments = r.moments /\ s.at = "rows"
  BY <1>3 DEF Request
<1>. HIDE DEF s
<1>11. SubjectWith(s, s.moments)
  BY <1>1, <1>10 DEF SubjectWith, Bound
<1>12. GoodWith(s, s.moments, now)
  BY <1>1, <1>2, <1>3, <1>10, <1>11, StaysLetIn
<1>. QED
  BY <1>1, <1>2, <1>4, <1>8, <1>9, <1>12, GoingOnKeeps

LEMMA WriteRowsKeeps == ASSUME IInv, NEW q \in Slots, WriteRows(q)  PROVE  IInv'
<1>. DEFINE r == requests[q]
            added == r.bundle \ r.rows
            removed == r.rows \ r.bundle
<1>1. /\ r.at = "rows"
      /\ grants' = IF added \cap grants[r.wanted] # {} THEN grants
                   ELSE [grants EXCEPT ![r.wanted] = (@ \ removed) \cup added]
      /\ UNCHANGED <<now, session, pipe, roles, signed, owner, workload, faults>>
      /\ Serve(q, Idle)
  BY DEF WriteRows, Finish
<1>2. r.at \in Steps \ {"get", "del"}
  BY <1>1 DEF Steps
<1>3. r.wanted \in RoleId /\ added \in SUBSET PermissionKeys
  BY <1>2, Serving DEF Request
<1>4. grants' \in [RoleId -> SUBSET PermissionKeys]
  <2>. HIDE DEF added, removed
  <2>. QED
    BY <1>1, <1>3 DEF IInv, PlainOK
<1>5. PlainOK'
  BY <1>1, <1>4 DEF IInv, PlainOK
<1>. QED
  BY <1>1, <1>2, <1>5, GoingOnKeeps

-----------------------------------------------------------------------------
(* The actions that send a command *)

LEMMA NoTokenIsNone == NoToken \notin Token
<1>1. \A t \in Token : DOMAIN t = {"user", "at", "role"}
  BY DEF Token
<1>2. DOMAIN NoToken = {"none"}
  BY DEF NoToken
<1>. QED
  BY <1>1, <1>2

(* A guard that asks now will be told the truth. *)
LEMMA AskedFits ==
  ASSUME NEW token \in Token, NEW o, NEW v, NEW t, Agrees(o, v, t),
         NEW ms, NEW m \in ms, m.owner = o
  PROVE  Fits(token, v, ms, t)
  BY NoTokenIsNone DEF Agrees, Fits, Owned, Disowned

LEMMA Appended ==
  ASSUME PipeOK, NEW c \in Command, pipe' = Append(pipe, c)
  PROVE  /\ pipe' \in Seq(Command) /\ Len(pipe) \in Nat /\ Len(pipe') = Len(pipe) + 1
         /\ pipe'[Len(pipe) + 1] = c
         /\ \A i \in 1..Len(pipe) : pipe'[i] = pipe[i]
  BY AppendProperties, LenProperties DEF PipeOK

LEMMA OwnerSent ==
  ASSUME PipeOK, OwnerOK, NEW c \in Command, pipe' = Append(pipe, c),
         session' = session, now' = now,
         c.do # "get" => c.token \in TokenOrNone,
         owner' \in [Users -> TokenOrNone],
         \A u \in Users : owner'[u] = IF WritesTo(c, u) THEN c.token ELSE owner[u]
  PROVE  OwnerOK'
<1>1. /\ Len(pipe) \in Nat /\ Len(pipe') = Len(pipe) + 1 /\ pipe'[Len(pipe) + 1] = c
      /\ \A i \in 1..Len(pipe) : pipe'[i] = pipe[i]
  BY Appended
<1>2. ASSUME NEW u \in Users
      PROVE  \E v \in TokenOrNone :
               /\ Reads(pipe', session'[u].token, Len(pipe'), u, v)
               /\ Agrees(owner'[u], v, now')
  <2>1. CASE WritesTo(c, u)
    <3>1. Reads(pipe', session'[u].token, Len(pipe'), u, c.token)
      BY <1>1, <2>1, WriteRead
    <3>2. c.token \in TokenOrNone /\ Agrees(owner'[u], c.token, now')
      BY <2>1 DEF WritesTo, Agrees
    <3>. QED
      BY <3>1, <3>2
  <2>2. CASE ~ WritesTo(c, u)
    <3>1. PICK v \in TokenOrNone :
            Reads(pipe, session[u].token, Len(pipe), u, v) /\ Agrees(owner[u], v, now)
      BY DEF OwnerOK
    <3>2. Reads(pipe', session[u].token, Len(pipe), u, v)
      BY <1>1, <3>1, SamePrefix
    <3>3. Reads(pipe', session[u].token, Len(pipe) + 1, u, v)
      BY <1>1, <2>2, <3>2, GetReadsOn
    <3>. QED
      BY <1>1, <2>2, <3>1, <3>3
  <2>. QED
    BY <2>1, <2>2
<1>. QED
  BY <1>2 DEF OwnerOK

LEMMA SendKeeps ==
  ASSUME IInv, PlainOK', session' = session, now' = now,
         NEW q \in Slots, requests[q].at \notin {"get", "del"},
         NEW r \in Request \cup {Idle}, Serve(q, r),
         r # Idle => GoodWith(r, r.moments \cup {Circumstances(r.user)}, now),
         NEW c \in Command, pipe' = Append(pipe, c),
         owner' \in [Users -> TokenOrNone],
         \A u \in Users : owner'[u] = IF WritesTo(c, u) THEN c.token ELSE owner[u],
         c.do = "set" => c.token \in Token /\ c.token.at <= now,
         c.do = "del" => c.token = NoToken,
         c.do # "set" => c.slot = q /\ r \in Request /\ r.at = c.do /\ r.user = c.user,
         c.do = "get" => r.token \in Token
  PROVE  IInv'
<1>1. now <= now'
  BY LivesAssumption DEF IInv, PlainOK
<1>2. /\ RequestsOK'
      /\ requests'[q] = Witness(r)
      /\ \A p \in Slots \ {q} : Follows(requests'[p], requests[p])
  BY <1>1, ServeKeepsRequests DEF IInv
<1>3. /\ pipe' \in Seq(Command) /\ Len(pipe) \in Nat /\ Len(pipe') = Len(pipe) + 1
      /\ pipe'[Len(pipe) + 1] = c
      /\ \A i \in 1..Len(pipe) : pipe'[i] = pipe[i]
  BY Appended DEF IInv
<1>4. c.do \in {"set", "del", "get"} /\ c.user \in Users
  BY DEF Command
<1>5. SessionOK'
  BY DEF IInv, SessionOK
<1>6. OwnerOK'
  <2>1. c.do # "get" => c.token \in TokenOrNone
    BY <1>4 DEF TokenOrNone
  <2>. QED
    BY <2>1, OwnerSent DEF IInv
<1>7. ASSUME NEW i \in 1..Len(pipe)
      PROVE  /\ GoodCommand(i)'
             /\ pipe'[i] = pipe[i]
             /\ pipe[i].do # "set" => pipe[i].slot \in Slots \ {q}
  <2>1. pipe[i].do # "set" => pipe[i].slot \in Slots \ {q}
    BY Waiting DEF IInv
  <2>2. pipe[i].do # "set" => Follows(requests'[pipe[i].slot], requests[pipe[i].slot])
    BY <1>2, <2>1
  <2>3. ASSUME NEW v \in TokenOrNone,
               Reads(pipe, session[pipe[i].user].token, i - 1, pipe[i].user, v)
        PROVE  Reads(pipe', session'[pipe[i].user].token, i - 1, pipe[i].user, v)
    <3>1. i - 1 \in Nat /\ \A j \in 1..(i - 1) : pipe'[j] = pipe[j]
      BY <1>3
    <3>. QED
      BY <2>3, <3>1, SamePrefix
  <2>4. GoodCommand(i)'
    BY <1>1, <1>3, <2>2, <2>3, CommandStays DEF IInv
  <2>. QED
    BY <1>3, <2>1, <2>4
<1>8. ASSUME c.do # "set"
      PROVE  /\ requests'[q].at = c.do /\ requests'[q].user = c.user
             /\ requests'[q].token = r.token
             /\ Circumstances(r.user) \in requests'[q].moments
  BY <1>2, <1>6, <1>8, WitnessOfRequest DEF OwnerOK, Follows
<1>9. ASSUME c.do = "get"
      PROVE  \E v \in TokenOrNone :
               /\ Reads(pipe', session'[c.user].token, Len(pipe), c.user, v)
               /\ Fits(requests'[q].token, v, requests'[q].moments, now')
  <2>1. PICK v \in TokenOrNone :
          /\ Reads(pipe, session[c.user].token, Len(pipe), c.user, v)
          /\ Agrees(owner[c.user], v, now)
    BY <1>4 DEF IInv, OwnerOK
  <2>2. Reads(pipe', session'[c.user].token, Len(pipe), c.user, v)
    BY <1>3, <2>1, SamePrefix
  <2>3. /\ Circumstances(r.user) \in requests'[q].moments
        /\ requests'[q].token \in Token
    BY <1>8, <1>9
  <2>4. Circumstances(r.user).owner = owner[c.user]
    <3>1. r.user = c.user /\ ~ WritesTo(c, c.user)
      BY <1>9 DEF WritesTo
    <3>2. owner'[c.user] = owner[c.user]
      BY <1>4, <3>1
    <3>. QED
      BY <3>1, <3>2 DEF Circumstances
  <2>5. PICK m \in requests'[q].moments : m.owner = owner[c.user]
    BY <2>3, <2>4
  <2>6. Fits(requests'[q].token, v, requests'[q].moments, now')
    BY <2>1, <2>3, <2>5, AskedFits
  <2>. QED
    BY <2>2, <2>6
<1>10. ASSUME NEW k, k = Len(pipe) + 1
       PROVE  GoodCommand(k)'
  <2>1. pipe'[k] = c /\ k - 1 = Len(pipe)
    BY <1>3, <1>10
  <2>2. c.do = "set" => c.token \in Token /\ c.token.at <= now'
    OBVIOUS
  <2>3. c.do # "set" => /\ c.slot = q /\ requests'[c.slot].at = c.do
                        /\ requests'[c.slot].user = c.user
    BY <1>8
  <2>. QED
    BY <1>9, <2>1, <2>2, <2>3 DEF GoodCommand
<1>11. ASSUME NEW i \in 1..Len(pipe'), NEW j \in 1..Len(pipe'),
              pipe'[i].do # "set", pipe'[j].do # "set", pipe'[i].slot = pipe'[j].slot
       PROVE  i = j
  <2>1. /\ i \in 1..Len(pipe) \/ i = Len(pipe) + 1
        /\ j \in 1..Len(pipe) \/ j = Len(pipe) + 1
    BY <1>3
  <2>2. CASE i \in 1..Len(pipe) /\ j \in 1..Len(pipe)
    BY <1>7, <1>11, <2>2 DEF IInv, PipeOK
  <2>3. CASE i \in 1..Len(pipe) /\ j = Len(pipe) + 1
    BY <1>3, <1>7, <1>11, <2>3
  <2>4. CASE i = Len(pipe) + 1 /\ j \in 1..Len(pipe)
    BY <1>3, <1>7, <1>11, <2>4
  <2>. QED
    BY <2>1, <2>2, <2>3, <2>4
<1>12. PipeOK'
  <2>1. \A i \in 1..Len(pipe') : i \in 1..Len(pipe) \/ i = Len(pipe) + 1
    BY <1>3
  <2>2. ASSUME NEW i \in 1..Len(pipe')
        PROVE  GoodCommand(i)'
    BY <1>7, <1>10, <2>1
  <2>. QED
    BY <1>3, <1>11, <2>2 DEF PipeOK
<1>. QED
  BY <1>2, <1>5, <1>6, <1>12 DEF IInv

LEMMA LoginSignKeeps == ASSUME IInv, NEW q \in Slots, LoginSign(q)  PROVE  IInv'
<1>. DEFINE r == requests[q]
<1>1. PICK token : token = [user |-> r.user, at |-> now, role |-> r.role]
  OBVIOUS
<1>2. /\ r.at = "sign"
      /\ pipe' = Append(pipe, Set(token))
      /\ signed' = signed \cup {token}
      /\ owner' = [owner EXCEPT ![r.user] = token]
      /\ UNCHANGED <<now, session, roles, grants, workload, faults>>
      /\ Serve(q, Idle)
  BY <1>1 DEF LoginSign, Send, Finish
<1>3. r.at \in Steps /\ r.at \notin {"get", "del"}
  BY <1>2 DEF Steps
<1>4. r.user \in Users /\ r.role \in RoleId
  BY <1>3, Serving DEF Request
<1>5. token \in Token /\ token.user = r.user /\ token.at = now
  BY <1>1, <1>4 DEF IInv, PlainOK, Token
<1>6. /\ Set(token) \in Command /\ Set(token).do = "set" /\ Set(token).user = r.user
      /\ Set(token).token = token
  BY <1>4, <1>5 DEF Set, Command
<1>7. owner' \in [Users -> TokenOrNone]
  BY <1>2, <1>4, <1>5 DEF IInv, OwnerOK, TokenOrNone
<1>8. \A u \in Users :
        owner'[u] = IF WritesTo(Set(token), u) THEN Set(token).token ELSE owner[u]
  BY <1>2, <1>4, <1>6 DEF WritesTo, IInv, OwnerOK
<1>9. PlainOK'
  BY <1>2, <1>5 DEF IInv, PlainOK
<1>10. now <= now
  BY LivesAssumption DEF IInv, PlainOK
<1>11. PICK c \in Command : c = Set(token)
  BY <1>6
<1>. QED
  BY <1>2, <1>3, <1>5, <1>6, <1>7, <1>8, <1>9, <1>10, <1>11, SendKeeps

LEMMA AskKeeps == ASSUME IInv, NEW q \in Slots, Ask(q)  PROVE  IInv'
<1>. DEFINE r == requests[q]
            s == [r EXCEPT !.at = "get"]
<1>1. /\ r.at = "ask"
      /\ pipe' = Append(pipe, Get(q, r.user))
      /\ UNCHANGED <<now, session, roles, grants, signed, owner, workload, faults>>
      /\ Serve(q, s)
  BY DEF Ask, Send
<1>2. r.at \in Steps /\ r.at \notin {"get", "del"}
  BY <1>1 DEF Steps
<1>3. r \in Request /\ GoodWith(r, r.moments, now)
  BY <1>2, Serving
<1>4. r.user \in Users
  BY <1>3 DEF Request
<1>5. s \in Request
  BY <1>3 DEF Request, Steps
<1>6. /\ s.op = r.op /\ s.user = r.user /\ s.token = r.token /\ s.role = r.role
      /\ s.keys = r.keys /\ s.moments = r.moments /\ s.subject = r.subject
      /\ s.wanted = r.wanted /\ s.at = "get"
  BY <1>3 DEF Request
<1>. HIDE DEF s
<1>7. r.token \in Token
  BY <1>1, <1>3 DEF GoodWith
<1>8. GoodWith(s, s.moments \cup {Circumstances(s.user)}, now)
  <2>1. SubjectWith(s, s.moments \cup {Circumstances(s.user)})
    BY <1>3, <1>6, SubjectStays DEF GoodWith, Bound
  <2>. QED
    BY <1>3, <1>6, <1>7, <2>1 DEF GoodWith, Held, Guarded
<1>9. PICK c \in Command : /\ c = Get(q, r.user) /\ c.do = "get" /\ c.user = r.user
                           /\ c.slot = q
  <2>1. PICK u \in Users : u = r.user
    BY <1>4
  <2>2. PICK c : c = [do |-> "get", user |-> u, token |-> NoToken, slot |-> q]
    OBVIOUS
  <2>3. /\ c \in Command /\ c.do = "get" /\ c.user = u /\ c.slot = q /\ c.token = NoToken
    BY <2>2 DEF Command
  <2>4. c = Get(q, r.user)
    BY <2>1, <2>2 DEF Get
  <2>. QED
    BY <2>1, <2>3, <2>4
<1>10. owner' \in [Users -> TokenOrNone]
  BY <1>1 DEF IInv, OwnerOK
<1>11. \A u \in Users : owner'[u] = IF WritesTo(c, u) THEN c.token ELSE owner[u]
  BY <1>1, <1>9 DEF WritesTo
<1>12. PlainOK'
  BY <1>1, PlainStays DEF IInv
<1>13. /\ c.do = "set" => c.token \in Token /\ c.token.at <= now
       /\ c.do = "del" => c.token = NoToken
       /\ c.do # "set" => c.slot = q /\ s \in Request /\ s.at = c.do /\ s.user = c.user
       /\ c.do = "get" => s.token \in Token
  BY <1>5, <1>6, <1>7, <1>9
<1>14. pipe' = Append(pipe, c) /\ session' = session /\ now' = now
  BY <1>1, <1>9
<1>15. s \in Request \cup {Idle}
  BY <1>5
<1>. QED
  BY <1>1, <1>2, <1>8, <1>10, <1>11, <1>12, <1>13, <1>14, <1>15, SendKeeps

LEMMA LogoutKeeps == ASSUME IInv, NEW q \in Slots, Logout(q)  PROVE  IInv'
<1>. DEFINE r == requests[q]
            s == [r EXCEPT !.at = "del"]
<1>1. /\ r.at = "leave"
      /\ pipe' = Append(pipe, Del(q, r.user))
      /\ owner' = [owner EXCEPT ![r.user] = NoToken]
      /\ UNCHANGED <<now, session, roles, grants, signed, workload, faults>>
      /\ Serve(q, s)
  BY DEF Logout, Send
<1>2. r.at \in Steps /\ r.at \notin {"get", "del"} /\ Guarded(r)
  BY <1>1 DEF Steps, Guarded
<1>3. r \in Request /\ GoodWith(r, r.moments, now)
  BY <1>2, Serving
<1>4. r.user \in Users
  BY <1>3 DEF Request
<1>5. s \in Request
  BY <1>3 DEF Request, Steps
<1>6. /\ s.op = r.op /\ s.user = r.user /\ s.token = r.token /\ s.role = r.role
      /\ s.keys = r.keys /\ s.moments = r.moments /\ s.subject = r.subject
      /\ s.wanted = r.wanted /\ s.at = "del"
  BY <1>3 DEF Request
<1>. HIDE DEF s
<1>7. GoodWith(s, s.moments, now)
  <2>1. SubjectWith(s, s.moments)
    BY <1>3, <1>6, SubjectStays DEF GoodWith, Bound
  <2>. QED
    BY <1>2, <1>3, <1>6, <2>1, StaysLetIn
<1>8. GoodWith(s, s.moments \cup {Circumstances(s.user)}, now)
  <2>1. Like(s, s) /\ now \in Nat
    BY LivesAssumption DEF Like, IInv, PlainOK
  <2>2. s.moments \subseteq s.moments \cup {Circumstances(s.user)}
    OBVIOUS
  <2>. QED
    BY <1>5, <1>7, <2>1, <2>2, GoodStays
<1>9. PICK c \in Command : /\ c = Del(q, r.user) /\ c.do = "del" /\ c.user = r.user
                           /\ c.slot = q /\ c.token = NoToken
  <2>1. PICK u \in Users : u = r.user
    BY <1>4
  <2>2. PICK c : c = [do |-> "del", user |-> u, token |-> NoToken, slot |-> q]
    OBVIOUS
  <2>3. /\ c \in Command /\ c.do = "del" /\ c.user = u /\ c.slot = q /\ c.token = NoToken
    BY <2>2 DEF Command
  <2>4. c = Del(q, r.user)
    BY <2>1, <2>2 DEF Del
  <2>. QED
    BY <2>1, <2>3, <2>4
<1>10. owner' \in [Users -> TokenOrNone]
  BY <1>1 DEF IInv, OwnerOK, TokenOrNone
<1>11. \A u \in Users : owner'[u] = IF WritesTo(c, u) THEN c.token ELSE owner[u]
  BY <1>1, <1>9 DEF WritesTo, IInv, OwnerOK
<1>12. PlainOK'
  BY <1>1, PlainStays DEF IInv
<1>13. /\ c.do = "set" => c.token \in Token /\ c.token.at <= now
       /\ c.do = "del" => c.token = NoToken
       /\ c.do # "set" => c.slot = q /\ s \in Request /\ s.at = c.do /\ s.user = c.user
       /\ c.do = "get" => s.token \in Token
  BY <1>5, <1>6, <1>9
<1>14. pipe' = Append(pipe, c) /\ session' = session /\ now' = now
  BY <1>1, <1>9
<1>15. s \in Request \cup {Idle}
  BY <1>5
<1>. QED
  BY <1>1, <1>2, <1>8, <1>10, <1>11, <1>12, <1>13, <1>14, <1>15, SendKeeps

-----------------------------------------------------------------------------
(* Redis, time and faults *)

(* What redis holds after the oldest command. *)
LEMMA Executed ==
  ASSUME PipeOK, SessionOK, PlainOK, pipe # <<>>, Execute(pipe[1])
  PROVE  /\ SessionOK'
         /\ \A u \in Users :
              session'[u].token = IF WritesTo(pipe[1], u) THEN pipe[1].token ELSE session[u].token
<1>. DEFINE c == pipe[1]
<1>1. 1 \in 1..Len(pipe)
  BY EmptySeq, LenProperties DEF PipeOK
<1>2. c \in Command /\ GoodCommand(1)
  BY <1>1, ElementOfSeq DEF PipeOK
<1>3. /\ c.do \in {"set", "del", "get"} /\ c.user \in Users
      /\ c.do = "set" => c.token \in Token /\ c.token.at <= now
      /\ c.do = "del" => c.token = NoToken
  BY <1>2 DEF Command, GoodCommand
<1>4. session \in [Users -> Record] /\ \A u \in Users : GoodRecord(session[u])
  BY DEF SessionOK
<1>5. CASE c.do = "set"
  <2>1. PICK record : record = Stored(c.token)
    OBVIOUS
  <2>2. record.token = c.token /\ record.until = now + RecordLife
    BY <2>1 DEF Stored
  <2>3. /\ now \in Nat /\ RecordLife \in Nat /\ JwtLife \in Nat /\ JwtLife <= RecordLife
        /\ c.token.at \in Nat
    BY <1>3, <1>5, LivesAssumption DEF PlainOK, Token
  <2>4. now + RecordLife \in Nat /\ now + RecordLife >= c.token.at + JwtLife
    BY <1>3, <1>5, <2>3
  <2>5. record \in Record
    BY <1>3, <1>5, <2>1, <2>4 DEF Stored, Record
  <2>6. GoodRecord(record)
    BY <2>2, <2>4 DEF GoodRecord
  <2>7. session' = [session EXCEPT ![c.user] = record]
    BY <1>5, <2>1 DEF Execute
  <2>8. session' \in [Users -> Record] /\ \A u \in Users : GoodRecord(session'[u])
    BY <1>3, <1>4, <2>5, <2>6, <2>7
  <2>9. \A u \in Users :
          session'[u].token = IF WritesTo(c, u) THEN c.token ELSE session[u].token
    BY <1>3, <1>4, <1>5, <2>2, <2>7 DEF WritesTo
  <2>. QED
    BY <2>8, <2>9 DEF SessionOK
<1>6. CASE c.do = "del"
  <2>1. session' = [session EXCEPT ![c.user] = NoRecord]
    BY <1>6 DEF Execute
  <2>2. NoRecord \in Record /\ NoRecord.token = NoToken /\ GoodRecord(NoRecord)
    BY DEF NoRecord, Record, GoodRecord
  <2>3. session' \in [Users -> Record] /\ \A u \in Users : GoodRecord(session'[u])
    BY <1>3, <1>4, <2>1, <2>2
  <2>4. \A u \in Users :
          session'[u].token = IF WritesTo(c, u) THEN c.token ELSE session[u].token
    BY <1>3, <1>4, <1>6, <2>1, <2>2 DEF WritesTo
  <2>. QED
    BY <2>3, <2>4 DEF SessionOK
<1>7. CASE c.do = "get"
  <2>1. session' = session
    BY <1>7 DEF Execute
  <2>. QED
    BY <1>4, <1>7, <2>1 DEF SessionOK, WritesTo
<1>. QED
  BY <1>3, <1>5, <1>6, <1>7

LEMMA AnswerKeeps == ASSUME IInv, Answer  PROVE  IInv'
<1>. DEFINE c == pipe[1]
            r == requests[c.slot]
<1>1. /\ pipe # <<>> /\ pipe \in Seq(Command)
      /\ Head(pipe) = c
      /\ pipe' = Tail(pipe)
      /\ Execute(c)
      /\ UNCHANGED <<now, roles, grants, signed, owner, workload, faults>>
  <2>1. pipe # <<>> /\ pipe \in Seq(Command) /\ pipe' = Tail(pipe) /\ Execute(Head(pipe))
        /\ UNCHANGED <<now, roles, grants, signed, owner, workload, faults>>
    BY DEF Answer, IInv, PipeOK
  <2>2. Head(pipe) = c
    BY <2>1, HeadTailProperties
  <2>. QED
    BY <2>1, <2>2
<1>2. /\ Len(pipe) \in Nat \ {0} /\ pipe' \in Seq(Command) /\ Len(pipe') = Len(pipe) - 1
      /\ \A i \in 1..Len(pipe') : pipe'[i] = pipe[i + 1]
  BY <1>1, HeadTailProperties, EmptySeq, LenProperties
<1>3. 1 \in 1..Len(pipe)
  BY <1>2
<1>4. c \in Command /\ c.do \in {"set", "del", "get"} /\ c.user \in Users /\ GoodCommand(1)
  <2>1. c \in Command
    BY <1>1, <1>3, ElementOfSeq
  <2>2. GoodCommand(1)
    BY <1>3 DEF IInv, PipeOK
  <2>. QED
    BY <2>1, <2>2 DEF Command
<1>5. /\ SessionOK'
      /\ \A u \in Users :
           session'[u].token = IF WritesTo(c, u) THEN c.token ELSE session[u].token
  BY <1>1, Executed DEF IInv
<1>6. PlainOK' /\ now <= now' /\ now' = now
  BY <1>1, PlainStays, LivesAssumption DEF IInv, PlainOK
<1>7. ASSUME NEW n \in Nat, n + 1 <= Len(pipe), NEW u \in Users, NEW v,
             Reads(pipe, session[u].token, n + 1, u, v)
      PROVE  Reads(pipe', session'[u].token, n, u, v)
  <2>1. \A i \in 1..n : pipe'[i] = pipe[i + 1]
    BY <1>2, <1>7
  <2>. QED
    BY <1>5, <1>7, <2>1, FirstDone
<1>8. OwnerOK'
  <2>1. ASSUME NEW u \in Users
        PROVE  \E v \in TokenOrNone :
                 Reads(pipe', session'[u].token, Len(pipe'), u, v) /\ Agrees(owner[u], v, now)
    <3>1. PICK v \in TokenOrNone :
            Reads(pipe, session[u].token, Len(pipe), u, v) /\ Agrees(owner[u], v, now)
      BY DEF IInv, OwnerOK
    <3>2. Len(pipe') \in Nat /\ Len(pipe') + 1 = Len(pipe)
      BY <1>2
    <3>3. Reads(pipe', session'[u].token, Len(pipe'), u, v)
      <4>1. PICK n \in Nat : n = Len(pipe') /\ n + 1 = Len(pipe)
        BY <3>2
      <4>2. n + 1 <= Len(pipe) /\ Reads(pipe, session[u].token, n + 1, u, v)
        BY <3>1, <4>1
      <4>3. Reads(pipe', session'[u].token, n, u, v)
        BY <1>7, <4>2
      <4>. QED
        BY <4>1, <4>3
    <3>. QED
      BY <3>1, <3>3
  <2>. QED
    BY <1>1, <2>1 DEF IInv, OwnerOK
<1>9. /\ RequestsOK'
      /\ \A i \in 2..Len(pipe) :
           pipe[i].do # "set" => Follows(requests'[pipe[i].slot], requests[pipe[i].slot])
  <2>1. CASE c.do = "set"
    <3>1. requests' = requests
      BY <1>1, <2>1 DEF Answer
    <3>2. RequestsOK'
      BY <1>6, <3>1 DEF IInv, RequestsOK, GoodRequest
    <3>. QED
      BY <3>1, <3>2 DEF Follows
  <2>2. ASSUME c.do # "set"
        PROVE  \A i \in 2..Len(pipe) :
                 pipe[i].do # "set" => pipe[i].slot \in Slots \ {c.slot}
    <3>. SUFFICES ASSUME NEW i \in 2..Len(pipe), pipe[i].do # "set"
                  PROVE  pipe[i].slot \in Slots \ {c.slot}
      OBVIOUS
    <3>1. i \in 1..Len(pipe) /\ i # 1
      BY <1>2
    <3>2. pipe[i].slot \in Slots
      BY <3>1, Waiting DEF IInv
    <3>3. pipe[i].slot # c.slot
      BY <1>3, <2>2, <3>1 DEF IInv, PipeOK
    <3>. QED
      BY <3>2, <3>3
  <2>3. CASE c.do = "del"
    <3>1. c.slot \in Slots
      BY <1>3, <2>3, Waiting DEF IInv
    <3>2. Serve(c.slot, Idle)
      BY <1>1, <2>3 DEF Answer, Finish
    <3>3. /\ RequestsOK'
          /\ \A p \in Slots \ {c.slot} : Follows(requests'[p], requests[p])
      <4>1. PICK q \in Slots : q = c.slot
        BY <3>1
      <4>2. (owner \in [Users -> TokenOrNone])'
        BY <1>8 DEF OwnerOK
      <4>. QED
        BY <1>6, <3>2, <4>1, <4>2, ServeKeepsRequests DEF IInv
    <3>. QED
      BY <2>2, <2>3, <3>3
  <2>4. CASE c.do = "get"
    <3>1. /\ c.slot \in Slots /\ r \in Request /\ r.at = "get"
      BY <1>3, <2>4, Waiting DEF IInv
    <3>2. GoodWith(r, r.moments, now)
      BY <3>1, IdleIsNoRequest DEF IInv, RequestsOK, GoodRequest
    <3>3. PICK v \in TokenOrNone :
            /\ Reads(pipe, session[c.user].token, 1 - 1, c.user, v)
            /\ Fits(r.token, v, r.moments, now)
      BY <1>4, <2>4 DEF GoodCommand
    <3>4. v = session[c.user].token
      BY <3>3, NothingRead
    <3>. DEFINE s == [r EXCEPT !.at = "read", !.value = v]
    <3>5. Serve(c.slot, s)
      BY <1>1, <2>4, <3>4 DEF Answer
    <3>6. s \in Request
      BY <3>1 DEF Request, Steps, TokenOrNone
    <3>7. /\ s.op = r.op /\ s.token = r.token /\ s.role = r.role /\ s.keys = r.keys
          /\ s.moments = r.moments /\ s.user = r.user /\ s.subject = r.subject
          /\ s.wanted = r.wanted /\ s.at = "read" /\ s.value = v
      BY <3>1 DEF Request
    <3>. HIDE DEF s
    <3>8. GoodWith(s, s.moments, now)
      <4>1. SubjectWith(s, s.moments)
        BY <3>2, <3>7, SubjectStays DEF GoodWith, Bound
      <4>. QED
        BY <3>1, <3>2, <3>3, <3>7, <4>1 DEF GoodWith, Held, Guarded
    <3>9. GoodWith(s, s.moments \cup {Circumstances(s.user)}, now')
      <4>1. Like(s, s) /\ now \in Nat /\ now' \in Nat
        BY <1>6, LivesAssumption DEF Like, IInv, PlainOK
      <4>2. s.moments \subseteq s.moments \cup {Circumstances(s.user)}
        OBVIOUS
      <4>. QED
        BY <1>6, <3>6, <3>8, <4>1, <4>2, GoodStays
    <3>10. /\ RequestsOK'
           /\ \A p \in Slots \ {c.slot} : Follows(requests'[p], requests[p])
      <4>1. PICK q \in Slots : q = c.slot
        BY <3>1
      <4>2. (owner \in [Users -> TokenOrNone])'
        BY <1>8 DEF OwnerOK
      <4>3. PICK w \in Request : w = s
        BY <3>6
      <4>. QED
        BY <1>6, <3>5, <3>9, <4>1, <4>2, <4>3, ServeKeepsRequests DEF IInv
    <3>. QED
      BY <2>2, <2>4, <3>10
  <2>. QED
    BY <1>4, <2>1, <2>3, <2>4
<1>10. ASSUME NEW k \in 1..Len(pipe')
       PROVE  GoodCommand(k)'
  <2>1. PICK i \in 2..Len(pipe) : i = k + 1
    BY <1>2
  <2>2. i \in 1..Len(pipe) /\ pipe'[k] = pipe[i]
    BY <1>2, <2>1
  <2>3. pipe[i].do # "set" => Follows(requests'[pipe[i].slot], requests[pipe[i].slot])
    BY <1>9
  <2>4. ASSUME NEW v \in TokenOrNone, pipe[i].do = "get",
               Reads(pipe, session[pipe[i].user].token, i - 1, pipe[i].user, v)
        PROVE  Reads(pipe', session'[pipe[i].user].token, k - 1, pipe[i].user, v)
    <3>1. /\ k - 1 \in Nat /\ (k - 1) + 1 <= Len(pipe) /\ i - 1 = (k - 1) + 1
      BY <1>2, <2>1
    <3>2. pipe[i].user \in Users
      BY <2>2, <2>4, Waiting DEF IInv
    <3>3. PICK u \in Users : u = pipe[i].user
      BY <3>2
    <3>4. PICK n \in Nat : n = k - 1
      BY <3>1
    <3>5. n + 1 <= Len(pipe) /\ Reads(pipe, session[u].token, n + 1, u, v)
      BY <2>4, <3>1, <3>3, <3>4
    <3>6. Reads(pipe', session'[u].token, n, u, v)
      BY <1>7, <3>5
    <3>. QED
      BY <3>3, <3>4, <3>6
  <2>. QED
    BY <1>6, <2>2, <2>3, <2>4, CommandStays DEF IInv
<1>11. ASSUME NEW i \in 1..Len(pipe'), NEW j \in 1..Len(pipe'),
              pipe'[i].do # "set", pipe'[j].do # "set", pipe'[i].slot = pipe'[j].slot
       PROVE  i = j
  <2>1. i + 1 \in 1..Len(pipe) /\ j + 1 \in 1..Len(pipe)
    BY <1>2
  <2>2. pipe'[i] = pipe[i + 1] /\ pipe'[j] = pipe[j + 1]
    BY <1>2
  <2>3. i + 1 = j + 1
    BY <1>11, <2>1, <2>2 DEF IInv, PipeOK
  <2>. QED
    BY <2>3
<1>12. PipeOK'
  BY <1>2, <1>10, <1>11 DEF PipeOK
<1>. QED
  BY <1>5, <1>6, <1>8, <1>9, <1>12 DEF IInv

(* A session that runs out on its way to being read is a token that has expired. *)
LEMMA LapsedFits ==
  ASSUME NEW token \in Token, NEW v, NEW w, NEW ms,
         NEW t \in Nat, NEW later \in Nat, t <= later, Agrees(v, w, later), Fits(token, v, ms, t)
  PROVE  Fits(token, w, ms, later)
<1>1. Fits(token, v, ms, later)
  BY FitsStays
<1>. QED
  BY <1>1, NoTokenIsNone DEF Agrees, Fits

LEMMA LapsedAgrees ==
  ASSUME NEW o, NEW v, NEW w, NEW t \in Nat, NEW later \in Nat, t <= later,
         Agrees(o, v, t), Agrees(v, w, later)
  PROVE  Agrees(o, w, later)
<1>1. CASE v = o
  BY <1>1 DEF Agrees
<1>2. CASE v = NoToken /\ o \in Token /\ ExpiredAt(o, t)
  <2>1. w = NoToken
    BY <1>2 DEF Agrees
  <2>2. ExpiredAt(o, later)
    BY <1>2, LaterIsExpired
  <2>. QED
    BY <1>2, <2>1, <2>2 DEF Agrees
<1>. QED
  BY <1>1, <1>2 DEF Agrees

LEMMA TickKeeps == ASSUME IInv, Tick  PROVE  IInv'
<1>1. /\ now < MaxTime /\ now' = now + 1
      /\ session' = [u \in Users |-> IF session[u].until <= now' THEN NoRecord ELSE session[u]]
      /\ UNCHANGED <<pipe, roles, grants, signed, owner, requests, workload, faults>>
  BY DEF Tick, Pass
<1>2. /\ now \in Nat /\ now' \in Nat /\ now <= now' /\ MaxTime \in Nat
      /\ now' \in 0..MaxTime
  BY <1>1, LivesAssumption DEF IInv, PlainOK
<1>3. PlainOK'
  BY <1>1, <1>2 DEF IInv, PlainOK
<1>4. session \in [Users -> Record] /\ \A u \in Users : GoodRecord(session[u])
  BY DEF IInv, SessionOK
<1>5. SessionOK'
  <2>1. NoRecord \in Record /\ GoodRecord(NoRecord)
    BY DEF NoRecord, Record, GoodRecord
  <2>. QED
    BY <1>1, <1>4, <2>1 DEF SessionOK
<1>6. ASSUME NEW u \in Users
      PROVE  Agrees(session[u].token, session'[u].token, now')
  <2>1. CASE session[u].until <= now'
    <3>1. session'[u] = NoRecord
      BY <1>1, <2>1
    <3>2. session'[u].token = NoToken
      BY <3>1 DEF NoRecord
    <3>3. session[u] \in Record /\ GoodRecord(session[u])
      BY <1>4
    <3>4. CASE session[u].token = NoToken
      BY <3>2, <3>4 DEF Agrees
    <3>5. CASE session[u].token # NoToken
      <4>1. /\ session[u].token \in Token /\ session[u].until \in Nat
            /\ session[u].until >= session[u].token.at + JwtLife
        BY <3>3, <3>5 DEF Record, GoodRecord
      <4>2. session[u].token.at \in Nat /\ JwtLife \in Nat
        BY <4>1, LivesAssumption DEF Token
      <4>3. now' >= session[u].token.at + JwtLife
        BY <1>2, <2>1, <4>1, <4>2
      <4>. QED
        BY <3>2, <4>1, <4>3 DEF Agrees, ExpiredAt
    <3>. QED
      BY <3>4, <3>5
  <2>2. CASE ~ (session[u].until <= now')
    BY <1>1, <2>2 DEF Agrees
  <2>. QED
    BY <2>1, <2>2
<1>7. \A u \in Users : session'[u].token \in TokenOrNone
  BY <1>5 DEF SessionOK, Record, TokenOrNone
<1>8. ASSUME NEW u \in Users, NEW n \in Nat, NEW v \in TokenOrNone,
             Reads(pipe, session[u].token, n, u, v)
      PROVE  \E w \in TokenOrNone :
               Reads(pipe', session'[u].token, n, u, w) /\ Agrees(v, w, now')
  <2>1. \/ Reads(pipe, session'[u].token, n, u, v)
        \/ v = session[u].token /\ Reads(pipe, session'[u].token, n, u, session'[u].token)
    BY <1>8, OtherFirst
  <2>2. Agrees(v, v, now')
    BY DEF Agrees
  <2>. QED
    BY <1>1, <1>6, <1>7, <2>1, <2>2
<1>9. OwnerOK'
  <2>1. ASSUME NEW u \in Users
        PROVE  \E w \in TokenOrNone :
                 Reads(pipe', session'[u].token, Len(pipe'), u, w) /\ Agrees(owner[u], w, now')
    <3>1. PICK v \in TokenOrNone :
            Reads(pipe, session[u].token, Len(pipe), u, v) /\ Agrees(owner[u], v, now)
      BY DEF IInv, OwnerOK
    <3>2. PICK n \in Nat : n = Len(pipe) /\ n = Len(pipe')
      BY <1>1, LenProperties DEF IInv, PipeOK
    <3>3. PICK w \in TokenOrNone :
            Reads(pipe', session'[u].token, n, u, w) /\ Agrees(v, w, now')
      BY <1>8, <3>1, <3>2
    <3>4. Agrees(owner[u], w, now')
      BY <1>2, <3>1, <3>3, LapsedAgrees
    <3>. QED
      BY <3>2, <3>3, <3>4
  <2>. QED
    BY <1>1, <2>1 DEF IInv, OwnerOK
<1>10. RequestsOK'
  <2>1. ASSUME NEW q \in Slots, requests[q] # Idle
        PROVE  GoodWith(requests[q], requests[q].moments, now')
    <3>1. requests[q] \in Request /\ GoodWith(requests[q], requests[q].moments, now)
      BY <2>1 DEF IInv, RequestsOK, GoodRequest
    <3>2. Like(requests[q], requests[q])
      BY DEF Like
    <3>. QED
      BY <1>2, <3>1, <3>2, GoodStays
  <2>. QED
    BY <1>1, <2>1 DEF IInv, RequestsOK, GoodRequest
<1>11. ASSUME NEW i \in 1..Len(pipe)
       PROVE  GoodCommand(i)'
  <2>. DEFINE c == pipe[i]
  <2>1. pipe'[i] = c /\ Follows(requests'[c.slot], requests[c.slot])
    BY <1>1 DEF Follows
  <2>2. ASSUME c.do = "get"
        PROVE  \E w \in TokenOrNone :
                 /\ Reads(pipe', session'[c.user].token, i - 1, c.user, w)
                 /\ Fits(requests'[c.slot].token, w, requests'[c.slot].moments, now')
    <3>1. PICK v \in TokenOrNone :
            /\ Reads(pipe, session[c.user].token, i - 1, c.user, v)
            /\ Fits(requests[c.slot].token, v, requests[c.slot].moments, now)
      BY <2>2 DEF IInv, PipeOK, GoodCommand
    <3>2. /\ requests[c.slot] \in Request /\ requests[c.slot].at = "get" /\ c.user \in Users
          /\ c.slot \in Slots
      BY <2>2, Waiting DEF IInv
    <3>3. PICK n \in Nat, u \in Users : n = i - 1 /\ u = c.user
      BY <3>2
    <3>4. PICK w \in TokenOrNone :
            Reads(pipe', session'[u].token, n, u, w) /\ Agrees(v, w, now')
      BY <1>8, <3>1, <3>3
    <3>5. requests[c.slot].token \in Token
      BY <3>2, IdleIsNoRequest DEF IInv, RequestsOK, GoodRequest, GoodWith
    <3>6. Fits(requests[c.slot].token, w, requests[c.slot].moments, now')
      BY <1>2, <3>1, <3>4, <3>5, LapsedFits
    <3>. QED
      BY <1>1, <3>3, <3>4, <3>6
  <2>. QED
    BY <1>2, <1>3, <2>1, <2>2, CommandGoesOn DEF IInv
<1>12. PipeOK'
  BY <1>1, <1>11 DEF IInv, PipeOK
<1>. QED
  BY <1>3, <1>5, <1>9, <1>10, <1>12 DEF IInv

(* What a request holds when the connection breaks. *)
LEMMA LossOfRequest ==
  ASSUME PlainOK', (owner \in [Users -> TokenOrNone])', SessionOK, NEW r \in Request
  PROVE  /\ WitnessLoss(r) \in Request
         /\ Like(WitnessLoss(r), r)
         /\ r.moments \subseteq WitnessLoss(r).moments
         /\ \E m \in WitnessLoss(r).moments : m.owner = session[r.user].token
         /\ Follows(WitnessLoss(r), r)
<1>1. r # Idle /\ r.user \in Users
  BY IdleIsNoRequest DEF Request
<1>2. PICK c \in Moment : c = Circumstances(r.user)
  BY <1>1, CircumstancesAreMoment
<1>3. PICK o \in TokenOrNone : o = session[r.user].token
  BY <1>1 DEF SessionOK, Record, TokenOrNone
<1>4. PICK l : l = [c EXCEPT !.owner = o]
  OBVIOUS
<1>5. l \in Moment /\ l.owner = o
  BY <1>4 DEF Moment, TokenOrNone
<1>6. WitnessLoss(r) = Added(r, {c, l})
  BY <1>1, <1>2, <1>3, <1>4 DEF WitnessLoss, Added
<1>7. {c, l} \in SUBSET Moment
  BY <1>5
<1>8. /\ Added(r, {c, l}) \in Request
      /\ Like(Added(r, {c, l}), r)
      /\ Added(r, {c, l}).moments = r.moments \cup {c, l}
  BY <1>7, AddedIs
<1>. QED
  BY <1>3, <1>5, <1>6, <1>8 DEF Like, Follows

LEMMA DisconnectKeeps == ASSUME IInv, Disconnect  PROVE  IInv'
<1>1. PICK n \in 0..Len(pipe) :
        /\ pipe' = SubSeq(pipe, n + 1, Len(pipe))
        /\ owner' = [u \in Users |-> SettlesOn(pipe', u)]
        /\ requests' = [q \in Slots |->
             IF q \in {p \in Slots : requests[p].at = "read"}
                        \cup {pipe[i].slot : i \in {j \in 1..n : pipe[j].do # "set"}}
               THEN Idle ELSE WitnessLoss(requests[q])]
  BY DEF Disconnect
<1>2. /\ UNCHANGED <<now, session, roles, grants, signed, workload>>
      /\ faults < MaxFaults /\ faults' = faults + 1
  BY DEF Disconnect
<1>3. PlainOK'
  BY <1>2, BoundsAssumption DEF IInv, PlainOK
<1>4. now' = now /\ now \in Nat /\ now <= now'
  BY <1>2, LivesAssumption DEF IInv, PlainOK
<1>5. SessionOK'
  BY <1>2 DEF IInv, SessionOK
<1>6. /\ Len(pipe) \in Nat /\ n \in Nat /\ Len(pipe') = Len(pipe) - n
      /\ pipe' \in Seq(Command) /\ Len(pipe') \in Nat
      /\ \A i \in 1..Len(pipe') : pipe'[i] = pipe[i + n]
  <2>1. Len(pipe) \in Nat /\ n \in Nat /\ n + 1 \in Int /\ Len(pipe) \in Int
    BY LenProperties DEF IInv, PipeOK
  <2>2. \A i \in (n + 1)..Len(pipe) : pipe[i] \in Command
    BY <2>1, ElementOfSeq DEF IInv, PipeOK
  <2>3. PICK a \in Int, b \in Int : a = n + 1 /\ b = Len(pipe)
    BY <2>1
  <2>4. /\ SubSeq(pipe, a, b) \in Seq(Command)
        /\ Len(SubSeq(pipe, a, b)) = IF a <= b THEN b - a + 1 ELSE 0
        /\ \A i \in 1..(b - a + 1) : SubSeq(pipe, a, b)[i] = pipe[a + i - 1]
    BY <2>2, <2>3, SubSeqProperties
  <2>5. pipe' = SubSeq(pipe, a, b)
    BY <1>1, <2>3
  <2>6. Len(pipe') = Len(pipe) - n
    BY <2>1, <2>3, <2>4, <2>5
  <2>7. ASSUME NEW i \in 1..Len(pipe')
        PROVE  pipe'[i] = pipe[i + n]
    <3>1. i \in 1..(b - a + 1) /\ a + i - 1 = i + n
      BY <2>1, <2>3, <2>6
    <3>. QED
      BY <2>4, <2>5, <3>1
  <2>8. Len(pipe') \in Nat
    BY <1>1, <2>1, <2>6
  <2>. QED
    BY <2>1, <2>4, <2>5, <2>6, <2>7, <2>8
<1>7. ASSUME NEW u \in Users, NEW m \in Nat, m <= Len(pipe'), NEW v,
             Reads(pipe, session[u].token, m + n, u, v)
      PROVE  Reads(pipe', session[u].token, m, u, v)
             \/ Reads(pipe', session[u].token, m, u, session[u].token)
  <2>1. \A i \in 1..m : pipe'[i] = pipe[i + n]
    BY <1>6, <1>7
  <2>. QED
    BY <1>6, <1>7, <2>1, Suffix
<1>8. \A u \in Users : session[u].token \in TokenOrNone
  BY DEF IInv, SessionOK, Record, TokenOrNone
<1>9. ASSUME NEW u \in Users
      PROVE  /\ owner'[u] \in TokenOrNone
             /\ Reads(pipe', session[u].token, Len(pipe'), u, owner'[u])
  <2>1. PICK v \in TokenOrNone : Reads(pipe, session[u].token, Len(pipe), u, v)
    BY DEF IInv, OwnerOK
  <2>2. PICK m \in Nat : m = Len(pipe')
    BY <1>6
  <2>3. PICK w \in TokenOrNone : Reads(pipe', session[u].token, m, u, w)
    <3>1. m <= Len(pipe') /\ m + n = Len(pipe)
      BY <1>6, <2>2
    <3>2. Reads(pipe, session[u].token, m + n, u, v)
      BY <2>1, <3>1
    <3>3. \/ Reads(pipe', session[u].token, m, u, v)
          \/ Reads(pipe', session[u].token, m, u, session[u].token)
      BY <1>7, <3>1, <3>2
    <3>. QED
      BY <1>8, <3>3
  <2>4. SettlesOn(pipe', u) = w
    BY <1>6, <2>2, <2>3, SettlesOnRead
  <2>. QED
    BY <1>1, <2>2, <2>3, <2>4
<1>10. OwnerOK'
  BY <1>1, <1>2, <1>9 DEF OwnerOK, Agrees
<1>11. ASSUME NEW q \in Slots
       PROVE  /\ requests'[q] \in Request \cup {Idle}
              /\ requests'[q] # Idle => GoodWith(requests'[q], requests'[q].moments, now')
  <2>1. CASE requests'[q] = Idle
    BY <2>1
  <2>2. CASE requests'[q] # Idle
    <3>1. requests'[q] = WitnessLoss(requests[q])
      BY <1>1, <2>2
    <3>2. requests[q] # Idle
      BY <2>2, <3>1 DEF WitnessLoss
    <3>3. requests[q] \in Request /\ GoodWith(requests[q], requests[q].moments, now)
      BY <3>2 DEF IInv, RequestsOK, GoodRequest
    <3>4. /\ WitnessLoss(requests[q]) \in Request
          /\ Like(WitnessLoss(requests[q]), requests[q])
          /\ requests[q].moments \subseteq WitnessLoss(requests[q]).moments
      BY <1>3, <1>10, <3>3, LossOfRequest DEF IInv, OwnerOK
    <3>5. GoodWith(WitnessLoss(requests[q]), WitnessLoss(requests[q]).moments, now')
      BY <1>4, <3>3, <3>4, GoodStays
    <3>. QED
      BY <3>1, <3>4, <3>5
  <2>. QED
    BY <2>1, <2>2
<1>12. RequestsOK'
  BY <1>1, <1>11 DEF RequestsOK, GoodRequest
<1>13. ASSUME NEW i \in (n + 1)..Len(pipe), pipe[i].do # "set"
       PROVE  /\ Follows(requests'[pipe[i].slot], requests[pipe[i].slot])
              /\ \E m \in requests'[pipe[i].slot].moments :
                   m.owner = session[pipe[i].user].token
  <2>1. i \in 1..Len(pipe)
    BY <1>6
  <2>2. /\ pipe[i].slot \in Slots /\ requests[pipe[i].slot] \in Request
        /\ requests[pipe[i].slot].at \in {"get", "del"}
        /\ requests[pipe[i].slot].user = pipe[i].user
    BY <1>13, <2>1, Waiting DEF IInv
  <2>3. \A j \in 1..n : pipe[j].do # "set" => pipe[j].slot # pipe[i].slot
    <3>. SUFFICES ASSUME NEW j \in 1..n, pipe[j].do # "set"
                  PROVE  pipe[j].slot # pipe[i].slot
      OBVIOUS
    <3>1. j \in 1..Len(pipe) /\ j # i
      BY <1>6
    <3>. QED
      BY <1>13, <2>1, <3>1 DEF IInv, PipeOK
  <2>4. requests'[pipe[i].slot] = WitnessLoss(requests[pipe[i].slot])
    BY <1>1, <2>2, <2>3
  <2>. QED
    BY <1>3, <1>10, <2>2, <2>4, LossOfRequest DEF IInv, OwnerOK
<1>14. ASSUME NEW k \in 1..Len(pipe')
       PROVE  GoodCommand(k)'
  <2>1. PICK i \in (n + 1)..Len(pipe) : i = k + n
    BY <1>6
  <2>. DEFINE c == pipe[i]
  <2>2. i \in 1..Len(pipe) /\ pipe'[k] = c
    BY <1>6, <2>1
  <2>3. c.do # "set" => Follows(requests'[c.slot], requests[c.slot])
    BY <1>13
  <2>4. ASSUME c.do = "get"
        PROVE  \E w \in TokenOrNone :
                 /\ Reads(pipe', session'[c.user].token, k - 1, c.user, w)
                 /\ Fits(requests'[c.slot].token, w, requests'[c.slot].moments, now')
    <3>1. PICK v \in TokenOrNone :
            /\ Reads(pipe, session[c.user].token, i - 1, c.user, v)
            /\ Fits(requests[c.slot].token, v, requests[c.slot].moments, now)
      BY <2>2, <2>4 DEF IInv, PipeOK, GoodCommand
    <3>2. /\ requests[c.slot] \in Request /\ requests[c.slot].at = "get" /\ c.user \in Users
          /\ c.slot \in Slots
      BY <2>2, <2>4, Waiting DEF IInv
    <3>3. PICK m \in Nat, u \in Users : m = k - 1 /\ m + n = i - 1 /\ u = c.user
      BY <1>6, <2>1, <3>2
    <3>4. m <= Len(pipe')
      BY <1>6, <3>3
    <3>5. \/ Reads(pipe', session[u].token, m, u, v)
          \/ Reads(pipe', session[u].token, m, u, session[u].token)
      BY <1>7, <3>1, <3>3, <3>4
    <3>6. CASE Reads(pipe', session[u].token, m, u, v)
      <4>1. GoodRequest(requests[c.slot])
        BY <3>2 DEF IInv, RequestsOK
      <4>2. Fits(requests'[c.slot].token, v, requests'[c.slot].moments, now')
        BY <1>3, <1>4, <2>3, <2>4, <3>1, <3>2, <4>1, GetFits DEF IInv
      <4>. QED
        BY <1>2, <3>3, <3>6, <4>2
    <3>7. CASE Reads(pipe', session[u].token, m, u, session[u].token)
      <4>1. PICK l \in requests'[c.slot].moments : l.owner = session[u].token
        BY <1>13, <2>4, <3>3
      <4>2. requests'[c.slot].token \in Token
        BY <2>3, <2>4, <3>2, IdleIsNoRequest DEF Follows, IInv, RequestsOK, GoodRequest, GoodWith
      <4>3. Agrees(session[u].token, session[u].token, now')
        BY DEF Agrees
      <4>4. Fits(requests'[c.slot].token, session[u].token, requests'[c.slot].moments, now')
        BY <4>1, <4>2, <4>3, AskedFits
      <4>. QED
        BY <1>2, <1>8, <3>3, <3>7, <4>4
    <3>. QED
      BY <3>5, <3>6, <3>7
  <2>. QED
    BY <1>3, <1>4, <2>2, <2>3, <2>4, CommandGoesOn DEF IInv
<1>15. ASSUME NEW i \in 1..Len(pipe'), NEW j \in 1..Len(pipe'),
              pipe'[i].do # "set", pipe'[j].do # "set", pipe'[i].slot = pipe'[j].slot
       PROVE  i = j
  <2>1. i + n \in 1..Len(pipe) /\ j + n \in 1..Len(pipe)
    BY <1>6
  <2>2. pipe'[i] = pipe[i + n] /\ pipe'[j] = pipe[j + n]
    BY <1>6
  <2>3. i + n = j + n
    BY <1>15, <2>1, <2>2 DEF IInv, PipeOK
  <2>. QED
    BY <1>6, <2>3
<1>16. PipeOK'
  BY <1>6, <1>14, <1>15 DEF PipeOK
<1>. QED
  BY <1>3, <1>5, <1>10, <1>12, <1>16 DEF IInv

LEMMA CrashKeeps == ASSUME IInv, Crash  PROVE  IInv'
<1>1. /\ pipe' = <<>> /\ requests' = [q \in Slots |-> Idle]
      /\ owner' = [u \in Users |-> session[u].token]
      /\ faults < MaxFaults /\ faults' = faults + 1
      /\ UNCHANGED <<now, session, roles, grants, signed, workload>>
  BY DEF Crash
<1>2. PlainOK'
  BY <1>1, BoundsAssumption DEF IInv, PlainOK
<1>3. SessionOK'
  BY <1>1 DEF IInv, SessionOK
<1>4. RequestsOK'
  BY <1>1 DEF RequestsOK, GoodRequest
<1>5. pipe' \in Seq(Command) /\ Len(pipe') = 0 /\ 1..Len(pipe') = {}
  BY <1>1, EmptySeq
<1>6. PipeOK'
  BY <1>5 DEF PipeOK
<1>7. \A u \in Users : session'[u].token \in TokenOrNone /\ owner'[u] = session'[u].token
  BY <1>1, <1>3 DEF SessionOK, Record, TokenOrNone
<1>8. OwnerOK'
  BY <1>1, <1>5, <1>7 DEF OwnerOK, Reads, Agrees
<1>. QED
  BY <1>2, <1>3, <1>4, <1>6, <1>8 DEF IInv

-----------------------------------------------------------------------------
(* The invariant holds *)

LEMMA InitKeeps == Init => IInv
<1>. SUFFICES ASSUME Init
              PROVE  IInv
  OBVIOUS
<1>1. /\ now = 0 /\ pipe = <<>> /\ roles = FirstRole /\ grants = RolePermissions
      /\ owner = [u \in Users |-> [user |-> u, at |-> 0, role |-> FirstRole[u]]]
      /\ session = [u \in Users |-> [token |-> owner[u], until |-> RecordLife]]
      /\ signed = {owner[u] : u \in Users}
      /\ requests = [q \in Slots |-> Idle]
      /\ workload \in Workloads /\ faults = 0
  BY DEF Init
<1>2. \A u \in Users : owner[u] \in Token /\ owner[u].at = 0
  BY <1>1, FirstRoleAssumption, LivesAssumption DEF Token
<1>3. RolePermissions \in [RoleId -> SUBSET PermissionKeys]
  BY DEF RolePermissions, RoleId, PermissionKeys
<1>4. PlainOK
  BY <1>1, <1>2, <1>3, FirstRoleAssumption, BoundsAssumption, LivesAssumption DEF PlainOK
<1>5. SessionOK
  <2>1. \A u \in Users : session[u] = [token |-> owner[u], until |-> RecordLife]
    BY <1>1
  <2>2. session \in [Users -> Record]
    BY <1>1, <1>2, LivesAssumption DEF Record
  <2>3. ASSUME NEW u \in Users
        PROVE  GoodRecord(session[u])
    <3>1. PICK t : t = owner[u]
      OBVIOUS
    <3>2. session[u] = [token |-> t, until |-> RecordLife] /\ t.at = 0
      BY <1>2, <2>1, <3>1
    <3>3. session[u].until = RecordLife /\ session[u].token = t
      BY <3>2
    <3>4. RecordLife >= t.at + JwtLife
      BY <3>2, LivesAssumption
    <3>. QED
      BY <3>3, <3>4 DEF GoodRecord
  <2>. QED
    BY <2>2, <2>3 DEF SessionOK
<1>6. RequestsOK
  BY <1>1 DEF RequestsOK, GoodRequest
<1>7. pipe \in Seq(Command) /\ Len(pipe) = 0 /\ 1..Len(pipe) = {}
  BY <1>1, EmptySeq
<1>8. PipeOK
  BY <1>7 DEF PipeOK
<1>9. OwnerOK
  <2>1. \A u \in Users : session[u].token = owner[u] /\ owner[u] \in TokenOrNone
    BY <1>1, <1>2 DEF TokenOrNone
  <2>2. owner \in [Users -> TokenOrNone]
    BY <1>1, <2>1
  <2>. QED
    BY <1>7, <2>1, <2>2 DEF OwnerOK, Reads, Agrees
<1>. QED
  BY <1>4, <1>5, <1>6, <1>8, <1>9 DEF IInv

LEMMA StutterKeeps == ASSUME IInv, UNCHANGED vars  PROVE  IInv'
  BY DEF vars, IInv, PlainOK, RequestsOK, GoodRequest, PipeOK, GoodCommand, SessionOK, OwnerOK

LEMMA NextKeeps == IInv /\ [Next]_vars => IInv'
<1>. SUFFICES ASSUME IInv, [Next]_vars
              PROVE  IInv'
  OBVIOUS
<1>1. ASSUME NEW q \in Slots, Continue(q)
      PROVE  IInv'
  BY <1>1, LoginSignKeeps, AskKeeps, DecideKeeps, LogoutKeeps, QueryKeeps, AnswerListingKeeps,
     BindUserKeeps, SaveSelectKeeps, SaveWriteKeeps, ReadRowsKeeps, WriteRowsKeeps DEF Continue
<1>. QED
  BY <1>1, LoginFindKeeps, PresentKeeps, AnswerKeeps, TickKeeps, DisconnectKeeps, CrashKeeps,
     StutterKeeps DEF Next

LEMMA IInvHolds == Spec => []IInv
  BY InitKeeps, NextKeeps, PTL DEF Spec

-----------------------------------------------------------------------------
(* Theorems *)

(* Every variable has its type: the redis commands, the requests in memory, the *)
(* tokens, the roles and their permissions.                                     *)
THEOREM TypeCorrect == Spec => []TypeOK
  BY IInvHolds, IInvImplies, PTL

(* The guards let nobody in whose session another login or a logout has ended,  *)
(* nor who never had the right since asking, though no SET is awaited.          *)
THEOREM LetInRight == Spec => []LetInRightly
  BY IInvHolds, IInvImplies, PTL

(* The guards refuse nobody without a reason: a record never ends before its    *)
(* token, and redis answers in the order of the commands.                       *)
THEOREM RefusedRight == Spec => []RefusedRightly
  BY IInvHolds, IInvImplies, PTL

(* A listing shows only users within the reach of a role the caller had since   *)
(* asking, whatever filters the query brings.                                   *)
THEOREM ListingsStayWithinReach == Spec => []ListingWithinReach
  BY IInvHolds, IInvImplies, PTL

-----------------------------------------------------------------------------
(* Which roles users get *)

LEMMA OthersKeepRoles ==
  ASSUME NEW q \in Slots,
         \/ LoginFind(q) \/ Present(q) \/ LoginSign(q) \/ Ask(q) \/ Decide(q) \/ Logout(q)
         \/ Query(q) \/ AnswerListing(q) \/ BindUser(q) \/ SaveSelect(q) \/ ReadRows(q)
         \/ WriteRows(q)
  PROVE  UNCHANGED roles
  BY DEF LoginFind, Present, LoginSign, Ask, Decide, Logout, Query, AnswerListing, BindUser,
         SaveSelect, ReadRows, WriteRows

LEMMA SurroundingsKeepRoles ==
  ASSUME Answer \/ Tick \/ Disconnect \/ Crash
  PROVE  UNCHANGED roles
  BY DEF Answer, Tick, Disconnect, Crash

(* A user's role changes only if somebody assigns it who at some moment since   *)
(* asking had the right to, by a role that reached one the user had, or if a    *)
(* profile is saved: then it is a role the user had while that request was      *)
(* served, and the profile is the caller's own or was within reach.             *)
THEOREM RolesChangedRightly == Spec => RolesChangeRightly
<1>1. ASSUME IInv, [Next]_vars, NEW u \in Users, roles'[u] # roles[u]
      PROVE  \E q \in Slots :
               LET r == requests[q]
               IN /\ r.at = "write" /\ r.subject = u
                  /\ \/ r.op = "assignRole" /\ Reached(r, u)
                     \/ r.op = "updateOther" /\ Reached(r, u) /\ Had(r, u, roles'[u])
                     \/ r.op = "update" /\ r.user = u /\ Had(r, u, roles'[u])
  <2>1. roles' # roles
    BY <1>1
  <2>2. ~UNCHANGED vars
    BY <2>1 DEF vars
  <2>3. PICK q \in Slots : SaveWrite(q)
    BY <1>1, <2>1, <2>2, OthersKeepRoles, SurroundingsKeepRoles DEF Next, Continue
  <2>4. PICK r : r = requests[q]
    OBVIOUS
  <2>5. r.at = "write" /\ roles' = [roles EXCEPT ![r.subject] = r.wanted]
    BY <2>3, <2>4 DEF SaveWrite
  <2>6. roles \in [Users -> RoleId]
    BY <1>1 DEF IInv, PlainOK
  <2>7. r.subject = u /\ r.wanted = roles'[u]
    BY <1>1, <2>5, <2>6
  <2>8. GoodWith(r, r.moments, now)
    BY <1>1, <2>4, <2>5 DEF IInv, RequestsOK, GoodRequest, Idle
  <2>9. Guarded(r) /\ Bound(r)
    BY <2>5 DEF Guarded, Bound, Steps
  <2>10. r.op \in {"update", "updateOther", "assignRole"}
    BY <2>8, <2>9 DEF GoodWith, SubjectWith
  <2>11. r.op # "assignRole" => Had(r, u, roles'[u])
    BY <2>7, <2>8, <2>9, <2>10 DEF GoodWith, SubjectWith, HadIn, Had
  <2>12. r.op = "update" => r.user = u
    BY <2>7, <2>8 DEF GoodWith, SubjectWith
  <2>13. r.op # "update" => Reached(r, u)
    BY <2>7, <2>8, <2>9 DEF GoodWith, SubjectWith, ReachedIn, Held, Reached
  <2>. QED
    BY <2>4, <2>5, <2>7, <2>10, <2>11, <2>12, <2>13
<1>2. IInv /\ [Next]_vars =>
        [\A u \in Users : roles'[u] # roles[u] =>
           \E q \in Slots :
             LET r == requests[q]
             IN /\ r.at = "write" /\ r.subject = u
                /\ \/ r.op = "assignRole" /\ Reached(r, u)
                   \/ r.op = "updateOther" /\ Reached(r, u) /\ Had(r, u, roles'[u])
                   \/ r.op = "update" /\ r.user = u /\ Had(r, u, roles'[u])]_vars
  BY <1>1
<1>. QED
  BY <1>2, IInvHolds, PTL DEF Spec, RolesChangeRightly

-----------------------------------------------------------------------------
(* Who waits is answered *)

Awaiting(q) == requests[q].at \in {"get", "del"}
InPipe(q, i) == pipe[i].slot = q /\ pipe[i].do = requests[q].at
AwaitOK == \A q \in Slots : Awaiting(q) => \E i \in 1..Len(pipe) : InPipe(q, i)

LEMMA AwaitImplies == ASSUME IInv, AwaitOK  PROVE  WaitersAreAnswered
<1>1. DOMAIN pipe = 1..Len(pipe) /\ \A i \in 1..Len(pipe) : GoodCommand(i)
  BY LenProperties DEF IInv, PipeOK
<1>2. ASSUME NEW q \in Slots, Awaiting(q)
      PROVE  \E i \in DOMAIN pipe : /\ pipe[i].slot = q /\ pipe[i].user = requests[q].user
                                    /\ pipe[i].do = requests[q].at
  <2>1. PICK i \in 1..Len(pipe) : InPipe(q, i)
    BY <1>2 DEF AwaitOK
  <2>2. pipe[i].do # "set"
    BY <1>2, <2>1 DEF InPipe, Awaiting
  <2>3. pipe[i].user = requests[q].user
    BY <1>1, <2>1, <2>2 DEF InPipe, GoodCommand
  <2>. QED
    BY <1>1, <2>1, <2>3 DEF InPipe
<1>3. \A i \in DOMAIN pipe : pipe[i].do # "set" => requests[pipe[i].slot].at = pipe[i].do
  BY <1>1 DEF GoodCommand
<1>4. \A i, j \in DOMAIN pipe :
        pipe[i].do # "set" /\ pipe[j].do # "set" /\ i # j => pipe[i].slot # pipe[j].slot
  BY <1>1 DEF IInv, PipeOK
<1>. QED
  BY <1>2, <1>3, <1>4 DEF WaitersAreAnswered, Awaiting

(* Slot q comes to this step, and the others stay where they are. *)
Comes(q, at) ==
  requests'[q].at = at /\ \A p \in Slots : p # q => requests'[p].at = requests[p].at

HasPlace(r) == "at" \in DOMAIN r

LEMMA WitnessStays == ASSUME NEW r, HasPlace(r)  PROVE  Witness(r).at = r.at
<1>1. PICK M : M = r.moments \cup {Circumstances(r.user)}
  OBVIOUS
<1>2. CASE r = Idle
  BY <1>2 DEF Witness
<1>3. CASE r # Idle
  <2>1. Witness(r) = [r EXCEPT !.moments = M]
    BY <1>1, <1>3 DEF Witness
  <2>. QED
    BY <2>1 DEF HasPlace
<1>. QED
  BY <1>2, <1>3

LEMMA ServeComes ==
  ASSUME RequestsOK, NEW q \in Slots, NEW r, HasPlace(r), Serve(q, r)
  PROVE  Comes(q, r.at)
<1>1. requests' = [p \in Slots |-> Witness(IF p = q THEN r ELSE requests[p])]
  BY DEF Serve
<1>2. ASSUME NEW p \in Slots  PROVE  HasPlace(requests[p])
  <2>1. requests[p] \in Request \cup {Idle}
    BY DEF RequestsOK
  <2>. QED
    BY <2>1 DEF HasPlace, Request, Idle
<1>3. requests'[q].at = r.at
  BY <1>1, WitnessStays
<1>4. ASSUME NEW p \in Slots, p # q  PROVE  requests'[p].at = requests[p].at
  <2>1. requests'[p] = Witness(requests[p])
    BY <1>1, <1>4
  <2>. QED
    BY <1>2, <2>1, WitnessStays
<1>. QED
  BY <1>3, <1>4 DEF Comes

LEMMA IdleComes ==
  ASSUME RequestsOK, NEW q \in Slots, Finish(q)
  PROVE  Comes(q, "idle")
<1>1. HasPlace(Idle) /\ Idle.at = "idle"
  BY DEF HasPlace, Idle
<1>. QED
  BY <1>1, ServeComes DEF Finish

LEMMA HasPlaceIn == ASSUME NEW r \in Request  PROVE  HasPlace(r)
  BY DEF HasPlace, Request

(* What the actions of a handler do to the place of its request. *)
LEMMA BeginComes ==
  ASSUME RequestsOK, NEW q \in Slots, LoginFind(q) \/ Present(q)
  PROVE  UNCHANGED pipe /\ \E at \in Steps \ {"get", "del"} : Comes(q, at)
<1>1. ASSUME NEW op, NEW at \in {"sign", "ask"}, NEW u, NEW token, Serve(q, Start(op, at, u, token))
      PROVE  Comes(q, at)
  <2>1. HasPlace(Start(op, at, u, token)) /\ Start(op, at, u, token).at = at
    BY DEF HasPlace, Start
  <2>. QED
    BY <1>1, <2>1, ServeComes
<1>2. Comes(q, "sign") \/ Comes(q, "ask")
  BY <1>1 DEF LoginFind, Present
<1>3. UNCHANGED pipe
  BY DEF LoginFind, Present
<1>. QED
  BY <1>2, <1>3 DEF Steps

LEMMA LocalComes ==
  ASSUME RequestsOK, NEW q \in Slots, requests[q] \in Request,
         \/ Decide(q) \/ Query(q) \/ AnswerListing(q) \/ BindUser(q) \/ SaveSelect(q)
         \/ SaveWrite(q) \/ ReadRows(q) \/ WriteRows(q)
  PROVE  UNCHANGED pipe /\ \E at : at \notin {"get", "del"} /\ Comes(q, at)
<1>. PICK r \in Request : r = requests[q]
  OBVIOUS

<1>1. ASSUME NEW s, Serve(q, s), HasPlace(s), s.at \notin {"get", "del"}
      PROVE  \E at : at \notin {"get", "del"} /\ Comes(q, at)
  BY <1>1, ServeComes
<1>2. ASSUME Finish(q)
      PROVE  \E at : at \notin {"get", "del"} /\ Comes(q, at)
  BY <1>2, IdleComes
<1>3. CASE Decide(q)
  <2>1. UNCHANGED pipe /\ (Finish(q) \/ Serve(q, [r EXCEPT !.at = Entry(r.op)]))
    BY <1>3 DEF Decide
  <2>2. PICK at, s : at = Entry(r.op) /\ s = [r EXCEPT !.at = at]
    OBVIOUS
  <2>3. HasPlace(s) /\ s.at = at
    BY <2>2 DEF HasPlace, Request
  <2>4. at \notin {"get", "del"}
    BY <2>2 DEF Entry
  <2>. QED
    BY <1>1, <1>2, <2>1, <2>2, <2>3, <2>4
<1>4. CASE Query(q)
  <2>1. UNCHANGED pipe
    BY <1>4 DEF Query
  <2>2. \E Q, F : Serve(q, [r EXCEPT !.at = "listed", !.query = Q, !.found = F])
    BY <1>4 DEF Query
  <2>3. PICK Q, F, s : s = [r EXCEPT !.at = "listed", !.query = Q, !.found = F] /\ Serve(q, s)
    BY <2>2
  <2>4. HasPlace(s) /\ s.at = "listed"
    BY <2>3 DEF HasPlace, Request
  <2>. QED
    BY <1>1, <2>1, <2>3, <2>4
<1>5. CASE BindUser(q)
  <2>1. UNCHANGED pipe
    BY <1>5 DEF BindUser
  <2>2. Finish(q) \/ \E u, role : Serve(q, [r EXCEPT !.at = "select", !.subject = u, !.wanted = role])
    BY <1>5 DEF BindUser
  <2>3. ASSUME NEW u, NEW role, NEW s, s = [r EXCEPT !.at = "select", !.subject = u, !.wanted = role]
        PROVE  HasPlace(s) /\ s.at = "select"
    BY <2>3 DEF HasPlace, Request
  <2>. QED
    BY <1>1, <1>2, <2>1, <2>2, <2>3
<1>6. CASE SaveSelect(q)
  <2>1. UNCHANGED pipe /\ (Finish(q) \/ Serve(q, [r EXCEPT !.at = "write"]))
    BY <1>6 DEF SaveSelect
  <2>2. ASSUME NEW s, s = [r EXCEPT !.at = "write"]
        PROVE  HasPlace(s) /\ s.at = "write"
    BY <2>2 DEF HasPlace, Request
  <2>. QED
    BY <1>1, <1>2, <2>1, <2>2
<1>7. CASE ReadRows(q)
  <2>1. UNCHANGED pipe
    BY <1>7 DEF ReadRows
  <2>2. \E role, bundle, rows : Serve(q, [r EXCEPT !.at = "rows", !.wanted = role,
                                                   !.bundle = bundle, !.rows = rows])
    BY <1>7 DEF ReadRows
  <2>3. ASSUME NEW role, NEW bundle, NEW rows, NEW s,
               s = [r EXCEPT !.at = "rows", !.wanted = role, !.bundle = bundle, !.rows = rows]
        PROVE  HasPlace(s) /\ s.at = "rows"
    BY <2>3 DEF HasPlace, Request
  <2>. QED
    BY <1>1, <2>1, <2>2, <2>3
<1>8. CASE AnswerListing(q) \/ SaveWrite(q) \/ WriteRows(q)
  BY <1>2, <1>8 DEF AnswerListing, SaveWrite, WriteRows
<1>. QED
  BY <1>3, <1>4, <1>5, <1>6, <1>7, <1>8

LEMMA LocalAwaits ==
  ASSUME AwaitOK, NEW q \in Slots, NEW at, at \notin {"get", "del"}, Comes(q, at), UNCHANGED pipe
  PROVE  AwaitOK'
<1>1. ASSUME NEW p \in Slots, requests'[p].at \in {"get", "del"}
      PROVE  \E i \in 1..Len(pipe') : pipe'[i].slot = p /\ pipe'[i].do = requests'[p].at
  <2>1. requests'[p].at = requests[p].at
    BY <1>1 DEF Comes
  <2>2. PICK i \in 1..Len(pipe) : InPipe(p, i)
    BY <1>1, <2>1 DEF AwaitOK, Awaiting
  <2>. QED
    BY <2>1, <2>2 DEF InPipe
<1>. QED
  BY <1>1 DEF AwaitOK, Awaiting, InPipe

LEMMA SendAwaits ==
  ASSUME PipeOK, AwaitOK, NEW q \in Slots, NEW at, Comes(q, at),
         NEW c \in Command, pipe' = Append(pipe, c),
         at \in {"get", "del"} => c.slot = q /\ c.do = at
  PROVE  AwaitOK'
<1>1. /\ Len(pipe) \in Nat /\ Len(pipe') = Len(pipe) + 1 /\ pipe'[Len(pipe) + 1] = c
      /\ \A i \in 1..Len(pipe) : pipe'[i] = pipe[i]
  BY Appended
<1>2. ASSUME NEW p \in Slots, requests'[p].at \in {"get", "del"}
      PROVE  \E i \in 1..Len(pipe') : pipe'[i].slot = p /\ pipe'[i].do = requests'[p].at
  <2>1. CASE p = q
    <3>1. c.slot = p /\ c.do = requests'[p].at
      BY <1>2, <2>1 DEF Comes
    <3>2. Len(pipe) + 1 \in 1..Len(pipe')
      BY <1>1
    <3>. QED
      BY <1>1, <3>1, <3>2
  <2>2. CASE p # q
    <3>1. requests'[p].at = requests[p].at
      BY <2>2 DEF Comes
    <3>2. PICK i \in 1..Len(pipe) : InPipe(p, i)
      BY <1>2, <3>1 DEF AwaitOK, Awaiting
    <3>3. i \in 1..Len(pipe') /\ pipe'[i] = pipe[i]
      BY <1>1
    <3>. QED
      BY <3>1, <3>2, <3>3 DEF InPipe
  <2>. QED
    BY <2>1, <2>2
<1>. QED
  BY <1>2 DEF AwaitOK, Awaiting, InPipe

LEMMA ContinueAwaits ==
  ASSUME IInv, AwaitOK, NEW q \in Slots, Continue(q)
  PROVE  AwaitOK'
<1>1. RequestsOK /\ PipeOK
  BY DEF IInv
<1>2. requests[q].at \in Steps
  BY DEF Continue, LoginSign, Ask, Decide, Logout, Query, AnswerListing, BindUser, SaveSelect,
         SaveWrite, ReadRows, WriteRows, Steps
<1>3. PICK r \in Request : r = requests[q]
  BY <1>2, Serving
<1>4. r.user \in Users /\ r.role \in RoleId
  BY <1>3 DEF Request
<1>5. CASE LoginSign(q)
  <2>1. PICK token : token = [user |-> r.user, at |-> now, role |-> r.role]
    OBVIOUS
  <2>2. token \in Token
    BY <1>4, <2>1 DEF IInv, PlainOK, Token
  <2>3. Set(token) \in Command
    BY <2>2 DEF Set, Command, Token
  <2>4. pipe' = Append(pipe, Set(token)) /\ Finish(q)
    BY <1>3, <1>5, <2>1 DEF LoginSign, Send
  <2>5. Comes(q, "idle")
    BY <1>1, <2>4, IdleComes
  <2>. QED
    BY <1>1, <2>3, <2>4, <2>5, SendAwaits
<1>6. CASE Ask(q)
  <2>1. PICK s : s = [r EXCEPT !.at = "get"]
    OBVIOUS
  <2>2. pipe' = Append(pipe, Get(q, r.user)) /\ Serve(q, s)
    BY <1>3, <1>6, <2>1 DEF Ask, Send
  <2>3. HasPlace(s) /\ s.at = "get"
    BY <2>1 DEF HasPlace, Request
  <2>4. Comes(q, "get")
    BY <1>1, <2>2, <2>3, ServeComes
  <2>5. Get(q, r.user) \in Command /\ Get(q, r.user).slot = q /\ Get(q, r.user).do = "get"
    BY <1>4 DEF Get, Command
  <2>. QED
    BY <1>1, <2>2, <2>4, <2>5, SendAwaits
<1>7. CASE Logout(q)
  <2>1. PICK s : s = [r EXCEPT !.at = "del"]
    OBVIOUS
  <2>2. pipe' = Append(pipe, Del(q, r.user)) /\ Serve(q, s)
    BY <1>3, <1>7, <2>1 DEF Logout, Send
  <2>3. HasPlace(s) /\ s.at = "del"
    BY <2>1 DEF HasPlace, Request
  <2>4. Comes(q, "del")
    BY <1>1, <2>2, <2>3, ServeComes
  <2>5. Del(q, r.user) \in Command /\ Del(q, r.user).slot = q /\ Del(q, r.user).do = "del"
    BY <1>4 DEF Del, Command
  <2>. QED
    BY <1>1, <2>2, <2>4, <2>5, SendAwaits
<1>8. CASE \/ Decide(q) \/ Query(q) \/ AnswerListing(q) \/ BindUser(q) \/ SaveSelect(q)
           \/ SaveWrite(q) \/ ReadRows(q) \/ WriteRows(q)
  BY <1>1, <1>3, <1>8, LocalComes, LocalAwaits
<1>. QED
  BY <1>5, <1>6, <1>7, <1>8 DEF Continue

(* The others move up; the first one's waiter goes on. *)
LEMMA AnswerAwaits == ASSUME IInv, AwaitOK, Answer  PROVE  AwaitOK'
<1>. PICK c : c = Head(pipe)
  OBVIOUS
<1>1. pipe # <<>> /\ pipe \in Seq(Command) /\ pipe' = Tail(pipe)
  BY DEF Answer, IInv, PipeOK
<1>2. c = pipe[1]
  BY <1>1, HeadTailProperties
<1>3. /\ Len(pipe) \in Nat \ {0} /\ pipe' \in Seq(Command) /\ Len(pipe') = Len(pipe) - 1
      /\ \A i \in 1..Len(pipe') : pipe'[i] = pipe[i + 1]
  BY <1>1, HeadTailProperties, EmptySeq, LenProperties
<1>4. 1 \in 1..Len(pipe)
  BY <1>3
<1>5. c \in Command /\ c.do \in {"set", "del", "get"}
  <2>1. c \in Command
    BY <1>1, <1>2, <1>4, ElementOfSeq
  <2>. QED
    BY <2>1 DEF Command
<1>6. c.do # "set" => c.slot \in Slots /\ requests[c.slot].at = c.do
  BY <1>2, <1>4 DEF IInv, PipeOK, GoodCommand
<1>7. RequestsOK
  BY DEF IInv
<1>8. ASSUME NEW p \in Slots, requests'[p].at = requests[p].at, requests[p].at \in {"get", "del"},
             ~(c.do # "set" /\ c.slot = p)
      PROVE  \E i \in 1..Len(pipe') : pipe'[i].slot = p /\ pipe'[i].do = requests'[p].at
  <2>1. PICK i \in 1..Len(pipe) : InPipe(p, i)
    BY <1>8 DEF AwaitOK, Awaiting
  <2>2. i # 1
    BY <1>2, <1>8, <2>1 DEF InPipe
  <2>3. i - 1 \in 1..Len(pipe') /\ (i - 1) + 1 = i
    BY <1>3, <2>2
  <2>4. pipe'[i - 1] = pipe[i]
    BY <1>3, <2>3
  <2>. QED
    BY <1>8, <2>1, <2>3, <2>4 DEF InPipe
<1>9. CASE c.do = "set"
  <2>1. UNCHANGED requests
    BY <1>9 DEF Answer
  <2>2. ASSUME NEW p \in Slots, requests'[p].at \in {"get", "del"}
        PROVE  \E i \in 1..Len(pipe') : pipe'[i].slot = p /\ pipe'[i].do = requests'[p].at
    BY <1>8, <1>9, <2>1, <2>2
  <2>. QED
    BY <2>2 DEF AwaitOK, Awaiting, InPipe
<1>10. ASSUME NEW q \in Slots, NEW at, q = c.slot, c.do # "set", Comes(q, at), at \notin {"get", "del"}
       PROVE  AwaitOK'
  <2>1. ASSUME NEW p \in Slots, requests'[p].at \in {"get", "del"}
        PROVE  \E i \in 1..Len(pipe') : pipe'[i].slot = p /\ pipe'[i].do = requests'[p].at
    <3>1. p # q
      BY <1>10, <2>1 DEF Comes
    <3>2. requests'[p].at = requests[p].at
      BY <1>10, <3>1 DEF Comes
    <3>. QED
      BY <1>8, <1>10, <2>1, <3>1, <3>2
  <2>. QED
    BY <2>1 DEF AwaitOK, Awaiting, InPipe
<1>11. CASE c.do = "get"
  <2>1. PICK q \in Slots : q = c.slot
    BY <1>6, <1>11
  <2>2. requests[q].at \in Steps
    BY <1>6, <1>11, <2>1 DEF Steps
  <2>3. PICK r \in Request : r = requests[q]
    BY <2>2, Serving
  <2>4. PICK v, s : v = session[c.user].token /\ s = [r EXCEPT !.at = "read", !.value = v]
    OBVIOUS
  <2>5. Serve(q, s)
    BY <1>11, <2>1, <2>3, <2>4 DEF Answer
  <2>6. HasPlace(s) /\ s.at = "read"
    BY <2>4 DEF HasPlace, Request
  <2>7. Comes(q, "read")
    BY <1>7, <2>5, <2>6, ServeComes
  <2>. QED
    BY <1>10, <1>11, <2>1, <2>7
<1>12. CASE c.do = "del"
  <2>1. PICK q \in Slots : q = c.slot
    BY <1>6, <1>12
  <2>2. Finish(q)
    BY <1>12, <2>1 DEF Answer
  <2>3. Comes(q, "idle")
    BY <1>7, <2>2, IdleComes
  <2>. QED
    BY <1>10, <1>12, <2>1, <2>3
<1>. QED
  BY <1>5, <1>9, <1>11, <1>12

(* Whose command is lost is refused; the commands of the others are kept. *)
LEMMA DisconnectAwaits == ASSUME IInv, AwaitOK, Disconnect  PROVE  AwaitOK'
<1>1. PICK n \in 0..Len(pipe) :
        /\ pipe' = SubSeq(pipe, n + 1, Len(pipe))
        /\ requests' = [q \in Slots |->
             IF q \in {p \in Slots : requests[p].at = "read"}
                        \cup {pipe[i].slot : i \in {j \in 1..n : pipe[j].do # "set"}}
               THEN Idle ELSE WitnessLoss(requests[q])]
  BY DEF Disconnect
<1>2. Len(pipe) \in Nat /\ n \in Nat /\ pipe \in Seq(Command)
  BY LenProperties DEF IInv, PipeOK
<1>3. PICK a \in Int, b \in Int : a = n + 1 /\ b = Len(pipe)
  BY <1>2
<1>4. /\ Len(SubSeq(pipe, a, b)) = IF a <= b THEN b - a + 1 ELSE 0
      /\ \A i \in 1..(b - a + 1) : SubSeq(pipe, a, b)[i] = pipe[a + i - 1]
  <2>1. \A i \in a..b : pipe[i] \in Command
    BY <1>2, <1>3, ElementOfSeq
  <2>. QED
    BY <2>1, SubSeqProperties
<1>5. pipe' = SubSeq(pipe, a, b)
  BY <1>1, <1>3
<1>6. Len(pipe') = Len(pipe) - n
  BY <1>1, <1>2, <1>3, <1>4, <1>5
<1>7. ASSUME NEW p \in Slots, requests'[p].at \in {"get", "del"}
      PROVE  \E i \in 1..Len(pipe') : pipe'[i].slot = p /\ pipe'[i].do = requests'[p].at
  <2>1. p \notin {pipe[i].slot : i \in {j \in 1..n : pipe[j].do # "set"}}
    BY <1>1, <1>7 DEF Idle
  <2>2. requests'[p] = WitnessLoss(requests[p])
    BY <1>1, <1>7 DEF Idle
  <2>3. requests'[p].at = requests[p].at
    <3>1. CASE requests[p] = Idle
      BY <2>2, <3>1 DEF WitnessLoss
    <3>2. CASE requests[p] # Idle
      <4>1. PICK r \in Request : r = requests[p]
        BY <3>2 DEF IInv, RequestsOK
      <4>2. PICK M : M = r.moments \cup {Circumstances(r.user),
                           [Circumstances(r.user) EXCEPT !.owner = session[r.user].token]}
        OBVIOUS
      <4>3. requests'[p] = [r EXCEPT !.moments = M]
        BY <2>2, <3>2, <4>1, <4>2 DEF WitnessLoss
      <4>. QED
        BY <4>1, <4>3 DEF Request
    <3>. QED
      BY <3>1, <3>2
  <2>4. PICK i \in 1..Len(pipe) : InPipe(p, i)
    BY <1>7, <2>3 DEF AwaitOK, Awaiting
  <2>5. i \notin 1..n
    BY <1>7, <2>1, <2>3, <2>4 DEF InPipe
  <2>6. i - n \in 1..Len(pipe') /\ i - n \in 1..(b - a + 1) /\ a + (i - n) - 1 = i
    BY <1>2, <1>3, <1>6, <2>5
  <2>7. pipe'[i - n] = pipe[i]
    BY <1>4, <1>5, <2>6
  <2>. QED
    BY <2>3, <2>4, <2>6, <2>7 DEF InPipe
<1>. QED
  BY <1>7 DEF AwaitOK, Awaiting, InPipe

LEMMA NextAwaits == IInv /\ AwaitOK /\ [Next]_vars => AwaitOK'
<1>. SUFFICES ASSUME IInv, AwaitOK, [Next]_vars
              PROVE  AwaitOK'
  OBVIOUS
<1>1. ASSUME NEW q \in Slots, LoginFind(q) \/ Present(q)
      PROVE  AwaitOK'
  <2>1. UNCHANGED pipe /\ \E at \in Steps \ {"get", "del"} : Comes(q, at)
    BY <1>1, BeginComes DEF IInv
  <2>. QED
    BY <2>1, LocalAwaits
<1>2. CASE Tick
  BY <1>2 DEF Tick, AwaitOK, Awaiting, InPipe
<1>3. CASE Crash
  BY <1>3 DEF Crash, AwaitOK, Awaiting, Idle
<1>4. CASE UNCHANGED vars
  BY <1>4 DEF vars, AwaitOK, Awaiting, InPipe
<1>. QED
  BY <1>1, <1>2, <1>3, <1>4, ContinueAwaits, AnswerAwaits, DisconnectAwaits DEF Next

LEMMA InitAwaits == Init => AwaitOK
  BY DEF Init, AwaitOK, Awaiting, Idle

(* Nobody waits for ever and no answer goes astray: a request waits for redis   *)
(* exactly as long as its command is on the way, however connections break.     *)
THEOREM WaitersWillBeAnswered == Spec => []WaitersAreAnswered
<1>1. Spec => [](IInv /\ AwaitOK)
  BY InitKeeps, NextKeeps, InitAwaits, NextAwaits, PTL DEF Spec
<1>2. IInv /\ AwaitOK => WaitersAreAnswered
  BY AwaitImplies
<1>. QED
  BY <1>1, <1>2, PTL
=============================================================================
