--------------------------- MODULE ProfilesProofs ---------------------------
(***************************************************************************)
(* Proofs about Profiles, for any users, names, slots, workloads and       *)
(* bounds: its type correctness, that an avatar names an object that was   *)
(* copied before, that mails announce what was the case, and that none is  *)
(* sent a third time; as long as no two requests overlap, that avatars     *)
(* exist and that the last mail is still true; and that the queue keeps    *)
(* what MailDelivery promises of it.                                       *)
(***************************************************************************)
EXTENDS Profiles, TLAPS, SequenceTheorems, FiniteSetTheorems

-----------------------------------------------------------------------------
(* The inductive invariant, part by part *)

(* The object an avatar names was copied, and removed since or not at all. *)
Copied(name) == PathKey(name) \in objects \/ name \in removed
Synced(avatar) == avatar # None => Copied(avatar.name)

StoreOK ==
  /\ users \in [Users -> Row]
  /\ objects \subseteq AllKeys
  /\ removed \subseteq Names
  /\ \A u \in Users : Synced(users[u].avatar)

(* An entity names a copied object too; a request that deletes or copies has a  *)
(* name; and one that will announce a status has seen it by then.               *)
GoodWith(r, seen) ==
  /\ Synced(r.entity.avatar)
  /\ r.at \in {"sync", "tidy", "delete"} => r.name \in Names
  /\ r.at = "tidy" => Copied(r.name)
  /\ r.saves = 2 => r.entity.status = Announced(Notice(r.op))
  /\ r.at = "write" /\ "status" \notin r.changed => r.entity.status \in seen
  /\ r.at = "notify" => r.saves = 2 /\ r.entity.status \in seen
GoodRequest(r) == r # Idle => GoodWith(r, r.seen)

RequestsOK ==
  /\ requests \in [Slots -> Request \cup {Idle}]
  /\ \A q \in Slots : GoodRequest(requests[q])

(* A job was mailed at most once since it last began. *)
GoodJob(job) ==
  /\ job.stalls <= MaxStalls
  /\ job.mails <= 1 + job.stalls
  /\ job.state \in {"adding", "waiting", "active"} => job.mails <= job.stalls

JobsOK ==
  /\ jobs \in Seq(Job)
  /\ \A i \in JobIds : GoodJob(jobs[i])

WaitOK ==
  /\ wait \in Seq(JobIds)
  /\ InState("waiting") = {wait[i] : i \in DOMAIN wait}
  /\ \A i, j \in DOMAIN wait : wait[i] = wait[j] => i = j

BoundsOK == workload \in Workloads /\ crashes \in 0..workload.crashes

IInv == StoreOK /\ RequestsOK /\ JobsOK /\ WaitOK /\ BoundsOK

(* The invariant implies the three invariants of the runs. *)
LEMMA IInvImplies == IInv => TypeOK /\ AvatarWasSynced /\ MailedAtMostTwice
  BY DEF IInv, StoreOK, RequestsOK, JobsOK, WaitOK, BoundsOK, TypeOK, AvatarWasSynced,
         MailedAtMostTwice, Synced, Copied, GoodJob

-----------------------------------------------------------------------------
(* Rows and requests *)

LEMMA FromIsAvatar == ASSUME NEW avatar \in Avatar  PROVE  From(avatar) \in Avatar
<1>1. CASE avatar = None
  BY <1>1 DEF From, Avatar
<1>2. CASE avatar # None
  <2>1. avatar \in [name : Names, prefixes : Nat]
    BY <1>2 DEF Avatar
  <2>2. PICK n \in Names, k \in Nat : avatar = [name |-> n, prefixes |-> k]
    BY <2>1
  <2>3. From(avatar) = [name |-> n, prefixes |-> k + 1]
    BY <1>2, <2>2 DEF From
  <2>. QED
    BY <2>3 DEF Avatar
<1>. QED
  BY <1>1, <1>2

LEMMA FromIsSynced ==
  ASSUME NEW avatar \in Avatar, Synced(avatar)
  PROVE  Synced(From(avatar))
<1>1. CASE avatar = None
  BY <1>1 DEF From, Synced
<1>2. CASE avatar # None
  <2>1. avatar \in [name : Names, prefixes : Nat]
    BY <1>2 DEF Avatar
  <2>2. From(avatar).name = avatar.name
    BY <1>2, <2>1 DEF From
  <2>. QED
    BY <1>2, <2>2 DEF Synced
<1>. QED
  BY <1>1, <1>2

LEMMA LoadedIsRow ==
  ASSUME NEW row \in Row
  PROVE  /\ Loaded(row) \in Row
         /\ Loaded(row).status = row.status
         /\ Loaded(row).avatar = From(row.avatar)
<1>1. PICK s \in UserStatus, v \in Avatar : row = [status |-> s, avatar |-> v]
  BY DEF Row
<1>2. Loaded(row) = [status |-> s, avatar |-> From(v)]
  BY <1>1 DEF Loaded
<1>. QED
  BY <1>1, <1>2, FromIsAvatar DEF Row

(* A written row has each column from the entity or from the row. *)
LEMMA WrittenIsRow ==
  ASSUME NEW row \in Row, NEW entity \in Row, NEW changed \in SUBSET Columns
  PROVE  /\ Written(row, entity, changed) \in Row
         /\ Written(row, entity, changed).avatar \in {row.avatar, entity.avatar}
         /\ "status" \in changed => Written(row, entity, changed).status = entity.status
<1>. DEFINE w == Written(row, entity, changed)
<1>1. w = [c \in Columns |-> IF c \in changed THEN entity[c] ELSE row[c]]
  BY DEF Written
<1>2. w = [status |-> IF "status" \in changed THEN entity.status ELSE row.status,
           avatar |-> IF "avatar" \in changed THEN entity.avatar ELSE row.avatar]
  BY <1>1 DEF Columns
<1>3. entity.status \in UserStatus /\ row.status \in UserStatus
  BY DEF Row
<1>4. entity.avatar \in Avatar /\ row.avatar \in Avatar
  BY DEF Row
<1>. HIDE DEF w
<1>5. w.status \in UserStatus /\ w.avatar \in Avatar
  BY <1>2, <1>3, <1>4
<1>6. w \in Row
  BY <1>2, <1>5 DEF Row
<1>. QED
  BY <1>2, <1>6 DEF w

(* The request s is r, one step further. *)
Continues(s, r, at) ==
  s \in Request /\ s.at = at /\ s.op = r.op /\ s.name = r.name /\ s.user = r.user

LEMMA MovesOn ==
  ASSUME NEW r \in Request, NEW at \in Steps,
         NEW s, s = [r EXCEPT !.at = at]
  PROVE  /\ Continues(s, r, at)
         /\ s.entity = r.entity /\ s.changed = r.changed /\ s.saves = r.saves /\ s.seen = r.seen
<1>1. PICK op \in Ops, a0 \in Steps, u \in Users, n \in Names \cup {NoName}, e \in Row,
           c \in SUBSET Columns, k \in 1..2, v \in SUBSET UserStatus :
        r = [op |-> op, at |-> a0, user |-> u, name |-> n, entity |-> e, changed |-> c,
             saves |-> k, seen |-> v]
  BY DEF Request
<1>2. s = [op |-> op, at |-> at, user |-> u, name |-> n, entity |-> e, changed |-> c,
           saves |-> k, seen |-> v]
  BY <1>1
<1>3. s \in Request
  BY <1>2 DEF Request
<1>4. s.at = at /\ s.op = r.op /\ s.name = r.name /\ s.user = r.user
  BY <1>1, <1>2
<1>. QED
  BY <1>1, <1>2, <1>3, <1>4 DEF Continues

Compared(r, at, changed) == [r EXCEPT !.at = at, !.changed = changed]

LEMMA Compares ==
  ASSUME NEW r \in Request, NEW at \in Steps, NEW changed \in SUBSET Columns,
         NEW s, s = Compared(r, at, changed)
  PROVE  /\ Continues(s, r, at)
         /\ s.entity = r.entity /\ s.changed = changed /\ s.saves = r.saves /\ s.seen = r.seen
<1>1. PICK op \in Ops, a0 \in Steps, u \in Users, n \in Names \cup {NoName}, e \in Row,
           c \in SUBSET Columns, k \in 1..2, v \in SUBSET UserStatus :
        r = [op |-> op, at |-> a0, user |-> u, name |-> n, entity |-> e, changed |-> c,
             saves |-> k, seen |-> v]
  BY DEF Request
<1>2. s = [op |-> op, at |-> at, user |-> u, name |-> n, entity |-> e, changed |-> changed,
           saves |-> k, seen |-> v]
  BY <1>1 DEF Compared
<1>3. s \in Request
  BY <1>2 DEF Request
<1>4. s.at = at /\ s.op = r.op /\ s.name = r.name /\ s.user = r.user
  BY <1>1, <1>2
<1>. QED
  BY <1>1, <1>2, <1>3, <1>4 DEF Continues

Told(r, at) == [r EXCEPT !.at = at, !.saves = 1]

LEMMA Announces ==
  ASSUME NEW r \in Request, NEW at \in Steps,
         NEW s, s = Told(r, at)
  PROVE  /\ Continues(s, r, at)
         /\ s.entity = r.entity /\ s.changed = r.changed /\ s.saves = 1 /\ s.seen = r.seen
<1>1. PICK op \in Ops, a0 \in Steps, u \in Users, n \in Names \cup {NoName}, e \in Row,
           c \in SUBSET Columns, k \in 1..2, v \in SUBSET UserStatus :
        r = [op |-> op, at |-> a0, user |-> u, name |-> n, entity |-> e, changed |-> c,
             saves |-> k, seen |-> v]
  BY DEF Request
<1>2. s = [op |-> op, at |-> at, user |-> u, name |-> n, entity |-> e, changed |-> c,
           saves |-> 1, seen |-> v]
  BY <1>1 DEF Told
<1>3. s \in Request
  <2>1. 1 \in 1..2
    OBVIOUS
  <2>. QED
    BY <1>2, <2>1 DEF Request
<1>4. s.at = at /\ s.op = r.op /\ s.name = r.name /\ s.user = r.user
  BY <1>1, <1>2
<1>. QED
  BY <1>1, <1>2, <1>3, <1>4 DEF Continues

LEMMA Sees ==
  ASSUME NEW r \in Request, NEW seen \in SUBSET UserStatus,
         NEW s, s = [r EXCEPT !.seen = seen]
  PROVE  /\ Continues(s, r, r.at)
         /\ s.entity = r.entity /\ s.changed = r.changed /\ s.saves = r.saves /\ s.seen = seen
<1>1. PICK op \in Ops, a0 \in Steps, u \in Users, n \in Names \cup {NoName}, e \in Row,
           c \in SUBSET Columns, k \in 1..2, v \in SUBSET UserStatus :
        r = [op |-> op, at |-> a0, user |-> u, name |-> n, entity |-> e, changed |-> c,
             saves |-> k, seen |-> v]
  BY DEF Request
<1>2. s = [op |-> op, at |-> a0, user |-> u, name |-> n, entity |-> e, changed |-> c,
           saves |-> k, seen |-> seen]
  BY <1>1
<1>3. s \in Request
  BY <1>2 DEF Request
<1>4. s.at = r.at /\ s.op = r.op /\ s.name = r.name /\ s.user = r.user
  BY <1>1, <1>2
<1>. QED
  BY <1>1, <1>2, <1>3, <1>4 DEF Continues

Taken(r, at, entity) == [r EXCEPT !.at = at, !.entity = entity]

LEMMA TakesEntity ==
  ASSUME NEW r \in Request, NEW at \in Steps, NEW entity \in Row,
         NEW s, s = Taken(r, at, entity)
  PROVE  /\ Continues(s, r, at)
         /\ s.entity = entity /\ s.changed = r.changed /\ s.saves = r.saves /\ s.seen = r.seen
<1>1. PICK op \in Ops, a0 \in Steps, u \in Users, n \in Names \cup {NoName}, e \in Row,
           c \in SUBSET Columns, k \in 1..2, v \in SUBSET UserStatus :
        r = [op |-> op, at |-> a0, user |-> u, name |-> n, entity |-> e, changed |-> c,
             saves |-> k, seen |-> v]
  BY DEF Request
<1>2. s = [op |-> op, at |-> at, user |-> u, name |-> n, entity |-> entity, changed |-> c,
           saves |-> k, seen |-> v]
  BY <1>1 DEF Taken
<1>3. s \in Request
  BY <1>2 DEF Request
<1>4. s.at = at /\ s.op = r.op /\ s.name = r.name /\ s.user = r.user
  BY <1>1, <1>2
<1>. QED
  BY <1>1, <1>2, <1>3, <1>4 DEF Continues

LEMMA AvatarOfRow ==
  ASSUME NEW row \in Row, NEW avatar \in Avatar, NEW x, x = [row EXCEPT !.avatar = avatar]
  PROVE  x \in Row /\ x.status = row.status /\ x.avatar = avatar
<1>1. PICK st \in UserStatus, av \in Avatar : row = [status |-> st, avatar |-> av]
  BY DEF Row
<1>2. x = [status |-> st, avatar |-> avatar]
  BY <1>1
<1>. QED
  BY <1>1, <1>2 DEF Row

LEMMA StartIsRequest ==
  ASSUME NEW op \in Ops, NEW at \in Steps, NEW u \in Users, NEW n \in Names \cup {NoName},
         NEW e \in Row, users \in [Users -> Row]
  PROVE  LET s == Start(op, at, u, n, e)
         IN /\ s \in Request
            /\ s.at = at /\ s.op = op /\ s.name = n /\ s.entity = e /\ s.user = u
            /\ s.saves = (IF op \in {"activate", "suspend"} THEN 2 ELSE 1)
<1>1. users[u].status \in UserStatus
  BY DEF Row
<1>2. (IF op \in {"activate", "suspend"} THEN 2 ELSE 1) \in 1..2
  OBVIOUS
<1>3. {} \in SUBSET Columns
  OBVIOUS
<1>. QED
  BY <1>1, <1>2, <1>3 DEF Start, Request
-----------------------------------------------------------------------------
(* What steps leave alone *)

(* What was copied stays, or is removed. *)
StoreGrows == \A n : Copied(n) => Copied(n)'

LEMMA GoodStays ==
  ASSUME StoreGrows, NEW r, NEW S, NEW T, S \subseteq T, GoodWith(r, S)
  PROVE  (GoodWith(r, T))'
<1>1. Synced(r.entity.avatar)'
  BY DEF GoodWith, Synced, StoreGrows
<1>2. r.at = "tidy" => Copied(r.name)'
  BY DEF GoodWith, StoreGrows
<1>. QED
  BY <1>1, <1>2 DEF GoodWith

(* Serving a request that is good with what its user's status is now. *)
LEMMA ServeKeepsRequests ==
  ASSUME RequestsOK, StoreGrows, users' \in [Users -> Row], NEW q \in Slots,
         NEW r \in Request \cup {Idle}, Serve(q, r),
         NEW status, r # Idle => status = users'[r.user].status,
         r # Idle => (GoodWith(r, r.seen \cup {status}))'
  PROVE  RequestsOK'
<1>1. ASSUME NEW p \in Slots
      PROVE  requests'[p] \in Request \cup {Idle} /\ (GoodRequest(requests[p]))'
  <2>1. requests[p] \in Request \cup {Idle} /\ GoodRequest(requests[p])
    BY DEF RequestsOK
  <2>2. PICK t \in Request \cup {Idle} : t = IF p = q THEN r ELSE requests[p]
    BY <2>1
  <2>3. requests'[p] = Witness(t)
    BY <2>2 DEF Serve
  <2>4. CASE t = Idle
    <3>1. requests'[p] = Idle
      BY <2>3, <2>4 DEF Witness
    <3>. QED
      BY <3>1 DEF GoodRequest
  <2>5. CASE t # Idle
    <3>1. t \in Request
      BY <2>5
    <3>2. t.user \in Users /\ t.seen \in SUBSET UserStatus
      BY <3>1 DEF Request
    <3>3. PICK st \in UserStatus : st = users'[t.user].status
      BY <3>2 DEF Row
    <3>4. PICK w : w = [t EXCEPT !.seen = t.seen \cup {st}]
      OBVIOUS
    <3>5. requests'[p] = w
      BY <2>3, <2>5, <3>3, <3>4 DEF Witness
    <3>6. t.seen \cup {st} \in SUBSET UserStatus
      BY <3>2, <3>3
    <3>7. /\ Continues(w, t, t.at) /\ w.entity = t.entity
          /\ w.changed = t.changed /\ w.saves = t.saves /\ w.seen = t.seen \cup {st}
      BY <3>1, <3>4, <3>6, Sees
    <3>8. (GoodWith(t, t.seen \cup {st}))'
      <4>1. CASE p = q
        <5>1. t = r /\ st = status
          BY <2>2, <2>5, <3>3, <4>1
        <5>. QED
          BY <2>5, <5>1
      <4>2. CASE p # q
        <5>1. GoodWith(t, t.seen)
          BY <2>1, <2>2, <2>5, <4>2 DEF GoodRequest
        <5>. QED
          BY <5>1, GoodStays
      <4>. QED
        BY <4>1, <4>2
    <3>9. (GoodWith(w, w.seen))'
      BY <3>7, <3>8 DEF GoodWith, Continues
    <3>. QED
      BY <3>5, <3>7, <3>9 DEF GoodRequest, Continues
  <2>. QED
    BY <2>4, <2>5
<1>2. requests' = [p \in Slots |-> requests'[p]]
  BY DEF Serve
<1>3. requests' \in [Slots -> Request \cup {Idle}]
  BY <1>1, <1>2
<1>. QED
  BY <1>1, <1>3 DEF RequestsOK

LEMMA FinishKeepsRequests ==
  ASSUME RequestsOK, StoreGrows, users' \in [Users -> Row], NEW q \in Slots, Finish(q)
  PROVE  RequestsOK'
<1>1. Serve(q, Idle)
  BY DEF Finish
<1>2. Idle \in Request \cup {Idle}
  OBVIOUS
<1>. QED
  BY <1>1, <1>2, ServeKeepsRequests

LEMMA RequestsStay ==
  ASSUME RequestsOK, StoreGrows, UNCHANGED requests
  PROVE  RequestsOK'
<1>1. ASSUME NEW p \in Slots
      PROVE  (GoodRequest(requests[p]))'
  <2>1. PICK r : r = requests[p]
    OBVIOUS
  <2>2. GoodRequest(r)
    BY <2>1 DEF RequestsOK
  <2>3. (GoodRequest(r))'
    BY <2>2, GoodStays DEF GoodRequest
  <2>. QED
    BY <2>1, <2>3
<1>. QED
  BY <1>1 DEF RequestsOK

LEMMA StoreStays ==
  ASSUME StoreOK, UNCHANGED <<users, objects, removed>>
  PROVE  StoreOK' /\ StoreGrows /\ users' \in [Users -> Row]
  BY DEF StoreOK, StoreGrows, Synced, Copied

LEMMA QueueStays ==
  ASSUME JobsOK, WaitOK, BoundsOK, UNCHANGED <<jobs, wait, workload, crashes>>
  PROVE  JobsOK' /\ WaitOK' /\ BoundsOK'
  BY DEF JobsOK, WaitOK, BoundsOK, JobIds, InState

(* More objects, and more names that were removed. *)
LEMMA StoreChanges ==
  ASSUME StoreOK, UNCHANGED users, objects' \subseteq AllKeys, removed' \subseteq Names,
         StoreGrows
  PROVE  StoreOK' /\ users' \in [Users -> Row]
<1>1. ASSUME NEW u \in Users
      PROVE  Synced(users[u].avatar)'
  BY DEF StoreOK, Synced, StoreGrows
<1>. QED
  BY <1>1 DEF StoreOK
-----------------------------------------------------------------------------
(* Requests that begin *)

LEMMA StartKeeps ==
  ASSUME IInv, NEW q \in Slots, NEW op \in Ops, NEW at \in {"sync", "delete", "select"},
         NEW u \in Users, NEW n \in Names \cup {NoName}, NEW e \in Row,
         Synced(e.avatar), at \in {"sync", "delete"} => n \in Names,
         op \in {"activate", "suspend"} => e.status = Announced(Notice(op)),
         Serve(q, Start(op, at, u, n, e)),
         UNCHANGED <<users, objects, removed, jobs, wait, workload, crashes>>
  PROVE  IInv'
<1>1. StoreOK' /\ StoreGrows /\ users' \in [Users -> Row]
  BY StoreStays DEF IInv
<1>2. JobsOK' /\ WaitOK' /\ BoundsOK'
  BY QueueStays DEF IInv
<1>3. PICK r : r = Start(op, at, u, n, e)
  OBVIOUS
<1>4. at \in Steps
  BY DEF Steps
<1>5. users \in [Users -> Row]
  BY DEF IInv, StoreOK
<1>6. /\ r \in Request
      /\ r.at = at /\ r.op = op /\ r.name = n /\ r.entity = e /\ r.user = u
      /\ r.saves = (IF op \in {"activate", "suspend"} THEN 2 ELSE 1)
  BY <1>3, <1>4, <1>5, StartIsRequest
<1>7. PICK st : st = users'[r.user].status
  OBVIOUS
<1>8. Synced(e.avatar)'
  BY <1>1 DEF Synced, StoreGrows
<1>9. (GoodWith(r, r.seen \cup {st}))'
  BY <1>6, <1>8 DEF GoodWith
<1>10. Serve(q, r)
  BY <1>3
<1>11. RequestsOK'
  BY <1>1, <1>6, <1>7, <1>9, <1>10, ServeKeepsRequests DEF IInv
<1>. QED
  BY <1>1, <1>2, <1>11 DEF IInv

LEMMA RowFacts ==
  ASSUME IInv, NEW u \in Users
  PROVE  /\ users[u] \in Row
         /\ Synced(users[u].avatar)
         /\ Loaded(users[u]) \in Row
         /\ Loaded(users[u]).status = users[u].status
         /\ Synced(Loaded(users[u]).avatar)
         /\ workload.names[u] \subseteq Names
<1>1. users[u] \in Row /\ Synced(users[u].avatar)
  BY DEF IInv, StoreOK
<1>2. users[u].avatar \in Avatar
  BY <1>1 DEF Row
<1>3. Synced(From(users[u].avatar))
  BY <1>1, <1>2, FromIsSynced
<1>4. workload.names[u] \subseteq Names
  BY WorkloadsAssumption DEF IInv, BoundsOK
<1>. QED
  BY <1>1, <1>3, <1>4, LoadedIsRow

LEMMA UpdateAvatarKeeps == ASSUME IInv, NEW q \in Slots, UpdateAvatar(q)  PROVE  IInv'
<1>1. PICK u \in Users : \E n \in workload.names[u] :
        Serve(q, Start("avatar", "sync", u, n, Loaded(users[u])))
  BY DEF UpdateAvatar
<1>2. PICK n \in Names : Serve(q, Start("avatar", "sync", u, n, Loaded(users[u])))
  BY <1>1, RowFacts
<1>3. Loaded(users[u]) \in Row /\ Synced(Loaded(users[u]).avatar)
  BY RowFacts
<1>4. UNCHANGED <<users, objects, removed, jobs, wait, workload, crashes>>
  BY DEF UpdateAvatar
<1>5. "avatar" \in Ops /\ "avatar" \notin {"activate", "suspend"}
  BY DEF Ops
<1>. QED
  BY <1>2, <1>3, <1>4, <1>5, StartKeeps

LEMMA UpdateKeeps == ASSUME IInv, NEW q \in Slots, Update(q)  PROVE  IInv'
<1>1. PICK u \in Users : \E avatar \in {Loaded(users[u]).avatar, None} :
        Serve(q, Start("update", "select", u, NoName, [users[u] EXCEPT !.avatar = avatar]))
  BY DEF Update
<1>2. PICK avatar \in {Loaded(users[u]).avatar, None} :
        Serve(q, Start("update", "select", u, NoName, [users[u] EXCEPT !.avatar = avatar]))
  BY <1>1
<1>3. Loaded(users[u]) \in Row /\ Synced(Loaded(users[u]).avatar) /\ users[u] \in Row
  BY RowFacts
<1>4. avatar \in Avatar /\ Synced(avatar)
  BY <1>3 DEF Row, Avatar, Synced
<1>5. PICK e : e = [users[u] EXCEPT !.avatar = avatar]
  OBVIOUS
<1>6. e \in Row /\ e.avatar = avatar
  <2>1. PICK row \in Row : row = users[u]
    BY <1>3
  <2>2. e = [row EXCEPT !.avatar = avatar]
    BY <1>5, <2>1
  <2>. QED
    BY <1>4, <2>2, AvatarOfRow
<1>7. Serve(q, Start("update", "select", u, NoName, e))
  BY <1>2, <1>5
<1>8. UNCHANGED <<users, objects, removed, jobs, wait, workload, crashes>>
  BY DEF Update
<1>9. "update" \in Ops /\ "update" \notin {"activate", "suspend"}
  BY DEF Ops
<1>. QED
  BY <1>4, <1>6, <1>7, <1>8, <1>9, StartKeeps

LEMMA RemoveAvatarKeeps == ASSUME IInv, NEW q \in Slots, RemoveAvatar(q)  PROVE  IInv'
<1>1. PICK u \in Users :
        /\ users[u].avatar # None
        /\ Serve(q, Start("remove", "delete", u, users[u].avatar.name, Loaded(users[u])))
  BY DEF RemoveAvatar
<1>2. Loaded(users[u]) \in Row /\ Synced(Loaded(users[u]).avatar) /\ users[u] \in Row
  BY RowFacts
<1>3. users[u].avatar.name \in Names
  <2>1. users[u].avatar \in [name : Names, prefixes : Nat]
    BY <1>1, <1>2 DEF Row, Avatar
  <2>. QED
    BY <2>1
<1>4. UNCHANGED <<users, objects, removed, jobs, wait, workload, crashes>>
  BY DEF RemoveAvatar
<1>5. "remove" \in Ops /\ "remove" \notin {"activate", "suspend"}
  BY DEF Ops
<1>. QED
  BY <1>1, <1>2, <1>3, <1>4, <1>5, StartKeeps

LEMMA ChangeStatusKeeps == ASSUME IInv, NEW q \in Slots, ChangeStatus(q)  PROVE  IInv'
<1>1. PICK u \in Users, op \in {"activate", "suspend"} : \E t, e :
        /\ t = IF op = "activate" THEN "activation" ELSE "suspension"
        /\ e = [Loaded(users[u]) EXCEPT !.status = UserGraph[t].to]
        /\ Serve(q, Start(op, "select", u, NoName, e))
  BY DEF ChangeStatus
<1>. PICK t, e :
        /\ t = IF op = "activate" THEN "activation" ELSE "suspension"
        /\ e = [Loaded(users[u]) EXCEPT !.status = UserGraph[t].to]
        /\ Serve(q, Start(op, "select", u, NoName, e))
  BY <1>1
<1>2. Loaded(users[u]) \in Row /\ Synced(Loaded(users[u]).avatar)
  BY RowFacts
<1>3. UserGraph[t].to \in UserStatus /\ UserGraph[t].to = Announced(Notice(op))
  BY DEF UserGraph, UserStatus, Announced, Notice
<1>4. PICK s \in UserStatus, v \in Avatar : Loaded(users[u]) = [status |-> s, avatar |-> v]
  BY <1>2 DEF Row
<1>5. e = [status |-> UserGraph[t].to, avatar |-> v]
  BY <1>4
<1>6. e \in Row /\ e.avatar = Loaded(users[u]).avatar /\ e.status = Announced(Notice(op))
  BY <1>3, <1>4, <1>5 DEF Row
<1>7. UNCHANGED <<users, objects, removed, jobs, wait, workload, crashes>>
  BY DEF ChangeStatus
<1>8. op \in Ops
  BY DEF Ops
<1>. QED
  BY <1>2, <1>6, <1>7, <1>8, StartKeeps
-----------------------------------------------------------------------------
(* Requests that go on *)

LEMMA InSlot ==
  ASSUME IInv, NEW q \in Slots, requests[q].at \in Steps
  PROVE  /\ requests[q] \in Request /\ requests[q] # Idle
         /\ GoodWith(requests[q], requests[q].seen)
         /\ requests[q].user \in Users /\ requests[q].entity \in Row
         /\ requests[q].entity.avatar \in Avatar
<1>1. requests[q] # Idle
  BY DEF Idle, Steps
<1>2. requests[q] \in Request /\ GoodWith(requests[q], requests[q].seen)
  BY <1>1 DEF IInv, RequestsOK, GoodRequest
<1>3. requests[q].user \in Users /\ requests[q].entity \in Row
  BY <1>2 DEF Request
<1>. QED
  BY <1>1, <1>2, <1>3 DEF Row

LEMMA SyncKeeps == ASSUME IInv, NEW q \in Slots, Sync(q)  PROVE  IInv'
<1>. PICK r : r = requests[q]
  OBVIOUS
<1>1. /\ r.at = "sync"
      /\ UNCHANGED <<users, removed, jobs, wait, workload, crashes>>
      /\ \/ Copy(r.name) /\ Serve(q, [r EXCEPT !.at = "tidy"])
         \/ UNCHANGED objects /\ Finish(q)
  BY DEF Sync
<1>2. r \in Request /\ r # Idle /\ GoodWith(r, r.seen)
  BY <1>1, InSlot DEF Steps
<1>3. JobsOK' /\ WaitOK' /\ BoundsOK'
  BY <1>1, QueueStays DEF IInv
<1>4. CASE Copy(r.name) /\ Serve(q, [r EXCEPT !.at = "tidy"])
  <2>1. r.name \in Names
    BY <1>1, <1>2 DEF GoodWith
  <2>2. objects' = objects \cup {PathKey(r.name)}
    BY <1>4 DEF Copy
  <2>3. StoreGrows
    BY <1>1, <2>2 DEF StoreGrows, Copied
  <2>4. objects' \subseteq AllKeys /\ removed' \subseteq Names
    BY <1>1, <2>1, <2>2 DEF IInv, StoreOK, AllKeys
  <2>5. StoreOK' /\ users' \in [Users -> Row]
    BY <1>1, <2>3, <2>4, StoreChanges DEF IInv
  <2>6. PICK s, st : s = [r EXCEPT !.at = "tidy"] /\ st = users'[s.user].status
    OBVIOUS
  <2>7. "tidy" \in Steps
    BY DEF Steps
  <2>8. /\ Continues(s, r, "tidy")
        /\ s.entity = r.entity /\ s.changed = r.changed /\ s.saves = r.saves /\ s.seen = r.seen
    BY <1>2, <2>6, <2>7, MovesOn
  <2>9. Copied(r.name)' /\ Synced(r.entity.avatar)'
    BY <1>2, <2>2, <2>3 DEF Copied, GoodWith, Synced, StoreGrows
  <2>10. (GoodWith(s, s.seen \cup {st}))'
    BY <1>2, <2>1, <2>8, <2>9 DEF GoodWith, Continues
  <2>11. RequestsOK'
    BY <1>4, <2>3, <2>5, <2>6, <2>8, <2>10, ServeKeepsRequests DEF IInv, Continues
  <2>. QED
    BY <1>3, <2>5, <2>11 DEF IInv
<1>5. CASE UNCHANGED objects /\ Finish(q)
  <2>1. StoreOK' /\ StoreGrows /\ users' \in [Users -> Row]
    BY <1>1, <1>5, StoreStays DEF IInv
  <2>2. RequestsOK'
    BY <1>5, <2>1, FinishKeepsRequests DEF IInv
  <2>. QED
    BY <1>3, <2>1, <2>2 DEF IInv
<1>. QED
  BY <1>1, <1>4, <1>5

(* deleteFile with isTemp deletes nothing an avatar could name. *)
LEMMA TidyKeeps == ASSUME IInv, NEW q \in Slots, Tidy(q)  PROVE  IInv'
<1>. PICK r : r = requests[q]
  OBVIOUS
<1>. PICK x : x = [name |-> r.name, prefixes |-> 0]
  OBVIOUS
<1>1. /\ r.at = "tidy"
      /\ deleteFile(r.name, TRUE)
      /\ UNCHANGED <<users, removed, jobs, wait, workload, crashes>>
      /\ Serve(q, [r EXCEPT !.at = "select", !.entity.avatar = x])
  BY DEF Tidy
<1>2. r \in Request /\ r # Idle /\ GoodWith(r, r.seen) /\ r.entity \in Row
  BY <1>1, InSlot DEF Steps
<1>3. JobsOK' /\ WaitOK' /\ BoundsOK'
  BY <1>1, QueueStays DEF IInv
<1>4. objects' \subseteq objects /\ \A n : PathKey(n) \in objects => PathKey(n) \in objects'
  <2>1. \A n : PathKey(n) # TempFolder
    BY DEF PathKey, TempFolder
  <2>. QED
    BY <1>1, <2>1 DEF deleteFile, DeleteKey
<1>5. StoreGrows
  BY <1>1, <1>4 DEF StoreGrows, Copied
<1>6. StoreOK' /\ users' \in [Users -> Row]
  <2>1. objects' \subseteq AllKeys /\ removed' \subseteq Names
    BY <1>1, <1>4 DEF IInv, StoreOK
  <2>. QED
    BY <1>1, <1>5, <2>1, StoreChanges DEF IInv
<1>7. x \in Avatar /\ x.name = r.name
  <2>1. r.name \in Names /\ 0 \in Nat
    BY <1>1, <1>2 DEF GoodWith
  <2>. QED
    BY <2>1 DEF Avatar
<1>8. Copied(r.name)'
  BY <1>1, <1>2, <1>5 DEF GoodWith, StoreGrows
<1>9. PICK e : e = [r.entity EXCEPT !.avatar = x]
  OBVIOUS
<1>10. e \in Row /\ e.status = r.entity.status /\ e.avatar = x
  BY <1>2, <1>7, <1>9, AvatarOfRow
<1>11. PICK s, st : s = Taken(r, "select", e) /\ st = users'[s.user].status
  OBVIOUS
<1>12. "select" \in Steps
  BY DEF Steps
<1>13. /\ Continues(s, r, "select")
       /\ s.entity = e /\ s.changed = r.changed /\ s.saves = r.saves /\ s.seen = r.seen
  BY <1>2, <1>10, <1>11, <1>12, TakesEntity
<1>14. Serve(q, s)
  BY <1>1, <1>9, <1>11 DEF Taken
<1>15. (GoodWith(s, s.seen \cup {st}))'
  <2>1. Synced(x)'
    BY <1>7, <1>8 DEF Synced
  <2>2. s.saves = 2 => s.entity.status = Announced(Notice(s.op))
    BY <1>2, <1>10, <1>13 DEF GoodWith, Continues
  <2>3. s.at = "select" /\ s.entity.avatar = x
    BY <1>10, <1>13 DEF Continues
  <2>. QED
    BY <2>1, <2>2, <2>3 DEF GoodWith
<1>16. RequestsOK'
  BY <1>5, <1>6, <1>11, <1>13, <1>14, <1>15, ServeKeepsRequests DEF IInv, Continues
<1>. QED
  BY <1>3, <1>6, <1>16 DEF IInv

(* What deleteFile deletes for a removal, counts as removed. *)
LEMMA DeleteKeeps == ASSUME IInv, NEW q \in Slots, Delete(q)  PROVE  IInv'
<1>. PICK r : r = requests[q]
  OBVIOUS
<1>1. /\ r.at = "delete"
      /\ deleteFile(r.name, FALSE)
      /\ removed' = removed \cup {r.name}
      /\ UNCHANGED <<users, jobs, wait, workload, crashes>>
      /\ Serve(q, [r EXCEPT !.at = "select", !.entity.avatar = None])
  BY DEF Delete
<1>2. r \in Request /\ r # Idle /\ GoodWith(r, r.seen) /\ r.entity \in Row
  BY <1>1, InSlot DEF Steps
<1>3. JobsOK' /\ WaitOK' /\ BoundsOK'
  BY <1>1, QueueStays DEF IInv
<1>4. objects \ {PathKey(r.name)} \subseteq objects' /\ objects' \subseteq objects
  BY <1>1 DEF deleteFile, DeleteKey
<1>5. StoreGrows
  <2>1. ASSUME NEW n, Copied(n)
        PROVE  Copied(n)'
    <3>1. CASE n = r.name
      BY <1>1, <3>1 DEF Copied
    <3>2. CASE n # r.name
      <4>1. PathKey(n) # PathKey(r.name)
        BY <3>2 DEF PathKey
      <4>. QED
        BY <1>1, <1>4, <2>1, <4>1 DEF Copied
    <3>. QED
      BY <3>1, <3>2
  <2>. QED
    BY <2>1 DEF StoreGrows
<1>6. StoreOK' /\ users' \in [Users -> Row]
  <2>1. r.name \in Names
    BY <1>1, <1>2 DEF GoodWith
  <2>2. objects' \subseteq AllKeys /\ removed' \subseteq Names
    BY <1>1, <1>4, <2>1 DEF IInv, StoreOK
  <2>. QED
    BY <1>1, <1>5, <2>2, StoreChanges DEF IInv
<1>7. PICK e : e = [r.entity EXCEPT !.avatar = None]
  OBVIOUS
<1>8. None \in Avatar
  BY DEF Avatar
<1>9. e \in Row /\ e.status = r.entity.status /\ e.avatar = None
  BY <1>2, <1>7, <1>8, AvatarOfRow
<1>10. PICK s, st : s = Taken(r, "select", e) /\ st = users'[s.user].status
  OBVIOUS
<1>11. "select" \in Steps
  BY DEF Steps
<1>12. /\ Continues(s, r, "select")
       /\ s.entity = e /\ s.changed = r.changed /\ s.saves = r.saves /\ s.seen = r.seen
  BY <1>2, <1>9, <1>10, <1>11, TakesEntity
<1>13. Serve(q, s)
  BY <1>1, <1>7, <1>10 DEF Taken
<1>14. (GoodWith(s, s.seen \cup {st}))'
  <2>1. Synced(None)'
    BY DEF Synced
  <2>2. s.saves = 2 => s.entity.status = Announced(Notice(s.op))
    BY <1>2, <1>9, <1>12 DEF GoodWith, Continues
  <2>3. s.at = "select" /\ s.entity.avatar = None
    BY <1>9, <1>12 DEF Continues
  <2>. QED
    BY <2>1, <2>2, <2>3 DEF GoodWith
<1>15. RequestsOK'
  BY <1>5, <1>6, <1>10, <1>12, <1>13, <1>14, ServeKeepsRequests DEF IInv, Continues
<1>. QED
  BY <1>3, <1>6, <1>15 DEF IInv

LEMMA SaveSelectKeeps == ASSUME IInv, NEW q \in Slots, SaveSelect(q)  PROVE  IInv'
<1>. PICK r : r = requests[q]
  OBVIOUS
<1>. PICK c : c = Changed(r.entity, users[r.user])
  OBVIOUS
<1>1. /\ r.at = "select"
      /\ UNCHANGED <<users, objects, removed, jobs, wait, workload, crashes>>
      /\ Serve(q, [r EXCEPT !.at = "write", !.changed = c])
  BY DEF SaveSelect
<1>2. r \in Request /\ r # Idle /\ GoodWith(r, r.seen) /\ r.entity \in Row /\ r.user \in Users
  BY <1>1, InSlot DEF Steps
<1>3. JobsOK' /\ WaitOK' /\ BoundsOK'
  BY <1>1, QueueStays DEF IInv
<1>4. StoreOK' /\ StoreGrows /\ users' \in [Users -> Row]
  BY <1>1, StoreStays DEF IInv
<1>5. c \in SUBSET Columns
  BY DEF Changed
<1>6. "status" \notin c => r.entity.status = users[r.user].status
  <2>1. "status" \notin c => r.entity["status"] = Loaded(users[r.user])["status"]
    BY DEF Changed, Columns
  <2>2. Loaded(users[r.user]).status = users[r.user].status
    BY <1>2, RowFacts
  <2>. QED
    BY <2>1, <2>2
<1>7. PICK s, st : s = Compared(r, "write", c) /\ st = users'[s.user].status
  OBVIOUS
<1>8. "write" \in Steps
  BY DEF Steps
<1>9. /\ Continues(s, r, "write")
      /\ s.entity = r.entity /\ s.changed = c /\ s.saves = r.saves /\ s.seen = r.seen
  BY <1>2, <1>5, <1>7, <1>8, Compares
<1>10. Serve(q, s)
  BY <1>1, <1>7 DEF Compared
<1>11. (GoodWith(s, s.seen \cup {st}))'
  <2>1. Synced(s.entity.avatar)'
    BY <1>2, <1>4, <1>9 DEF GoodWith, Synced, StoreGrows
  <2>2. s.saves = 2 => s.entity.status = Announced(Notice(s.op))
    BY <1>2, <1>9 DEF GoodWith, Continues
  <2>3. "status" \notin s.changed => s.entity.status = st
    BY <1>1, <1>6, <1>7, <1>9 DEF Continues
  <2>4. s.at = "write"
    BY <1>9 DEF Continues
  <2>. QED
    BY <2>1, <2>2, <2>3, <2>4 DEF GoodWith
<1>12. RequestsOK'
  BY <1>4, <1>7, <1>9, <1>10, <1>11, ServeKeepsRequests DEF IInv, Continues
<1>. QED
  BY <1>3, <1>4, <1>12 DEF IInv

LEMMA SaveWriteKeeps == ASSUME IInv, NEW q \in Slots, SaveWrite(q)  PROVE  IInv'
<1>. PICK r : r = requests[q]
  OBVIOUS
<1>1. /\ r.at = "write"
      /\ UNCHANGED <<objects, removed, jobs, wait, workload, crashes>>
      /\ \/ /\ users' = [users EXCEPT ![r.user] = Written(users[r.user], r.entity, r.changed)]
            /\ IF r.saves = 2 THEN Serve(q, [r EXCEPT !.at = "notify"]) ELSE Finish(q)
         \/ UNCHANGED users /\ Finish(q)
  BY DEF SaveWrite
<1>2. r \in Request /\ r # Idle /\ GoodWith(r, r.seen) /\ r.entity \in Row /\ r.user \in Users
  BY <1>1, InSlot DEF Steps
<1>3. JobsOK' /\ WaitOK' /\ BoundsOK'
  BY <1>1, QueueStays DEF IInv
<1>4. StoreGrows
  BY <1>1 DEF StoreGrows, Copied
<1>5. CASE /\ users' = [users EXCEPT ![r.user] = Written(users[r.user], r.entity, r.changed)]
           /\ IF r.saves = 2 THEN Serve(q, [r EXCEPT !.at = "notify"]) ELSE Finish(q)
  <2>1. PICK w : w = Written(users[r.user], r.entity, r.changed)
    OBVIOUS
  <2>2. users \in [Users -> Row] /\ users[r.user] \in Row /\ Synced(users[r.user].avatar)
    BY <1>2 DEF IInv, StoreOK
  <2>3. r.changed \in SUBSET Columns
    BY <1>2 DEF Request
  <2>4. w \in Row /\ w.avatar \in {users[r.user].avatar, r.entity.avatar}
        /\ ("status" \in r.changed => w.status = r.entity.status)
    BY <1>2, <2>1, <2>2, <2>3, WrittenIsRow
  <2>5. users' = [users EXCEPT ![r.user] = w]
    BY <1>5, <2>1
  <2>6. users' \in [Users -> Row] /\ users'[r.user] = w
    BY <1>2, <2>2, <2>4, <2>5
  <2>7. StoreOK'
    <3>1. ASSUME NEW u \in Users
          PROVE  Synced(users[u].avatar)'
      <4>1. Synced(users'[u].avatar)
        <5>1. CASE u = r.user
          BY <1>2, <2>2, <2>4, <2>6, <5>1 DEF GoodWith
        <5>2. CASE u # r.user
          <6>1. users'[u] = users[u]
            BY <2>2, <2>5, <5>2
          <6>. QED
            BY <6>1 DEF IInv, StoreOK
        <5>. QED
          BY <5>1, <5>2
      <4>. QED
        BY <1>1, <4>1 DEF Synced, Copied
    <3>. QED
      BY <1>1, <2>6, <3>1 DEF IInv, StoreOK
  <2>8. CASE r.saves = 2
    <3>1. PICK s, st : s = [r EXCEPT !.at = "notify"] /\ st = users'[s.user].status
      OBVIOUS
    <3>2. "notify" \in Steps
      BY DEF Steps
    <3>3. /\ Continues(s, r, "notify")
          /\ s.entity = r.entity /\ s.changed = r.changed /\ s.saves = r.saves /\ s.seen = r.seen
      BY <1>2, <3>1, <3>2, MovesOn
    <3>4. s.entity.status \in s.seen \cup {st}
      BY <1>1, <1>2, <2>4, <2>6, <3>1, <3>3 DEF GoodWith, Continues
    <3>5. (GoodWith(s, s.seen \cup {st}))'
      <4>1. Synced(s.entity.avatar)'
        BY <1>2, <1>4, <3>3 DEF GoodWith, Synced, StoreGrows
      <4>2. s.saves = 2 /\ s.entity.status = Announced(Notice(s.op)) /\ s.at = "notify"
        BY <1>2, <2>8, <3>3 DEF GoodWith, Continues
      <4>. QED
        BY <3>4, <4>1, <4>2 DEF GoodWith
    <3>6. RequestsOK'
      BY <1>4, <1>5, <2>6, <2>8, <3>1, <3>3, <3>5, ServeKeepsRequests DEF IInv, Continues
    <3>. QED
      BY <1>3, <2>7, <3>6 DEF IInv
  <2>9. CASE r.saves # 2
    <3>1. RequestsOK'
      BY <1>4, <1>5, <2>6, <2>9, FinishKeepsRequests DEF IInv
    <3>. QED
      BY <1>3, <2>7, <3>1 DEF IInv
  <2>. QED
    BY <2>8, <2>9
<1>6. CASE UNCHANGED users /\ Finish(q)
  <2>1. StoreOK' /\ users' \in [Users -> Row]
    BY <1>1, <1>6, StoreStays DEF IInv
  <2>2. RequestsOK'
    BY <1>4, <1>6, <2>1, FinishKeepsRequests DEF IInv
  <2>. QED
    BY <1>3, <2>1, <2>2 DEF IInv
<1>. QED
  BY <1>1, <1>5, <1>6
-----------------------------------------------------------------------------
(* The queue *)

States == {"adding", "waiting", "active", "mailed", "stalled", "completed", "failed", "lost"}

Moved(job, state) == [job EXCEPT !.state = state]
Mailed(job) == [job EXCEPT !.state = "mailed", !.mails = @ + 1]
Restalled(job) == [job EXCEPT !.stalls = @ + 1, !.state = "waiting"]

(* A job of its type is given by its five fields. *)
LEMMA JobFields ==
  ASSUME NEW job \in Job
  PROVE  \E k \in Kinds, to \in Recipients, n \in Nat, m \in Nat, x \in States :
           job = [kind |-> k, to |-> to, stalls |-> n, mails |-> m, state |-> x]
  BY DEF Job, States

LEMMA MovedIsJob ==
  ASSUME NEW job \in Job, NEW state \in States
  PROVE  /\ Moved(job, state) \in Job
         /\ Moved(job, state).state = state
         /\ Moved(job, state).mails = job.mails
         /\ Moved(job, state).stalls = job.stalls
<1>1. PICK k \in Kinds, to \in Recipients, n \in Nat, m \in Nat, x \in States :
        job = [kind |-> k, to |-> to, stalls |-> n, mails |-> m, state |-> x]
  BY JobFields
<1>2. Moved(job, state) = [kind |-> k, to |-> to, stalls |-> n, mails |-> m, state |-> state]
  BY <1>1 DEF Moved
<1>. QED
  BY <1>1, <1>2 DEF Job, States

LEMMA MailedIsJob ==
  ASSUME NEW job \in Job
  PROVE  /\ Mailed(job) \in Job
         /\ Mailed(job).state = "mailed"
         /\ Mailed(job).mails = job.mails + 1
         /\ Mailed(job).stalls = job.stalls
<1>1. PICK k \in Kinds, to \in Recipients, n \in Nat, m \in Nat, x \in States :
        job = [kind |-> k, to |-> to, stalls |-> n, mails |-> m, state |-> x]
  BY JobFields
<1>2. PICK l : l = job.mails + 1
  OBVIOUS
<1>3. l \in Nat /\ job.mails = m
  BY <1>1, <1>2
<1>4. Mailed(job) = [job EXCEPT !.state = "mailed", !.mails = l]
  BY <1>2 DEF Mailed
<1>5. Mailed(job) = [kind |-> k, to |-> to, stalls |-> n, mails |-> l, state |-> "mailed"]
  BY <1>1, <1>4
<1>. QED
  BY <1>1, <1>2, <1>3, <1>5 DEF Job

LEMMA RestalledIsJob ==
  ASSUME NEW job \in Job
  PROVE  /\ Restalled(job) \in Job
         /\ Restalled(job).state = "waiting"
         /\ Restalled(job).mails = job.mails
         /\ Restalled(job).stalls = job.stalls + 1
<1>1. PICK k \in Kinds, to \in Recipients, n \in Nat, m \in Nat, x \in States :
        job = [kind |-> k, to |-> to, stalls |-> n, mails |-> m, state |-> x]
  BY JobFields
<1>2. PICK l : l = job.stalls + 1
  OBVIOUS
<1>3. l \in Nat /\ job.stalls = n
  BY <1>1, <1>2
<1>4. Restalled(job) = [job EXCEPT !.stalls = l, !.state = "waiting"]
  BY <1>2 DEF Restalled
<1>5. Restalled(job) = [kind |-> k, to |-> to, stalls |-> l, mails |-> m, state |-> "waiting"]
  BY <1>1, <1>4
<1>. QED
  BY <1>1, <1>2, <1>3, <1>5 DEF Job

(* One job changes. *)
LEMMA JobChanges ==
  ASSUME JobsOK, NEW i \in JobIds, NEW job \in Job, GoodJob(job), jobs' = [jobs EXCEPT ![i] = job]
  PROVE  /\ JobsOK' /\ JobIds' = JobIds
         /\ jobs'[i] = job
         /\ \A j \in JobIds : j # i => jobs'[j] = jobs[j]
<1>1. jobs \in Seq(Job) /\ JobIds = 1..Len(jobs)
  BY LenProperties DEF JobsOK, JobIds
<1>2. jobs' \in Seq(Job) /\ Len(jobs') = Len(jobs)
      /\ \A j \in 1..Len(jobs) : jobs'[j] = IF j = i THEN job ELSE jobs[j]
  BY <1>1, ExceptSeq
<1>3. JobIds' = JobIds
  BY <1>1, <1>2, LenProperties DEF JobIds
<1>4. ASSUME NEW j \in JobIds
      PROVE  GoodJob(jobs[j])'
  <2>1. PICK x : x = jobs'[j]
    OBVIOUS
  <2>2. x = job \/ x = jobs[j]
    BY <1>1, <1>2, <2>1
  <2>3. GoodJob(x)
    BY <2>2 DEF JobsOK
  <2>. QED
    BY <2>1, <2>3 DEF GoodJob
<1>. QED
  BY <1>1, <1>2, <1>3, <1>4 DEF JobsOK

(* The list of waiting jobs stays when no job begins or stops to wait. *)
LEMMA WaitStays ==
  ASSUME WaitOK, JobIds \subseteq JobIds', InState("waiting")' = InState("waiting"), UNCHANGED wait
  PROVE  WaitOK'
<1>1. wait' \in Seq(JobIds')
  BY SeqMonotonic DEF WaitOK
<1>. QED
  BY <1>1 DEF WaitOK

(* When one job changes, those in a state are the others that were in it. *)
LEMMA InStateChanges ==
  ASSUME JobsOK, NEW i \in JobIds, NEW job \in Job, GoodJob(job), jobs' = [jobs EXCEPT ![i] = job]
  PROVE  InState("waiting")' =
           (InState("waiting") \ {i}) \cup (IF job.state = "waiting" THEN {i} ELSE {})
<1>1. JobIds' = JobIds /\ jobs'[i] = job /\ \A j \in JobIds : j # i => jobs'[j] = jobs[j]
  BY JobChanges
<1>2. InState("waiting")' = {j \in JobIds : jobs'[j].state = "waiting"}
  BY <1>1 DEF InState
<1>. QED
  BY <1>1, <1>2 DEF InState

LEMMA MovesAside ==
  ASSUME JobsOK, WaitOK, NEW i \in JobIds, jobs[i].state # "waiting",
         NEW job \in Job, GoodJob(job), job.state # "waiting",
         jobs' = [jobs EXCEPT ![i] = job], UNCHANGED wait
  PROVE  JobsOK' /\ WaitOK'
<1>1. JobsOK' /\ JobIds' = JobIds
  BY JobChanges
<1>2. InState("waiting")' = InState("waiting")
  BY InStateChanges DEF InState
<1>. QED
  BY <1>1, <1>2, WaitStays

(* The jobs as a sequence. *)
LEMMA JobFacts ==
  ASSUME JobsOK
  PROVE  /\ JobIds = 1..Len(jobs) /\ Len(jobs) \in Nat
         /\ \A i \in JobIds : jobs[i] \in Job /\ GoodJob(jobs[i])
<1>1. JobIds = 1..Len(jobs) /\ Len(jobs) \in Nat
  BY LenProperties DEF JobsOK, JobIds
<1>. QED
  BY <1>1, ElementOfSeq DEF JobsOK

LEMMA MailKeeps == ASSUME JobsOK, WaitOK, NEW i \in JobIds, Mail(i)  PROVE  JobsOK' /\ WaitOK'
<1>1. PICK job : job = jobs[i]
  OBVIOUS
<1>2. job \in Job /\ GoodJob(job) /\ job.state = "active"
  BY <1>1, JobFacts DEF Mail, InState
<1>3. PICK new : new = Mailed(job)
  OBVIOUS
<1>4. jobs' = [jobs EXCEPT ![i] = new] /\ UNCHANGED wait
  BY <1>1, <1>3 DEF Mail, Mailed
<1>5. new \in Job /\ new.state = "mailed" /\ new.mails = job.mails + 1 /\ new.stalls = job.stalls
  BY <1>2, <1>3, MailedIsJob
<1>6. job.stalls \in Nat /\ job.mails \in Nat
  BY <1>2 DEF Job
<1>7. GoodJob(new)
  BY <1>2, <1>5, <1>6 DEF GoodJob
<1>. QED
  BY <1>1, <1>2, <1>4, <1>5, <1>7, MovesAside

(* A job that ends, for better or worse. *)
LEMMA EndKeeps ==
  ASSUME JobsOK, WaitOK, NEW i \in JobIds, NEW state \in {"completed", "failed"},
         jobs[i].state \in {"active", "mailed", "stalled"},
         jobs' = [jobs EXCEPT ![i].state = state], UNCHANGED wait
  PROVE  JobsOK' /\ WaitOK'
<1>1. PICK job : job = jobs[i]
  OBVIOUS
<1>2. job \in Job /\ GoodJob(job)
  BY <1>1, JobFacts
<1>3. PICK new : new = Moved(job, state)
  OBVIOUS
<1>4. jobs' = [jobs EXCEPT ![i] = new]
  BY <1>1, <1>3 DEF Moved
<1>5. state \in States
  BY DEF States
<1>6. new \in Job /\ new.state = state /\ new.mails = job.mails /\ new.stalls = job.stalls
  BY <1>2, <1>3, <1>5, MovedIsJob
<1>7. GoodJob(new)
  BY <1>2, <1>6 DEF GoodJob
<1>. QED
  BY <1>1, <1>4, <1>6, <1>7, MovesAside

LEMMA FailKeeps == ASSUME JobsOK, WaitOK, NEW i \in JobIds, Fail(i)  PROVE  JobsOK' /\ WaitOK'
  BY EndKeeps DEF Fail, InState

LEMMA CompleteKeeps ==
  ASSUME JobsOK, WaitOK, NEW i \in JobIds, Complete(i)
  PROVE  JobsOK' /\ WaitOK'
  BY EndKeeps DEF Complete, InState

(* The list as a sequence. *)
LEMMA WaitFacts ==
  ASSUME WaitOK
  PROVE  /\ DOMAIN wait = 1..Len(wait) /\ Len(wait) \in Nat
         /\ \A k \in 1..Len(wait) : wait[k] \in JobIds
<1>1. DOMAIN wait = 1..Len(wait) /\ Len(wait) \in Nat
  BY LenProperties DEF WaitOK
<1>. QED
  BY <1>1, ElementOfSeq DEF WaitOK

LEMMA ArriveKeeps == ASSUME JobsOK, WaitOK, NEW i \in JobIds, Arrive(i)  PROVE  JobsOK' /\ WaitOK'
<1>1. PICK job : job = jobs[i]
  OBVIOUS
<1>2. job \in Job /\ GoodJob(job) /\ job.state = "adding"
  BY <1>1, JobFacts DEF Arrive, InState
<1>3. PICK new : new = Moved(job, "waiting")
  OBVIOUS
<1>4. jobs' = [jobs EXCEPT ![i] = new] /\ wait' = Append(wait, i)
  BY <1>1, <1>3 DEF Arrive, Moved
<1>5. "waiting" \in States
  BY DEF States
<1>6. new \in Job /\ new.state = "waiting" /\ new.mails = job.mails /\ new.stalls = job.stalls
  BY <1>2, <1>3, <1>5, MovedIsJob
<1>7. GoodJob(new)
  BY <1>2, <1>6 DEF GoodJob
<1>8. JobsOK' /\ JobIds' = JobIds
  BY <1>4, <1>6, <1>7, JobChanges
<1>9. InState("waiting")' = InState("waiting") \cup {i}
  BY <1>4, <1>6, <1>7, InStateChanges
<1>10. i \notin InState("waiting")
  BY <1>1, <1>2 DEF InState
<1>11. /\ wait' \in Seq(JobIds)
       /\ Len(wait') = Len(wait) + 1
       /\ \A k \in 1..Len(wait) : wait'[k] = wait[k]
       /\ wait'[Len(wait) + 1] = i
  BY <1>4, AppendProperties DEF WaitOK
<1>12. DOMAIN wait = 1..Len(wait) /\ Len(wait) \in Nat
  BY WaitFacts
<1>13. DOMAIN wait' = 1..(Len(wait) + 1)
  BY <1>11, LenProperties
<1>14. DOMAIN wait' = DOMAIN wait \cup {Len(wait) + 1} /\ Len(wait) + 1 \notin DOMAIN wait
  BY <1>12, <1>13
<1>15. \A k \in DOMAIN wait : wait'[k] = wait[k] /\ wait'[k] # i
  BY <1>10, <1>11, <1>12 DEF WaitOK
<1>16. InState("waiting")' = {wait'[k] : k \in DOMAIN wait'}
  BY <1>9, <1>11, <1>14, <1>15 DEF WaitOK
<1>17. \A k, l \in DOMAIN wait' : wait'[k] = wait'[l] => k = l
  BY <1>11, <1>14, <1>15 DEF WaitOK
<1>. QED
  BY <1>8, <1>11, <1>16, <1>17 DEF WaitOK

LEMMA TakeKeeps == ASSUME JobsOK, WaitOK, Take  PROVE  JobsOK' /\ WaitOK'
<1>1. PICK i : i = Head(wait)
  OBVIOUS
<1>2. wait # <<>> /\ wait' = Tail(wait) /\ jobs' = [jobs EXCEPT ![i].state = "active"]
  BY <1>1 DEF Take
<1>3. /\ i \in JobIds
      /\ wait' \in Seq(JobIds)
      /\ Len(wait') = Len(wait) - 1
      /\ \A k \in 1..Len(wait') : wait'[k] = wait[k + 1]
  BY <1>1, <1>2, HeadTailProperties DEF WaitOK
<1>4. DOMAIN wait = 1..Len(wait) /\ Len(wait) \in Nat
  BY WaitFacts
<1>5. Len(wait) # 0 /\ i = wait[1]
  BY <1>1, <1>2, EmptySeq DEF WaitOK
<1>6. DOMAIN wait' = 1..Len(wait')
  BY <1>3, LenProperties
<1>7. 1 \in DOMAIN wait
  BY <1>4, <1>5
<1>8. i \in InState("waiting")
  BY <1>5, <1>7 DEF WaitOK
<1>9. PICK job : job = jobs[i]
  OBVIOUS
<1>10. job \in Job /\ GoodJob(job) /\ job.state = "waiting"
  BY <1>3, <1>8, <1>9, JobFacts DEF InState
<1>11. PICK new : new = Moved(job, "active")
  OBVIOUS
<1>12. jobs' = [jobs EXCEPT ![i] = new]
  BY <1>2, <1>9, <1>11 DEF Moved
<1>13. "active" \in States
  BY DEF States
<1>14. new \in Job /\ new.state = "active" /\ new.mails = job.mails /\ new.stalls = job.stalls
  BY <1>10, <1>11, <1>13, MovedIsJob
<1>15. GoodJob(new)
  BY <1>10, <1>14 DEF GoodJob
<1>16. JobsOK' /\ JobIds' = JobIds
  BY <1>3, <1>12, <1>14, <1>15, JobChanges
<1>17. InState("waiting")' = InState("waiting") \ {i}
  BY <1>3, <1>12, <1>14, <1>15, InStateChanges
<1>18. \A k \in DOMAIN wait' : k + 1 \in DOMAIN wait /\ wait'[k] = wait[k + 1] /\ k + 1 # 1
  BY <1>3, <1>4, <1>6
<1>19. \A k \in DOMAIN wait : k # 1 => k - 1 \in DOMAIN wait' /\ wait[k] = wait'[k - 1]
  <2>1. ASSUME NEW k \in DOMAIN wait, k # 1
        PROVE  k - 1 \in DOMAIN wait' /\ wait[k] = wait'[k - 1]
    <3>1. k - 1 \in 1..Len(wait') /\ k = (k - 1) + 1
      BY <1>3, <1>4, <1>5, <2>1
    <3>2. wait'[k - 1] = wait[(k - 1) + 1]
      BY <1>3, <3>1
    <3>. QED
      BY <1>6, <3>1, <3>2
  <2>. QED
    BY <2>1
<1>20. \A k \in DOMAIN wait : wait[k] = i => k = 1
  BY <1>5, <1>7 DEF WaitOK
<1>21. InState("waiting")' = {wait'[k] : k \in DOMAIN wait'}
  <2>1. ASSUME NEW x \in InState("waiting")'
        PROVE  \E k \in DOMAIN wait' : x = wait'[k]
    <3>1. PICK k \in DOMAIN wait : x = wait[k]
      BY <1>17, <2>1 DEF WaitOK
    <3>2. k # 1
      BY <1>5, <1>17, <2>1, <3>1
    <3>. QED
      BY <1>19, <3>1, <3>2
  <2>2. ASSUME NEW k \in DOMAIN wait'
        PROVE  wait'[k] \in InState("waiting")'
    <3>1. wait[k + 1] \in InState("waiting") /\ wait[k + 1] # i
      BY <1>18, <1>20, <2>2 DEF WaitOK
    <3>. QED
      BY <1>17, <1>18, <2>2, <3>1
  <2>. QED
    BY <2>1, <2>2
<1>22. \A k, l \in DOMAIN wait' : wait'[k] = wait'[l] => k = l
  <2>1. ASSUME NEW k \in DOMAIN wait', NEW l \in DOMAIN wait', wait'[k] = wait'[l]
        PROVE  k = l
    <3>1. k + 1 = l + 1
      BY <1>18, <2>1 DEF WaitOK
    <3>. QED
      BY <1>3, <1>6, <3>1
  <2>. QED
    BY <2>1
<1>. QED
  BY <1>3, <1>16, <1>21, <1>22 DEF WaitOK

(* A stalled job becomes the next one: the list has it once. *)
LEMMA RecoverKeeps ==
  ASSUME JobsOK, WaitOK, NEW i \in JobIds, Recover(i)
  PROVE  JobsOK' /\ WaitOK'
<1>1. PICK job : job = jobs[i]
  OBVIOUS
<1>2. job \in Job /\ GoodJob(job) /\ job.state = "stalled"
  BY <1>1, JobFacts DEF Recover, InState
<1>3. CASE job.stalls < MaxStalls
  <2>1. PICK new : new = Restalled(job)
    OBVIOUS
  <2>2. jobs' = [jobs EXCEPT ![i] = new] /\ wait' = <<i>> \o wait
    BY <1>1, <1>3, <2>1 DEF Recover, Restalled
  <2>3. /\ new \in Job /\ new.state = "waiting" /\ new.mails = job.mails
        /\ new.stalls = job.stalls + 1
    BY <1>2, <2>1, RestalledIsJob
  <2>4. job.stalls \in Nat /\ job.mails \in Nat
    BY <1>2 DEF Job
  <2>5. GoodJob(new)
    BY <1>2, <1>3, <2>3, <2>4 DEF GoodJob, MaxStalls
  <2>6. JobsOK' /\ JobIds' = JobIds
    BY <2>2, <2>3, <2>5, JobChanges
  <2>7. InState("waiting")' = InState("waiting") \cup {i}
    BY <2>2, <2>3, <2>5, InStateChanges
  <2>8. i \notin InState("waiting")
    BY <1>1, <1>2 DEF InState
  <2>9. <<i>> \in Seq(JobIds) /\ Len(<<i>>) = 1 /\ <<i>>[1] = i
    OBVIOUS
  <2>10. /\ wait' \in Seq(JobIds)
         /\ Len(wait') = 1 + Len(wait)
         /\ \A k \in 1..1 + Len(wait) : wait'[k] = IF k <= 1 THEN <<i>>[k] ELSE wait[k - 1]
    BY <2>2, <2>9, ConcatProperties DEF WaitOK
  <2>11. DOMAIN wait = 1..Len(wait) /\ Len(wait) \in Nat
    BY WaitFacts
  <2>12. DOMAIN wait' = 1..(1 + Len(wait))
    BY <2>10, LenProperties
  <2>13. 1 \in DOMAIN wait' /\ wait'[1] = i
    BY <2>9, <2>10, <2>11, <2>12
  <2>14. \A k \in DOMAIN wait : k + 1 \in DOMAIN wait' /\ wait'[k + 1] = wait[k]
    <3>1. ASSUME NEW k \in DOMAIN wait
          PROVE  k + 1 \in DOMAIN wait' /\ wait'[k + 1] = wait[k]
      <4>1. k + 1 \in 1..1 + Len(wait) /\ ~(k + 1 <= 1) /\ (k + 1) - 1 = k
        BY <2>11
      <4>2. wait'[k + 1] = wait[(k + 1) - 1]
        BY <2>10, <4>1
      <4>. QED
        BY <2>12, <4>1, <4>2
    <3>. QED
      BY <3>1
  <2>15. \A k \in DOMAIN wait' : k # 1 => k - 1 \in DOMAIN wait /\ wait'[k] = wait[k - 1]
    BY <2>10, <2>11, <2>12
  <2>16. \A k \in DOMAIN wait : wait[k] # i
    BY <2>8 DEF WaitOK
  <2>17. InState("waiting")' = {wait'[k] : k \in DOMAIN wait'}
    <3>1. ASSUME NEW x \in InState("waiting")'
          PROVE  \E k \in DOMAIN wait' : x = wait'[k]
      <4>1. CASE x = i
        BY <2>13, <4>1
      <4>2. CASE x # i
        <5>1. PICK k \in DOMAIN wait : x = wait[k]
          BY <2>7, <3>1, <4>2 DEF WaitOK
        <5>. QED
          BY <2>14, <5>1
      <4>. QED
        BY <4>1, <4>2
    <3>2. ASSUME NEW k \in DOMAIN wait'
          PROVE  wait'[k] \in InState("waiting")'
      <4>1. CASE k = 1
        BY <2>7, <2>13, <4>1
      <4>2. CASE k # 1
        BY <2>7, <2>15, <3>2, <4>2 DEF WaitOK
      <4>. QED
        BY <4>1, <4>2
    <3>. QED
      BY <3>1, <3>2
  <2>18. \A k, l \in DOMAIN wait' : wait'[k] = wait'[l] => k = l
    <3>1. ASSUME NEW k \in DOMAIN wait', NEW l \in DOMAIN wait', wait'[k] = wait'[l]
          PROVE  k = l
      <4>1. CASE k = 1 \/ l = 1
        BY <2>13, <2>15, <2>16, <3>1, <4>1
      <4>2. CASE k # 1 /\ l # 1
        <5>1. k - 1 = l - 1
          BY <2>15, <3>1, <4>2 DEF WaitOK
        <5>. QED
          BY <2>11, <2>12, <5>1
      <4>. QED
        BY <4>1, <4>2
    <3>. QED
      BY <3>1
  <2>. QED
    BY <2>6, <2>10, <2>17, <2>18 DEF WaitOK
<1>4. CASE ~(job.stalls < MaxStalls)
  <2>1. jobs' = [jobs EXCEPT ![i].state = "failed"] /\ UNCHANGED wait
    BY <1>1, <1>4 DEF Recover
  <2>. QED
    BY <1>1, <1>2, <2>1, EndKeeps
<1>. QED
  BY <1>3, <1>4

(* What the death of the process makes of a job. *)
Dead(job) ==
  CASE job.state = "adding" -> Moved(job, "lost")
    [] job.state \in {"active", "mailed"} -> Moved(job, "stalled")
    [] OTHER -> job

LEMMA DeadIsJob ==
  ASSUME NEW job \in Job, GoodJob(job)
  PROVE  /\ Dead(job) \in Job /\ GoodJob(Dead(job))
         /\ Dead(job).state = "waiting" <=> job.state = "waiting"
<1>1. "lost" \in States /\ "stalled" \in States
  BY DEF States
<1>2. ASSUME NEW state \in {"lost", "stalled"}
      PROVE  /\ Moved(job, state) \in Job /\ GoodJob(Moved(job, state))
             /\ Moved(job, state).state = state
  BY <1>1, MovedIsJob DEF GoodJob
<1>3. CASE job.state = "adding"
  <2>1. Dead(job) = Moved(job, "lost")
    BY <1>3 DEF Dead
  <2>. QED
    BY <1>2, <1>3, <2>1
<1>4. CASE job.state \in {"active", "mailed"}
  <2>1. Dead(job) = Moved(job, "stalled")
    BY <1>4 DEF Dead
  <2>. QED
    BY <1>2, <1>4, <2>1
<1>5. CASE job.state \notin {"adding", "active", "mailed"}
  BY <1>5 DEF Dead
<1>. QED
  BY <1>3, <1>4, <1>5

LEMMA DieKeeps == ASSUME JobsOK, WaitOK, Die  PROVE  JobsOK' /\ WaitOK'
<1>1. jobs' = [i \in JobIds |-> Dead(jobs[i])] /\ UNCHANGED wait
  BY DEF Die, Dead, Moved
<1>2. /\ JobIds = 1..Len(jobs) /\ Len(jobs) \in Nat
      /\ \A i \in JobIds : jobs[i] \in Job /\ GoodJob(jobs[i])
  BY JobFacts
<1>3. jobs' \in [1..Len(jobs) -> Job]
  BY <1>1, <1>2, DeadIsJob
<1>4. jobs' \in Seq(Job)
  BY <1>2, <1>3, SeqDef
<1>5. JobIds' = JobIds
  BY <1>1 DEF JobIds
<1>6. \A i \in JobIds : GoodJob(jobs'[i]) /\ (jobs'[i].state = "waiting" <=> jobs[i].state = "waiting")
  BY <1>1, <1>2, DeadIsJob
<1>7. JobsOK'
  BY <1>4, <1>5, <1>6 DEF JobsOK, GoodJob
<1>8. InState("waiting")' = InState("waiting")
  BY <1>5, <1>6 DEF InState
<1>. QED
  BY <1>1, <1>5, <1>7, <1>8, WaitStays

(* What addToEmailsQueue adds. *)
NewJob(kind, to) == [kind |-> kind, to |-> to, stalls |-> 0, mails |-> 0, state |-> "adding"]

LEMMA AddKeeps ==
  ASSUME JobsOK, WaitOK, NEW kind \in Kinds, NEW to \in Recipients,
         addToEmailsQueue(kind, to), UNCHANGED wait
  PROVE  /\ JobsOK' /\ WaitOK'
         /\ Len(jobs') = Len(jobs) + 1 /\ jobs'[Len(jobs')] = NewJob(kind, to)
<1>1. PICK new : new = NewJob(kind, to)
  OBVIOUS
<1>2. jobs' = Append(jobs, new)
  BY <1>1 DEF addToEmailsQueue, NewJob
<1>3. new \in Job /\ GoodJob(new) /\ new.state = "adding"
  <2>1. 0 \in Nat
    OBVIOUS
  <2>2. new \in Job
    BY <1>1, <2>1 DEF NewJob, Job
  <2>3. new.stalls = 0 /\ new.mails = 0 /\ new.state = "adding"
    BY <1>1 DEF NewJob
  <2>. QED
    BY <2>2, <2>3 DEF GoodJob, MaxStalls
<1>4. /\ jobs' \in Seq(Job)
      /\ Len(jobs') = Len(jobs) + 1
      /\ \A i \in 1..Len(jobs) : jobs'[i] = jobs[i]
      /\ jobs'[Len(jobs) + 1] = new
  BY <1>2, <1>3, AppendProperties DEF JobsOK
<1>5. /\ JobIds = 1..Len(jobs) /\ Len(jobs) \in Nat
      /\ \A i \in JobIds : jobs[i] \in Job /\ GoodJob(jobs[i])
  BY JobFacts
<1>6. JobIds' = 1..(Len(jobs) + 1)
  BY <1>4, LenProperties DEF JobIds
<1>7. JobIds' = JobIds \cup {Len(jobs) + 1} /\ Len(jobs) + 1 \notin JobIds
  BY <1>5, <1>6
<1>8. ASSUME NEW i \in JobIds'
      PROVE  GoodJob(jobs[i])'
  <2>1. GoodJob(jobs'[i])
    BY <1>3, <1>4, <1>5, <1>7
  <2>. QED
    BY <2>1 DEF GoodJob
<1>9. JobsOK'
  BY <1>4, <1>8 DEF JobsOK
<1>10. InState("waiting")' = InState("waiting")
  <2>1. InState("waiting")' = {i \in JobIds' : jobs'[i].state = "waiting"}
    BY DEF InState
  <2>2. \A i \in JobIds : jobs'[i] = jobs[i]
    BY <1>4, <1>5
  <2>3. jobs'[Len(jobs) + 1].state # "waiting"
    BY <1>3, <1>4
  <2>. QED
    BY <1>7, <2>1, <2>2, <2>3 DEF InState
<1>. QED
  BY <1>1, <1>4, <1>7, <1>9, <1>10, WaitStays

LEMMA NoticeIsKind == ASSUME NEW op  PROVE  Notice(op) \in Kinds
  BY KindsAssumption DEF Notice

LEMMA NotifyKeeps == ASSUME IInv, NEW q \in Slots, Notify(q)  PROVE  IInv'
<1>. PICK r : r = requests[q]
  OBVIOUS
<1>1. /\ r.at = "notify"
      /\ addToEmailsQueue(Notice(r.op), r.user)
      /\ UNCHANGED <<users, objects, removed, wait, workload, crashes>>
      /\ Serve(q, [r EXCEPT !.at = "select", !.saves = 1])
  BY DEF Notify
<1>2. r \in Request /\ r # Idle /\ GoodWith(r, r.seen) /\ r.user \in Users
  BY <1>1, InSlot DEF Steps
<1>3. JobsOK' /\ WaitOK'
  BY <1>1, <1>2, AddKeeps, NoticeIsKind DEF IInv, Users
<1>4. StoreOK' /\ StoreGrows /\ users' \in [Users -> Row]
  BY <1>1, StoreStays DEF IInv
<1>5. PICK s, st : s = Told(r, "select") /\ st = users'[s.user].status
  OBVIOUS
<1>6. "select" \in Steps
  BY DEF Steps
<1>7. /\ Continues(s, r, "select")
      /\ s.entity = r.entity /\ s.saves = 1
  BY <1>2, <1>5, <1>6, Announces
<1>8. Serve(q, s)
  BY <1>1, <1>5 DEF Told
<1>9. (GoodWith(s, s.seen \cup {st}))'
  <2>1. Synced(s.entity.avatar)'
    BY <1>2, <1>4, <1>7 DEF GoodWith, Synced, StoreGrows
  <2>2. s.saves # 2 /\ s.at = "select"
    BY <1>7 DEF Continues
  <2>. QED
    BY <2>1, <2>2 DEF GoodWith
<1>10. RequestsOK'
  BY <1>4, <1>5, <1>7, <1>8, <1>9, ServeKeepsRequests DEF IInv, Continues
<1>11. BoundsOK'
  BY <1>1 DEF IInv, BoundsOK
<1>. QED
  BY <1>3, <1>4, <1>10, <1>11 DEF IInv

-----------------------------------------------------------------------------
(* The surroundings *)

LEMMA UploadKeeps == ASSUME IInv, NEW n \in Names, Upload(n)  PROVE  IInv'
<1>1. /\ objects' = objects \cup {TempKey(n)}
      /\ UNCHANGED <<users, removed, jobs, wait, requests, workload, crashes>>
  BY DEF Upload, generateUrl
<1>2. StoreGrows
  BY <1>1 DEF StoreGrows, Copied
<1>3. objects' \subseteq AllKeys /\ removed' \subseteq Names
  BY <1>1 DEF IInv, StoreOK, AllKeys
<1>4. StoreOK'
  BY <1>1, <1>2, <1>3, StoreChanges DEF IInv
<1>5. RequestsOK'
  BY <1>1, <1>2, RequestsStay DEF IInv
<1>6. JobsOK' /\ WaitOK' /\ BoundsOK'
  BY <1>1, QueueStays DEF IInv
<1>. QED
  BY <1>4, <1>5, <1>6 DEF IInv

LEMMA QueueKeeps == ASSUME IInv, Queue  PROVE  IInv'
<1>1. UNCHANGED <<users, objects, removed, requests, workload, crashes>>
  BY DEF Queue
<1>2. StoreOK' /\ StoreGrows
  BY <1>1, StoreStays DEF IInv
<1>3. RequestsOK'
  BY <1>1, <1>2, RequestsStay DEF IInv
<1>4. BoundsOK'
  BY <1>1 DEF IInv, BoundsOK
<1>5. JobsOK' /\ WaitOK'
  BY TakeKeeps, ArriveKeeps, MailKeeps, FailKeeps, CompleteKeeps, RecoverKeeps
     DEF Queue, Process, IInv
<1>. QED
  BY <1>2, <1>3, <1>4, <1>5 DEF IInv

LEMMA CrashKeeps == ASSUME IInv, Crash  PROVE  IInv'
<1>1. /\ crashes < workload.crashes /\ crashes' = crashes + 1
      /\ requests' = [q \in Slots |-> Idle]
      /\ Die
      /\ UNCHANGED <<users, objects, removed, workload>>
  BY DEF Crash
<1>2. StoreOK'
  BY <1>1, StoreStays DEF IInv
<1>3. JobsOK' /\ WaitOK'
  BY <1>1, DieKeeps DEF IInv
<1>4. RequestsOK'
  BY <1>1 DEF RequestsOK, GoodRequest
<1>5. workload.crashes \in Nat
  BY WorkloadsAssumption DEF IInv, BoundsOK
<1>6. BoundsOK'
  BY <1>1, <1>5 DEF IInv, BoundsOK
<1>. QED
  BY <1>2, <1>3, <1>4, <1>6 DEF IInv

-----------------------------------------------------------------------------
(* The specification *)

LEMMA InitIInv == Init => IInv
<1>. SUFFICES ASSUME Init  PROVE  IInv
  OBVIOUS
<1>1. StoreOK
  <2>1. [status |-> "active", avatar |-> None] \in Row
    BY DEF Row, Avatar, UserStatus
  <2>. QED
    BY <2>1 DEF Init, StoreOK, Synced
<1>2. RequestsOK
  BY DEF Init, RequestsOK, GoodRequest
<1>3. JobIds = {}
  BY DEF Init, JobIds
<1>4. JobsOK
  BY <1>3 DEF Init, JobsOK
<1>5. WaitOK
  BY <1>3 DEF Init, WaitOK, InState
<1>6. BoundsOK
  BY WorkloadsAssumption DEF Init, BoundsOK
<1>. QED
  BY <1>1, <1>2, <1>4, <1>5, <1>6 DEF IInv

LEMMA NextIInv == IInv /\ [Next]_vars => IInv'
<1>. SUFFICES ASSUME IInv, [Next]_vars  PROVE  IInv'
  OBVIOUS
<1>1. ASSUME NEW q \in Slots, Begin(q)
      PROVE  IInv'
  BY <1>1, UpdateAvatarKeeps, UpdateKeeps, RemoveAvatarKeeps, ChangeStatusKeeps DEF Begin
<1>2. ASSUME NEW q \in Slots, Continue(q)
      PROVE  IInv'
  BY <1>2, SyncKeeps, TidyKeeps, DeleteKeeps, SaveSelectKeeps, SaveWriteKeeps, NotifyKeeps
     DEF Continue
<1>3. CASE UNCHANGED vars
  <2>1. UNCHANGED <<users, objects, removed>> /\ UNCHANGED <<jobs, wait, workload, crashes>>
        /\ UNCHANGED requests
    BY <1>3 DEF vars
  <2>. QED
    BY <2>1, StoreStays, RequestsStay, QueueStays DEF IInv
<1>. QED
  BY <1>1, <1>2, <1>3, UploadKeeps, QueueKeeps, CrashKeeps DEF Next

LEMMA IInvHolds == Spec => []IInv
  BY InitIInv, NextIInv, PTL DEF Spec

(* Every variable holds what the code can put there, and the list of waiting    *)
(* jobs names those that wait, each once.                                       *)
THEOREM TypeCorrect == Spec => []TypeOK
  BY IInvHolds, IInvImplies, PTL

(* An avatar names an object that was copied, however many entities, with or    *)
(* without its prefix, wrote it back since.                                     *)
THEOREM AvatarsWereSynced == Spec => []AvatarWasSynced
  BY IInvHolds, IInvImplies, PTL

(* No job is mailed a third time, however often the process restarts. *)
THEOREM MailedOnceOrTwice == Spec => []MailedAtMostTwice
  BY IInvHolds, IInvImplies, PTL

-----------------------------------------------------------------------------
(* What a mail announces *)

LEMMA QueueAddsNone == ASSUME IInv, IInv', JobIds' = JobIds  PROVE  Len(jobs') = Len(jobs)
<1>1. JobIds = 1..Len(jobs) /\ Len(jobs) \in Nat
  BY JobFacts DEF IInv
<1>2. JobIds' = 1..Len(jobs') /\ Len(jobs') \in Nat
  BY LenProperties DEF IInv, JobsOK, JobIds
<1>. QED
  BY <1>1, <1>2

LEMMA QueueKeepsIds == ASSUME Queue \/ Crash  PROVE  JobIds' = JobIds
  BY DEF Queue, Crash, Process, Take, Arrive, Mail, Fail, Complete, Recover, Die, JobIds

LEMMA OthersAddNone ==
  ASSUME NEW q \in Slots, Begin(q) \/ Sync(q) \/ Tidy(q) \/ Delete(q) \/ SaveSelect(q) \/ SaveWrite(q)
  PROVE  UNCHANGED jobs
  BY DEF Begin, UpdateAvatar, Update, RemoveAvatar, ChangeStatus,
         Sync, Tidy, Delete, SaveSelect, SaveWrite

(* The request that adds the mail saw the status, and goes on. *)
LEMMA NotifyIsTrue ==
  ASSUME IInv, NEW q \in Slots, Notify(q)
  PROVE  /\ requests[q] # Idle /\ requests'[q] # requests[q]
         /\ requests[q].user = jobs'[Len(jobs')].to
         /\ Announced(jobs'[Len(jobs')].kind) \in requests[q].seen
<1>. PICK r : r = requests[q]
  OBVIOUS
<1>1. /\ r.at = "notify"
      /\ addToEmailsQueue(Notice(r.op), r.user) /\ UNCHANGED wait
      /\ Serve(q, [r EXCEPT !.at = "select", !.saves = 1])
  BY DEF Notify
<1>2. r \in Request /\ r # Idle /\ GoodWith(r, r.seen) /\ r.user \in Users
  BY <1>1, InSlot DEF Steps
<1>3. jobs'[Len(jobs')] = NewJob(Notice(r.op), r.user)
  BY <1>1, <1>2, AddKeeps, NoticeIsKind DEF IInv, Users
<1>4. jobs'[Len(jobs')].to = r.user /\ jobs'[Len(jobs')].kind = Notice(r.op)
  BY <1>3 DEF NewJob
<1>5. Announced(Notice(r.op)) \in r.seen
  BY <1>1, <1>2 DEF GoodWith
<1>6. requests'[q] # r
  <2>1. PICK s : s = Told(r, "select")
    OBVIOUS
  <2>2. "select" \in Steps
    BY DEF Steps
  <2>3. s \in Request /\ s.at = "select"
    BY <1>2, <2>1, <2>2, Announces DEF Continues
  <2>4. PICK S : S = s.seen \cup {users'[s.user].status}
    OBVIOUS
  <2>5. s # Idle
    BY <2>3 DEF Idle
  <2>6. requests'[q] = [s EXCEPT !.seen = S]
    BY <1>1, <2>1, <2>4, <2>5 DEF Serve, Witness, Told
  <2>7. requests'[q].at = "select"
    BY <2>3, <2>6 DEF Request
  <2>. QED
    BY <1>1, <2>7
<1>. QED
  BY <1>2, <1>4, <1>5, <1>6

(* A mail is added only by a request during which the user's row had the status *)
(* the mail speaks of, whatever other requests and restarts come in between.    *)
THEOREM NoticesWereTrue == Spec => NoticesAreTrue
<1>1. ASSUME IInv, IInv', [Next]_vars, Len(jobs') > Len(jobs)
      PROVE  \E q \in Slots : /\ requests[q] # Idle /\ requests'[q] # requests[q]
                              /\ requests[q].user = jobs'[Len(jobs')].to
                              /\ Announced(jobs'[Len(jobs')].kind) \in requests[q].seen
  <2>1. Len(jobs) \in Nat
    BY <1>1, JobFacts DEF IInv
  <2>2. jobs' # jobs /\ JobIds' # JobIds
    BY <1>1, <2>1, QueueAddsNone
  <2>3. ~UNCHANGED vars
    BY <2>2 DEF vars
  <2>4. ~\E n \in Names : Upload(n)
    BY <2>2 DEF Upload
  <2>5. PICK q \in Slots : Begin(q) \/ Continue(q)
    BY <1>1, <2>2, <2>3, <2>4, QueueKeepsIds DEF Next
  <2>6. Notify(q)
    BY <2>2, <2>5, OthersAddNone DEF Continue
  <2>. QED
    BY <1>1, <2>6, NotifyIsTrue
<1>2. IInv /\ IInv' /\ [Next]_vars =>
        [Len(jobs') > Len(jobs) =>
           \E q \in Slots : /\ requests[q] # Idle /\ requests'[q] # requests[q]
                            /\ requests[q].user = jobs'[Len(jobs')].to
                            /\ Announced(jobs'[Len(jobs')].kind) \in requests[q].seen]_vars
  BY <1>1
<1>. QED
  BY <1>2, IInvHolds, PTL DEF Spec, NoticesAreTrue

-----------------------------------------------------------------------------
(* As long as requests do not overlap *)

Alone == \A p, q \in Slots : requests[p] # Idle /\ requests[q] # Idle => p = q

(* What a request has read is still so. *)
FreshRequest(r) ==
  r # Idle =>
    /\ r.saves = 1 \/ r.at = "notify" => r.entity.status = users[r.user].status
    /\ r.at = "write" => r.changed = Changed(r.entity, users[r.user])
RequestsFresh == \A q \in Slots : FreshRequest(requests[q])

(* The last mail says what the status is, or the next one is just going to. *)
LastTells(u) ==
  \A i \in JobIds : i \in Notices(u) /\ (\A j \in Notices(u) : j <= i) =>
                      Announced(jobs[i].kind) = users[u].status
Notifying(u) == \E q \in Slots : requests[q].at = "notify" /\ requests[q].user = u
NoticesFresh == \A u \in Users : LastTells(u) \/ Notifying(u)

(* The entity has the avatar its handler meant to save. *)
OwnRequest(r) ==
  r # Idle =>
    /\ r.op \in {"avatar", "remove"} => r.saves = 1
    /\ r.op = "avatar" =>
         /\ r.at \in {"sync", "tidy", "select", "write"}
         /\ r.name \in workload.names[r.user]
         /\ r.at # "sync" => PathKey(r.name) \in objects
         /\ r.at \in {"select", "write"} => r.entity.avatar = [name |-> r.name, prefixes |-> 0]
    /\ r.op = "remove" =>
         /\ r.at \in {"delete", "select", "write"}
         /\ r.at = "delete" => r.name \in workload.names[r.user]
         /\ r.at # "delete" => r.entity.avatar = None
    /\ r.op \notin {"avatar", "remove"} =>
         /\ r.at \in {"select", "write", "notify"}
         /\ r.entity.avatar \in {From(users[r.user].avatar), None}
RequestsOwn == \A q \in Slots : OwnRequest(requests[q])

Plain(u) == users[u].avatar # None => /\ users[u].avatar.prefixes = 0
                                       /\ users[u].avatar.name \in workload.names[u]
Stored(u) == users[u].avatar # None => PathKey(users[u].avatar.name) \in objects
Removing(u) == \E q \in Slots : requests[q] # Idle /\ requests[q].op = "remove" /\ requests[q].user = u
OwnAvatar(u) == Plain(u) /\ (Stored(u) \/ Removing(u))
AvatarsOwn == \A u \in Users : OwnAvatar(u)

StatusSerial == Alone /\ RequestsFresh /\ NoticesFresh
AvatarSerial == RequestsOwn /\ AvatarsOwn
Serial == StatusSerial /\ (OwnNames => AvatarSerial)

(* The row that is written. *)
LEMMA WrittenFresh ==
  ASSUME NEW row \in Row, NEW entity \in Row
  PROVE  LET w == Written(row, entity, Changed(entity, row))
         IN /\ w.status = entity.status
            /\ w.avatar = IF entity.avatar = From(row.avatar) THEN row.avatar ELSE entity.avatar
<1>1. /\ Loaded(row).status = row.status
      /\ Loaded(row).avatar = From(row.avatar)
  BY LoadedIsRow
<1>2. /\ "status" \in Changed(entity, row) <=> entity.status # row.status
      /\ "avatar" \in Changed(entity, row) <=> entity.avatar # From(row.avatar)
  BY <1>1 DEF Changed, Columns
<1>. QED
  BY <1>2 DEF Written, Columns

LEMMA NothingBusy ==
  ASSUME workload.busy = 1, IsFiniteSet(Slots), Busy < workload.busy
  PROVE  \A q \in Slots : requests[q] = Idle
<1>. DEFINE S == {q \in Slots : requests[q] # Idle}
<1>1. IsFiniteSet(S)
  BY FS_Subset
<1>2. Cardinality(S) \in Nat
  BY <1>1, FS_CardinalityType
<1>3. Cardinality(S) = 0
  BY <1>2 DEF Busy
<1>4. S = {}
  BY <1>1, <1>3, FS_EmptySet
<1>. QED
  BY <1>4

LEMMA BeginAlone ==
  ASSUME OneAtATime, IsFiniteSet(Slots), NEW q \in Slots, Begin(q)
  PROVE  /\ \A p \in Slots : requests[p] = Idle
         /\ UNCHANGED <<users, objects, removed, jobs, wait, workload, crashes>>
<1>1. Busy < workload.busy /\ UNCHANGED <<users, objects, removed, jobs, wait, workload, crashes>>
  BY DEF Begin, UpdateAvatar, Update, RemoveAvatar, ChangeStatus, CanStart
<1>. QED
  BY <1>1, NothingBusy DEF OneAtATime

LEMMA ContinueAlone ==
  ASSUME Alone, NEW q \in Slots, Continue(q)
  PROVE  (\A p \in Slots : p # q => requests[p] = Idle) /\ UNCHANGED workload
<1>1. requests[q].at \in Steps /\ UNCHANGED workload
  BY DEF Continue, Sync, Tidy, Delete, SaveSelect, SaveWrite, Notify, Steps
<1>2. requests[q] # Idle
  BY <1>1 DEF Idle, Steps
<1>. QED
  BY <1>1, <1>2 DEF Alone

(* The request that is served alone is the only one, and is what was served but *)
(* for what it has seen.                                                        *)
LEMMA AloneServed ==
  ASSUME IInv, users' \in [Users -> Row], NEW q \in Slots, NEW r \in Request \cup {Idle},
         Serve(q, r), \A p \in Slots : p # q => requests[p] = Idle
  PROVE  /\ \A p \in Slots : p # q => requests'[p] = Idle
         /\ r = Idle => requests'[q] = Idle
         /\ r # Idle =>
              \E w \in Request :
                /\ w = requests'[q] /\ Continues(w, r, r.at) /\ w # Idle
                /\ w.entity = r.entity /\ w.changed = r.changed /\ w.saves = r.saves
<1>1. \A p \in Slots : requests'[p] = Witness(IF p = q THEN r ELSE requests[p])
  BY DEF Serve
<1>2. Witness(Idle) = Idle
  BY DEF Witness
<1>3. ASSUME r # Idle
      PROVE  \E w \in Request :
                /\ w = requests'[q] /\ Continues(w, r, r.at) /\ w # Idle
                /\ w.entity = r.entity /\ w.changed = r.changed /\ w.saves = r.saves
  <2>1. r \in Request /\ r.user \in Users /\ r.seen \in SUBSET UserStatus /\ r.at \in Steps
    BY <1>3 DEF Request
  <2>2. PICK st \in UserStatus : st = users'[r.user].status
    BY <2>1 DEF Row
  <2>3. PICK seen \in SUBSET UserStatus : seen = r.seen \cup {st}
    BY <2>1
  <2>4. PICK w : w = [r EXCEPT !.seen = seen]
    OBVIOUS
  <2>5. requests'[q] = w
    BY <1>1, <1>3, <2>2, <2>3, <2>4 DEF Witness
  <2>6. /\ Continues(w, r, r.at)
        /\ w.entity = r.entity /\ w.changed = r.changed /\ w.saves = r.saves
    BY <2>1, <2>4, Sees
  <2>7. w # Idle
    BY <2>1, <2>6 DEF Continues, Idle, Steps
  <2>. QED
    BY <2>5, <2>6, <2>7 DEF Continues
<1>. QED
  BY <1>1, <1>2, <1>3

LEMMA AloneKeeps ==
  ASSUME IInv, users' \in [Users -> Row], NEW q \in Slots, NEW r \in Request \cup {Idle},
         Serve(q, r), \A p \in Slots : p # q => requests[p] = Idle,
         (FreshRequest(r))'
  PROVE  /\ Alone' /\ RequestsFresh'
         /\ (OwnRequest(r))' => RequestsOwn'
         /\ \A u \in Users : Removing(u)' <=> r # Idle /\ r.op = "remove" /\ r.user = u
         /\ \A u \in Users : Notifying(u)' <=> r # Idle /\ r.at = "notify" /\ r.user = u
<1>1. /\ \A p \in Slots : p # q => requests'[p] = Idle
      /\ r = Idle => requests'[q] = Idle
  BY AloneServed
<1>2. Alone'
  BY <1>1 DEF Alone
<1>3. CASE r = Idle
  BY <1>1, <1>2, <1>3
  DEF RequestsFresh, FreshRequest, RequestsOwn, OwnRequest, Removing, Notifying, Idle
<1>4. CASE r # Idle
  <2>1. PICK w \in Request :
          /\ w = requests'[q] /\ Continues(w, r, r.at) /\ w # Idle
          /\ w.entity = r.entity /\ w.changed = r.changed /\ w.saves = r.saves
    BY <1>4, AloneServed
  <2>2. w.at = r.at /\ w.op = r.op /\ w.name = r.name /\ w.user = r.user
    BY <2>1 DEF Continues
  <2>3. (FreshRequest(w))' /\ ((OwnRequest(r))' => (OwnRequest(w))')
    BY <1>4, <2>1, <2>2 DEF FreshRequest, OwnRequest
  <2>4. RequestsFresh' /\ ((OwnRequest(r))' => RequestsOwn')
    BY <1>1, <2>1, <2>3 DEF RequestsFresh, FreshRequest, RequestsOwn, OwnRequest
  <2>5. /\ \A u \in Users : Removing(u)' <=> r.op = "remove" /\ r.user = u
        /\ \A u \in Users : Notifying(u)' <=> r.at = "notify" /\ r.user = u
    BY <1>1, <2>1, <2>2 DEF Removing, Notifying, Idle
  <2>. QED
    BY <1>2, <1>4, <2>4, <2>5
<1>. QED
  BY <1>3, <1>4

(* Mails and statuses stay, and nobody is about to be told of one. *)
LEMMA TellsStays ==
  ASSUME UNCHANGED jobs, NEW u \in Users, users'[u].status = users[u].status, LastTells(u)
  PROVE  LastTells(u)'
  BY DEF LastTells, Notices, JobIds

LEMMA OwnStays ==
  ASSUME UNCHANGED workload, NEW u \in Users, users'[u] = users[u],
         \A n : PathKey(n) \in objects => PathKey(n) \in objects'
  PROVE  (Plain(u) => Plain(u)') /\ (Stored(u) => Stored(u)')
  BY DEF Plain, Stored

-----------------------------------------------------------------------------
(* Requests that begin *)

LEMMA BeginSerial ==
  ASSUME IInv, Serial, OneAtATime, IsFiniteSet(Slots), NEW q \in Slots, Begin(q)
  PROVE  Serial'
<1>1. /\ \A p \in Slots : requests[p] = Idle
      /\ UNCHANGED <<users, objects, removed, jobs, wait, workload, crashes>>
  BY BeginAlone
<1>2. users' \in [Users -> Row] /\ OwnNames' = OwnNames
  BY <1>1 DEF IInv, StoreOK, OwnNames
<1>3. ASSUME NEW u \in Users
      PROVE  ~ Notifying(u) /\ ~ Removing(u)
  BY <1>1 DEF Notifying, Removing, Idle
<1>4. \A u \in Users : LastTells(u)'
  BY <1>1, <1>3, TellsStays DEF Serial, StatusSerial, NoticesFresh
<1>5. OwnNames => AvatarsOwn'
  BY <1>1, <1>3, OwnStays DEF Serial, AvatarSerial, AvatarsOwn, OwnAvatar
<1>6. ASSUME NEW r \in Request, Serve(q, r), (FreshRequest(r))', OwnNames => (OwnRequest(r))'
      PROVE  Serial'
  <2>1. Alone' /\ RequestsFresh' /\ (OwnNames => RequestsOwn')
    BY <1>1, <1>2, <1>6, AloneKeeps
  <2>. QED
    BY <1>2, <1>4, <1>5, <2>1 DEF Serial, StatusSerial, NoticesFresh, AvatarSerial
<1>7. ASSUME NEW op \in Ops, NEW at \in {"sync", "delete", "select"}, NEW u \in Users,
             NEW n \in Names \cup {NoName}, NEW e \in Row, Serve(q, Start(op, at, u, n, e)),
             op \notin {"activate", "suspend"} => e.status = users[u].status,
             op = "avatar" => at = "sync" /\ n \in workload.names[u],
             op = "remove" /\ OwnNames => at = "delete" /\ n \in workload.names[u],
             op \notin {"avatar", "remove"} =>
               at = "select" /\ e.avatar \in {From(users[u].avatar), None}
      PROVE  Serial'
  <2>1. PICK r : r = Start(op, at, u, n, e)
    OBVIOUS
  <2>2. /\ r \in Request
        /\ r.at = at /\ r.op = op /\ r.name = n /\ r.entity = e /\ r.user = u
        /\ r.saves = (IF op \in {"activate", "suspend"} THEN 2 ELSE 1)
    BY <2>1, StartIsRequest DEF IInv, StoreOK, Steps
  <2>3. (FreshRequest(r))' /\ (OwnNames => (OwnRequest(r))')
    BY <1>1, <1>7, <2>2 DEF FreshRequest, OwnRequest
  <2>. QED
    BY <1>6, <1>7, <2>1, <2>2, <2>3
<1>8. CASE UpdateAvatar(q)
  <2>1. PICK u \in Users : \E n \in workload.names[u] :
          Serve(q, Start("avatar", "sync", u, n, Loaded(users[u])))
    BY <1>8 DEF UpdateAvatar
  <2>2. PICK n \in workload.names[u] : Serve(q, Start("avatar", "sync", u, n, Loaded(users[u])))
    BY <2>1
  <2>3. PICK e \in Row : e = Loaded(users[u]) /\ e.status = users[u].status
    BY RowFacts
  <2>4. n \in Names /\ "avatar" \in Ops
    BY RowFacts DEF Ops
  <2>. QED
    BY <1>7, <2>2, <2>3, <2>4
<1>9. CASE Update(q)
  <2>1. PICK u \in Users : \E avatar \in {Loaded(users[u]).avatar, None} :
          Serve(q, Start("update", "select", u, NoName, [users[u] EXCEPT !.avatar = avatar]))
    BY <1>9 DEF Update
  <2>2. PICK avatar \in {Loaded(users[u]).avatar, None} :
          Serve(q, Start("update", "select", u, NoName, [users[u] EXCEPT !.avatar = avatar]))
    BY <2>1
  <2>3. PICK row \in Row : row = users[u]
    BY RowFacts
  <2>4. Loaded(row) \in Row /\ Loaded(row).avatar = From(row.avatar)
    BY LoadedIsRow
  <2>5. avatar \in Avatar /\ avatar \in {From(row.avatar), None}
    BY <2>2, <2>3, <2>4 DEF Row, Avatar
  <2>. PICK e : e = [row EXCEPT !.avatar = avatar]
    OBVIOUS
  <2>6. e \in Row /\ e.status = row.status /\ e.avatar = avatar
    BY <2>5, AvatarOfRow
  <2>7. Serve(q, Start("update", "select", u, NoName, e)) /\ "update" \in Ops
    BY <2>2, <2>3 DEF Ops
  <2>. QED
    BY <1>7, <2>3, <2>5, <2>6, <2>7
<1>10. CASE RemoveAvatar(q)
  <2>1. PICK u \in Users :
          /\ users[u].avatar # None
          /\ Serve(q, Start("remove", "delete", u, users[u].avatar.name, Loaded(users[u])))
    BY <1>10 DEF RemoveAvatar
  <2>2. PICK e \in Row : e = Loaded(users[u]) /\ e.status = users[u].status
    BY RowFacts
  <2>3. users[u].avatar.name \in Names
    <3>1. users[u].avatar \in [name : Names, prefixes : Nat]
      BY <2>1, RowFacts DEF Row, Avatar
    <3>. QED
      BY <3>1
  <2>4. OwnNames => users[u].avatar.name \in workload.names[u]
    BY <2>1 DEF Serial, AvatarSerial, AvatarsOwn, OwnAvatar, Plain
  <2>5. "remove" \in Ops
    BY DEF Ops
  <2>. QED
    BY <1>7, <2>1, <2>2, <2>3, <2>4, <2>5
<1>11. CASE ChangeStatus(q)
  <2>1. PICK u \in Users, op \in {"activate", "suspend"} : \E t, e :
          /\ t = IF op = "activate" THEN "activation" ELSE "suspension"
          /\ e = [Loaded(users[u]) EXCEPT !.status = UserGraph[t].to]
          /\ Serve(q, Start(op, "select", u, NoName, e))
    BY <1>11 DEF ChangeStatus
  <2>. PICK t, e :
          /\ t = IF op = "activate" THEN "activation" ELSE "suspension"
          /\ e = [Loaded(users[u]) EXCEPT !.status = UserGraph[t].to]
          /\ Serve(q, Start(op, "select", u, NoName, e))
    BY <2>1
  <2>2. PICK row \in Row : row = users[u]
    BY RowFacts
  <2>3. PICK s \in UserStatus, v \in Avatar : Loaded(row) = [status |-> s, avatar |-> v]
    BY LoadedIsRow DEF Row
  <2>4. UserGraph[t].to \in UserStatus
    BY DEF UserGraph, UserStatus
  <2>5. e = [status |-> UserGraph[t].to, avatar |-> v]
    BY <2>2, <2>3
  <2>6. e \in Row /\ e.avatar = From(row.avatar)
    BY <2>3, <2>4, <2>5, LoadedIsRow DEF Row
  <2>7. op \in Ops
    BY DEF Ops
  <2>. QED
    BY <1>7, <2>2, <2>6, <2>7
<1>. QED
  BY <1>8, <1>9, <1>10, <1>11 DEF Begin

-----------------------------------------------------------------------------
(* Requests that go on *)

(* The one request there is: what it has read and what depends on it. *)
LEMMA TheRequest ==
  ASSUME IInv, Serial, NEW q \in Slots, requests[q].at \in Steps
  PROVE  /\ \A p \in Slots : p # q => requests[p] = Idle
         /\ FreshRequest(requests[q])
         /\ OwnNames => OwnRequest(requests[q])
         /\ \A u \in Users : LastTells(u) \/ (requests[q].at = "notify" /\ requests[q].user = u)
         /\ OwnNames => \A u \in Users :
              Plain(u) /\ (Stored(u) \/ (requests[q].op = "remove" /\ requests[q].user = u))
<1>1. requests[q] # Idle
  BY DEF Idle, Steps
<1>2. \A p \in Slots : p # q => requests[p] = Idle
  BY <1>1 DEF Serial, StatusSerial, Alone
<1>3. \A u \in Users : Notifying(u) => requests[q].at = "notify" /\ requests[q].user = u
  BY <1>2 DEF Notifying, Idle
<1>4. \A u \in Users : Removing(u) => requests[q].op = "remove" /\ requests[q].user = u
  BY <1>2 DEF Removing
<1>. QED
  BY <1>2, <1>3, <1>4 DEF Serial, StatusSerial, AvatarSerial, RequestsFresh, NoticesFresh,
                          RequestsOwn, AvatarsOwn, OwnAvatar

(* What is to be shown of a step of the one request. *)
LEMMA ServedSerial ==
  ASSUME IInv, users' \in [Users -> Row], UNCHANGED workload, NEW q \in Slots,
         NEW r \in Request \cup {Idle}, Serve(q, r), \A p \in Slots : p # q => requests[p] = Idle,
         (FreshRequest(r))',
         \A u \in Users : LastTells(u)' \/ (r # Idle /\ r.at = "notify" /\ r.user = u),
         OwnNames => (OwnRequest(r))',
         OwnNames => \A u \in Users :
           Plain(u)' /\ (Stored(u)' \/ (r # Idle /\ r.op = "remove" /\ r.user = u))
  PROVE  Serial'
<1>1. /\ Alone' /\ RequestsFresh'
      /\ (OwnRequest(r))' => RequestsOwn'
      /\ \A u \in Users : Removing(u)' <=> r # Idle /\ r.op = "remove" /\ r.user = u
      /\ \A u \in Users : Notifying(u)' <=> r # Idle /\ r.at = "notify" /\ r.user = u
  BY AloneKeeps
<1>2. OwnNames' = OwnNames
  BY DEF OwnNames
<1>3. NoticesFresh'
  BY <1>1 DEF NoticesFresh
<1>4. OwnNames => AvatarsOwn'
  BY <1>1 DEF AvatarsOwn, OwnAvatar
<1>. QED
  BY <1>1, <1>2, <1>3, <1>4 DEF Serial, StatusSerial, AvatarSerial

LEMMA SyncSerial == ASSUME IInv, IInv', Serial, NEW q \in Slots, Sync(q)  PROVE  Serial'
<1>. PICK r : r = requests[q]
  OBVIOUS
<1>1. /\ r.at = "sync"
      /\ UNCHANGED <<users, removed, jobs, wait, workload, crashes>>
      /\ \/ Copy(r.name) /\ Serve(q, [r EXCEPT !.at = "tidy"])
         \/ UNCHANGED objects /\ Finish(q)
  BY DEF Sync
<1>2. r \in Request /\ r # Idle /\ users' \in [Users -> Row]
  BY <1>1, InSlot DEF Steps, IInv, StoreOK
<1>3. /\ \A p \in Slots : p # q => requests[p] = Idle
      /\ FreshRequest(r) /\ (OwnNames => OwnRequest(r))
      /\ \A u \in Users : LastTells(u)
      /\ OwnNames => \A u \in Users : Plain(u) /\ (Stored(u) \/ r.op = "remove")
  BY <1>1, TheRequest DEF Steps
<1>4. OwnNames => r.op = "avatar"
  BY <1>1, <1>2, <1>3 DEF OwnRequest
<1>5. objects \subseteq objects'
  BY <1>1 DEF Copy
<1>6. /\ \A u \in Users : LastTells(u)'
      /\ OwnNames => \A u \in Users : Plain(u)' /\ Stored(u)'
  BY <1>1, <1>3, <1>4, <1>5, TellsStays, OwnStays
<1>7. CASE Copy(r.name) /\ Serve(q, [r EXCEPT !.at = "tidy"])
  <2>1. PICK s : s = [r EXCEPT !.at = "tidy"]
    OBVIOUS
  <2>2. /\ s \in Request /\ s.at = "tidy" /\ s.op = r.op /\ s.name = r.name /\ s.user = r.user
        /\ s.entity = r.entity /\ s.saves = r.saves
    BY <1>2, <2>1, MovesOn DEF Continues, Steps
  <2>3. (FreshRequest(s))'
    BY <1>1, <1>2, <1>3, <2>2 DEF FreshRequest
  <2>4. OwnNames => (OwnRequest(s))'
    <3>1. PathKey(r.name) \in objects'
      BY <1>7 DEF Copy
    <3>. QED
      BY <1>1, <1>2, <1>3, <1>4, <2>2, <3>1 DEF OwnRequest
  <2>. QED
    BY <1>1, <1>2, <1>3, <1>6, <1>7, <2>1, <2>2, <2>3, <2>4, ServedSerial
<1>8. CASE UNCHANGED objects /\ Finish(q)
  <2>1. (FreshRequest(Idle))' /\ (OwnRequest(Idle))'
    BY DEF FreshRequest, OwnRequest
  <2>. QED
    BY <1>1, <1>2, <1>3, <1>6, <1>8, <2>1, ServedSerial DEF Finish
<1>. QED
  BY <1>1, <1>7, <1>8

LEMMA TidySerial == ASSUME IInv, IInv', Serial, NEW q \in Slots, Tidy(q)  PROVE  Serial'
<1>. PICK r : r = requests[q]
  OBVIOUS
<1>. PICK x : x = [name |-> r.name, prefixes |-> 0]
  OBVIOUS
<1>1. /\ r.at = "tidy"
      /\ deleteFile(r.name, TRUE)
      /\ UNCHANGED <<users, removed, jobs, wait, workload, crashes>>
      /\ Serve(q, [r EXCEPT !.at = "select", !.entity.avatar = x])
  BY DEF Tidy
<1>2. r \in Request /\ r # Idle /\ GoodWith(r, r.seen) /\ r.entity \in Row
      /\ users' \in [Users -> Row]
  BY <1>1, InSlot DEF Steps, IInv, StoreOK
<1>3. /\ \A p \in Slots : p # q => requests[p] = Idle
      /\ FreshRequest(r) /\ (OwnNames => OwnRequest(r))
      /\ \A u \in Users : LastTells(u)
      /\ OwnNames => \A u \in Users : Plain(u) /\ (Stored(u) \/ r.op = "remove")
  BY <1>1, TheRequest DEF Steps
<1>4. OwnNames => r.op = "avatar"
  BY <1>1, <1>2, <1>3 DEF OwnRequest
<1>5. \A n : PathKey(n) \in objects => PathKey(n) \in objects'
  <2>1. \A n : PathKey(n) # TempFolder
    BY DEF PathKey, TempFolder
  <2>. QED
    BY <1>1, <2>1 DEF deleteFile, DeleteKey
<1>6. /\ \A u \in Users : LastTells(u)'
      /\ OwnNames => \A u \in Users : Plain(u)' /\ Stored(u)'
  BY <1>1, <1>3, <1>4, <1>5, TellsStays, OwnStays
<1>7. x \in Avatar
  <2>1. r.name \in Names /\ 0 \in Nat
    BY <1>1, <1>2 DEF GoodWith
  <2>. QED
    BY <2>1 DEF Avatar
<1>8. PICK e : e = [r.entity EXCEPT !.avatar = x]
  OBVIOUS
<1>9. e \in Row /\ e.status = r.entity.status /\ e.avatar = x
  BY <1>2, <1>7, <1>8, AvatarOfRow
<1>10. PICK s : s = Taken(r, "select", e)
  OBVIOUS
<1>11. /\ s \in Request /\ s.at = "select" /\ s.op = r.op /\ s.name = r.name /\ s.user = r.user
       /\ s.entity = e /\ s.saves = r.saves
  <2>1. Continues(s, r, "select") /\ s.entity = e /\ s.saves = r.saves
    BY <1>2, <1>9, <1>10, TakesEntity DEF Steps
  <2>. QED
    BY <2>1 DEF Continues
<1>12. Serve(q, s)
  BY <1>1, <1>8, <1>10 DEF Taken
<1>13. (FreshRequest(s))'
  BY <1>1, <1>2, <1>3, <1>9, <1>11 DEF FreshRequest
<1>14. OwnNames => (OwnRequest(s))'
  BY <1>1, <1>2, <1>3, <1>4, <1>5, <1>9, <1>11 DEF OwnRequest
<1>. QED
  BY <1>1, <1>2, <1>3, <1>6, <1>11, <1>12, <1>13, <1>14, ServedSerial

LEMMA DeleteSerial == ASSUME IInv, IInv', Serial, NEW q \in Slots, Delete(q)  PROVE  Serial'
<1>. PICK r : r = requests[q]
  OBVIOUS
<1>1. /\ r.at = "delete"
      /\ deleteFile(r.name, FALSE)
      /\ UNCHANGED <<users, jobs, wait, workload, crashes>>
      /\ Serve(q, [r EXCEPT !.at = "select", !.entity.avatar = None])
  BY DEF Delete
<1>2. r \in Request /\ r # Idle /\ r.entity \in Row /\ users' \in [Users -> Row]
      /\ r.user \in Users
  BY <1>1, InSlot DEF Steps, IInv, StoreOK
<1>3. /\ \A p \in Slots : p # q => requests[p] = Idle
      /\ FreshRequest(r) /\ (OwnNames => OwnRequest(r))
      /\ \A u \in Users : LastTells(u)
      /\ OwnNames => \A u \in Users : Plain(u) /\ (Stored(u) \/ r.user = u)
  BY <1>1, TheRequest DEF Steps
<1>4. OwnNames => r.op = "remove" /\ r.name \in workload.names[r.user]
  BY <1>1, <1>2, <1>3 DEF OwnRequest
<1>5. \A n : n # r.name /\ PathKey(n) \in objects => PathKey(n) \in objects'
  <2>1. \A n : n # r.name => PathKey(n) # PathKey(r.name)
    BY DEF PathKey
  <2>. QED
    BY <1>1, <2>1 DEF deleteFile, DeleteKey
<1>6. \A u \in Users : LastTells(u)'
  BY <1>1, <1>3, TellsStays
<1>7. ASSUME OwnNames, NEW u \in Users
      PROVE  Plain(u)' /\ (Stored(u)' \/ r.user = u)
  <2>1. Plain(u)'
    BY <1>1, <1>3, <1>7 DEF Plain
  <2>2. CASE r.user # u
    <3>1. users[u].avatar # None => users[u].avatar.name # r.name
      BY <1>2, <1>3, <1>4, <1>7, <2>2 DEF OwnNames, Plain
    <3>. QED
      BY <1>1, <1>3, <1>5, <1>7, <2>1, <2>2, <3>1 DEF Stored
  <2>. QED
    BY <2>1, <2>2
<1>8. PICK e : e = [r.entity EXCEPT !.avatar = None]
  OBVIOUS
<1>9. e \in Row /\ e.status = r.entity.status /\ e.avatar = None
  BY <1>2, <1>8, AvatarOfRow DEF Avatar
<1>10. PICK s : s = Taken(r, "select", e)
  OBVIOUS
<1>11. /\ s \in Request /\ s.at = "select" /\ s.op = r.op /\ s.name = r.name /\ s.user = r.user
       /\ s.entity = e /\ s.saves = r.saves /\ s # Idle
  <2>1. Continues(s, r, "select") /\ s.entity = e /\ s.saves = r.saves
    BY <1>2, <1>9, <1>10, TakesEntity DEF Steps
  <2>. QED
    BY <2>1 DEF Continues, Idle
<1>12. Serve(q, s)
  BY <1>1, <1>8, <1>10 DEF Taken
<1>13. (FreshRequest(s))'
  BY <1>1, <1>2, <1>3, <1>9, <1>11 DEF FreshRequest
<1>14. OwnNames => (OwnRequest(s))'
  BY <1>1, <1>2, <1>3, <1>4, <1>9, <1>11 DEF OwnRequest
<1>15. OwnNames => \A u \in Users : Plain(u)' /\ (Stored(u)' \/ (s # Idle /\ s.op = "remove" /\ s.user = u))
  BY <1>4, <1>7, <1>11
<1>16. \A p \in Slots : p # q => requests[p] = Idle
  BY <1>3
<1>17. UNCHANGED workload
  BY <1>1
<1>. QED
  BY <1>2, <1>6, <1>11, <1>12, <1>13, <1>14, <1>15, <1>16, <1>17, ServedSerial

LEMMA SaveSelectSerial == ASSUME IInv, IInv', Serial, NEW q \in Slots, SaveSelect(q)  PROVE  Serial'
<1>. PICK r : r = requests[q]
  OBVIOUS
<1>. PICK c : c = Changed(r.entity, users[r.user])
  OBVIOUS
<1>1. /\ r.at = "select"
      /\ UNCHANGED <<users, objects, removed, jobs, wait, workload, crashes>>
      /\ Serve(q, [r EXCEPT !.at = "write", !.changed = c])
  BY DEF SaveSelect
<1>2. r \in Request /\ r # Idle /\ users' \in [Users -> Row]
  BY <1>1, InSlot DEF Steps, IInv, StoreOK
<1>3. /\ \A p \in Slots : p # q => requests[p] = Idle
      /\ FreshRequest(r) /\ (OwnNames => OwnRequest(r))
      /\ \A u \in Users : LastTells(u)
      /\ OwnNames => \A u \in Users : Plain(u) /\ (Stored(u) \/ (r.op = "remove" /\ r.user = u))
  BY <1>1, TheRequest DEF Steps
<1>4. \A u \in Users : LastTells(u)'
  BY <1>1, <1>3, TellsStays
<1>5. \A u \in Users : (Plain(u) => Plain(u)') /\ (Stored(u) => Stored(u)')
  BY <1>1, OwnStays
<1>6. PICK s : s = Compared(r, "write", c)
  OBVIOUS
<1>7. c \in SUBSET Columns
  BY DEF Changed
<1>8. /\ s \in Request /\ s.at = "write" /\ s.op = r.op /\ s.name = r.name /\ s.user = r.user
      /\ s.entity = r.entity /\ s.saves = r.saves /\ s.changed = c /\ s # Idle
  <2>1. Continues(s, r, "write") /\ s.entity = r.entity /\ s.saves = r.saves /\ s.changed = c
    BY <1>2, <1>6, <1>7, Compares DEF Steps
  <2>. QED
    BY <2>1 DEF Continues, Idle
<1>9. Serve(q, s)
  BY <1>1, <1>6 DEF Compared
<1>10. (FreshRequest(s))'
  <2>1. Changed(s.entity, users[s.user])' = c
    BY <1>1, <1>8
  <2>. QED
    BY <1>1, <1>2, <1>3, <1>8, <2>1 DEF FreshRequest
<1>11. OwnNames => (OwnRequest(s))'
  BY <1>1, <1>2, <1>3, <1>8 DEF OwnRequest
<1>12. OwnNames => \A u \in Users : Plain(u)' /\ (Stored(u)' \/ (s # Idle /\ s.op = "remove" /\ s.user = u))
  BY <1>3, <1>5, <1>8
<1>13. \A p \in Slots : p # q => requests[p] = Idle
  BY <1>3
<1>14. UNCHANGED workload
  BY <1>1
<1>. QED
  BY <1>2, <1>4, <1>8, <1>9, <1>10, <1>11, <1>12, <1>13, <1>14, ServedSerial

(* Only what is no avatar is read as none. *)
LEMMA FromNone == ASSUME NEW avatar \in Avatar, From(avatar) = None  PROVE  avatar = None
<1>1. CASE avatar # None
  <2>1. avatar \in [name : Names, prefixes : Nat]
    BY <1>1 DEF Avatar
  <2>2. PICK n \in Names, k \in Nat : avatar = [name |-> n, prefixes |-> k]
    BY <2>1
  <2>3. None = [name |-> n, prefixes |-> k + 1]
    BY <1>1, <2>2 DEF From
  <2>4. "name" \in DOMAIN None
    BY <2>3
  <2>. QED
    BY <2>4 DEF None
<1>. QED
  BY <1>1

(* The avatar that is written: the one there was, none, or the one just copied. *)
LEMMA AvatarWritten ==
  ASSUME NEW r \in Request, r # Idle, OwnRequest(r), r.at = "write",
         NEW row \in Row, row = users[r.user], r.entity \in Row,
         NEW w \in Avatar, w = IF r.entity.avatar = From(row.avatar) THEN row.avatar ELSE r.entity.avatar
  PROVE  \/ w = None
         \/ w = row.avatar /\ r.op # "remove"
         \/ /\ w.prefixes = 0 /\ w.name \in workload.names[r.user]
            /\ PathKey(w.name) \in objects
<1>. row.avatar \in Avatar
  BY DEF Row
<1>1. CASE r.op = "avatar"
  BY <1>1 DEF OwnRequest
<1>2. CASE r.op = "remove"
  <2>1. r.entity.avatar = None
    BY <1>2 DEF OwnRequest
  <2>. QED
    BY <2>1, FromNone
<1>3. CASE r.op \notin {"avatar", "remove"}
  BY <1>3 DEF OwnRequest
<1>. QED
  BY <1>1, <1>2, <1>3

LEMMA SaveWriteSerial == ASSUME IInv, IInv', Serial, NEW q \in Slots, SaveWrite(q)  PROVE  Serial'
<1>. PICK r : r = requests[q]
  OBVIOUS
<1>1. /\ r.at = "write"
      /\ UNCHANGED <<objects, removed, jobs, wait, workload, crashes>>
      /\ \/ /\ users' = [users EXCEPT ![r.user] = Written(users[r.user], r.entity, r.changed)]
            /\ IF r.saves = 2 THEN Serve(q, [r EXCEPT !.at = "notify"]) ELSE Finish(q)
         \/ r.op \in {"avatar", "update"} /\ UNCHANGED users /\ Finish(q)
  BY DEF SaveWrite
<1>2. r \in Request /\ r # Idle /\ r.user \in Users /\ r.entity \in Row
  BY <1>1, InSlot DEF Steps
<1>3. users \in [Users -> Row] /\ users' \in [Users -> Row]
  BY DEF IInv, StoreOK
<1>4. /\ \A p \in Slots : p # q => requests[p] = Idle
      /\ FreshRequest(r) /\ (OwnNames => OwnRequest(r))
      /\ \A u \in Users : LastTells(u)
      /\ OwnNames => \A u \in Users : Plain(u) /\ (Stored(u) \/ (r.op = "remove" /\ r.user = u))
  BY <1>1, TheRequest DEF Steps
<1>5. (FreshRequest(Idle))' /\ (OwnRequest(Idle))' /\ Idle \in Request \cup {Idle}
  BY DEF FreshRequest, OwnRequest
<1>6. \A p \in Slots : p # q => requests[p] = Idle
  BY <1>4
<1>7. UNCHANGED workload
  BY <1>1
<1>8. CASE r.op \in {"avatar", "update"} /\ UNCHANGED users /\ Finish(q)
  <2>1. \A u \in Users : LastTells(u)'
    BY <1>1, <1>4, <1>8, TellsStays
  <2>2. \A u \in Users : (Plain(u) => Plain(u)') /\ (Stored(u) => Stored(u)')
    BY <1>1, <1>8, OwnStays
  <2>3. OwnNames => \A u \in Users : Plain(u)' /\ Stored(u)'
    BY <1>4, <1>8, <2>2
  <2>4. Serve(q, Idle)
    BY <1>8 DEF Finish
  <2>. QED
    BY <1>3, <1>5, <1>6, <1>7, <2>1, <2>3, <2>4, ServedSerial
<1>9. CASE /\ users' = [users EXCEPT ![r.user] = Written(users[r.user], r.entity, r.changed)]
           /\ IF r.saves = 2 THEN Serve(q, [r EXCEPT !.at = "notify"]) ELSE Finish(q)
  <2>1. PICK row \in Row : row = users[r.user]
    BY <1>2, <1>3
  <2>2. PICK w : w = Written(row, r.entity, Changed(r.entity, row))
    OBVIOUS
  <2>3. /\ w.status = r.entity.status
        /\ w.avatar = IF r.entity.avatar = From(row.avatar) THEN row.avatar ELSE r.entity.avatar
    BY <1>2, <2>1, <2>2, WrittenFresh
  <2>4. r.changed = Changed(r.entity, row)
    BY <1>1, <1>2, <1>4, <2>1 DEF FreshRequest
  <2>5. users' = [users EXCEPT ![r.user] = w]
    BY <1>9, <2>1, <2>2, <2>4
  <2>6. users'[r.user] = w /\ w \in Row /\ \A u \in Users : u # r.user => users'[u] = users[u]
    BY <1>2, <1>3, <2>5
  <2>7. \A u \in Users : users'[u].status = users[u].status => LastTells(u)'
    BY <1>1, <1>4, TellsStays
  <2>8. OwnNames => \A u \in Users : Plain(u)' /\ Stored(u)'
    <3>. SUFFICES ASSUME OwnNames, NEW u \in Users  PROVE  Plain(u)' /\ Stored(u)'
      OBVIOUS
    <3>1. CASE u # r.user
      <4>1. Plain(u) /\ Stored(u)
        BY <1>4, <3>1
      <4>. QED
        BY <1>1, <2>6, <3>1, <4>1, OwnStays
    <3>2. CASE u = r.user
      <4>1. w.avatar \in Avatar
        BY <2>6 DEF Row
      <4>2. \/ w.avatar = None
            \/ w.avatar = row.avatar /\ r.op # "remove"
            \/ /\ w.avatar.prefixes = 0 /\ w.avatar.name \in workload.names[r.user]
               /\ PathKey(w.avatar.name) \in objects
        BY <1>1, <1>2, <1>4, <2>1, <2>3, <4>1, AvatarWritten
      <4>3. r.op # "remove" => Plain(u) /\ Stored(u)
        BY <1>4
      <4>4. users'[u].avatar = w.avatar /\ users[u].avatar = row.avatar
        BY <2>1, <2>6, <3>2
      <4>. QED
        BY <1>1, <3>2, <4>2, <4>3, <4>4 DEF Plain, Stored
    <3>. QED
      BY <3>1, <3>2
  <2>9. CASE r.saves = 2
    <3>1. PICK s : s = [r EXCEPT !.at = "notify"]
      OBVIOUS
    <3>2. /\ s \in Request /\ s.at = "notify" /\ s.op = r.op /\ s.name = r.name /\ s.user = r.user
          /\ s.entity = r.entity /\ s.saves = r.saves /\ s # Idle
      <4>1. Continues(s, r, "notify") /\ s.entity = r.entity /\ s.saves = r.saves
        BY <1>2, <3>1, MovesOn DEF Steps
      <4>. QED
        BY <4>1 DEF Continues, Idle
    <3>3. (FreshRequest(s))'
      BY <2>3, <2>6, <3>2 DEF FreshRequest
    <3>4. OwnNames => (OwnRequest(s))'
      <4>. SUFFICES ASSUME OwnNames  PROVE  (OwnRequest(s))'
        OBVIOUS
      <4>1. r.op \notin {"avatar", "remove"} /\ r.entity.avatar \in {From(row.avatar), None}
        BY <1>2, <1>4, <2>1, <2>9 DEF OwnRequest
      <4>2. r.entity.avatar \in {From(w.avatar), None}
        BY <2>3, <4>1
      <4>. QED
        BY <2>6, <2>9, <3>2, <4>1, <4>2 DEF OwnRequest
    <3>5. \A u \in Users : LastTells(u)' \/ (s # Idle /\ s.at = "notify" /\ s.user = u)
      BY <2>6, <2>7, <3>2
    <3>6. Serve(q, s)
      BY <1>9, <2>9, <3>1
    <3>. QED
      BY <1>3, <1>6, <1>7, <2>8, <3>2, <3>3, <3>4, <3>5, <3>6, ServedSerial
  <2>10. CASE r.saves # 2
    <3>1. r.saves = 1
      BY <1>2, <2>10 DEF Request
    <3>2. w.status = row.status
      BY <1>2, <1>4, <2>1, <2>3, <3>1 DEF FreshRequest
    <3>3. \A u \in Users : LastTells(u)'
      BY <2>1, <2>6, <2>7, <3>2
    <3>4. Serve(q, Idle)
      BY <1>9, <2>10 DEF Finish
    <3>. QED
      BY <1>3, <1>5, <1>6, <1>7, <2>8, <3>3, <3>4, ServedSerial
  <2>. QED
    BY <2>9, <2>10
<1>. QED
  BY <1>1, <1>8, <1>9

(* The mail of the one request that announces is the last, and true. *)
LEMMA NotifySerial == ASSUME IInv, IInv', Serial, NEW q \in Slots, Notify(q)  PROVE  Serial'
<1>. PICK r : r = requests[q]
  OBVIOUS
<1>1. /\ r.at = "notify"
      /\ addToEmailsQueue(Notice(r.op), r.user)
      /\ UNCHANGED <<users, objects, removed, wait, workload, crashes>>
      /\ Serve(q, [r EXCEPT !.at = "select", !.saves = 1])
  BY DEF Notify
<1>2. r \in Request /\ r # Idle /\ r.user \in Users /\ GoodWith(r, r.seen)
      /\ users' \in [Users -> Row]
  BY <1>1, InSlot DEF Steps, IInv, StoreOK
<1>3. /\ \A p \in Slots : p # q => requests[p] = Idle
      /\ FreshRequest(r) /\ (OwnNames => OwnRequest(r))
      /\ \A u \in Users : LastTells(u) \/ r.user = u
      /\ OwnNames => \A u \in Users : Plain(u) /\ (Stored(u) \/ (r.op = "remove" /\ r.user = u))
  BY <1>1, TheRequest DEF Steps
<1>4. Announced(Notice(r.op)) = users[r.user].status
  BY <1>1, <1>2, <1>3 DEF GoodWith, FreshRequest
<1>5. PICK new : new = NewJob(Notice(r.op), r.user)
  OBVIOUS
<1>6. /\ JobIds = 1..Len(jobs) /\ Len(jobs) \in Nat
      /\ JobIds' = 1..(Len(jobs) + 1)
      /\ jobs'[Len(jobs) + 1] = new
      /\ \A i \in JobIds : jobs'[i] = jobs[i]
  <2>1. jobs' = Append(jobs, new)
    BY <1>1, <1>5 DEF addToEmailsQueue, NewJob
  <2>2. JobIds = 1..Len(jobs) /\ Len(jobs) \in Nat /\ jobs \in Seq(Job)
    BY JobFacts DEF IInv, JobsOK
  <2>3. new \in Job
    <3>1. Notice(r.op) \in Kinds /\ r.user \in Recipients /\ 0 \in Nat
      BY <1>2, NoticeIsKind DEF Users
    <3>. QED
      BY <1>5, <3>1 DEF NewJob, Job
  <2>4. /\ jobs' \in Seq(Job) /\ Len(jobs') = Len(jobs) + 1
        /\ \A i \in 1..Len(jobs) : jobs'[i] = jobs[i]
        /\ jobs'[Len(jobs) + 1] = new
    BY <2>1, <2>2, <2>3, AppendProperties
  <2>5. JobIds' = 1..(Len(jobs) + 1)
    BY <2>4, LenProperties DEF JobIds
  <2>. QED
    BY <2>2, <2>4, <2>5
<1>7. PICK n \in Nat : n = Len(jobs)
  BY <1>6
<1>8. /\ n + 1 \in JobIds' /\ \A i \in JobIds : i <= n /\ ~(n + 1 <= i)
      /\ \A i \in JobIds' : i \in JobIds \/ i = n + 1
      /\ JobIds \subseteq JobIds'
  BY <1>6, <1>7
<1>9. jobs'[n + 1].to = r.user /\ jobs'[n + 1].kind = Notice(r.op)
  BY <1>5, <1>6, <1>7 DEF NewJob
<1>10. ASSUME NEW u \in Users
       PROVE  LastTells(u)'
  <2>1. CASE u = r.user
    <3>1. n + 1 \in Notices(u)'
      BY <1>8, <1>9, <2>1 DEF Notices
    <3>2. \A i \in JobIds' : (\A j \in Notices(u)' : j <= i) => i = n + 1
      BY <1>8, <3>1
    <3>3. Announced(jobs'[n + 1].kind) = users'[u].status
      BY <1>1, <1>4, <1>9, <2>1
    <3>. QED
      BY <3>2, <3>3 DEF LastTells
  <2>2. CASE u # r.user
    <3>1. Notices(u)' = Notices(u)
      BY <1>6, <1>8, <1>9, <2>2 DEF Notices
    <3>2. LastTells(u) /\ Notices(u) \subseteq JobIds
      BY <1>3, <2>2 DEF Notices
    <3>. QED
      BY <1>1, <1>6, <3>1, <3>2 DEF LastTells
  <2>. QED
    BY <2>1, <2>2
<1>11. \A u \in Users : (Plain(u) => Plain(u)') /\ (Stored(u) => Stored(u)')
  BY <1>1, OwnStays
<1>12. PICK s : s = Told(r, "select")
  OBVIOUS
<1>13. /\ s \in Request /\ s.at = "select" /\ s.op = r.op /\ s.name = r.name /\ s.user = r.user
       /\ s.entity = r.entity /\ s.saves = 1 /\ s # Idle
  <2>1. Continues(s, r, "select") /\ s.entity = r.entity /\ s.saves = 1
    BY <1>2, <1>12, Announces DEF Steps
  <2>. QED
    BY <2>1 DEF Continues, Idle
<1>14. Serve(q, s)
  BY <1>1, <1>12 DEF Told
<1>15. (FreshRequest(s))'
  BY <1>1, <1>2, <1>3, <1>13 DEF FreshRequest
<1>16. OwnNames => (OwnRequest(s))'
  BY <1>1, <1>2, <1>3, <1>13 DEF OwnRequest
<1>17. OwnNames => \A u \in Users : Plain(u)' /\ (Stored(u)' \/ (s # Idle /\ s.op = "remove" /\ s.user = u))
  BY <1>3, <1>11, <1>13
<1>18. \A p \in Slots : p # q => requests[p] = Idle
  BY <1>3
<1>19. UNCHANGED workload
  BY <1>1
<1>. QED
  BY <1>2, <1>10, <1>13, <1>14, <1>15, <1>16, <1>17, <1>18, <1>19, ServedSerial

-----------------------------------------------------------------------------
(* The surroundings *)

(* The queue does not change what a mail says, or to whom. *)
LEMMA QueueKeepsMails ==
  ASSUME IInv, Queue
  PROVE  /\ JobIds' = JobIds
         /\ \A i \in JobIds : jobs'[i].kind = jobs[i].kind /\ jobs'[i].to = jobs[i].to
<1>1. \A i \in JobIds : jobs[i] \in Job
  BY JobFacts DEF IInv
<1>2. ASSUME NEW i \in JobIds, NEW x \in States, jobs' = [jobs EXCEPT ![i].state = x]
      PROVE  \A j \in JobIds : jobs'[j].kind = jobs[j].kind /\ jobs'[j].to = jobs[j].to
  BY <1>1, <1>2 DEF Job, JobIds
<1>3. CASE Take
  <2>1. Head(wait) \in JobIds
    BY <1>3, HeadTailProperties DEF Take, IInv, WaitOK
  <2>. QED
    BY <1>2, <1>3, <2>1, QueueKeepsIds DEF Take, States
<1>4. ASSUME NEW i \in JobIds, Process(i)
      PROVE  \A j \in JobIds : jobs'[j].kind = jobs[j].kind /\ jobs'[j].to = jobs[j].to
  <2>1. CASE Mail(i)
    BY <1>1, <2>1 DEF Mail, Job, JobIds
  <2>2. CASE Recover(i) /\ jobs[i].stalls < MaxStalls
    <3>1. jobs' = [jobs EXCEPT ![i] = Restalled(jobs[i])]
      BY <2>2 DEF Recover, Restalled
    <3>2. jobs[i] \in Job
      BY <1>1
    <3>3. Restalled(jobs[i]).kind = jobs[i].kind /\ Restalled(jobs[i]).to = jobs[i].to
      <4>1. PICK k : k = jobs[i].stalls + 1
        OBVIOUS
      <4>2. Restalled(jobs[i]) = [jobs[i] EXCEPT !.stalls = k, !.state = "waiting"]
        BY <4>1 DEF Restalled
      <4>. QED
        BY <3>2, <4>2 DEF Job
    <3>. QED
      BY <3>1, <3>3 DEF JobIds
  <2>3. CASE Recover(i) /\ ~(jobs[i].stalls < MaxStalls)
    BY <1>2, <2>3 DEF Recover, States
  <2>4. CASE Arrive(i) \/ Fail(i) \/ Complete(i)
    BY <1>2, <2>4 DEF Arrive, Fail, Complete, States
  <2>. QED
    BY <1>4, <2>1, <2>2, <2>3, <2>4 DEF Process
<1>. QED
  BY <1>3, <1>4, QueueKeepsIds DEF Queue

(* Steps that neither serve a request nor write a row. *)
LEMMA SurroundingsSerial ==
  ASSUME Serial, UNCHANGED <<users, requests, workload>>, JobIds' = JobIds,
         \A i \in JobIds : jobs'[i].kind = jobs[i].kind /\ jobs'[i].to = jobs[i].to,
         \A n : PathKey(n) \in objects => PathKey(n) \in objects'
  PROVE  Serial'
<1>1. Alone' /\ RequestsFresh'
  BY DEF Serial, StatusSerial, Alone, RequestsFresh, FreshRequest, Changed
<1>2. ASSUME NEW u \in Users, LastTells(u)
      PROVE  LastTells(u)'
  <2>1. Notices(u)' = Notices(u)
    BY DEF Notices
  <2>. QED
    BY <1>2, <2>1 DEF LastTells
<1>3. NoticesFresh'
  BY <1>2 DEF Serial, StatusSerial, NoticesFresh, Notifying
<1>4. RequestsOwn => RequestsOwn'
  BY DEF RequestsOwn, OwnRequest
<1>5. AvatarsOwn => AvatarsOwn'
  BY OwnStays DEF AvatarsOwn, OwnAvatar, Removing
<1>6. OwnNames' = OwnNames
  BY DEF OwnNames
<1>. QED
  BY <1>1, <1>3, <1>4, <1>5, <1>6 DEF Serial, StatusSerial, AvatarSerial

LEMMA NextSerial ==
  ASSUME IInv, IInv', IsFiniteSet(Slots), OneAtATime, Serial, [Next]_vars
  PROVE  Serial'
<1>1. ASSUME NEW q \in Slots, Begin(q)
      PROVE  Serial'
  BY <1>1, BeginSerial
<1>2. ASSUME NEW q \in Slots, Continue(q)
      PROVE  Serial'
  BY <1>2, SyncSerial, TidySerial, DeleteSerial, SaveSelectSerial, SaveWriteSerial, NotifySerial
     DEF Continue
<1>3. ASSUME NEW n \in Names, Upload(n)
      PROVE  Serial'
  <2>1. UNCHANGED <<users, requests, workload, jobs>> /\ objects \subseteq objects'
    BY <1>3 DEF Upload, generateUrl
  <2>2. JobIds' = JobIds
    BY <2>1 DEF JobIds
  <2>. QED
    BY <2>1, <2>2, SurroundingsSerial
<1>4. CASE Queue
  <2>1. UNCHANGED <<users, requests, workload, objects>>
    BY <1>4 DEF Queue
  <2>. QED
    BY <1>4, <2>1, QueueKeepsMails, SurroundingsSerial
<1>5. ~ Crash
  <2>1. workload.crashes = 0 /\ crashes \in 0..workload.crashes
    BY DEF OneAtATime, IInv, BoundsOK
  <2>. QED
    BY <2>1 DEF Crash
<1>6. CASE UNCHANGED vars
  <2>1. UNCHANGED <<users, requests, workload, objects, jobs>>
    BY <1>6 DEF vars
  <2>2. JobIds' = JobIds
    BY <2>1 DEF JobIds
  <2>. QED
    BY <2>1, <2>2, SurroundingsSerial
<1>. QED
  BY <1>1, <1>2, <1>3, <1>4, <1>5, <1>6 DEF Next

-----------------------------------------------------------------------------
(* What holds as long as nothing overlaps *)

SInv == OneAtATime => Serial

LEMMA InitSerial == Init => SInv
<1>. SUFFICES ASSUME Init  PROVE  Serial
  BY DEF SInv
<1>1. \A q \in Slots : requests[q] = Idle
  BY DEF Init
<1>2. \A u \in Users : users[u].avatar = None
  BY DEF Init
<1>3. JobIds = {}
  BY DEF Init, JobIds
<1>4. StatusSerial
  BY <1>1, <1>3 DEF StatusSerial, Alone, RequestsFresh, FreshRequest, NoticesFresh, LastTells
<1>5. AvatarSerial
  BY <1>1, <1>2 DEF AvatarSerial, RequestsOwn, OwnRequest, AvatarsOwn, OwnAvatar, Plain, Stored
<1>. QED
  BY <1>4, <1>5 DEF Serial

LEMMA SInvHolds == ASSUME IsFiniteSet(Slots)  PROVE  Spec => [](IInv /\ SInv)
<1>1. IInv /\ IInv' /\ SInv /\ [Next]_vars => SInv'
  <2>. SUFFICES ASSUME IInv, IInv', SInv, [Next]_vars, OneAtATime'  PROVE  Serial'
    BY DEF SInv
  <2>1. UNCHANGED workload
    BY DEF Next, Begin, Continue, vars, UpdateAvatar, Update, RemoveAvatar, ChangeStatus,
           Sync, Tidy, Delete, SaveSelect, SaveWrite, Notify, Upload, Queue, Crash
  <2>2. OneAtATime
    BY <2>1 DEF OneAtATime
  <2>. QED
    BY <2>2, NextSerial DEF SInv
<1>. QED
  BY <1>1, IInvHolds, InitSerial, PTL DEF Spec

(* One request after the other, and no file of another user's: an avatar is a   *)
(* plain name of an object that exists, or a removal is going on.               *)
THEOREM AvatarsAreStored == ASSUME IsFiniteSet(Slots)  PROVE  Spec => []SerialAvatars
<1>1. SInv => SerialAvatars
  BY DEF SInv, SerialAvatars, Serial, AvatarSerial, AvatarsOwn, OwnAvatar, Plain, Stored, Removing
<1>. QED
  BY <1>1, SInvHolds, PTL

(* One request after the other: the last mail about a user says what the status *)
(* is whenever no request is being served.                                      *)
THEOREM LastNoticesAreTrue == ASSUME IsFiniteSet(Slots)  PROVE  Spec => []SerialNotices
<1>1. IInv /\ SInv => SerialNotices
  <2>. SUFFICES ASSUME IInv, Serial, OneAtATime, Busy = 0
                PROVE  \A u \in Users : LastTells(u)
    BY DEF SInv, SerialNotices, LastTells
  <2>1. \A q \in Slots : requests[q] = Idle
    BY NothingBusy DEF OneAtATime
  <2>2. \A u \in Users : ~ Notifying(u)
    BY <2>1 DEF Notifying, Idle
  <2>. QED
    BY <2>2 DEF Serial, StatusSerial, NoticesFresh
<1>. QED
  BY <1>1, SInvHolds, PTL

-----------------------------------------------------------------------------
(* Mails wait for their turn *)

(* It was never taken: then no job that was added later was, either.            *)
Fresh(i) == jobs[i].stalls = 0 /\ jobs[i].state \in {"adding", "waiting"}

Going == InState("active") \cup InState("mailed")
Interrupted == {i \in JobIds : jobs[i].stalls > 0 \/ jobs[i].state = "stalled"}

(* Commands leave in their order. *)
AddingOK ==
  \A i \in JobIds : jobs[i].state = "adding" =>
    /\ jobs[i].stalls = 0
    /\ \A j \in JobIds : i < j => jobs[j].state = "adding"

FreshOK == \A i, j \in JobIds : Fresh(i) /\ i < j => Fresh(j) \/ jobs[j].state = "lost"

(* First those that stalled, then the others in their order. *)
ListOK ==
  \A k, l \in DOMAIN wait :
    k < l /\ jobs[wait[k]].stalls = 0 => jobs[wait[l]].stalls = 0 /\ wait[k] < wait[l]

OrderOK == AddingOK /\ FreshOK /\ ListOK

LanesOK ==
  /\ Cardinality(Going) <= Processors
  /\ Cardinality(Interrupted) <= Processors * crashes

LEMMA JobNumbers ==
  ASSUME JobsOK
  PROVE  \A i \in JobIds : /\ i \in Nat
                           /\ jobs[i].stalls \in Nat /\ jobs[i].mails \in Nat
                           /\ jobs[i].state \in States
                           /\ jobs[i].kind \in Kinds /\ jobs[i].to \in Recipients
<1>1. \A i \in JobIds : i \in Nat
  BY JobFacts
<1>2. \A i \in JobIds : jobs[i] \in Job
  BY JobFacts
<1>. QED
  BY <1>1, <1>2 DEF Job, States

LEMMA SetsAreFinite ==
  ASSUME JobsOK, NEW S \in SUBSET JobIds
  PROVE  IsFiniteSet(S) /\ Cardinality(S) \in Nat
<1>1. IsFiniteSet(JobIds)
  BY JobFacts, FS_Interval
<1>2. IsFiniteSet(S)
  BY <1>1, FS_Subset
<1>. QED
  BY <1>2, FS_CardinalityType

(* Job i becomes another, and no other does. *)
Becomes(i, state, stalls, mails) ==
  /\ JobIds' = JobIds
  /\ \A j \in JobIds : j # i => jobs'[j] = jobs[j]
  /\ jobs'[i].kind = jobs[i].kind /\ jobs'[i].to = jobs[i].to
  /\ jobs'[i].state = state /\ jobs'[i].stalls = stalls /\ jobs'[i].mails = mails

LEMMA OneBecomes ==
  ASSUME JobsOK, NEW i \in JobIds, NEW new, jobs' = [jobs EXCEPT ![i] = new],
         new.kind = jobs[i].kind, new.to = jobs[i].to
  PROVE  Becomes(i, new.state, new.stalls, new.mails)
  BY DEF Becomes, JobIds

LEMMA StateBecomes ==
  ASSUME JobsOK, NEW i \in JobIds, NEW state, jobs' = [jobs EXCEPT ![i].state = state]
  PROVE  Becomes(i, state, jobs[i].stalls, jobs[i].mails)
<1>1. PICK job : job = jobs[i]
  OBVIOUS
<1>2. job \in Job
  BY <1>1, JobFacts
<1>3. PICK k \in Kinds, to \in Recipients, n \in Nat, m \in Nat, x \in States :
        job = [kind |-> k, to |-> to, stalls |-> n, mails |-> m, state |-> x]
  BY <1>2, JobFields
<1>4. PICK new : new = [job EXCEPT !.state = state]
  OBVIOUS
<1>5. new = [kind |-> k, to |-> to, stalls |-> n, mails |-> m, state |-> state]
  BY <1>3, <1>4
<1>6. jobs' = [jobs EXCEPT ![i] = new]
  BY <1>1, <1>4
<1>7. new.kind = jobs[i].kind /\ new.to = jobs[i].to
  BY <1>1, <1>3, <1>5
<1>8. Becomes(i, new.state, new.stalls, new.mails)
  BY <1>6, <1>7, OneBecomes
<1>9. new.state = state /\ new.stalls = jobs[i].stalls /\ new.mails = jobs[i].mails
  BY <1>1, <1>3, <1>5
<1>. QED
  BY <1>8, <1>9

(* Each action of the queue is one job becoming another. *)
LEMMA MailBecomes ==
  ASSUME JobsOK, NEW i \in JobIds, Mail(i)
  PROVE  /\ jobs[i].state = "active" /\ UNCHANGED wait
         /\ Becomes(i, "mailed", jobs[i].stalls, jobs[i].mails + 1)
<1>1. PICK job : job = jobs[i]
  OBVIOUS
<1>2. job \in Job
  BY <1>1, JobFacts
<1>3. PICK k \in Kinds, to \in Recipients, n \in Nat, m \in Nat, x \in States :
        job = [kind |-> k, to |-> to, stalls |-> n, mails |-> m, state |-> x]
  BY <1>2, JobFields
<1>4. PICK l : l = job.mails + 1
  OBVIOUS
<1>5. PICK new : new = [job EXCEPT !.state = "mailed", !.mails = l]
  OBVIOUS
<1>6. new = [kind |-> k, to |-> to, stalls |-> n, mails |-> l, state |-> "mailed"]
  BY <1>3, <1>5
<1>7. jobs' = [jobs EXCEPT ![i] = new]
  BY <1>1, <1>4, <1>5 DEF Mail
<1>8. new.kind = jobs[i].kind /\ new.to = jobs[i].to
  BY <1>1, <1>3, <1>6
<1>9. Becomes(i, new.state, new.stalls, new.mails)
  BY <1>7, <1>8, OneBecomes
<1>10. new.state = "mailed" /\ new.stalls = jobs[i].stalls /\ new.mails = l
  BY <1>1, <1>3, <1>6
<1>11. Becomes(i, "mailed", jobs[i].stalls, jobs[i].mails + 1)
  BY <1>1, <1>4, <1>9, <1>10 DEF Becomes
<1>12. jobs[i].state = "active" /\ UNCHANGED wait
  BY DEF Mail, InState
<1>. QED
  BY <1>11, <1>12

LEMMA RecoverBecomes ==
  ASSUME JobsOK, NEW i \in JobIds, Recover(i)
  PROVE  /\ jobs[i].state = "stalled"
         /\ \/ /\ Becomes(i, "waiting", jobs[i].stalls + 1, jobs[i].mails)
               /\ wait' = <<i>> \o wait
            \/ /\ Becomes(i, "failed", jobs[i].stalls, jobs[i].mails)
               /\ jobs[i].stalls > 0 /\ UNCHANGED wait
<1>1. PICK job : job = jobs[i]
  OBVIOUS
<1>2. job \in Job
  BY <1>1, JobFacts
<1>3. PICK k \in Kinds, to \in Recipients, n \in Nat, m \in Nat, x \in States :
        job = [kind |-> k, to |-> to, stalls |-> n, mails |-> m, state |-> x]
  BY <1>2, JobFields
<1>4. CASE jobs[i].stalls < MaxStalls
  <2>1. PICK l : l = job.stalls + 1
    OBVIOUS
  <2>2. PICK new : new = [job EXCEPT !.stalls = l, !.state = "waiting"]
    OBVIOUS
  <2>3. new = [kind |-> k, to |-> to, stalls |-> l, mails |-> m, state |-> "waiting"]
    BY <1>3, <2>2
  <2>4. jobs' = [jobs EXCEPT ![i] = new] /\ wait' = <<i>> \o wait
    BY <1>1, <1>4, <2>1, <2>2 DEF Recover
  <2>5. new.kind = jobs[i].kind /\ new.to = jobs[i].to
    BY <1>1, <1>3, <2>3
  <2>6. Becomes(i, new.state, new.stalls, new.mails)
    BY <2>4, <2>5, OneBecomes
  <2>7. new.state = "waiting" /\ new.stalls = l /\ new.mails = jobs[i].mails
    BY <1>1, <1>3, <2>3
  <2>8. Becomes(i, "waiting", jobs[i].stalls + 1, jobs[i].mails)
    BY <1>1, <2>1, <2>6, <2>7 DEF Becomes
  <2>9. jobs[i].state = "stalled"
    BY DEF Recover, InState
  <2>. QED
    BY <2>4, <2>8, <2>9
<1>5. CASE ~(jobs[i].stalls < MaxStalls)
  <2>1. jobs' = [jobs EXCEPT ![i].state = "failed"] /\ UNCHANGED wait
    BY <1>5 DEF Recover
  <2>2. jobs[i].stalls > 0
    BY <1>5, JobNumbers DEF MaxStalls
  <2>. QED
    BY <2>1, <2>2, StateBecomes DEF Recover, InState
<1>. QED
  BY <1>4, <1>5

LEMMA TakeBecomes ==
  ASSUME JobsOK, WaitOK, Take
  PROVE  \E i \in JobIds :
           /\ Cardinality(Going) < Processors
           /\ 1 \in DOMAIN wait /\ wait[1] = i
           /\ jobs[i].state = "waiting"
           /\ Becomes(i, "active", jobs[i].stalls, jobs[i].mails)
           /\ \A k \in DOMAIN wait' : k + 1 \in DOMAIN wait /\ wait'[k] = wait[k + 1]
<1>1. PICK i : i = Head(wait)
  OBVIOUS
<1>2. wait # <<>> /\ wait' = Tail(wait) /\ jobs' = [jobs EXCEPT ![i].state = "active"]
  BY <1>1 DEF Take
<1>3. /\ i \in JobIds
      /\ wait' \in Seq(JobIds)
      /\ Len(wait') = Len(wait) - 1
      /\ \A k \in 1..Len(wait') : wait'[k] = wait[k + 1]
  BY <1>1, <1>2, HeadTailProperties DEF WaitOK
<1>4. DOMAIN wait = 1..Len(wait) /\ Len(wait) \in Nat
  BY WaitFacts
<1>5. Len(wait) # 0 /\ i = wait[1]
  BY <1>1, <1>2, EmptySeq DEF WaitOK
<1>6. DOMAIN wait' = 1..Len(wait')
  BY <1>3, LenProperties
<1>7. 1 \in DOMAIN wait
  BY <1>4, <1>5
<1>8. jobs[i].state = "waiting"
  BY <1>5, <1>7 DEF WaitOK, InState
<1>9. \A k \in DOMAIN wait' : k + 1 \in DOMAIN wait /\ wait'[k] = wait[k + 1]
  BY <1>3, <1>4, <1>6
<1>10. Cardinality(Going) < Processors
  BY DEF Take, Going
<1>. QED
  BY <1>2, <1>3, <1>5, <1>7, <1>8, <1>9, <1>10, StateBecomes

(* Order is about where a job is in its life, and who has stalled. *)
LEMMA OrderStays ==
  ASSUME OrderOK, JobIds' = JobIds, wait \in Seq(JobIds), UNCHANGED wait,
         \A j \in JobIds :
           /\ jobs'[j].stalls = jobs[j].stalls
           /\ jobs'[j].state = "adding" <=> jobs[j].state = "adding"
           /\ jobs'[j].state = "waiting" <=> jobs[j].state = "waiting"
           /\ jobs[j].state = "lost" => jobs'[j].state = "lost"
  PROVE  OrderOK'
<1>1. AddingOK'
  BY DEF OrderOK, AddingOK
<1>2. \A j \in JobIds : Fresh(j)' <=> Fresh(j)
  BY DEF Fresh
<1>3. FreshOK'
  BY <1>2 DEF OrderOK, FreshOK
<1>4. \A k \in DOMAIN wait : wait[k] \in JobIds
  BY ElementOfSeq, LenProperties
<1>5. ListOK'
  BY <1>4 DEF OrderOK, ListOK
<1>. QED
  BY <1>1, <1>3, <1>5 DEF OrderOK

(* A job that was taken goes on. *)
LEMMA TakenKeepsOrder ==
  ASSUME WaitOK, OrderOK, NEW i \in JobIds, NEW state \in {"mailed", "completed", "failed"}, NEW mails,
         jobs[i].state \in {"active", "mailed", "stalled"}, UNCHANGED wait,
         Becomes(i, state, jobs[i].stalls, mails)
  PROVE  OrderOK'
<1>1. \A j \in JobIds :
        /\ jobs'[j].stalls = jobs[j].stalls
        /\ jobs'[j].state = "adding" <=> jobs[j].state = "adding"
        /\ jobs'[j].state = "waiting" <=> jobs[j].state = "waiting"
        /\ jobs[j].state = "lost" => jobs'[j].state = "lost"
  BY DEF Becomes
<1>. QED
  BY <1>1, OrderStays DEF Becomes, WaitOK

LEMMA ArriveKeepsOrder ==
  ASSUME JobsOK, WaitOK, OrderOK, NEW i \in JobIds, Arrive(i)
  PROVE  OrderOK'
<1>1. /\ jobs[i].state = "adding" /\ \A j \in InState("adding") : i <= j
      /\ wait' = Append(wait, i)
      /\ Becomes(i, "waiting", jobs[i].stalls, jobs[i].mails)
  BY StateBecomes DEF Arrive, InState
<1>2. \A j \in JobIds : j \in Nat
  BY JobNumbers
<1>3. jobs[i].stalls = 0
  BY <1>1 DEF OrderOK, AddingOK
<1>4. /\ jobs'[i].state = "waiting"
      /\ \A j \in JobIds : jobs'[j].stalls = jobs[j].stalls /\ (j # i => jobs'[j] = jobs[j])
  BY <1>1 DEF Becomes
<1>5. JobIds' = JobIds
  BY <1>1 DEF Becomes
<1>6. AddingOK'
  <2>1. ASSUME NEW k \in JobIds, jobs'[k].state = "adding"
        PROVE  jobs'[k].stalls = 0 /\ \A j \in JobIds : k < j => jobs'[j].state = "adding"
    <3>1. k # i /\ jobs[k].state = "adding"
      BY <1>4, <2>1
    <3>2. i <= k
      BY <1>1, <3>1 DEF InState
    <3>3. \A j \in JobIds : k < j => j # i
      BY <1>2, <3>2
    <3>. QED
      BY <1>4, <3>1, <3>3 DEF OrderOK, AddingOK
  <2>. QED
    BY <1>5, <2>1 DEF AddingOK
<1>7. \A j \in JobIds : Fresh(j)' <=> Fresh(j)
  BY <1>1, <1>3, <1>4 DEF Fresh
<1>8. FreshOK'
  <2>1. ASSUME NEW k \in JobIds, NEW j \in JobIds, Fresh(k)', k < j
        PROVE  Fresh(j)' \/ jobs'[j].state = "lost"
    <3>1. Fresh(j) \/ jobs[j].state = "lost"
      BY <1>7, <2>1 DEF OrderOK, FreshOK
    <3>. QED
      BY <1>1, <1>4, <1>7, <3>1
  <2>. QED
    BY <1>5, <2>1 DEF FreshOK
<1>9. /\ DOMAIN wait = 1..Len(wait) /\ Len(wait) \in Nat
      /\ \A k \in 1..Len(wait) : wait[k] \in JobIds
  BY WaitFacts
<1>10. /\ wait' \in Seq(JobIds)
       /\ Len(wait') = Len(wait) + 1
       /\ \A k \in 1..Len(wait) : wait'[k] = wait[k]
       /\ wait'[Len(wait) + 1] = i
  BY <1>1, AppendProperties DEF WaitOK
<1>11. DOMAIN wait' = 1..(Len(wait) + 1)
  BY <1>10, LenProperties
<1>12. \A k \in DOMAIN wait : wait[k] < i
  <2>1. ASSUME NEW k \in DOMAIN wait
        PROVE  wait[k] < i
    <3>1. wait[k] \in InState("waiting") /\ wait[k] \in JobIds
      BY <1>9 DEF WaitOK
    <3>2. wait[k] # i /\ jobs[wait[k]].state # "adding"
      BY <1>1, <3>1 DEF InState
    <3>3. ~(i < wait[k])
      BY <1>1, <3>1, <3>2 DEF OrderOK, AddingOK
    <3>. QED
      BY <1>2, <3>1, <3>2, <3>3
  <2>. QED
    BY <2>1
<1>13. ASSUME NEW k \in DOMAIN wait', NEW l \in DOMAIN wait', k < l, jobs'[wait'[k]].stalls = 0
       PROVE  jobs'[wait'[l]].stalls = 0 /\ wait'[k] < wait'[l]
  <2>1. k \in DOMAIN wait /\ wait'[k] = wait[k] /\ wait[k] \in JobIds
    BY <1>9, <1>10, <1>11, <1>13
  <2>2. CASE l \in DOMAIN wait
    <3>1. wait'[l] = wait[l] /\ wait[l] \in JobIds
      BY <1>9, <1>10, <2>2
    <3>. QED
      BY <1>4, <1>13, <2>1, <2>2, <3>1 DEF OrderOK, ListOK
  <2>3. CASE l \notin DOMAIN wait
    <3>1. wait'[l] = i
      BY <1>9, <1>10, <1>11, <2>3
    <3>. QED
      BY <1>3, <1>4, <1>12, <2>1, <3>1
  <2>. QED
    BY <2>2, <2>3
<1>14. ListOK'
  BY <1>13 DEF ListOK
<1>. QED
  BY <1>6, <1>8, <1>14 DEF OrderOK

LEMMA TakeKeepsOrder == ASSUME JobsOK, WaitOK, OrderOK, Take  PROVE  OrderOK'
<1>1. PICK i \in JobIds :
        /\ 1 \in DOMAIN wait /\ wait[1] = i
        /\ jobs[i].state = "waiting"
        /\ Becomes(i, "active", jobs[i].stalls, jobs[i].mails)
        /\ \A k \in DOMAIN wait' : k + 1 \in DOMAIN wait /\ wait'[k] = wait[k + 1]
  BY TakeBecomes
<1>2. /\ JobIds' = JobIds
      /\ jobs'[i].state = "active"
      /\ \A j \in JobIds : jobs'[j].stalls = jobs[j].stalls /\ (j # i => jobs'[j] = jobs[j])
  BY <1>1 DEF Becomes
<1>3. \A j \in JobIds : j \in Nat
  BY JobNumbers
<1>4. /\ DOMAIN wait = 1..Len(wait) /\ Len(wait) \in Nat
      /\ \A k \in 1..Len(wait) : wait[k] \in JobIds
  BY WaitFacts
<1>5. AddingOK'
  <2>1. ASSUME NEW k \in JobIds, jobs'[k].state = "adding"
        PROVE  jobs'[k].stalls = 0 /\ \A j \in JobIds : k < j => jobs'[j].state = "adding"
    <3>1. jobs[k].state = "adding"
      BY <1>2, <2>1
    <3>2. \A j \in JobIds : k < j => jobs[j].state = "adding" /\ j # i
      BY <1>1, <3>1 DEF OrderOK, AddingOK
    <3>. QED
      BY <1>2, <3>1, <3>2 DEF OrderOK, AddingOK
  <2>. QED
    BY <1>2, <2>1 DEF AddingOK
<1>6. ASSUME NEW k \in JobIds, Fresh(k), k # i
      PROVE  ~(k < i)
  <2>1. SUFFICES ASSUME k < i  PROVE  FALSE
    OBVIOUS
  <2>2. jobs[k].state = "waiting"
    BY <1>1, <1>6, <2>1 DEF Fresh, OrderOK, AddingOK
  <2>3. jobs[i].stalls = 0
    BY <1>1, <1>6, <2>1 DEF Fresh, OrderOK, FreshOK
  <2>4. PICK l \in DOMAIN wait : wait[l] = k
    BY <2>2 DEF WaitOK, InState
  <2>5. 1 < l
    BY <1>1, <1>4, <1>6, <2>4
  <2>6. i < k
    BY <1>1, <2>3, <2>4, <2>5 DEF OrderOK, ListOK
  <2>. QED
    BY <1>3, <2>1, <2>6
<1>7. FreshOK'
  <2>1. ASSUME NEW k \in JobIds, NEW j \in JobIds, Fresh(k)', k < j
        PROVE  Fresh(j)' \/ jobs'[j].state = "lost"
    <3>1. k # i /\ Fresh(k)
      BY <1>2, <2>1 DEF Fresh
    <3>2. j # i
      BY <1>6, <2>1, <3>1
    <3>. QED
      BY <1>2, <2>1, <3>1, <3>2 DEF Fresh, OrderOK, FreshOK
  <2>. QED
    BY <1>2, <2>1 DEF FreshOK
<1>8. ASSUME NEW k \in DOMAIN wait', NEW l \in DOMAIN wait', k < l, jobs'[wait'[k]].stalls = 0
      PROVE  jobs'[wait'[l]].stalls = 0 /\ wait'[k] < wait'[l]
  <2>1. /\ k + 1 \in DOMAIN wait /\ wait'[k] = wait[k + 1]
        /\ l + 1 \in DOMAIN wait /\ wait'[l] = wait[l + 1]
    BY <1>1
  <2>2. wait[k + 1] \in JobIds /\ wait[l + 1] \in JobIds
    BY <1>4, <2>1
  <2>3. DOMAIN wait' \subseteq Int
    BY <1>8, TakeKeeps, LenProperties DEF WaitOK
  <2>4. k + 1 < l + 1
    BY <1>8, <2>3
  <2>. QED
    BY <1>2, <1>8, <2>1, <2>2, <2>4 DEF OrderOK, ListOK
<1>9. ListOK'
  BY <1>8 DEF ListOK
<1>. QED
  BY <1>5, <1>7, <1>9 DEF OrderOK

LEMMA RecoverKeepsOrder ==
  ASSUME JobsOK, WaitOK, OrderOK, NEW i \in JobIds, Recover(i)
  PROVE  OrderOK'
<1>1. jobs[i].state = "stalled" /\ jobs[i].stalls \in Nat
  BY RecoverBecomes, JobNumbers
<1>2. CASE Becomes(i, "failed", jobs[i].stalls, jobs[i].mails) /\ UNCHANGED wait
  BY <1>1, <1>2, TakenKeepsOrder
<1>3. CASE Becomes(i, "waiting", jobs[i].stalls + 1, jobs[i].mails) /\ wait' = <<i>> \o wait
  <2>1. /\ JobIds' = JobIds
        /\ jobs'[i].state = "waiting" /\ jobs'[i].stalls = jobs[i].stalls + 1
        /\ \A j \in JobIds : j # i => jobs'[j] = jobs[j]
    BY <1>3 DEF Becomes
  <2>2. jobs'[i].stalls # 0
    BY <1>1, <2>1
  <2>3. AddingOK'
    <3>1. ASSUME NEW k \in JobIds, jobs'[k].state = "adding"
          PROVE  jobs'[k].stalls = 0 /\ \A j \in JobIds : k < j => jobs'[j].state = "adding"
      <4>1. k # i /\ jobs[k].state = "adding"
        BY <2>1, <3>1
      <4>2. \A j \in JobIds : k < j => jobs[j].state = "adding" /\ j # i
        BY <1>1, <4>1 DEF OrderOK, AddingOK
      <4>. QED
        BY <2>1, <4>1, <4>2 DEF OrderOK, AddingOK
    <3>. QED
      BY <2>1, <3>1 DEF AddingOK
  <2>4. FreshOK'
    <3>1. ASSUME NEW k \in JobIds, NEW j \in JobIds, Fresh(k)', k < j
          PROVE  Fresh(j)' \/ jobs'[j].state = "lost"
      <4>1. k # i /\ Fresh(k)
        BY <2>1, <2>2, <3>1 DEF Fresh
      <4>2. j # i
        BY <1>1, <3>1, <4>1 DEF Fresh, OrderOK, FreshOK
      <4>. QED
        BY <2>1, <3>1, <4>1, <4>2 DEF Fresh, OrderOK, FreshOK
    <3>. QED
      BY <2>1, <3>1 DEF FreshOK
  <2>5. <<i>> \in Seq(JobIds) /\ Len(<<i>>) = 1 /\ <<i>>[1] = i
    OBVIOUS
  <2>6. /\ wait' \in Seq(JobIds)
        /\ Len(wait') = 1 + Len(wait)
        /\ \A k \in 1..1 + Len(wait) : wait'[k] = IF k <= 1 THEN <<i>>[k] ELSE wait[k - 1]
    BY <1>3, <2>5, ConcatProperties DEF WaitOK
  <2>7. /\ DOMAIN wait = 1..Len(wait) /\ Len(wait) \in Nat
        /\ \A k \in 1..Len(wait) : wait[k] \in JobIds
    BY WaitFacts
  <2>8. DOMAIN wait' = 1..(1 + Len(wait))
    BY <2>6, LenProperties
  <2>9. wait'[1] = i
    BY <2>5, <2>6, <2>7
  <2>10. \A k \in DOMAIN wait' : k # 1 => k - 1 \in DOMAIN wait /\ wait'[k] = wait[k - 1]
    BY <2>6, <2>7, <2>8
  <2>11. \A k \in DOMAIN wait : wait[k] \in JobIds /\ wait[k] # i
    <3>1. i \notin InState("waiting")
      BY <1>1 DEF InState
    <3>. QED
      BY <2>7, <3>1 DEF WaitOK
  <2>12. ASSUME NEW k \in DOMAIN wait', NEW l \in DOMAIN wait', k < l, jobs'[wait'[k]].stalls = 0
         PROVE  jobs'[wait'[l]].stalls = 0 /\ wait'[k] < wait'[l]
    <3>1. k # 1
      BY <2>2, <2>9, <2>12
    <3>2. l # 1 /\ k - 1 < l - 1
      BY <2>7, <2>8, <2>12, <3>1
    <3>3. /\ k - 1 \in DOMAIN wait /\ wait'[k] = wait[k - 1]
          /\ l - 1 \in DOMAIN wait /\ wait'[l] = wait[l - 1]
      BY <2>10, <3>1, <3>2
    <3>. QED
      BY <2>1, <2>11, <2>12, <3>2, <3>3 DEF OrderOK, ListOK
  <2>13. ListOK'
    BY <2>12 DEF ListOK
  <2>. QED
    BY <2>3, <2>4, <2>13 DEF OrderOK
<1>. QED
  BY <1>2, <1>3, RecoverBecomes

(* What the death of the process does, job by job. *)
LEMMA DieBecomes ==
  ASSUME JobsOK, Die
  PROVE  /\ JobIds' = JobIds /\ UNCHANGED wait
         /\ \A i \in JobIds :
              /\ jobs'[i].kind = jobs[i].kind /\ jobs'[i].to = jobs[i].to
              /\ jobs'[i].stalls = jobs[i].stalls /\ jobs'[i].mails = jobs[i].mails
              /\ jobs'[i].state = (IF jobs[i].state = "adding" THEN "lost"
                                   ELSE IF jobs[i].state \in {"active", "mailed"} THEN "stalled"
                                   ELSE jobs[i].state)
<1>1. jobs' = [i \in JobIds |-> Dead(jobs[i])] /\ UNCHANGED wait
  BY DEF Die, Dead, Moved
<1>2. JobIds' = JobIds
  BY <1>1 DEF JobIds
<1>3. ASSUME NEW job \in Job, NEW state \in States
      PROVE  Moved(job, state).kind = job.kind /\ Moved(job, state).to = job.to
  <2>1. PICK k \in Kinds, to \in Recipients, n \in Nat, m \in Nat, x \in States :
          job = [kind |-> k, to |-> to, stalls |-> n, mails |-> m, state |-> x]
    BY JobFields
  <2>2. Moved(job, state) = [kind |-> k, to |-> to, stalls |-> n, mails |-> m, state |-> state]
    BY <2>1 DEF Moved
  <2>. QED
    BY <2>1, <2>2
<1>4. ASSUME NEW job \in Job
      PROVE  /\ Dead(job).kind = job.kind /\ Dead(job).to = job.to
             /\ Dead(job).stalls = job.stalls /\ Dead(job).mails = job.mails
             /\ Dead(job).state = (IF job.state = "adding" THEN "lost"
                                   ELSE IF job.state \in {"active", "mailed"} THEN "stalled"
                                   ELSE job.state)
  <2>1. "lost" \in States /\ "stalled" \in States
    BY DEF States
  <2>2. CASE job.state = "adding"
    BY <1>3, <2>1, <2>2, MovedIsJob DEF Dead
  <2>3. CASE job.state \in {"active", "mailed"}
    BY <1>3, <2>1, <2>3, MovedIsJob DEF Dead
  <2>4. CASE job.state \notin {"adding", "active", "mailed"}
    BY <2>4 DEF Dead
  <2>. QED
    BY <2>2, <2>3, <2>4
<1>5. \A i \in JobIds : jobs'[i] = Dead(jobs[i]) /\ jobs[i] \in Job
  BY <1>1, JobFacts
<1>. QED
  BY <1>1, <1>2, <1>4, <1>5

LEMMA DieKeepsOrder == ASSUME JobsOK, WaitOK, OrderOK, Die  PROVE  OrderOK'
<1>1. AddingOK'
  BY DieBecomes DEF AddingOK
<1>2. ASSUME NEW k \in JobIds, NEW j \in JobIds, Fresh(k)', k < j
      PROVE  Fresh(j)' \/ jobs'[j].state = "lost"
  <2>1. Fresh(k)
    BY <1>2, DieBecomes DEF Fresh
  <2>2. Fresh(j) \/ jobs[j].state = "lost"
    BY <1>2, <2>1 DEF OrderOK, FreshOK
  <2>. QED
    BY <2>2, DieBecomes DEF Fresh
<1>3. FreshOK'
  BY <1>2, DieBecomes DEF FreshOK
<1>4. \A k \in DOMAIN wait : wait[k] \in JobIds
  BY WaitFacts
<1>5. ListOK'
  BY <1>4, DieBecomes DEF OrderOK, ListOK
<1>. QED
  BY <1>1, <1>3, <1>5 DEF OrderOK

LEMMA AddBecomes ==
  ASSUME JobsOK, NEW kind \in Kinds, NEW to \in Recipients, addToEmailsQueue(kind, to)
  PROVE  /\ JobIds' = JobIds \cup {Len(jobs) + 1} /\ Len(jobs) + 1 \notin JobIds
         /\ \A i \in JobIds : jobs'[i] = jobs[i] /\ i < Len(jobs) + 1
         /\ jobs'[Len(jobs) + 1] = NewJob(kind, to)
<1>1. PICK new : new = NewJob(kind, to)
  OBVIOUS
<1>2. jobs' = Append(jobs, new)
  BY <1>1 DEF addToEmailsQueue, NewJob
<1>3. new \in Job
  <2>1. 0 \in Nat
    OBVIOUS
  <2>. QED
    BY <1>1, <2>1 DEF NewJob, Job
<1>4. /\ jobs' \in Seq(Job)
      /\ Len(jobs') = Len(jobs) + 1
      /\ \A i \in 1..Len(jobs) : jobs'[i] = jobs[i]
      /\ jobs'[Len(jobs) + 1] = new
  BY <1>2, <1>3, AppendProperties DEF JobsOK
<1>5. JobIds = 1..Len(jobs) /\ Len(jobs) \in Nat
  BY JobFacts
<1>6. JobIds' = 1..(Len(jobs) + 1)
  BY <1>4, LenProperties DEF JobIds
<1>. QED
  BY <1>1, <1>4, <1>5, <1>6

LEMMA AddKeepsOrder ==
  ASSUME JobsOK, WaitOK, OrderOK, NEW kind \in Kinds, NEW to \in Recipients,
         addToEmailsQueue(kind, to), UNCHANGED wait
  PROVE  OrderOK'
<1>1. PICK n : n = Len(jobs) + 1
  OBVIOUS
<1>2. /\ JobIds' = JobIds \cup {n} /\ n \notin JobIds
      /\ \A i \in JobIds : jobs'[i] = jobs[i] /\ i < n /\ ~(n < i)
      /\ jobs'[n].stalls = 0 /\ jobs'[n].state = "adding"
  <2>1. /\ JobIds' = JobIds \cup {n} /\ n \notin JobIds
        /\ \A i \in JobIds : jobs'[i] = jobs[i] /\ i < n
        /\ jobs'[n] = NewJob(kind, to)
    BY <1>1, AddBecomes
  <2>2. n \in Nat /\ \A i \in JobIds : i \in Nat
    BY <1>1, JobFacts
  <2>3. \A i \in JobIds : ~(n < i)
    BY <2>1, <2>2
  <2>. QED
    BY <2>1, <2>3 DEF NewJob
<1>3. ~(n < n)
  BY <1>1, JobFacts
<1>4. AddingOK'
  BY <1>2, <1>3 DEF OrderOK, AddingOK
<1>5. FreshOK'
  BY <1>2, <1>3 DEF OrderOK, FreshOK, Fresh
<1>6. \A k \in DOMAIN wait : wait[k] \in JobIds
  BY WaitFacts
<1>7. ListOK'
  BY <1>2, <1>6 DEF OrderOK, ListOK
<1>. QED
  BY <1>4, <1>5, <1>7 DEF OrderOK

LEMMA TheGoing == \A i : i \in Going <=> i \in JobIds /\ jobs[i].state \in {"active", "mailed"}
  BY DEF Going, InState

LEMMA TheGoingNext ==
  \A i : i \in Going' <=> i \in JobIds' /\ jobs'[i].state \in {"active", "mailed"}
  BY DEF Going, InState

LEMMA LanesAreFinite ==
  ASSUME JobsOK
  PROVE  /\ Going \subseteq JobIds /\ Interrupted \subseteq JobIds
         /\ IsFiniteSet(Going) /\ Cardinality(Going) \in Nat
         /\ IsFiniteSet(Interrupted) /\ Cardinality(Interrupted) \in Nat
<1>1. Going \in SUBSET JobIds /\ Interrupted \in SUBSET JobIds
  BY DEF Going, InState, Interrupted
<1>. QED
  BY <1>1, SetsAreFinite

LEMMA LanesStay ==
  ASSUME JobsOK, LanesOK, crashes \in Nat, UNCHANGED crashes,
         Going' \subseteq Going, Interrupted' \subseteq Interrupted
  PROVE  LanesOK'
<1>1. PICK G, I : G = Going' /\ I = Interrupted'
  OBVIOUS
<1>2. /\ IsFiniteSet(Going) /\ Cardinality(Going) \in Nat
      /\ IsFiniteSet(Interrupted) /\ Cardinality(Interrupted) \in Nat
  BY LanesAreFinite
<1>3. IsFiniteSet(G) /\ Cardinality(G) <= Cardinality(Going)
  BY <1>1, <1>2, FS_Subset
<1>4. IsFiniteSet(I) /\ Cardinality(I) <= Cardinality(Interrupted)
  BY <1>1, <1>2, FS_Subset
<1>5. Cardinality(G) \in Nat /\ Cardinality(I) \in Nat
  BY <1>3, <1>4, FS_CardinalityType
<1>6. PICK p : p = Processors * crashes
  OBVIOUS
<1>7. Processors \in Nat /\ p \in Nat
  BY <1>6, ProcessorsAssumption
<1>8. Cardinality(G) <= Processors
  BY <1>2, <1>3, <1>5, <1>7 DEF LanesOK
<1>9. Cardinality(I) <= p
  BY <1>2, <1>4, <1>5, <1>6, <1>7 DEF LanesOK
<1>. QED
  BY <1>1, <1>6, <1>8, <1>9 DEF LanesOK

(* A job that does not start is nowhere it was not before. *)
LEMMA BecomesKeepsLanes ==
  ASSUME JobsOK, LanesOK, crashes \in Nat, UNCHANGED crashes,
         NEW i \in JobIds, NEW state, NEW stalls, NEW mails, Becomes(i, state, stalls, mails),
         state \in {"active", "mailed"} => i \in Going,
         stalls > 0 \/ state = "stalled" => i \in Interrupted
  PROVE  LanesOK'
<1>1. /\ JobIds' = JobIds
      /\ jobs'[i].state = state /\ jobs'[i].stalls = stalls
      /\ \A j \in JobIds : j # i => jobs'[j] = jobs[j]
  BY DEF Becomes
<1>2. Going' \subseteq Going
  BY <1>1, TheGoing, TheGoingNext
<1>3. Interrupted' \subseteq Interrupted
  BY <1>1 DEF Interrupted
<1>. QED
  BY <1>2, <1>3, LanesStay

LEMMA TakeKeepsLanes ==
  ASSUME JobsOK, WaitOK, LanesOK, crashes \in Nat, UNCHANGED crashes, Take
  PROVE  LanesOK'
<1>1. PICK i \in JobIds :
        /\ Cardinality(Going) < Processors
        /\ jobs[i].state = "waiting"
        /\ Becomes(i, "active", jobs[i].stalls, jobs[i].mails)
  BY TakeBecomes
<1>2. /\ JobIds' = JobIds
      /\ jobs'[i].state = "active" /\ jobs'[i].stalls = jobs[i].stalls
      /\ \A j \in JobIds : j # i => jobs'[j] = jobs[j]
  BY <1>1 DEF Becomes
<1>3. Going' = Going \cup {i}
  BY <1>2, TheGoing, TheGoingNext
<1>4. Interrupted' = Interrupted
  BY <1>1, <1>2 DEF Interrupted
<1>5. IsFiniteSet(Going) /\ Cardinality(Going) \in Nat
  BY LanesAreFinite
<1>6. i \notin Going
  BY <1>1, TheGoing
<1>7. Cardinality(Going \cup {i}) = Cardinality(Going) + 1
  BY <1>5, <1>6, FS_AddElement
<1>8. Cardinality(Going') <= Processors
  BY <1>1, <1>3, <1>5, <1>7, ProcessorsAssumption
<1>. QED
  BY <1>4, <1>8 DEF LanesOK

LEMMA Times ==
  ASSUME NEW m \in Nat, NEW n \in Nat
  PROVE  m * n \in Nat /\ m * (n + 1) = m * n + m
  OBVIOUS

(* A restart interrupts what was going, and nothing goes. *)
LEMMA DieInterrupts ==
  ASSUME JobsOK, Die
  PROVE  Going' = {} /\ Interrupted' = Interrupted \cup Going
<1>1. Going' = {}
  BY DieBecomes, TheGoingNext
<1>2. ASSUME NEW i \in JobIds
      PROVE  jobs'[i].stalls > 0 \/ jobs'[i].state = "stalled"
               <=> i \in Interrupted \/ i \in Going
  <2>1. /\ jobs'[i].stalls = jobs[i].stalls
        /\ jobs'[i].state = "stalled" <=> jobs[i].state \in {"stalled", "active", "mailed"}
    BY DieBecomes
  <2>. QED
    BY <2>1, TheGoing DEF Interrupted
<1>3. Going \subseteq JobIds
  BY LanesAreFinite
<1>4. Interrupted' = {i \in JobIds : jobs'[i].stalls > 0 \/ jobs'[i].state = "stalled"}
  BY DieBecomes DEF Interrupted
<1>. QED
  BY <1>1, <1>2, <1>3, <1>4 DEF Interrupted

LEMMA CrashKeepsLanes ==
  ASSUME JobsOK, LanesOK, crashes \in Nat, crashes' = crashes + 1, Die
  PROVE  LanesOK'
<1>1. /\ IsFiniteSet(Going) /\ Cardinality(Going) \in Nat
      /\ IsFiniteSet(Interrupted) /\ Cardinality(Interrupted) \in Nat
  BY LanesAreFinite
<1>2. IsFiniteSet(Interrupted \cap Going)
  BY <1>1, FS_Subset
<1>3. Cardinality(Interrupted \cap Going) \in Nat
  BY <1>2, FS_CardinalityType
<1>4. /\ IsFiniteSet(Interrupted \cup Going)
      /\ Cardinality(Interrupted \cup Going)
           = Cardinality(Interrupted) + Cardinality(Going) - Cardinality(Interrupted \cap Going)
  BY <1>1, FS_Union
<1>5. PICK p : p = Processors * crashes
  OBVIOUS
<1>6. p \in Nat /\ Processors * (crashes + 1) = p + Processors
  BY <1>5, Times, ProcessorsAssumption
<1>7. Cardinality(Interrupted) <= p /\ Cardinality(Going) <= Processors
  BY <1>5 DEF LanesOK
<1>8. Cardinality(Interrupted \cup Going) <= p + Processors
  BY <1>1, <1>3, <1>4, <1>6, <1>7, ProcessorsAssumption
<1>9. Cardinality(Interrupted') <= Processors * crashes'
  BY <1>6, <1>8, DieInterrupts
<1>10. Cardinality(Going') <= Processors
  BY DieInterrupts, FS_EmptySet, ProcessorsAssumption
<1>. QED
  BY <1>9, <1>10 DEF LanesOK

LEMMA AddKeepsLanes ==
  ASSUME JobsOK, LanesOK, crashes \in Nat, UNCHANGED crashes,
         NEW kind \in Kinds, NEW to \in Recipients, addToEmailsQueue(kind, to)
  PROVE  LanesOK'
<1>1. PICK n : n = Len(jobs) + 1
  OBVIOUS
<1>2. /\ JobIds' = JobIds \cup {n}
      /\ \A i \in JobIds : jobs'[i] = jobs[i]
      /\ jobs'[n] = NewJob(kind, to)
  BY <1>1, AddBecomes
<1>3. jobs'[n].state = "adding" /\ jobs'[n].stalls = 0
  BY <1>2 DEF NewJob
<1>4. Going' \subseteq Going
  BY <1>2, <1>3, TheGoing, TheGoingNext
<1>5. Interrupted' \subseteq Interrupted
  BY <1>2, <1>3 DEF Interrupted
<1>. QED
  BY <1>4, <1>5, LanesStay

-----------------------------------------------------------------------------
(* The queue as MailDelivery sees it *)

(* The instance has a Cardinality of its own, defined alike. *)
LEMMA SameCardinality == ASSUME NEW S  PROVE  Delivery!Cardinality(S) = Cardinality(S)
  BY DEF Delivery!Cardinality, Cardinality

Handed == [i \in JobIds |-> [kind |-> jobs[i].kind, to |-> jobs[i].to]]
Sent == [i \in JobIds |-> jobs[i].mails]
Open == {i \in JobIds : ~ Ended(i)}
Promised == <<Handed, Sent, Open, Interrupted, crashes>>

LEMMA TheOpen ==
  \A i : i \in Open <=> i \in JobIds /\ jobs[i].state \notin {"completed", "failed", "lost"}
  BY DEF Open, Ended

LEMMA TheOpenNext ==
  \A i : i \in Open' <=> i \in JobIds' /\ jobs'[i].state \notin {"completed", "failed", "lost"}
  BY DEF Open, Ended

(* Waiting, or starting, is not promised. *)
LEMMA MovesUnseen ==
  ASSUME UNCHANGED crashes,
         NEW i \in JobIds, NEW state \in {"waiting", "active"}, NEW stalls,
         Becomes(i, state, stalls, jobs[i].mails), i \in Open,
         stalls > 0 <=> i \in Interrupted
  PROVE  UNCHANGED Promised
<1>1. /\ JobIds' = JobIds
      /\ jobs'[i].kind = jobs[i].kind /\ jobs'[i].to = jobs[i].to /\ jobs'[i].mails = jobs[i].mails
      /\ jobs'[i].state = state /\ jobs'[i].stalls = stalls
      /\ \A j \in JobIds : j # i => jobs'[j] = jobs[j]
  BY DEF Becomes
<1>2. Handed' = Handed
  BY <1>1 DEF Handed
<1>3. Sent' = Sent
  BY <1>1 DEF Sent
<1>4. Open' = Open
  BY <1>1, TheOpen, TheOpenNext
<1>5. Interrupted' = Interrupted
  BY <1>1 DEF Interrupted
<1>. QED
  BY <1>2, <1>3, <1>4, <1>5 DEF Promised

LEMMA EndCloses ==
  ASSUME UNCHANGED crashes,
         NEW i \in JobIds, NEW state \in {"completed", "failed"},
         Becomes(i, state, jobs[i].stalls, jobs[i].mails), i \in Open,
         jobs[i].state = "stalled" => jobs[i].stalls > 0
  PROVE  Delivery!Close(i)
<1>1. /\ JobIds' = JobIds
      /\ jobs'[i].kind = jobs[i].kind /\ jobs'[i].to = jobs[i].to /\ jobs'[i].mails = jobs[i].mails
      /\ jobs'[i].state = state /\ jobs'[i].stalls = jobs[i].stalls
      /\ \A j \in JobIds : j # i => jobs'[j] = jobs[j]
  BY DEF Becomes
<1>2. Handed' = Handed
  BY <1>1 DEF Handed
<1>3. Sent' = Sent
  BY <1>1 DEF Sent
<1>4. Open' = Open \ {i}
  BY <1>1, TheOpen, TheOpenNext
<1>5. Interrupted' = Interrupted
  BY <1>1 DEF Interrupted
<1>. QED
  BY <1>2, <1>3, <1>4, <1>5 DEF Delivery!Close, Handed, Sent, Open, Interrupted

(* The mails a mail is sent before are all on their way, or were interrupted. *)
LEMMA FewAreOvertaken ==
  ASSUME JobsOK, OrderOK, LanesOK, crashes \in Nat,
         NEW i \in JobIds, jobs[i].state = "active"
  PROVE  Cardinality({j \in Open : j < i /\ Sent[j] = 0}) < Processors * (crashes + 1)
<1>. DEFINE B == {j \in Open : j < i /\ Sent[j] = 0}
            R == Going \cup Interrupted
<1>1. i \in R
  BY TheGoing
<1>2. B \subseteq R \ {i}
  <2>1. ASSUME NEW j \in B  PROVE  j \in R /\ j # i
    <3>1. j \in JobIds /\ jobs[j].state \notin {"completed", "failed", "lost"} /\ j < i
      BY TheOpen
    <3>2. jobs[j].state # "adding" /\ ~Fresh(j)
      BY <3>1 DEF OrderOK, AddingOK, FreshOK, Fresh
    <3>3. jobs[j].stalls \in Nat /\ jobs[j].state \in States /\ j \in Nat /\ i \in Nat
      BY <3>1, JobNumbers
    <3>4. CASE jobs[j].state = "waiting"
      <4>1. jobs[j].stalls # 0
        BY <3>2, <3>4 DEF Fresh
      <4>. QED
        BY <3>1, <3>3, <4>1 DEF Interrupted
    <3>5. CASE jobs[j].state \in {"active", "mailed"}
      BY <3>1, <3>3, <3>5, TheGoing
    <3>6. CASE jobs[j].state = "stalled"
      BY <3>1, <3>3, <3>6 DEF Interrupted
    <3>. QED
      BY <3>1, <3>2, <3>3, <3>4, <3>5, <3>6 DEF States
  <2>. QED
    BY <2>1
<1>3. /\ IsFiniteSet(Going) /\ Cardinality(Going) \in Nat
      /\ IsFiniteSet(Interrupted) /\ Cardinality(Interrupted) \in Nat
  BY LanesAreFinite
<1>4. IsFiniteSet(Going \cap Interrupted)
  BY <1>3, FS_Subset
<1>5. Cardinality(Going \cap Interrupted) \in Nat
  BY <1>4, FS_CardinalityType
<1>6. /\ IsFiniteSet(R)
      /\ Cardinality(R) = Cardinality(Going) + Cardinality(Interrupted)
                            - Cardinality(Going \cap Interrupted)
  BY <1>3, FS_Union
<1>. HIDE DEF R
<1>7. Cardinality(R) \in Nat
  BY <1>6, FS_CardinalityType
<1>8. IsFiniteSet(R \ {i}) /\ Cardinality(R \ {i}) = Cardinality(R) - 1
  BY <1>1, <1>6, FS_RemoveElement
<1>9. IsFiniteSet(B) /\ Cardinality(B) <= Cardinality(R \ {i})
  BY <1>2, <1>8, FS_Subset
<1>10. Cardinality(B) \in Nat
  BY <1>9, FS_CardinalityType
<1>11. PICK p : p = Processors * crashes
  OBVIOUS
<1>12. p \in Nat /\ Processors * (crashes + 1) = p + Processors
  BY <1>11, Times, ProcessorsAssumption
<1>13. Cardinality(Interrupted) <= p /\ Cardinality(Going) <= Processors
  BY <1>11 DEF LanesOK
<1>14. Cardinality(R) <= p + Processors
  BY <1>3, <1>5, <1>6, <1>12, <1>13, ProcessorsAssumption
<1>. HIDE DEF B
<1>15. Cardinality(B) < p + Processors
  BY <1>7, <1>8, <1>9, <1>10, <1>12, <1>14, ProcessorsAssumption
<1>. QED
  BY <1>12, <1>15 DEF B

LEMMA MailSends ==
  ASSUME JobsOK, OrderOK, LanesOK, crashes \in Nat, UNCHANGED crashes, NEW i \in JobIds, Mail(i)
  PROVE  Delivery!Send(i) /\ i \in Open
<1>1. PICK n : n = jobs[i].mails + 1
  OBVIOUS
<1>2. jobs[i].state = "active" /\ Becomes(i, "mailed", jobs[i].stalls, n)
  BY <1>1, MailBecomes
<1>3. /\ JobIds' = JobIds
      /\ jobs'[i].kind = jobs[i].kind /\ jobs'[i].to = jobs[i].to /\ jobs'[i].mails = n
      /\ jobs'[i].state = "mailed" /\ jobs'[i].stalls = jobs[i].stalls
      /\ \A j \in JobIds : j # i => jobs'[j] = jobs[j]
  BY <1>2 DEF Becomes
<1>4. Handed' = Handed
  BY <1>3 DEF Handed
<1>5. Sent' = [Sent EXCEPT ![i] = Sent[i] + 1]
  <2>1. Sent' = [j \in JobIds |-> IF j = i THEN n ELSE jobs[j].mails]
    BY <1>3 DEF Sent
  <2>2. Sent[i] + 1 = n
    BY <1>1 DEF Sent
  <2>3. [Sent EXCEPT ![i] = n] = [j \in JobIds |-> IF j = i THEN n ELSE jobs[j].mails]
    BY DEF Sent
  <2>. QED
    BY <2>1, <2>2, <2>3
<1>6. Open' = Open /\ i \in Open
  BY <1>2, <1>3, TheOpen, TheOpenNext
<1>7. Interrupted' = Interrupted
  BY <1>2, <1>3 DEF Interrupted
<1>8. \/ Sent[i] = 0 /\ Cardinality({j \in Open : j < i /\ Sent[j] = 0}) < Processors * (crashes + 1)
      \/ Sent[i] = 1 /\ i \in Interrupted
  <2>1. /\ jobs[i].mails \in Nat /\ jobs[i].stalls \in Nat
        /\ jobs[i].mails <= jobs[i].stalls /\ jobs[i].stalls <= 1
    BY <1>2, JobFacts, JobNumbers DEF GoodJob, MaxStalls
  <2>2. CASE jobs[i].mails = 0
    BY <1>2, <2>2, FewAreOvertaken DEF Sent
  <2>3. CASE jobs[i].mails # 0
    BY <2>1, <2>3 DEF Sent, Interrupted
  <2>. QED
    BY <2>2, <2>3
<1>. QED
  BY <1>4, <1>5, <1>6, <1>7, <1>8, SameCardinality
  DEF Delivery!Send, Delivery!Overtaken, Handed, Sent, Open, Interrupted

LEMMA GrownSeq ==
  ASSUME NEW S, NEW n \in Nat, NEW f \in [1..n -> S], NEW g \in [1..(n + 1) -> S],
         \A i \in 1..n : g[i] = f[i]
  PROVE  Len(f) = n /\ g = Append(f, g[n + 1])
<1>1. f \in Seq(S) /\ Len(f) = n
  OBVIOUS
<1>2. n + 1 \in Nat /\ n + 1 \in 1..(n + 1)
  OBVIOUS
<1>3. g \in Seq(S) /\ Len(g) = n + 1
  BY <1>2
<1>4. PICK e \in S : e = g[n + 1]
  BY <1>2
<1>5. /\ Append(f, e) \in Seq(S)
      /\ Len(Append(f, e)) = n + 1
      /\ \A i \in 1..n : Append(f, e)[i] = f[i]
      /\ Append(f, e)[n + 1] = e
  BY <1>1, AppendProperties
<1>6. \A i \in 1..(n + 1) : i \in 1..n \/ i = n + 1
  OBVIOUS
<1>7. \A i \in 1..(n + 1) : g[i] = Append(f, e)[i]
  BY <1>4, <1>5, <1>6
<1>. QED
  BY <1>1, <1>3, <1>4, <1>5, <1>7, SeqEqual

LEMMA AddHandsOver ==
  ASSUME JobsOK, NEW kind \in Kinds, NEW to \in Recipients, addToEmailsQueue(kind, to),
         JobsOK', UNCHANGED crashes
  PROVE  Delivery!HandOver
<1>1. PICK n : n = Len(jobs)
  OBVIOUS
<1>2. n \in Nat /\ JobIds = 1..n
  BY <1>1, JobFacts
<1>3. /\ JobIds' = JobIds \cup {n + 1} /\ n + 1 \notin JobIds
      /\ \A i \in JobIds : jobs'[i] = jobs[i]
      /\ jobs'[n + 1] = NewJob(kind, to)
  BY <1>1, AddBecomes
<1>4. /\ jobs'[n + 1].kind = kind /\ jobs'[n + 1].to = to
      /\ jobs'[n + 1].state = "adding" /\ jobs'[n + 1].stalls = 0 /\ jobs'[n + 1].mails = 0
  BY <1>3 DEF NewJob
<1>5. JobIds' = 1..(n + 1)
  BY <1>2, <1>3
<1>. DEFINE M == [kind : Kinds, to : Recipients]
<1>6. \A i \in JobIds : jobs[i].mails \in Nat /\ jobs[i].kind \in Kinds /\ jobs[i].to \in Recipients
  BY JobNumbers
<1>7. Handed \in [1..n -> M] /\ Sent \in [1..n -> Nat]
  BY <1>2, <1>6 DEF Handed, Sent
<1>8. \A i \in JobIds' : jobs'[i].mails \in Nat /\ jobs'[i].kind \in Kinds /\ jobs'[i].to \in Recipients
  BY <1>3, <1>4, <1>6
<1>9. Handed' \in [1..(n + 1) -> M] /\ Sent' \in [1..(n + 1) -> Nat]
  BY <1>5, <1>8 DEF Handed, Sent
<1>10. /\ \A i \in 1..n : Handed'[i] = Handed[i] /\ Sent'[i] = Sent[i]
       /\ Sent'[n + 1] = 0
  BY <1>2, <1>3, <1>4 DEF Handed, Sent
<1>11. PICK mail : mail = Handed'[n + 1]
  OBVIOUS
<1>12. mail \in M
  <2>1. n + 1 \in 1..(n + 1)
    BY <1>2
  <2>. QED
    BY <1>9, <1>11, <2>1
<1>. HIDE DEF M
<1>13. Len(Handed) = n /\ Handed' = Append(Handed, mail)
  BY <1>2, <1>7, <1>9, <1>10, <1>11, GrownSeq
<1>14. Sent' = Append(Sent, 0)
  BY <1>2, <1>7, <1>9, <1>10, GrownSeq
<1>15. Open' = Open \cup {n + 1}
  BY <1>3, <1>4, TheOpen, TheOpenNext
<1>16. Interrupted' = Interrupted
  BY <1>3, <1>4 DEF Interrupted
<1>. QED
  BY <1>12, <1>13, <1>14, <1>15, <1>16
  DEF Delivery!HandOver, M, Handed, Sent, Open, Interrupted

LEMMA CrashRestarts ==
  ASSUME JobsOK, OrderOK, LanesOK, crashes' = crashes + 1, Die
  PROVE  Delivery!DeliveryNext
<1>1. PICK lost, found : lost = InState("adding") /\ found = Going
  OBVIOUS
<1>2. \A i \in lost : i \in JobIds /\ jobs[i].state = "adding"
  BY <1>1 DEF InState
<1>3. lost \in SUBSET Open /\ found \in SUBSET Open
  BY <1>1, <1>2, TheOpen, TheGoing
<1>4. \A i \in lost : /\ Sent[i] = 0 /\ i \notin Interrupted
                      /\ \A j \in Open : j > i => j \in lost
  <2>1. ASSUME NEW i \in lost
        PROVE  /\ Sent[i] = 0 /\ i \notin Interrupted
               /\ \A j \in Open : j > i => j \in lost
    <3>1. i \in JobIds /\ jobs[i].stalls = 0 /\ \A j \in JobIds : i < j => jobs[j].state = "adding"
      BY <1>2 DEF OrderOK, AddingOK
    <3>2. jobs[i].mails \in Nat /\ jobs[i].mails <= jobs[i].stalls
      BY <1>2, JobFacts, JobNumbers DEF GoodJob
    <3>3. jobs[i].mails = 0
      BY <3>1, <3>2
    <3>4. i \notin Interrupted
      BY <1>2, <3>1 DEF Interrupted
    <3>5. \A j \in Open : i < j => j \in lost
      BY <1>1, <3>1, TheOpen DEF InState
    <3>6. \A j \in Open : i \in Nat /\ j \in Nat
      BY <3>1, TheOpen, JobNumbers
    <3>7. \A j \in Open : j > i => j \in lost
      BY <3>5, <3>6
    <3>. QED
      BY <3>1, <3>3, <3>4, <3>7 DEF Sent
  <2>. QED
    BY <2>1
<1>5. Cardinality(found) <= Processors
  BY <1>1 DEF LanesOK
<1>6. Handed' = Handed
  BY DieBecomes DEF Handed
<1>7. Sent' = Sent
  BY DieBecomes DEF Sent
<1>8. Open' = Open \ lost
  <2>1. \A i \in JobIds : i \in lost <=> jobs[i].state = "adding"
    BY <1>1 DEF InState
  <2>. QED
    BY <2>1, DieBecomes, TheOpen, TheOpenNext
<1>9. Interrupted' = Interrupted \cup found
  BY <1>1, DieInterrupts
<1>10. Delivery!Restart(lost, found)
  BY <1>4, <1>5, <1>6, <1>7, <1>8, <1>9, SameCardinality
  DEF Delivery!Restart, Handed, Sent, Open, Interrupted
<1>. QED
  BY <1>3, <1>10 DEF Delivery!DeliveryNext, Open

-----------------------------------------------------------------------------
(* The specification *)

DInv == IInv /\ OrderOK /\ LanesOK

LEMMA OrderUnseen ==
  ASSUME DInv, UNCHANGED <<jobs, wait, crashes>>
  PROVE  OrderOK' /\ LanesOK' /\ UNCHANGED Promised
<1>1. OrderOK'
  BY DEF DInv, OrderOK, AddingOK, FreshOK, ListOK, JobIds, Fresh
<1>2. LanesOK'
  BY DEF DInv, LanesOK, Going, Interrupted, InState, JobIds
<1>3. JobIds' = JobIds
  BY DEF JobIds
<1>4. Open' = Open
  BY <1>3, TheOpen, TheOpenNext
<1>5. UNCHANGED Promised
  BY <1>3, <1>4 DEF Promised, Handed, Sent, Interrupted
<1>. QED
  BY <1>1, <1>2, <1>5

Delivers == OrderOK' /\ LanesOK' /\ (Delivery!DeliveryNext \/ UNCHANGED Promised)

LEMMA EndDelivers ==
  ASSUME DInv, UNCHANGED crashes, UNCHANGED wait,
         NEW i \in JobIds, NEW state \in {"completed", "failed"},
         Becomes(i, state, jobs[i].stalls, jobs[i].mails),
         jobs[i].state \in {"active", "mailed", "stalled"},
         jobs[i].state = "stalled" => jobs[i].stalls > 0
  PROVE  Delivers
<1>1. JobsOK /\ WaitOK /\ OrderOK /\ LanesOK /\ crashes \in Nat
  BY DEF DInv, IInv, BoundsOK
<1>2. OrderOK'
  BY <1>1, TakenKeepsOrder
<1>3. jobs[i].stalls > 0 => i \in Interrupted
  BY DEF Interrupted
<1>4. LanesOK'
  BY <1>1, <1>3, BecomesKeepsLanes
<1>5. i \in Open
  BY TheOpen
<1>6. Delivery!Close(i)
  BY <1>5, EndCloses
<1>7. Delivery!DeliveryNext
  BY <1>5, <1>6 DEF Delivery!DeliveryNext, Open
<1>. QED
  BY <1>2, <1>4, <1>7 DEF Delivers

LEMMA ProcessDelivers ==
  ASSUME DInv, UNCHANGED crashes, NEW i \in JobIds, Process(i)
  PROVE  Delivers
<1>1. JobsOK /\ WaitOK /\ OrderOK /\ LanesOK /\ crashes \in Nat
  BY DEF DInv, IInv, BoundsOK
<1>2. jobs[i].stalls \in Nat
  BY <1>1, JobNumbers
<1>3. CASE Arrive(i)
  <2>1. jobs[i].state = "adding" /\ Becomes(i, "waiting", jobs[i].stalls, jobs[i].mails)
    BY <1>1, <1>3, StateBecomes DEF Arrive, InState
  <2>2. jobs[i].stalls = 0
    BY <1>1, <2>1 DEF OrderOK, AddingOK
  <2>3. i \notin Interrupted /\ i \in Open
    BY <2>1, <2>2, TheOpen DEF Interrupted
  <2>4. LanesOK'
    BY <1>1, <2>1, <2>2, BecomesKeepsLanes
  <2>5. UNCHANGED Promised
    BY <2>1, <2>2, <2>3, MovesUnseen
  <2>. QED
    BY <1>1, <1>3, <2>4, <2>5, ArriveKeepsOrder DEF Delivers
<1>4. CASE Mail(i)
  <2>1. jobs[i].state = "active" /\ UNCHANGED wait
    BY <1>1, <1>4, MailBecomes
  <2>2. PICK n : Becomes(i, "mailed", jobs[i].stalls, n)
    BY <1>1, <1>4, MailBecomes
  <2>3. OrderOK'
    BY <1>1, <2>1, <2>2, TakenKeepsOrder
  <2>4. i \in Going
    BY <2>1, TheGoing
  <2>5. jobs[i].stalls > 0 => i \in Interrupted
    BY DEF Interrupted
  <2>6. LanesOK'
    BY <1>1, <2>2, <2>4, <2>5, BecomesKeepsLanes
  <2>7. Delivery!DeliveryNext
    BY <1>1, <1>4, MailSends DEF Delivery!DeliveryNext, Open
  <2>. QED
    BY <2>3, <2>6, <2>7 DEF Delivers
<1>5. CASE Fail(i)
  <2>1. /\ jobs[i].state = "active" /\ UNCHANGED wait
        /\ Becomes(i, "failed", jobs[i].stalls, jobs[i].mails)
    BY <1>1, <1>5, StateBecomes DEF Fail, InState
  <2>. QED
    BY <2>1, EndDelivers
<1>6. CASE Complete(i)
  <2>1. /\ jobs[i].state = "mailed" /\ UNCHANGED wait
        /\ Becomes(i, "completed", jobs[i].stalls, jobs[i].mails)
    BY <1>1, <1>6, StateBecomes DEF Complete, InState
  <2>. QED
    BY <2>1, EndDelivers
<1>7. CASE Recover(i)
  <2>1. jobs[i].state = "stalled" /\ i \in Interrupted /\ i \in Open
    BY <1>1, <1>7, RecoverBecomes, TheOpen DEF Interrupted
  <2>2. CASE Becomes(i, "waiting", jobs[i].stalls + 1, jobs[i].mails)
    <3>1. PICK n : n = jobs[i].stalls + 1
      OBVIOUS
    <3>2. n > 0 /\ Becomes(i, "waiting", n, jobs[i].mails)
      BY <1>2, <2>2, <3>1
    <3>3. LanesOK'
      BY <1>1, <2>1, <3>2, BecomesKeepsLanes
    <3>4. UNCHANGED Promised
      BY <2>1, <3>2, MovesUnseen
    <3>. QED
      BY <1>1, <1>7, <3>3, <3>4, RecoverKeepsOrder DEF Delivers
  <2>3. CASE Becomes(i, "failed", jobs[i].stalls, jobs[i].mails) /\ jobs[i].stalls > 0 /\ UNCHANGED wait
    BY <2>1, <2>3, EndDelivers
  <2>. QED
    BY <1>1, <1>7, <2>2, <2>3, RecoverBecomes
<1>. QED
  BY <1>3, <1>4, <1>5, <1>6, <1>7 DEF Process

LEMMA TakeDelivers == ASSUME DInv, UNCHANGED crashes, Take  PROVE  Delivers
<1>1. JobsOK /\ WaitOK /\ OrderOK /\ LanesOK /\ crashes \in Nat
  BY DEF DInv, IInv, BoundsOK
<1>2. PICK i \in JobIds :
        jobs[i].state = "waiting" /\ Becomes(i, "active", jobs[i].stalls, jobs[i].mails)
  BY <1>1, TakeBecomes
<1>3. i \in Open /\ (jobs[i].stalls > 0 <=> i \in Interrupted)
  BY <1>2, TheOpen DEF Interrupted
<1>4. UNCHANGED Promised
  BY <1>2, <1>3, MovesUnseen
<1>. QED
  BY <1>1, <1>4, TakeKeepsOrder, TakeKeepsLanes DEF Delivers

LEMMA NotifyDelivers == ASSUME DInv, NEW q \in Slots, Notify(q), IInv'  PROVE  Delivers
<1>1. JobsOK /\ WaitOK /\ OrderOK /\ LanesOK /\ crashes \in Nat /\ JobsOK'
  BY DEF DInv, IInv, BoundsOK
<1>2. /\ requests[q].at = "notify"
      /\ addToEmailsQueue(Notice(requests[q].op), requests[q].user)
      /\ UNCHANGED wait /\ UNCHANGED crashes
  BY DEF Notify
<1>3. PICK kind, to : kind = Notice(requests[q].op) /\ to = requests[q].user
  OBVIOUS
<1>4. kind \in Kinds /\ to \in Recipients
  BY <1>2, <1>3, NoticeIsKind, InSlot DEF DInv, Steps, Users
<1>5. addToEmailsQueue(kind, to)
  BY <1>2, <1>3
<1>6. OrderOK' /\ LanesOK'
  BY <1>1, <1>2, <1>4, <1>5, AddKeepsOrder, AddKeepsLanes
<1>7. Delivery!HandOver
  BY <1>1, <1>2, <1>4, <1>5, AddHandsOver
<1>. QED
  BY <1>6, <1>7 DEF Delivers, Delivery!DeliveryNext

LEMMA NextDelivers == ASSUME DInv, IInv', [Next]_vars  PROVE  Delivers
<1>1. ASSUME UNCHANGED <<jobs, wait, crashes>>
      PROVE  Delivers
  BY <1>1, OrderUnseen DEF Delivers
<1>2. ASSUME NEW q \in Slots, Begin(q)
      PROVE  UNCHANGED <<jobs, wait, crashes>>
  BY <1>2 DEF Begin, UpdateAvatar, Update, RemoveAvatar, ChangeStatus
<1>3. ASSUME NEW q \in Slots, Sync(q) \/ Tidy(q) \/ Delete(q) \/ SaveSelect(q) \/ SaveWrite(q)
      PROVE  UNCHANGED <<jobs, wait, crashes>>
  BY <1>3 DEF Sync, Tidy, Delete, SaveSelect, SaveWrite
<1>4. ASSUME NEW q \in Slots, Begin(q) \/ Continue(q)
      PROVE  Delivers
  BY <1>1, <1>2, <1>3, <1>4, NotifyDelivers DEF Continue
<1>5. ASSUME NEW n \in Names, Upload(n)
      PROVE  Delivers
  BY <1>1, <1>5 DEF Upload
<1>6. CASE Queue
  BY <1>6, TakeDelivers, ProcessDelivers DEF Queue
<1>7. CASE Crash
  <2>1. JobsOK /\ WaitOK /\ OrderOK /\ LanesOK /\ crashes \in Nat
    BY DEF DInv, IInv, BoundsOK
  <2>2. crashes' = crashes + 1 /\ Die
    BY <1>7 DEF Crash
  <2>. QED
    BY <2>1, <2>2, DieKeepsOrder, CrashKeepsLanes, CrashRestarts DEF Delivers
<1>8. CASE UNCHANGED vars
  BY <1>1, <1>8 DEF vars
<1>. QED
  BY <1>4, <1>5, <1>6, <1>7, <1>8 DEF Next

LEMMA InitDelivers == Init => OrderOK /\ LanesOK /\ Delivery!DeliveryInit
<1>. SUFFICES ASSUME Init  PROVE  OrderOK /\ LanesOK /\ Delivery!DeliveryInit
  OBVIOUS
<1>1. JobIds = {} /\ crashes = 0 /\ wait = <<>>
  BY DEF Init, JobIds
<1>2. OrderOK
  BY <1>1 DEF OrderOK, AddingOK, FreshOK, ListOK
<1>3. Going = {} /\ Interrupted = {} /\ Open = {}
  BY <1>1 DEF Going, Interrupted, InState, Open
<1>4. LanesOK
  BY <1>1, <1>3, FS_EmptySet, ProcessorsAssumption DEF LanesOK
<1>5. Handed = <<>> /\ Sent = <<>>
  BY <1>1 DEF Handed, Sent
<1>. QED
  BY <1>1, <1>2, <1>3, <1>4, <1>5
  DEF Delivery!DeliveryInit, Handed, Sent, Open, Interrupted

(* The queue of mails keeps what MailDelivery promises, with any number of      *)
(* processors: through restarts, a mail keeps its content and its place, is     *)
(* sent again only if a restart interrupted it, is not lost once redis has it,  *)
(* and overtakes fewer mails than the processors had jobs in hand since.        *)
THEOREM MailsAreDelivered == Spec => KeepsDelivery
<1>1. Init => DInv /\ Delivery!DeliveryInit
  BY InitIInv, InitDelivers DEF DInv
<1>2. DInv /\ [Next]_vars => DInv' /\ [Delivery!DeliveryNext]_(Delivery!delivery)
  BY NextIInv, NextDelivers
  DEF DInv, Delivers, Delivery!delivery, Promised, Handed, Sent, Open, Interrupted
<1>. QED
  BY <1>1, <1>2, PTL DEF Spec, KeepsDelivery, Delivery!DeliverySpec
=============================================================================
