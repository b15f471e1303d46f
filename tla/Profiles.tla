------------------------------ MODULE Profiles ------------------------------
(***************************************************************************)
(* A user's avatar and status, and what they have outside the database:    *)
(* the object the avatar names (Uploads) and the mails that announce a     *)
(* change of the status (EmailQueue).                                      *)
(*                                                                         *)
(* As in Accounts, a slot is one request being served, holds the entity it *)
(* loaded, and saves it in two steps.  The column avatar holds a name, the *)
(* entity an address: AvatarTransformer puts the prefix before what it     *)
(* reads, and takes nothing from what it writes.                           *)
(***************************************************************************)
EXTENDS Uploads, EmailQueue, StateGraph

CONSTANTS
  Slots,       \* the requests that may be served at the same time
  Workloads,   \* bound: what the clients of one behaviour ask for
  MaxPrefixes  \* bound: prefixes of an avatar when a request loads it

Users == Recipients
Ops == {"avatar", "update", "remove", "activate", "suspend"}

ASSUME KindsAssumption == Kinds = {"account-activation", "account-suspension"}
ASSUME WorkloadsAssumption ==
  Workloads \subseteq [ops : SUBSET Ops, names : [Users -> SUBSET Names], callers : SUBSET Users,
                       busy : Nat, crashes : Nat]
ASSUME PrefixesAssumption == MaxPrefixes \in Nat

VARIABLES
  users,     \* the table
  removed,   \* the names some removal deleted: the code knows nothing of it
  requests,  \* what each slot has in memory
  workload,  \* what clients ask for in this behaviour
  crashes    \* restarts so far

vars == <<users, objects, removed, jobs, wait, requests, workload, crashes>>

-----------------------------------------------------------------------------
(* Data *)

None == [none |-> TRUE]
NoName == "no name"
Avatar == [name : Names, prefixes : Nat] \cup {None}
Row == [status : UserStatus, avatar : Avatar]

(* AvatarTransformer.from *)
From(avatar) == IF avatar = None THEN None ELSE [avatar EXCEPT !.prefixes = @ + 1]
Loaded(row) == [row EXCEPT !.avatar = From(@)]

Columns == {"status", "avatar"}

(* Fault: the entity is compared with the row as it is stored. *)
FaultyChanged(entity, row) == {c \in Columns : entity[c] # row[c]}

Changed(entity, row) == {c \in Columns : entity[c] # Loaded(row)[c]}

(* AvatarTransformer.to is the identity. *)
Written(row, entity, changed) ==
  [c \in Columns |-> IF c \in changed THEN entity[c] ELSE row[c]]

Steps == {"sync", "tidy", "delete", "select", "write", "notify"}
Request == [op : Ops, at : Steps, user : Users, name : Names \cup {NoName}, entity : Row,
            changed : SUBSET Columns, saves : 1..2, seen : SUBSET UserStatus]
Idle == [at |-> "idle"]

(* Fault: both handlers announce an activation. *)
FaultyNotice(op) == "account-activation"

Notice(op) == IF op = "activate" THEN "account-activation" ELSE "account-suspension"
Announced(kind) == IF kind = "account-activation" THEN "active" ELSE "suspended"

-----------------------------------------------------------------------------
(* Slots *)

Busy == Cardinality({q \in Slots : requests[q] # Idle})
Announcing == {q \in Slots : requests[q].at \in Steps /\ requests[q].saves = 2}

CanStart(q, op, u) ==
  /\ requests[q] = Idle /\ Busy < workload.busy
  /\ op \in workload.ops /\ u \in workload.callers
  /\ users[u].avatar # None => users[u].avatar.prefixes < MaxPrefixes
  /\ op \in {"activate", "suspend"} => Len(jobs) + Cardinality(Announcing) < MaxJobs

(* A request has seen the statuses of its user from its beginning on. *)
Witness(r) == IF r = Idle THEN r ELSE [r EXCEPT !.seen = @ \cup {users'[r.user].status}]

Serve(q, r) == requests' = [p \in Slots |-> Witness(IF p = q THEN r ELSE requests[p])]
Finish(q) == Serve(q, Idle)

Start(op, at, u, name, entity) ==
  [op |-> op, at |-> at, user |-> u, name |-> name, entity |-> entity, changed |-> {},
   saves |-> IF op \in {"activate", "suspend"} THEN 2 ELSE 1, seen |-> {users[u].status}]

-----------------------------------------------------------------------------
(* Requests *)

(* PUT /users/profile and /users/profile/:username with a new avatar: the file  *)
(* the client has uploaded is copied first.                                     *)
UpdateAvatar(q) ==
  /\ UNCHANGED <<users, objects, removed, jobs, wait, workload, crashes>>
  /\ \E u \in Users : \E n \in workload.names[u] :
       /\ CanStart(q, "avatar", u)
       /\ Serve(q, Start("avatar", "sync", u, n, Loaded(users[u])))

(* Fault: an error of copyObject is forgotten like one of deleteObject. *)
FaultySync(q) ==
  LET r == requests[q]
  IN /\ r.at = "sync"
     /\ UNCHANGED <<users, removed, jobs, wait, workload, crashes>>
     /\ \/ Copy(r.name) /\ Serve(q, [r EXCEPT !.at = "tidy"])
        \/ UNCHANGED objects /\ Serve(q, [r EXCEPT !.at = "tidy"])

(* syncFile: a file that is not there, or any error, refuses the request. *)
Sync(q) ==
  LET r == requests[q]
  IN /\ r.at = "sync"
     /\ UNCHANGED <<users, removed, jobs, wait, workload, crashes>>
     /\ \/ Copy(r.name) /\ Serve(q, [r EXCEPT !.at = "tidy"])
        \/ UNCHANGED objects /\ Finish(q)

(* The end of syncFile, and the assignment of the name. *)
Tidy(q) ==
  LET r == requests[q]
  IN /\ r.at = "tidy"
     /\ deleteFile(r.name, TRUE)
     /\ UNCHANGED <<users, removed, jobs, wait, workload, crashes>>
     /\ Serve(q, [r EXCEPT !.at = "select",
                           !.entity.avatar = [name |-> r.name, prefixes |-> 0]])

(* The same routes without a new avatar, or with null for one. *)
Update(q) ==
  /\ UNCHANGED <<users, objects, removed, jobs, wait, workload, crashes>>
  /\ \E u \in Users : \E avatar \in {Loaded(users[u]).avatar, None} :
       /\ CanStart(q, "update", u)
       /\ Serve(q, Start("update", "select", u, NoName, [users[u] EXCEPT !.avatar = avatar]))

(* DELETE /users/avatar; nothing happens to a user without one.  Whatever the   *)
(* prefixes, the last segment of the address is the name.                       *)
RemoveAvatar(q) ==
  /\ UNCHANGED <<users, objects, removed, jobs, wait, workload, crashes>>
  /\ \E u \in Users :
       /\ CanStart(q, "remove", u)
       /\ users[u].avatar # None
       /\ Serve(q, Start("remove", "delete", u, users[u].avatar.name, Loaded(users[u])))

Delete(q) ==
  LET r == requests[q]
  IN /\ r.at = "delete"
     /\ deleteFile(r.name, FALSE)
     /\ removed' = removed \cup {r.name}
     /\ UNCHANGED <<users, jobs, wait, workload, crashes>>
     /\ Serve(q, [r EXCEPT !.at = "select", !.entity.avatar = None])

(* PUT /users/activate/:username and /users/suspend/:username: the transition   *)
(* is applied to the copy the pipe loaded.                                      *)
ChangeStatus(q) ==
  /\ UNCHANGED <<users, objects, removed, jobs, wait, workload, crashes>>
  /\ \E u \in Users, op \in {"activate", "suspend"} :
       LET transition == IF op = "activate" THEN "activation" ELSE "suspension"
       IN /\ CanStart(q, op, u)
          /\ CanApply(UserGraph, transition, users[u].status)
          /\ Serve(q, Start(op, "select", u, NoName,
                            [Loaded(users[u]) EXCEPT !.status = UserGraph[transition].to]))

(* The first half of a save. *)
SaveSelect(q) ==
  LET r == requests[q]
  IN /\ r.at = "select"
     /\ UNCHANGED <<users, objects, removed, jobs, wait, workload, crashes>>
     /\ Serve(q, [r EXCEPT !.at = "write", !.changed = Changed(r.entity, users[r.user])])

(* The second half: the save of StateService.apply is followed by the mail, the *)
(* save of saveUser by the answer.  An update may fail on a unique column.      *)
SaveWrite(q) ==
  LET r == requests[q]
  IN /\ r.at = "write"
     /\ UNCHANGED <<objects, removed, jobs, wait, workload, crashes>>
     /\ \/ /\ users' = [users EXCEPT ![r.user] = Written(@, r.entity, r.changed)]
           /\ IF r.saves = 2 THEN Serve(q, [r EXCEPT !.at = "notify"]) ELSE Finish(q)
        \/ r.op \in {"avatar", "update"} /\ UNCHANGED users /\ Finish(q)

(* Fault: the mail is added before anything is saved. *)
FaultyNotify(q) ==
  LET r == requests[q]
  IN /\ r.at \in {"select", "notify"} /\ r.saves = 2
     /\ addToEmailsQueue(Notice(r.op), r.user)
     /\ UNCHANGED <<users, objects, removed, wait, workload, crashes>>
     /\ Serve(q, [r EXCEPT !.at = "select", !.saves = 1])

(* The handler goes on without waiting for the queue. *)
Notify(q) ==
  LET r == requests[q]
  IN /\ r.at = "notify"
     /\ addToEmailsQueue(Notice(r.op), r.user)
     /\ UNCHANGED <<users, objects, removed, wait, workload, crashes>>
     /\ Serve(q, [r EXCEPT !.at = "select", !.saves = 1])

-----------------------------------------------------------------------------
(* The surroundings *)

Upload(n) ==
  /\ "avatar" \in workload.ops
  /\ generateUrl(n)
  /\ UNCHANGED <<users, removed, jobs, wait, requests, workload, crashes>>

Queue ==
  /\ Take \/ \E i \in JobIds : Process(i)
  /\ UNCHANGED <<users, objects, removed, requests, workload, crashes>>

Crash ==
  /\ crashes < workload.crashes
  /\ crashes' = crashes + 1
  /\ requests' = [q \in Slots |-> Idle]
  /\ Die
  /\ UNCHANGED <<users, objects, removed, workload>>

-----------------------------------------------------------------------------
Init ==
  /\ users = [u \in Users |-> [status |-> "active", avatar |-> None]]
  /\ objects = {}
  /\ removed = {}
  /\ jobs = <<>>
  /\ wait = <<>>
  /\ requests = [q \in Slots |-> Idle]
  /\ workload \in Workloads
  /\ crashes = 0

Begin(q) == UpdateAvatar(q) \/ Update(q) \/ RemoveAvatar(q) \/ ChangeStatus(q)
Continue(q) == Sync(q) \/ Tidy(q) \/ Delete(q) \/ SaveSelect(q) \/ SaveWrite(q) \/ Notify(q)

Next ==
  \/ \E q \in Slots : Begin(q) \/ Continue(q)
  \/ \E n \in Names : Upload(n)
  \/ Queue
  \/ Crash

Spec == Init /\ [][Next]_vars

(* The processors never rest while there are jobs. *)
Fairness == WF_vars(Queue)
FairSpec == Spec /\ Fairness

-----------------------------------------------------------------------------
(* Properties *)

(* Every variable holds what the code can put there, and the list of waiting    *)
(* jobs names those that wait, each once.                                       *)
TypeOK ==
  /\ users \in [Users -> Row]
  /\ objects \subseteq AllKeys
  /\ removed \subseteq Names
  /\ jobs \in Seq(Job)
  /\ wait \in Seq(JobIds)
  /\ InState("waiting") = {wait[i] : i \in DOMAIN wait}
  /\ \A i, j \in DOMAIN wait : wait[i] = wait[j] => i = j
  /\ requests \in [Slots -> Request \cup {Idle}]
  /\ workload \in Workloads
  /\ crashes \in 0..workload.crashes

(* However often its prefix was added to it, and whoever writes it back: an     *)
(* avatar names an object that was copied before the row named it, and is still *)
(* there unless a removal deleted it.                                           *)
AvatarWasSynced ==
  \A u \in Users : users[u].avatar # None =>
    \/ PathKey(users[u].avatar.name) \in objects
    \/ users[u].avatar.name \in removed

OneAtATime == workload.busy = 1 /\ workload.crashes = 0
OwnNames == \A u, v \in Users : u # v => workload.names[u] \cap workload.names[v] = {}

(* When requests do not overlap and users do not name each other's files, an    *)
(* avatar is a plain name of an object that exists, or is just being removed.   *)
SerialAvatars ==
  OneAtATime /\ OwnNames =>
    \A u \in Users : users[u].avatar # None =>
      /\ users[u].avatar.prefixes = 0
      /\ \/ PathKey(users[u].avatar.name) \in objects
         \/ \E q \in Slots : requests[q] # Idle /\ requests[q].op = "remove"

(* A mail about a status is added only when the user's row had that status at   *)
(* some moment since the request began, whatever other requests write.          *)
NoticesAreTrue ==
  [][Len(jobs') > Len(jobs) =>
       \E q \in Slots : /\ requests[q] # Idle /\ requests'[q] # requests[q]
                        /\ requests[q].user = jobs'[Len(jobs')].to
                        /\ Announced(jobs'[Len(jobs')].kind) \in requests[q].seen]_vars

Notices(u) == {i \in JobIds : jobs[i].to = u}

(* When requests do not overlap, the last mail that was added about a user says *)
(* what the status is.                                                          *)
SerialNotices ==
  OneAtATime /\ Busy = 0 =>
    \A u \in Users, i \in JobIds :
      i \in Notices(u) /\ (\A j \in Notices(u) : j <= i) =>
        Announced(jobs[i].kind) = users[u].status

(* A job is mailed once, and once more if it stalled: never a third time. *)
MailedAtMostTwice ==
  \A i \in JobIds : jobs[i].mails <= 1 + jobs[i].stalls /\ jobs[i].stalls <= MaxStalls

(* The queue keeps the promises of MailDelivery: no mail changes, or is sent    *)
(* again unless a restart interrupted it, or is lost once redis has it; and few *)
(* overtake an earlier one, although several processors run side by side.       *)
Delivery ==
  INSTANCE MailDelivery
    WITH Mails <- [kind : Kinds, to : Recipients],
         Lanes <- Processors,
         mails <- [i \in JobIds |-> [kind |-> jobs[i].kind, to |-> jobs[i].to]],
         sent <- [i \in JobIds |-> jobs[i].mails],
         open <- {i \in JobIds : ~ Ended(i)},
         interrupted <- {i \in JobIds : jobs[i].stalls > 0 \/ jobs[i].state = "stalled"},
         restarts <- crashes
KeepsDelivery == Delivery!DeliverySpec

(* Every mail that was added is processed to its end, through restarts. *)
JobsEnd == \A i \in 1..MaxJobs : (i \in JobIds) ~> (i \in JobIds /\ Ended(i))
=============================================================================
