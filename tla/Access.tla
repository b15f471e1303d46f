------------------------------- MODULE Access -------------------------------
(***************************************************************************)
(* Who is let in, and to do what: login, logout and the three guards every *)
(* request passes (session, role, permission), and behind them the         *)
(* handlers that assign roles and permissions, that save a user, and that  *)
(* list users.  Sessions says what redis does meanwhile.                   *)
(*                                                                         *)
(* A slot is one request being served.  It holds the copy of the caller    *)
(* that the guard reloaded, and everything it decides is decided on that.  *)
(***************************************************************************)
EXTENDS Sessions, Search, FiniteSets

CONSTANTS
  FirstRole,  \* the role each user has at first
  Bundles,    \* the sets of permissions that are assigned to roles
  Queries,    \* what callers ask of the listing
  Workloads,  \* bound: what the clients of one behaviour ask for
  MaxPipe,    \* bound: commands on the way to redis
  MaxFaults   \* bound: broken connections and restarts

Ops == {"login", "logout", "list", "update", "updateOther", "assignRole", "assignPermissions"}

ASSUME FirstRoleAssumption == FirstRole \in [Users -> RoleId]
ASSUME QueriesAssumption == \A query \in Queries : query.filters \in Filters
ASSUME BundlesAssumption == Bundles \subseteq SUBSET PermissionKeys
ASSUME WorkloadsAssumption ==
  Workloads \subseteq [ops : SUBSET Ops, callers : SUBSET Users, until : 0..MaxTime]
ASSUME BoundsAssumption == MaxPipe \in Nat /\ MaxFaults \in Nat

VARIABLES
  roles,     \* users.role_id
  grants,    \* role_has_permission: the permissions of each role
  signed,    \* the tokens clients hold
  owner,     \* the token of the login or logout that came last: NoToken after a logout
  requests,  \* what each slot has in memory
  workload,  \* what clients ask for in this behaviour
  faults     \* broken connections and restarts so far

vars == <<now, session, pipe, roles, grants, signed, owner, requests, workload, faults>>

-----------------------------------------------------------------------------
(* Data *)

(* A user's circumstances at one moment.  A request collects those of its       *)
(* caller from its beginning on, after each step, with the roles all users have *)
(* at that moment; the code knows nothing of it.                                *)
Moment == [owner : Token \cup {NoToken}, role : RoleId, keys : SUBSET PermissionKeys,
           roles : [Users -> RoleId]]
Circumstances(u) ==
  [owner |-> owner'[u], role |-> roles'[u], keys |-> grants'[roles'[u]], roles |-> roles']

NoQuery == [filters |-> <<>>, fields |-> {}, term |-> {}]

Steps == {"sign", "ask", "get", "read", "leave", "del", "bind", "select", "write",
          "rows", "query", "listed"}
Request == [op : Ops, at : Steps, user : Users, token : Token \cup {NoToken},
            role : RoleId, keys : SUBSET PermissionKeys,
            value : Token \cup {NoToken},
            subject : Users, wanted : RoleId, bundle : SUBSET PermissionKeys,
            rows : SUBSET PermissionKeys,
            query : Queries \cup {NoQuery}, found : SUBSET RoleId,
            moments : SUBSET Moment]
Idle == [at |-> "idle"]

(* WithPermissions and WithRoles of the routes. *)
Needed(op) ==
  CASE op = "list" -> {"userViewAll"}
    [] op = "update" -> {"userViewOwn"}
    [] op = "assignRole" -> {"roleAssignToUser"}
    [] op = "assignPermissions" -> {"permissionAssignToRole"}
    [] OTHER -> {}
Admitted(op) == IF op = "updateOther" THEN {"admin"} ELSE RoleId

(* RolesGuard and PermissionGuard. *)
Allowed(op, role, keys) == role \in Admitted(op) /\ Can(keys, Needed(op))

-----------------------------------------------------------------------------
(* Slots *)

CanStart(q, op, u) ==
  /\ requests[q] = Idle
  /\ op \in workload.ops
  /\ u \in workload.callers
  /\ Len(pipe) + Cardinality({p \in Slots : requests[p] # Idle}) < MaxPipe

Witness(r) ==
  IF r = Idle THEN r ELSE [r EXCEPT !.moments = @ \cup {Circumstances(r.user)}]

Serve(q, r) == requests' = [p \in Slots |-> Witness(IF p = q THEN r ELSE requests[p])]
Finish(q) == Serve(q, Idle)

(* When the connection breaks, the session is for a moment the one in redis.    *)
WitnessLoss(r) ==
  IF r = Idle THEN r
  ELSE [r EXCEPT !.moments = @ \cup {Circumstances(r.user),
                                      [Circumstances(r.user) EXCEPT !.owner = session[r.user].token]}]

Start(op, at, u, token) ==
  [op |-> op, at |-> at, user |-> u, token |-> token, role |-> roles[u],
   keys |-> grants[roles[u]], value |-> NoToken, subject |-> u, wanted |-> roles[u],
   bundle |-> {}, rows |-> {}, query |-> NoQuery, found |-> {}, moments |-> {}]

-----------------------------------------------------------------------------
(* Login, POST /auth and after POST /users *)

(* validateUser finds the user, and bcrypt takes its time. *)
LoginFind(q) ==
  /\ UNCHANGED <<now, session, pipe, roles, grants, signed, owner, workload, faults>>
  /\ \E u \in Users : CanStart(q, "login", u) /\ Serve(q, Start("login", "sign", u, NoToken))

(* The token is signed, the SET is sent, and the login answered at once. *)
LoginSign(q) ==
  LET r == requests[q]
      token == [user |-> r.user, at |-> now, role |-> r.role]
  IN /\ r.at = "sign"
     /\ Send(Set(token))
     /\ signed' = signed \cup {token}
     /\ owner' = [owner EXCEPT ![r.user] = token]
     /\ UNCHANGED <<now, session, roles, grants, workload, faults>>
     /\ Finish(q)

-----------------------------------------------------------------------------
(* The guards *)

(* Fault: the caller is taken from the token, and never reloaded. *)
FaultyPresent(q) ==
  /\ UNCHANGED <<now, session, pipe, roles, grants, signed, owner, workload, faults>>
  /\ \E op \in Ops \ {"login"}, token \in signed :
       /\ CanStart(q, op, token.user)
       /\ ~ Expired(token)
       /\ Serve(q, [Start(op, "ask", token.user, token) EXCEPT
                      !.role = token.role, !.keys = grants[token.role], !.wanted = token.role])

(* A request with a token: its signature and expiry are checked, and the user   *)
(* in it is reloaded, with role and permissions.                                *)
Present(q) ==
  /\ UNCHANGED <<now, session, pipe, roles, grants, signed, owner, workload, faults>>
  /\ \E op \in Ops \ {"login"}, token \in signed :
       /\ CanStart(q, op, token.user)
       /\ ~ Expired(token)
       /\ Serve(q, Start(op, "ask", token.user, token))

(* sessionExists asks redis. *)
Ask(q) ==
  /\ requests[q].at = "ask"
  /\ Send(Get(q, requests[q].user))
  /\ UNCHANGED <<now, session, roles, grants, signed, owner, workload, faults>>
  /\ Serve(q, [requests[q] EXCEPT !.at = "get"])

(* Where a request goes that the guards let in. *)
Entry(op) ==
  CASE op = "logout" -> "leave"
    [] op = "list" -> "query"
    [] op = "update" -> "select"
    [] OTHER -> "bind"

(* What redis answered is compared, then the role and the permissions of the    *)
(* copy.                                                                        *)
Decide(q) ==
  LET r == requests[q]
  IN /\ r.at = "read"
     /\ UNCHANGED <<now, session, pipe, roles, grants, signed, owner, workload, faults>>
     /\ IF r.value = r.token /\ Allowed(r.op, r.role, r.keys)
          THEN Serve(q, [r EXCEPT !.at = Entry(r.op)])
          ELSE Finish(q)

-----------------------------------------------------------------------------
(* The handlers *)

(* POST /auth/logout *)
Logout(q) ==
  /\ requests[q].at = "leave"
  /\ Send(Del(q, requests[q].user))
  /\ owner' = [owner EXCEPT ![requests[q].user] = NoToken]
  /\ UNCHANGED <<now, session, roles, grants, signed, workload, faults>>
  /\ Serve(q, [requests[q] EXCEPT !.at = "del"])

(* GET /users.  Users take filters, so the listing does not fail. *)
UserRow(u) == [email |-> u, username |-> u, status |-> "active", createdAt |-> "earlier",
               role |-> roles[u]]

Query(q) ==
  /\ requests[q].at = "query"
  /\ UNCHANGED <<now, session, pipe, roles, grants, signed, owner, workload, faults>>
  /\ \E query \in Queries :
       LET enforced == [role |-> DependentRoles[requests[q].role]]
           rows == Listed("User", query, enforced, {UserRow(u) : u \in Users})
       IN Serve(q, [requests[q] EXCEPT !.at = "listed", !.query = query,
                                       !.found = {row.role : row \in rows}])

AnswerListing(q) ==
  /\ requests[q].at = "listed"
  /\ UNCHANGED <<now, session, pipe, roles, grants, signed, owner, workload, faults>>
  /\ Finish(q)

(* PUT /roles/assign-to-user/:id and PUT /users/profile/:username: the pipe     *)
(* loads the user and refuses who is out of reach; the first then gets another  *)
(* role, the second keeps the role of the copy.                                 *)
BindUser(q) ==
  LET r == requests[q]
  IN /\ r.at = "bind" /\ r.op \in {"assignRole", "updateOther"}
     /\ UNCHANGED <<now, session, pipe, roles, grants, signed, owner, workload, faults>>
     /\ \E u \in Users :
          IF ~ WithinReach(r.role, roles[u]) THEN Finish(q)
          ELSE \E role \in IF r.op = "assignRole" THEN {FirstRole[v] : v \in Users} ELSE {roles[u]} :
                 Serve(q, [r EXCEPT !.at = "select", !.subject = u, !.wanted = role])

(* A save reads the row: only a role that differs is written. *)
SaveSelect(q) ==
  LET r == requests[q]
  IN /\ r.at = "select"
     /\ UNCHANGED <<now, session, pipe, roles, grants, signed, owner, workload, faults>>
     /\ IF roles[r.subject] = r.wanted THEN Finish(q) ELSE Serve(q, [r EXCEPT !.at = "write"])

SaveWrite(q) ==
  LET r == requests[q]
  IN /\ r.at = "write"
     /\ roles' = [roles EXCEPT ![r.subject] = r.wanted]
     /\ UNCHANGED <<now, session, pipe, grants, signed, owner, workload, faults>>
     /\ Finish(q)

(* PUT /roles/assign-permissions/:id: the save of the role reads its rows of    *)
(* role_has_permission...                                                       *)
ReadRows(q) ==
  LET r == requests[q]
  IN /\ r.at = "bind" /\ r.op = "assignPermissions"
     /\ UNCHANGED <<now, session, pipe, roles, grants, signed, owner, workload, faults>>
     /\ \E role \in {FirstRole[u] : u \in Users}, bundle \in Bundles :
          Serve(q, [r EXCEPT !.at = "rows", !.wanted = role, !.bundle = bundle,
                             !.rows = grants[role]])

(* ...and then, in one transaction, inserts what is missing in them and deletes *)
(* what is too much.  A row that is there by now violates the primary key.      *)
WriteRows(q) ==
  LET r == requests[q]
      added == r.bundle \ r.rows
      removed == r.rows \ r.bundle
  IN /\ r.at = "rows"
     /\ grants' = IF added \cap grants[r.wanted] # {} THEN grants
                  ELSE [grants EXCEPT ![r.wanted] = (@ \ removed) \cup added]
     /\ UNCHANGED <<now, session, pipe, roles, signed, owner, workload, faults>>
     /\ Finish(q)

-----------------------------------------------------------------------------
(* Redis and the surroundings *)

(* Redis executes the oldest command and answers it.  Only a GET, whose answer  *)
(* the guard waits for, and a DEL, the end of a logout, matter to a request.    *)
Answer ==
  LET command == Head(pipe)
      r == requests[command.slot]
  IN /\ pipe # <<>>
     /\ pipe' = Tail(pipe)
     /\ Execute(command)
     /\ UNCHANGED <<now, roles, grants, signed, owner, workload, faults>>
     /\ CASE command.do = "get" ->
               Serve(command.slot, [r EXCEPT !.at = "read",
                                             !.value = session[command.user].token])
          [] command.do = "del" -> Finish(command.slot)
          [] command.do = "set" -> UNCHANGED requests

Tick ==
  /\ now < workload.until
  /\ Pass
  /\ UNCHANGED <<pipe, roles, grants, signed, owner, requests, workload, faults>>

(* Fault: nobody is told that the answers will not come. *)
FaultyDisconnect ==
  /\ faults < MaxFaults
  /\ faults' = faults + 1
  /\ \E n \in 0..Len(pipe) :
       /\ pipe' = SubSeq(pipe, n + 1, Len(pipe))
       /\ owner' = [u \in Users |-> SettlesOn(pipe', u)]
  /\ UNCHANGED <<now, session, roles, grants, signed, requests, workload>>

(* The connection breaks: the commands that were written and not answered are   *)
(* lost, and so are answers on their way; whoever waits for them is refused.    *)
(* The others are written once the client has connected again.                  *)
Disconnect ==
  /\ faults < MaxFaults
  /\ faults' = faults + 1
  /\ \E n \in 0..Len(pipe) :
       /\ pipe' = SubSeq(pipe, n + 1, Len(pipe))
       /\ UNCHANGED <<now, session, roles, grants, signed, workload>>
       /\ owner' = [u \in Users |-> SettlesOn(pipe', u)]
       /\ LET refused == {q \in Slots : requests[q].at = "read"}
                          \cup {pipe[i].slot : i \in {j \in 1..n : pipe[j].do # "set"}}
          IN requests' = [q \in Slots |-> IF q \in refused THEN Idle ELSE WitnessLoss(requests[q])]

(* The process restarts. *)
Crash ==
  /\ faults < MaxFaults
  /\ faults' = faults + 1
  /\ pipe' = <<>>
  /\ requests' = [q \in Slots |-> Idle]
  /\ owner' = [u \in Users |-> session[u].token]
  /\ UNCHANGED <<now, session, roles, grants, signed, workload>>

-----------------------------------------------------------------------------
(* At first everybody has just signed in, and roles have what the seeds gave. *)
Init ==
  /\ now = 0
  /\ owner = [u \in Users |-> [user |-> u, at |-> 0, role |-> FirstRole[u]]]
  /\ session = [u \in Users |-> [token |-> owner[u], until |-> RecordLife]]
  /\ pipe = <<>>
  /\ roles = FirstRole
  /\ grants = RolePermissions
  /\ signed = {owner[u] : u \in Users}
  /\ requests = [q \in Slots |-> Idle]
  /\ workload \in Workloads
  /\ faults = 0

Continue(q) ==
  \/ LoginSign(q) \/ Ask(q) \/ Decide(q) \/ Logout(q) \/ Query(q) \/ AnswerListing(q)
  \/ BindUser(q) \/ SaveSelect(q) \/ SaveWrite(q) \/ ReadRows(q) \/ WriteRows(q)

Next ==
  \/ \E q \in Slots : LoginFind(q) \/ Present(q) \/ Continue(q)
  \/ Answer
  \/ Tick
  \/ Disconnect
  \/ Crash

Spec == Init /\ [][Next]_vars

(* Handlers are resumed, and the client connects again when it has lost redis. *)
Fairness == (\A q \in Slots : WF_vars(Continue(q))) /\ WF_vars(Answer)

FairSpec == Spec /\ Fairness

-----------------------------------------------------------------------------
(* Properties *)

TokenOrNone == Token \cup {NoToken}

(* Every variable holds what the code can put there. *)
TypeOK ==
  /\ now \in 0..MaxTime
  /\ session \in [Users -> Record]
  /\ pipe \in Seq(Command)
  /\ roles \in [Users -> RoleId]
  /\ grants \in [RoleId -> SUBSET PermissionKeys]
  /\ signed \subseteq Token
  /\ owner \in [Users -> TokenOrNone]
  /\ requests \in [Slots -> Request \cup {Idle}]
  /\ workload \in Workloads
  /\ faults \in 0..MaxFaults

Guarded(r) == r.at \in Steps \ {"sign", "ask", "get", "read"}

(* A handler runs only for a caller whose token was, at some moment since the   *)
(* request began, the one of the last login and not logged out, and who, at     *)
(* some moment, had the role and the permission: nobody gets in with a session  *)
(* that another login replaced, a token from before a logout, or a right that   *)
(* was taken away before they asked, although no SET is awaited.                *)
LetInRightly ==
  \A q \in Slots : Guarded(requests[q]) =>
    LET r == requests[q]
    IN /\ \E m \in r.moments : m.owner = r.token
       /\ \E m \in r.moments : Allowed(r.op, m.role, m.keys)

(* The guards refuse nobody without a reason: at some moment since the request  *)
(* began the session was another one or none, the right was missing, or the     *)
(* token has expired by now.  In particular, who was answered by a login can    *)
(* use the token at once, and for as long as it is valid.                       *)
RefusedRightly ==
  \A q \in Slots : requests[q].at = "read" =>
    LET r == requests[q]
    IN /\ r.value # r.token =>
            Expired(r.token) \/ \E m \in r.moments : m.owner # r.token
       /\ ~ Allowed(r.op, r.role, r.keys) =>
            \E m \in r.moments : ~ Allowed(r.op, m.role, m.keys)

(* Of two filters for roles, only the first one counts.                         *)
Narrowed(query, found) ==
  \A i \in Given(query.filters, "role") :
    (\A j \in Given(query.filters, "role") : i <= j) => found \subseteq query.filters[i].values

(* A listing shows users whose roles are within the reach of a role the caller  *)
(* had since asking, and if it was filtered by roles, only of the first filter. *)
ListingWithinReach ==
  \A q \in Slots : requests[q].at = "listed" =>
    LET r == requests[q]
    IN /\ \E m \in r.moments : \A role \in r.found : role \in DependentRoles[m.role]
       /\ Narrowed(r.query, r.found)

(* Whoever waits for redis has their command still on its way, through broken   *)
(* connections too, and whose answer is to come still waits for it, and for no  *)
(* other: nobody waits for ever, and no answer goes to a later request.         *)
WaitersAreAnswered ==
  /\ \A q \in Slots : requests[q].at \in {"get", "del"} =>
       \E i \in DOMAIN pipe : /\ pipe[i].slot = q /\ pipe[i].user = requests[q].user
                              /\ pipe[i].do = requests[q].at
  /\ \A i, j \in DOMAIN pipe :
       /\ pipe[i].do # "set" => requests[pipe[i].slot].at = pipe[i].do
       /\ pipe[i].do # "set" /\ pipe[j].do # "set" /\ i # j => pipe[i].slot # pipe[j].slot

(* What a request reached, and what a user had, since the request began. *)
Reached(r, u) ==
  \E m, n \in r.moments : Allowed(r.op, m.role, m.keys) /\ n.roles[u] \in DependentRoles[m.role]
Had(r, u, role) == \E m \in r.moments : m.roles[u] = role

(* A user's role changes in two ways only.  Somebody assigns it who at some     *)
(* moment since asking had the right to, by a role that reached one the user    *)
(* had.  Or a profile is saved that was loaded before: then the role is one the *)
(* user had while that request was served, and the profile is the caller's own  *)
(* or, again, was within reach.                                                 *)
RolesChangeRightly ==
  [][\A u \in Users : roles'[u] # roles[u] =>
       \E q \in Slots :
         LET r == requests[q]
         IN /\ r.at = "write" /\ r.subject = u
            /\ \/ r.op = "assignRole" /\ Reached(r, u)
               \/ r.op = "updateOther" /\ Reached(r, u) /\ Had(r, u, roles'[u])
               \/ r.op = "update" /\ r.user = u /\ Had(r, u, roles'[u])]_vars

(* Every request ends, through lost answers too. *)
RequestsEnd == \A q \in Slots : requests[q] # Idle ~> requests[q] = Idle
=============================================================================
