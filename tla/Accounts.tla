------------------------------ MODULE Accounts ------------------------------
(***************************************************************************)
(* The life of a user's account: registration, verification of the         *)
(* address, password reset and change, activation, suspension, the other   *)
(* updates, and the ten-hourly sweep of users who never verified.          *)
(*                                                                         *)
(* As in Invitations, a slot is one request being served and holds the     *)
(* User entity the request loaded.  TypeORM saves an entity in two steps   *)
(* with awaits between them: it reads the row and keeps the columns that   *)
(* differ, then writes those columns.  Whatever became stale in memory     *)
(* counts as a difference.                                                 *)
(***************************************************************************)
EXTENDS Naturals, Sequences, FiniteSets, StateGraph

CONSTANTS
  Users,         \* the users that may ever be created
  Invited,       \* those who come by an invitation
  Slots,         \* the requests that may be served at the same time
  MaxTokens,     \* bound: rows of the verifications table
  MaxPasswords,  \* bound: passwords ever chosen, the first at registration
  MaxBusy,       \* bound: slots and sweeps in flight at the same time
  MaxCrashes     \* bound: restarts of the process

ASSUME UsersAssumption == Invited \subseteq Users
ASSUME LimitsAssumption ==
  /\ MaxTokens \in Nat /\ MaxBusy \in Nat /\ MaxCrashes \in Nat
  /\ MaxPasswords \in Nat \ {0}

VARIABLES
  users,      \* the table: the row of each user created so far
  aged,       \* the users whose grace period is over
  tokens,     \* the verifications table, in order of creation
  passwords,  \* how many passwords were chosen: the last one's number
  requests,   \* what each slot has in memory
  sweep,      \* what the running sweep has in memory
  crashes     \* restarts so far

vars == <<users, aged, tokens, passwords, requests, sweep, crashes>>

-----------------------------------------------------------------------------
(* Data *)

Ids == DOMAIN users
TokenIds == DOMAIN tokens

(* A stored password is the number of the chosen one it is the hash of.  Broken *)
(* is the hash of a hash: no password opens it.                                 *)
Broken == 0

(* The columns of users the properties tell apart. *)
Columns == {"password", "verified", "status", "deleted"}
Row == [password : Nat, verified : BOOLEAN, status : UserStatus, deleted : BOOLEAN]
NewRow(verified) ==
  [password |-> 1, verified |-> verified, status |-> "active", deleted |-> FALSE]

(* Stands for the entity in slots that are not going to save one. *)
Unread == NewRow(FALSE)

Token == [user : Users, type : {"verify", "reset"}, state : {"live", "lapsed", "used"}]

Ops == {"verify", "reset", "password", "activate", "suspend", "update"}
Steps == {"issue", "find", "spend", "select", "update"}
Request == [op : Ops, at : Steps, user : Users, token : Nat, saves : 1..2,
            entity : Row, changed : SUBSET Columns]
Idle == [at |-> "idle"]

(* Fault: a save writes every column. *)
FaultyChanged(entity, row) == Columns

(* What a save finds to write... *)
Changed(entity, row) == {c \in Columns : entity[c] # row[c]}

(* ...and the row it leaves.  UserSubscriber.beforeUpdate hashes a password that *)
(* is written, also when it is an old hash that only differs by being stale.     *)
Written(row, entity, changed, hash) ==
  LET Column(c) == IF c \in changed THEN entity[c] ELSE row[c]
  IN [password |-> IF "password" \in changed THEN hash ELSE row.password,
      verified |-> Column("verified"),
      status |-> Column("status"),
      deleted |-> Column("deleted")]

(* Fault: the users who are still within their grace period. *)
FaultyOverGracePeriod ==
  {u \in Ids \ aged : ~ users[u].verified /\ ~ users[u].deleted}

(* Fault: whether a user verified makes no difference. *)
FaultyUnverified == {u \in Ids \cap aged : ~ users[u].deleted}

OverGracePeriod == {u \in Ids \cap aged : ~ users[u].verified /\ ~ users[u].deleted}

-----------------------------------------------------------------------------
(* Slots *)

Busy == Cardinality({q \in Slots : requests[q] # Idle}) + (IF sweep = Idle THEN 0 ELSE 1)
CanStart(q) == requests[q] = Idle /\ Busy < MaxBusy

(* These keep MaxTokens and MaxPasswords: what was started has room to finish. *)
TokenRoom ==
  Len(tokens) + Cardinality({q \in Slots : requests[q].at = "issue"}) < MaxTokens
PasswordRoom ==
  LET choosing == {q \in Slots : requests[q].at = "find" /\ requests[q].op = "reset"}
  IN passwords + Cardinality(choosing) < MaxPasswords

Serve(q, request) == requests' = [requests EXCEPT ![q] = request]
Finish(q) == Serve(q, Idle)

Start(op, at, user, token, entity) ==
  [op |-> op, at |-> at, user |-> user, token |-> token,
   saves |-> IF op \in {"activate", "suspend"} THEN 2 ELSE 1,
   entity |-> entity, changed |-> {}]

(* The guard's reload, BindEntityPipe and findOne: none finds a deleted user. *)
Found(u) == u \in Ids /\ ~ users[u].deleted

-----------------------------------------------------------------------------
(* Requests *)

(* POST /users: the row, then its verification token. *)
Register(q) ==
  /\ CanStart(q) /\ TokenRoom
  /\ \E u \in Users \ (Invited \cup Ids) :
       /\ users' = [v \in Ids \cup {u} |-> IF v = u THEN NewRow(FALSE) ELSE users[v]]
       /\ Serve(q, Start("verify", "issue", u, 0, Unread))
  /\ UNCHANGED <<aged, tokens, passwords, sweep, crashes>>

(* POST /auth/forgot-password, and POST /auth/send-verification-email, which *)
(* refuses a user who is verified.  The copy is not saved: none is kept.     *)
AskForToken(q) ==
  /\ CanStart(q) /\ TokenRoom
  /\ \E u \in Users, type \in {"verify", "reset"} :
       /\ Found(u)
       /\ type = "verify" => ~ users[u].verified
       /\ Serve(q, Start(type, "issue", u, 0, Unread))
  /\ UNCHANGED <<users, aged, tokens, passwords, sweep, crashes>>

IssueToken(q) ==
  LET r == requests[q]
  IN /\ r.at = "issue"
     /\ tokens' = Append(tokens, [user |-> r.user, type |-> r.op, state |-> "live"])
     /\ Finish(q)
     /\ UNCHANGED <<users, aged, passwords, sweep, crashes>>

(* Fault: any token that exists passes. *)
FaultyValidToken(i) == TRUE

(* ValidToken of the DTOs: found, and expiresAt not reached. *)
ValidToken(i) == tokens[i].state = "live"

(* POST /auth/reset-password and /auth/verify-email: the validators. *)
CheckToken(q) ==
  /\ CanStart(q)
  /\ \E i \in TokenIds :
       /\ ValidToken(i)
       /\ tokens[i].type = "reset" => PasswordRoom
       /\ Serve(q, Start(tokens[i].type, "find", tokens[i].user, i, Unread))
  /\ UNCHANGED <<users, aged, tokens, passwords, sweep, crashes>>

(* Fault: the user is saved, the token stays as it is. *)
FaultyFindToken(q) ==
  LET r == requests[q]
      row == users[r.user]
  IN /\ r.at = "find"
     /\ \/ row.deleted /\ Finish(q) /\ UNCHANGED passwords
        \/ /\ ~ row.deleted /\ r.op = "verify"
           /\ Serve(q, [r EXCEPT !.at = "select", !.entity = [row EXCEPT !.verified = TRUE]])
           /\ UNCHANGED passwords
        \/ /\ ~ row.deleted /\ r.op = "reset"
           /\ passwords' = passwords + 1
           /\ Serve(q, [r EXCEPT !.at = "select", !.entity = [row EXCEPT !.password = passwords']])
     /\ UNCHANGED <<users, aged, tokens, sweep, crashes>>

(* findVerificationByToken once more, whatever the token is by now.  The join   *)
(* yields no user who is deleted, and the handler throws.                       *)
FindToken(q) ==
  LET r == requests[q]
      row == users[r.user]
  IN /\ r.at = "find"
     /\ \/ row.deleted /\ Finish(q) /\ UNCHANGED passwords
        \/ /\ ~ row.deleted /\ r.op = "verify"
           /\ Serve(q, [r EXCEPT !.at = "spend", !.entity = [row EXCEPT !.verified = TRUE]])
           /\ UNCHANGED passwords
        \/ /\ ~ row.deleted /\ r.op = "reset"
           /\ passwords' = passwords + 1
           /\ Serve(q, [r EXCEPT !.at = "spend", !.entity = [row EXCEPT !.password = passwords']])
     /\ UNCHANGED <<users, aged, tokens, sweep, crashes>>

(* verification.save(): the token ends now. *)
SpendToken(q) ==
  LET r == requests[q]
  IN /\ r.at = "spend"
     /\ tokens' = [tokens EXCEPT ![r.token].state = "used"]
     /\ Serve(q, [r EXCEPT !.at = "select"])
     /\ UNCHANGED <<users, aged, passwords, sweep, crashes>>

(* PUT /auth/password: only who knows the stored password passes. *)
ChangePassword(q) ==
  /\ CanStart(q) /\ PasswordRoom
  /\ \E u \in Users :
       /\ Found(u)
       /\ users[u].password # Broken
       /\ passwords' = passwords + 1
       /\ Serve(q, Start("password", "select", u, 0, [users[u] EXCEPT !.password = passwords']))
  /\ UNCHANGED <<users, aged, tokens, sweep, crashes>>

(* PUT /users/activate/:username and /users/suspend/:username: the transition  *)
(* is applied to the copy the pipe loaded.                                     *)
Activate(q) ==
  /\ CanStart(q)
  /\ \E u \in Users :
       /\ Found(u)
       /\ CanApply(UserGraph, "activation", users[u].status)
       /\ Serve(q, Start("activate", "select", u, 0,
                         [users[u] EXCEPT !.status = UserGraph["activation"].to]))
  /\ UNCHANGED <<users, aged, tokens, passwords, sweep, crashes>>

Suspend(q) ==
  /\ CanStart(q)
  /\ \E u \in Users :
       /\ Found(u)
       /\ CanApply(UserGraph, "suspension", users[u].status)
       /\ Serve(q, Start("suspend", "select", u, 0,
                         [users[u] EXCEPT !.status = UserGraph["suspension"].to]))
  /\ UNCHANGED <<users, aged, tokens, passwords, sweep, crashes>>

(* PUT /users/profile, DELETE /users/avatar, PUT /roles/assign-to-user/:id: they *)
(* change columns that are not modelled and save the entity all the same.        *)
Update(q) ==
  /\ CanStart(q)
  /\ \E u \in Users : Found(u) /\ Serve(q, Start("update", "select", u, 0, users[u]))
  /\ UNCHANGED <<users, aged, tokens, passwords, sweep, crashes>>

(* The first half of a save. *)
SaveSelect(q) ==
  LET r == requests[q]
      changed == Changed(r.entity, users[r.user])
  IN /\ r.at = "select"
     /\ Serve(q, [r EXCEPT !.at = "update", !.changed = changed])
     /\ UNCHANGED <<users, aged, tokens, passwords, sweep, crashes>>

(* The second half.  StateService.apply and saveUser both save, one after the   *)
(* other.  An update may fail on the unique email or username.                  *)
SaveUpdate(q) ==
  LET r == requests[q]
      hash == IF r.op \in {"password", "reset"} THEN r.entity.password ELSE Broken
      row == Written(users[r.user], r.entity, r.changed, hash)
      password == IF "password" \in r.changed THEN hash ELSE r.entity.password
  IN /\ r.at = "update"
     /\ \/ /\ users' = [users EXCEPT ![r.user] = row]
           /\ IF r.saves = 2
                THEN Serve(q, [r EXCEPT !.at = "select", !.saves = 1, !.changed = {},
                                        !.entity.password = password])
                ELSE Finish(q)
        \/ r.op = "update" /\ Finish(q) /\ UNCHANGED users
     /\ UNCHANGED <<aged, tokens, passwords, sweep, crashes>>

-----------------------------------------------------------------------------
(* UserScheduler: softDeleteUsersOverGracePeriod *)

SweepFind ==
  /\ sweep = Idle
  /\ Busy < MaxBusy
  /\ OverGracePeriod # {}
  /\ sweep' = [at |-> "select",
               entities |-> [u \in OverGracePeriod |-> [users[u] EXCEPT !.deleted = TRUE]],
               changed |-> [u \in OverGracePeriod |-> {}]]
  /\ UNCHANGED <<users, aged, tokens, passwords, requests, crashes>>

SweepSelect ==
  /\ sweep.at = "select"
  /\ sweep' = [sweep EXCEPT
                 !.at = "update",
                 !.changed = [u \in DOMAIN sweep.entities |->
                                Changed(sweep.entities[u], users[u])]]
  /\ UNCHANGED <<users, aged, tokens, passwords, requests, crashes>>

(* saveMany: one transaction. *)
SweepUpdate ==
  /\ sweep.at = "update"
  /\ users' = [u \in Ids |->
                 IF u \in DOMAIN sweep.entities
                   THEN Written(users[u], sweep.entities[u], sweep.changed[u], Broken)
                   ELSE users[u]]
  /\ sweep' = Idle
  /\ UNCHANGED <<aged, tokens, passwords, requests, crashes>>

-----------------------------------------------------------------------------
(* The surroundings *)

(* InvitationsService.acceptInvitation creates a user who counts as verified. *)
Join(u) ==
  /\ u \in Invited \ Ids
  /\ users' = [v \in Ids \cup {u} |-> IF v = u THEN NewRow(TRUE) ELSE users[v]]
  /\ UNCHANGED <<aged, tokens, passwords, requests, sweep, crashes>>

(* Fourteen days pass after the creation of a user... *)
Age(u) ==
  /\ u \in Ids \ aged
  /\ aged' = aged \cup {u}
  /\ UNCHANGED <<users, tokens, passwords, requests, sweep, crashes>>

(* ...and the minutes generateVerificationToken gave a token. *)
Lapse(i) ==
  /\ i \in TokenIds
  /\ tokens[i].state = "live"
  /\ tokens' = [tokens EXCEPT ![i].state = "lapsed"]
  /\ UNCHANGED <<users, aged, passwords, requests, sweep, crashes>>

Crash ==
  /\ crashes < MaxCrashes
  /\ crashes' = crashes + 1
  /\ requests' = [q \in Slots |-> Idle]
  /\ sweep' = Idle
  /\ UNCHANGED <<users, aged, tokens, passwords>>

-----------------------------------------------------------------------------
Init ==
  /\ users = [u \in {} |-> NewRow(FALSE)]
  /\ aged = {}
  /\ tokens = <<>>
  /\ passwords = 1
  /\ requests = [q \in Slots |-> Idle]
  /\ sweep = Idle
  /\ crashes = 0

Begin(q) == \/ Register(q) \/ AskForToken(q) \/ CheckToken(q) \/ ChangePassword(q)
            \/ Activate(q) \/ Suspend(q) \/ Update(q)

Continue(q) == \/ IssueToken(q) \/ FindToken(q) \/ SpendToken(q)
               \/ SaveSelect(q) \/ SaveUpdate(q)

Sweeping == SweepFind \/ SweepSelect \/ SweepUpdate

Surroundings ==
  \/ \E u \in Users : Join(u) \/ Age(u)
  \/ \E i \in TokenIds : Lapse(i)
  \/ Crash

Next ==
  \/ \E q \in Slots : Begin(q) \/ Continue(q)
  \/ Sweeping
  \/ Surroundings

Spec == Init /\ [][Next]_vars

(* What was started is resumed, and the sweep runs every ten hours. *)
Fairness == (\A q \in Slots : WF_vars(Continue(q))) /\ WF_vars(Sweeping)

FairSpec == Spec /\ Fairness

-----------------------------------------------------------------------------
(* Properties *)

(* Every variable holds what the code can put there; a slot and the sweep only  *)
(* work on users and tokens that exist.                                         *)
TypeOK ==
  /\ Ids \subseteq Users
  /\ users \in [Ids -> Row]
  /\ aged \subseteq Ids
  /\ tokens \in Seq(Token)
  /\ \A i \in TokenIds : tokens[i].user \in Ids
  /\ passwords \in Nat \ {0}
  /\ requests \in [Slots -> Request \cup {Idle}]
  /\ \A q \in Slots : requests[q] # Idle =>
       /\ requests[q].user \in Ids
       /\ requests[q].at \in {"issue", "find", "spend"} => requests[q].op \in {"verify", "reset"}
       /\ requests[q].at \in {"find", "spend"} => requests[q].token \in TokenIds
  /\ sweep # Idle =>
       \E found \in SUBSET Ids :
         sweep \in [at : {"select", "update"}, entities : [found -> Row],
                   changed : [found -> SUBSET Columns]]
  /\ crashes \in 0..MaxCrashes

(* A verification token of the user has been used up. *)
UsedToken(u) ==
  \E i \in TokenIds : tokens[i] = [user |-> u, type |-> "verify", state |-> "used"]

(* However stale the copies that are saved: a user who did not come by an       *)
(* invitation reads as verified only if a verification token of theirs was used *)
(* up, because verifyEmail saves the token before it saves the user.            *)
VerifiedByToken == \A u \in Ids \ Invited : users[u].verified => UsedToken(u)

(* However requests, sweeps and restarts overlap, and whatever stale copies are  *)
(* written back: only users whose grace period is over are ever deleted, and    *)
(* nobody who came by an invitation, who must not lose the account it made.     *)
ClosedRightly == \A u \in Ids : users[u].deleted => u \in aged /\ u \notin Invited

(* Nobody stays unverified for ever after the grace period: the sweep deletes   *)
(* them, again and again when a request that loaded them before writes them     *)
(* back, unless they verify after all.                                          *)
UnverifiedEnd ==
  \A u \in Users :
    (u \in Ids \cap aged /\ ~ users[u].verified /\ ~ users[u].deleted)
      ~> (u \in Ids /\ (users[u].verified \/ users[u].deleted))

(* What holds when requests and sweeps do not overlap (MaxBusy = 1).            *)

(* The module keeps the promises of AccountBook: a token has its effect once or *)
(* never, and a save changes nothing but what its handler meant to change.      *)
Book == INSTANCE AccountBook
          WITH accounts <- users,
               old <- aged,
               unspent <- {[id |-> i, user |-> tokens[i].user, type |-> tokens[i].type] :
                             i \in {j \in TokenIds : tokens[j].state # "used"}},
               credits <- {[user |-> requests[q].user, type |-> requests[q].op] : q \in
                             {p \in Slots : /\ requests[p].at \in {"select", "update"}
                                            /\ requests[p].op \in {"verify", "reset"}}}
KeepsBook == Book!BookSpec

(* "password updated successfully" (i18n/en/info.json): the stored password is  *)
(* always one that somebody chose.                                              *)
PasswordsOpen == \A u \in Ids : users[u].password # Broken
=============================================================================
