# Verification of the Cylab backend

The program is the NestJS backend of Cylab (`src/package.json`: `ctb-api`): users register or are
invited, verify their address, sign in, are activated and suspended, and administrators manage
them. State is in PostgreSQL (through TypeORM), in redis (sessions, bull's job queue) and in an
object store (avatars). One node process serves all requests and runs all scheduled jobs; its
handlers interleave at every `await`.

This directory holds TLA+ models of the parts whose correctness depends on order, overlap and
failure, the TLC instances that check them, and TLAPS proofs for every value of the constants.

Contents: [inventory](#inventory) - [plan](#plan) - [what is modelled](#what-is-modelled) -
[runs](#runs) - [where the code falls short](#where-the-code-falls-short) -
[proofs](#proofs) - [not modelled](#not-modelled) - [how to run](#how-to-run)

## Inventory

Paths are relative to `src/src/`.

| component | state it keeps | operations | talks to |
|---|---|---|---|
| **Invitations** `invitations/` | table `invitations`: address, role, token, status, `expiresAt` | invite, resend, cancel, accept, list; expiry job | state machines (call), users (creates the account), email queue (unawaited call), scheduler (called by) |
| **State machines** `utils/state/` | none; two constant graphs | `apply` (check, set, save), `canTransit`, `getAvailableTransitions` | saves the entity it is given |
| **Scheduled jobs** `utils/scheduler/` | none | midnight: expire invitations; every ten hours: delete users who never verified | invitations, users |
| **Users** `users/` | table `users`: address, username, password hash, `emailVerifyAt`, status, avatar, profile, role, `deletedAt` | register, update profile, remove avatar, activate, suspend, list, sweep | state machines, uploads, email queue, authentication |
| **Authentication and verifications** `auth/services/auth.service.ts` | table `verifications`: token, type, `expiresAt`, user | forgot and reset password, send verification, verify, change password, log in, log out | users, sessions, email queue |
| **Sessions** `auth/guards/auth.guard.ts`, `utils/redis/` | redis key `session:<id>` holding the last token, with a time to live | log in, log out, check on every request | redis; user table (reload) |
| **Roles and permissions** `auth/services/roles-permissions.service.ts`, `auth/guards/` | tables `roles`, `role_has_permission`, `users.role_id` | assign a role or permissions; guards; reach of a role | users, search |
| **Email queue** `utils/queues/` | bull queue in redis | `addToEmailsQueue`, processors | mail service |
| **Search** `utils/search/` | none | builds the `where` of a listing | every listing |
| **Uploads** `utils/uploads/`, `users/avatar-transformer.ts` | objects in temporary and permanent folders | `generateUrl`, `syncFile`, `deleteFile` | users |
| **Countries** `countries/` | a seeded table | list | - |
| Translation, mail texts, configuration, seeds | none of their own | - | - |
| Throttling, filters, interceptors `common/` | request counters | refuse or reshape | - |

What is hard in each, and what makes it correct:

- **Invitations.** Validators of a DTO read the database, the handler acts on what they read
  several awaits later, and saves an entity loaded earlier. Four kinds of request and the midnight
  job can overlap on one row; an acceptance writes two tables without a transaction; a restart may
  fall in between. Correct means: an accepted invitation has its account; nothing reopens an
  answered invitation; one address has at most one pending invitation; a status only moves along
  the graph; an account uses its invitation up; every invitation is mailed; none stays open for ever.
- **State machines.** `apply` checks a copy, then saves the copy. Correct means: every stored
  status change is an edge.
- **Scheduled jobs.** One failing row must not stop the others; whoever is due is eventually served,
  also when requests write rows back or the process restarts.
- **Users, authentication.** Every save writes the whole difference between an entity in memory and
  the row, so a stale column is written back, and the subscriber hashes a password whenever it is
  written. A token is checked in the DTO, found again in the handler and used up two awaits later.
  Correct means: only a token makes a registered user verified; a token has its effect once or
  never; a save changes what its handler meant to change; the stored password opens the account;
  users who never verify end.
- **Sessions.** The `SET` of a login is not awaited, so the next request finds its session only because the
  client keeps the order of its commands; the connection may break and lose them. The record
  lives 320000 s and its token 172800 s, from two constants of one name; a second login replaces the
  first. Correct means: nobody passes with a session that was replaced or logged out, nobody who
  has one is refused, and nobody waits for ever.
- **Roles and permissions.** The guards decide on a copy of the caller that may be stale by then, and
  a save of a user writes its role back. Correct means: whoever is let in had the right since
  they asked, and a role is only changed by somebody who may, or written back as it was.
- **Email queue.** Jobs are put on the queue without await and delivered at least once; processors
  run in parallel. Correct means: a mail says what was true, comes twice at most, and every job that
  arrived comes to its end.
- **Search.** Filters a caller gives are merged with filters the handler enforces. Correct means: the
  enforced ones always hold, roles are intersected, and nothing the caller may see and asked for is left out.
- **Uploads.** The object store and the avatar column change one after the other; the column is read with
  a prefix and written without taking one off; keys are built with `?:` and `+`, whose precedence
  decides what is deleted. Correct means: a row names an object that was stored before.

`PROJECT.json` lists each component's sources and, under hazards, the lines where these things bite
and the properties that watch them.

## Plan

Order: the state that outlives requests first, and where most actors meet.

1. `StateGraph`, `Invitations`, `InvitationLedger`, their proofs. **Done.**
2. `Accounts`, `AccountBook`, `AccountsProofs`. **Done.**
3. `Roles`, `Sessions`, `Access`: login, logout, the guards, and the handlers whose rights may change
   under them. **Done**.
4. `Search`: the where clause as an operator, proved against a reference definition for all queries
   and tables (`SearchProofs`), and used by the listing of `Access`. **Done.**
5. `Uploads`, `EmailQueue` and `Profiles`, which composes them with the users' table, and
   `ProfilesProofs`. **Done.**
6. `InvitationHistoryProofs`, `InvitationSerialProofs`: what overlap never breaks of mails and settled
   addresses, and what holds as long as nothing overlaps. **Done.**
7. The rest of what holds as long as nothing overlaps: the refinement of `AccountBook` (`BookKept` in
   `AccountsProofs`), `SerialAvatars` and `SerialNotices` (in `ProfilesProofs`). **Done.**

8. `MailDelivery`, what the queue of mails promises its callers, refined by `Profiles`; `ClosedRightly` and
   `PasswordsOpen` of accounts, `WaitersAreAnswered` of access; all proved. **Done.**

Nothing of the plan is open. What is left to TLC is liveness.

## What is modelled

    StateGraph            the two state graphs and the guard of a transition
      Invitations         invitations, accounts as seen by them, mail jobs, midnight job
        InvitationLedger  abstract: what survives every interleaving   (refined by Invitations)
        InvitationsProofs, InvitationLedgerProofs, InvitationHistoryProofs, InvitationSerialProofs
        MCInvitations     small instances
      Accounts            users, verifications, passwords, sweep
        AccountBook       abstract: what holds when nothing overlaps   (refined by Accounts, MaxBusy = 1)
        AccountsProofs
        MCAccounts        small instances
      Profiles            avatars, changes of status and their mails
        extends Uploads   the object store
        extends EmailQueue  jobs from the call that adds them to their end
        MailDelivery      abstract: what the queue promises of mails   (refined by Profiles)
        ProfilesProofs
        MCProfiles        small instances
    Roles                 roles, permissions, reach
      Invitations         (above)
      Sessions            redis, its one connection, tokens
        Access            login, logout, guards, assignments, the listing
          extends Search  the where clause        (SearchProofs)
          AccessProofs
          MCAccess        small instances

### Common to all

- **Slots.** A slot is one request being served. It records the step at which the request resumes
  and the entity it has in memory, taken when it was loaded. One action is the code between two
  awaits that touch shared state; reads whose result is not kept are part of the action that uses
  them.
- **Identifiers.** Rows and jobs are numbered in order of creation; the number also stands for the token
  (`nanoid(20)`), which is never guessed or repeated.
- **Time** appears as what it decides: a row becomes due, a token lapses, a user's grace period ends.
  In `Access` it is a counter, `now`, since tokens and records have lifetimes to compare.
- **Restarts** (`Crash`) empty every slot and the running job; tables and queue stay, commands on
  their way are lost.
- **Bounds.** `MaxInvitations`, `MaxTokens`, `MaxPasswords`, `MaxBusy` and `MaxCrashes` sit in the
  guards that *start* work (`Room`, `TokenRoom`, `PasswordRoom`, `CanStart`), never in those that
  finish it, so no bound blocks a handler half way. So do `MaxPipe`, `MaxJobs` and `MaxPrefixes`.
- **Workloads.** In `Access` and `Profiles` each behaviour has a workload, chosen by `Init`, that says which
  operations clients ask for, and whose. It bounds an instance and changes no handler; one run covers
  several combinations without their product.
- **What a request has seen.** Some variables record what a property speaks of and the code
  does not: `moments` and `seen` collect the circumstances of a request's caller from its beginning on
(`moments` with the roles all users have at that moment),
  `owner` is the token of the last login, `removed` the names some removal deleted. No guard reads
  them.
- Operators named `Faulty...` are deliberately wrong versions of the definition that follows
  them. No specification uses them; substituting one shows that a property detects that mistake.

### Invitations

| model | code |
|---|---|
| `invitations`, `Row` | `invitations.entity.ts`; `due` is `expiresAt <= now` |
| `accounts` | users, reduced to address, role, and the invitation they came by |
| `mails` | the INVITATION_EMAIL jobs put on the queue |
| `requests`, `cron` | entities in memory of requests and of the midnight job |
| `InviteValidate`, `Insert`, `Enqueue` | `POST /invitations`: DTO validators, `createInvitation` |
| `ResendBind`, `ApplySave`, `SaveAgain`, `Insert`, `Enqueue` | `POST /invitations/resend/:id` |
| `CancelBind`, `ApplySave`, `SaveAgain` | `PUT /invitations/cancel/:id` |
| `AcceptValidate`, `AcceptFind`, `AcceptCreateUser`, `ApplySave`, `SaveAgain` | `POST /invitations/accept` |
| `CronStart`, `CronSave` | `expireInvitations`, each row of the `Promise.all` on its own |
| `Register`, `SweepUnverified`, `ChangeEmail` | what users and the sweep do to addresses meanwhile |

The first save of a transition is `StateService.apply`'s, the second `saveInvitation`'s.
TypeORM's save reads the row and writes the columns that differ. Here it is one action, which is exact:
after the insert only `status` and `expiresAt` ever change, every save writes an answer (never
`pending`) and sets `expiresAt` to now. A save whose read found its own status already
stored writes nothing, as if it had been done at the read; any other writes its status at the write.

`SweepUnverified` and `ChangeEmail` let any user without an invitation vanish and any user move
at any time: more than the real ones do, so that what is proved of invitations does not
depend on `Accounts`.

### Accounts

| model | code |
|---|---|
| `users`, `Row` | password, verified (`emailVerifyAt`), status, deleted (`deletedAt`) of each user |
| `tokens` | the verifications: user, type, and whether live, lapsed or used |
| `passwords` | passwords ever chosen, numbered; a stored hash is the number it is the hash of, `Broken` the hash of a hash |
| `Register`, `AskForToken`, `IssueToken` | `createUser`, `forgotPassword`, `sendActivationEmail`, `generateVerificationToken` |
| `CheckToken`, `FindToken`, `SpendToken` | `reset-password` and `verify-email`: validator, second lookup, `verification.save()` |
| `ChangePassword`, `Activate`, `Suspend`, `Update` | the handlers that load the user and then save it |
| `SaveSelect`, `SaveUpdate` | the two halves of TypeORM's save |
| `SweepFind`, `SweepSelect`, `SweepUpdate` | `softDeleteUsersOverGracePeriod` and `saveMany` |
| `Join`, `Age`, `Lapse`, `Crash` | accepted invitations, fourteen days, a token's minutes, restarts |

Here the save is two steps, because columns become stale independently. `SaveSelect` reads the
row and keeps the set of columns in which the entity differs; `SaveUpdate` writes exactly those.
`Written` models `UserSubscriber.beforeUpdate`: a password that is written is hashed, also when it is
an old hash that only differs because the row moved on. The reads of a save see soft-deleted rows,
while the guard, `BindEntityPipe`, `findOne` and the join of a token to its user do not.
`activate` and `suspend` save twice (`StateService.apply`, then `saveUser`). The columns
nobody's correctness here depends on (profile, avatar, role) are not told apart: `Update` is any
handler that changes only those, and saves all the same.

### Roles, Sessions and Access

| model | code |
|---|---|
| `RoleId`, `DependentRoles`, `PermissionKeys`, `RolePermissions` | `role.enum.ts`, `permission.enum.ts`; the keys no endpoint asks for are left out |
| `Can`, `WithinReach` | `AuthService.can`; `RoleAuthorizationPipe` |
| `session` | redis: token and end of `session:<id>`; an expired key is gone |
| `pipe`, `Send`, `Answer` | the commands on the connection, executed in order; `Answer` executes the oldest one |
| `roles`, `grants` | `users.role_id`, `role_has_permission` |
| `signed` | the tokens clients hold: a client may present any of them, also old ones |
| `requests` | what each request has in memory; `role` and `keys` are the copy the guard reloaded |
| `LoginFind`, `LoginSign` | `POST /auth`, and `POST /users` after the insert |
| `Present`, `Ask`, `Decide` | `AuthGuard`, `RolesGuard`, `PermissionGuard`: token, reload; `GET`; the answer compared and the rights decided |
| `Logout` | `POST /auth/logout` |
| `Query`, `AnswerListing` | `GET /users` |
| `BindUser`, `SaveSelect`, `SaveWrite` | `PUT /roles/assign-to-user/:id`, `PUT /users/profile`, `PUT /users/profile/:username` |
| `ReadRows`, `WriteRows` | `PUT /roles/assign-permissions/:id`: TypeORM's difference of a many-to-many relation |
| `Tick`, `Disconnect`, `Crash` | time and expiry; a broken connection; a restart |

A token is its user, second and role, since that is what the signed string is made of: two logins within a
second give one string. `Disconnect` loses any prefix of the pipe: what was written and not
answered. Requests that wait for a lost command, or for an answer on its way, are refused, which is
how a rejected `GET` ends; a lost `SET` is noticed by nobody, and `owner` goes back to what
redis will hold. `RedisService` listens to no error event of its client: where the client reports the broken
connection by such an event, the process ends, and that is `Crash`. Permissions users have of their own are not told apart from those of their role: no
endpoint gives any.

### Search

`Listed(entity, query, enforced, rows)` is what `applySearch` returns before order and paging. A filter
is a key with the set of values it lets pass, a term the set of texts that contain it, a row a
function from columns to values. `Enforced` is the merge of a roles filter with the enforced one
(only the first such filter counts), `FilterFields` the spread (enforced filters last), `Alternative` one
`where` object: the term replaces a filter of the same column. A listing of an entity without
filterable fields (countries) that is given a filter fails. `TakesFilters` says when, `Listed` is what a listing shows that
does not fail, and every theorem about it assumes `TakesFilters`; users, whose listing `Access` has, take filters.

### Uploads, EmailQueue and Profiles

| model | code |
|---|---|
| `objects`, `TempKey`, `PathKey`, `DeleteKey` | the bucket; keys as `uploads.service.ts` builds them, precedence included |
| `generateUrl`, `Copy`, `deleteFile` | the upload of a client; `syncFile`'s copy; `deleteFile`, whose errors are logged only |
| `jobs`, `wait` | bull's jobs and waiting list |
| `addToEmailsQueue`, `Arrive`, `Take`, `Mail`, `Fail`, `Complete`, `Die`, `Recover` | `queues.service.ts`, `EmailsQueue.processor.ts`, and what bull does around them |
| `users` | status and avatar; an avatar is a name and how many prefixes precede it |
| `From`, `Loaded`, `Changed`, `Written` | `AvatarTransformer` and TypeORM's comparison: `from` adds the prefix, `to` is the identity |
| `UpdateAvatar`, `Sync`, `Tidy`, `Update` | `updateUser` with a new avatar, and without one |
| `RemoveAvatar`, `Delete` | `removeAvatar` |
| `ChangeStatus`, `Notify` | `activateUser`, `suspendUser`; `Notify` is between the save of `apply` and that of `saveUser` |
| `SaveSelect`, `SaveWrite` | the two halves of a save, as in `Accounts` |

A job that was being processed when the process died is found stalled and goes back to the head of
the list, once (`maxStalledCount`); the second time it fails. There is one attempt for a job that throws.

`MailDelivery` is the queue as the handlers may rely on it: mails are handed over, sent, and done with.
It knows neither list nor lock nor stall, only restarts, the mails each of them found on their way out, and how many
earlier unsent mails a mail may overtake. `KeepsDelivery` maps jobs to it: `sent` is a job's `mails`, `open` the jobs that
have not ended, `interrupted` those that stalled, `Lanes` the processors, `restarts` the restarts.

How TypeORM, redis, its client and bull behave is not in this repository; those definitions are marked
external and follow from how the code calls them.

## Runs

Every passing run is exhaustive. Times are for two workers.

| run | instance | checks | shows |
|---|---|---|---|
| `invitations_concurrent` | 2 slots, 2 addresses, 2 invitations, 3 in flight, 1 restart; 629 124 states, 1 min | `TypeOK`, `AcceptedHasAccount`, `InvitationsAreMailed`, `SettledIsFinal`, `KeepsLedger` | what survives every overlap of two requests, the job and a restart |
| `invitations_serial` | 1 slot, 2 addresses, 3 invitations, 1 in flight, 1 restart; 69 082 states | `AtMostOnePending`, `AccountUsesInvitation`, `StatusFollowsGraph` | what holds only as long as nothing overlaps |
| `invitations_live` | 2 slots, 1 address, 2 invitations, 3 in flight, 1 restart; 155 790 states | `PendingEndsEventually` | the job gets to every pending invitation although answered ones reject on each run |
| `accounts_concurrent` | 2 slots, 1 user, 2 tokens, 2 passwords, 2 in flight, 1 restart; 1 244 032 states, 1 min | `TypeOK`, `VerifiedByToken`, `ClosedRightly` | stale saves never make up a verification, and never delete whose time is not over |
| `accounts_serial` | 1 slot, 2 users (one invited), 2 tokens, 3 passwords, 1 in flight, 1 restart; 357 246 states | `KeepsBook`, `ClosedRightly`, `PasswordsOpen` | Accounts implements AccountBook when nothing overlaps, invited users are never deleted, and no password is lost |
| `accounts_live` | 2 slots, 1 user, 1 token, 3 in flight, 1 restart; 214 886 states | `UnverifiedEnd` | the sweep wins in the end over requests that write deleted users back |
| `access` | 2 slots, an admin and a technical admin, 4 workloads, tokens live 1 unit, records 2, 2 units pass, 3 commands on their way, 1 broken connection or restart; 304 881 states, 2 min | `TypeOK`, `LetInRightly`, `RefusedRightly`, `ListingWithinReach`, `RolesChangeRightly`, `WaitersAreAnswered`, `RequestsEnd` | who is let in and refused while logins, logouts, assignments, expiry and faults overlap |
| `profiles` | 2 slots, 2 users, 2 file names, 6 workloads, 2 processors, 3 jobs, 2 prefixes, up to 2 restarts; 479 211 states, 3 min | `TypeOK`, `AvatarWasSynced`, `SerialAvatars`, `NoticesAreTrue`, `SerialNotices`, `MailedAtMostTwice`, `KeepsDelivery`, `JobsEnd` | what holds of avatars, statuses and mails under overlap and restarts, and what only without; Profiles implements MailDelivery |
| `two_pending`, `final_status_left`, `accepted_when_due`, `password_lost` | the smallest that shows it | one each | expected violations, [below](#where-the-code-falls-short) |

Why these bounds are enough for what they ask: the races of these handlers are between a request's read
and its write, with another actor's write in between, so two slots and the job meet in every order; three
in flight also lets the job run while two requests race. Two invitations of one address
are what *latest invitation* and *resend* are about; the serial run has three, so that a resend follows
an answered and a pending one. Two tokens are one of each type or two of one type. Two passwords are the
old and the new one; three leave room for two changes after the first; `accounts_live` needs none.
One restart falls
between any two steps; `profiles` has two where a job is to stall twice. Three jobs and two processors let two be on
their way, and one wait behind them and be overtaken. In `access` the four workloads are
sessions (one user, with time), roles under the saves of profiles, roles under the listing, and permissions with the listing; a token that
expires before its record, and a record that expires, both need two units of time. Three commands
on their way are a `SET` with a `GET` behind it and another request's. In `profiles` the workloads are avatars of one user with two files,
one file two users name, statuses with two requests and one restart, statuses with one request and two
restarts, and, one request after the other, everything for one user and avatars of two; two prefixes
are one more than a stale save adds to a clean row. Slots and addresses are interchangeable, so the safety runs use them as symmetry
sets; the runs with liveness use none.

`CHECK_DEADLOCK FALSE` is set for the accounts runs with one user: that user can end up deleted with every
token and password of the bounds used, and then nothing is left to do. It is set for `access`, where
behaviours end once every token has expired and no workload logs in, and for `profiles`, where they end
once the jobs of the bound are used up and no operation of the workload applies. The other runs
check for deadlock and find none.

### The properties

Of invitations, under every overlap and restart:

- `AcceptedHasAccount`: a row reads accepted only if an account was made by it.
- `InvitationsAreMailed`: mails carry the address, role and token of a row that exists; without a
  restart every row is mailed or about to be.
- `SettledIsFinal`: once the last invitation of an address was used or ran out, and nothing is in
  flight for it, the address can never be invited again by any endpoint.
- `KeepsLedger`: refinement of `InvitationLedger`. An answered invitation never opens again,
  accepted needs a member, members stay. Late answers may replace each other: that is all the code promises.
- `PendingEndsEventually`: liveness.

Only when nothing overlaps: `AtMostOnePending`, `StatusFollowsGraph`, `AccountUsesInvitation`.

Of accounts, under every overlap: `VerifiedByToken`; `ClosedRightly` (only users whose grace period is over are
ever deleted, and never one who came by an invitation, however stale what is saved); `UnverifiedEnd`
(liveness). When nothing overlaps: `KeepsBook` (each step changes one thing of one user, a token is spent once and
has its one effect or none, only old unverified users are closed and closed ones stay as they
are) and `PasswordsOpen` (what is stored is the hash of a password, never the hash of a hash).

Of access:

- `LetInRightly`: a handler runs only for a caller whose token was the current one, and who had the right, at
  some moment since the request began.
- `RefusedRightly`: whoever is refused had another session or none, lacked the right at some moment
  since asking, or holds a token that has expired.
- `ListingWithinReach`: a listing shows users within the reach of a role the caller had since asking and, if
  it was filtered by roles, only of the first such filter.
- `RolesChangeRightly`: a role changes only by an assignment of somebody who, since asking, had the right and
  reached a role the user had, or by the save of a profile, one's own or one within reach, to a role the user had
  while that request was served.
- `WaitersAreAnswered`: a request waits for redis exactly as long as its own command is on the way, so that
  nobody waits for an answer that is lost, and none reaches a later request.
- `RequestsEnd`: liveness, through lost answers.

Of profiles: `AvatarWasSynced` (an avatar names an object that was copied before, unless some removal
deleted it, however often stale saves prefix it), `NoticesAreTrue` (a mail announces only a status the row had
since the request began), `MailedAtMostTwice`, `KeepsDelivery` (refinement of `MailDelivery`: mails keep their content,
are sent again only if a restart found them on their way out, are lost only while redis does not have them yet, which
takes the last ones first, and when one is sent first, fewer than `Processors * (restarts + 1)` earlier ones are still
unsent), `JobsEnd` (liveness), and, without overlap, `SerialAvatars` (the
name is plain and the object exists) and `SerialNotices` (the last mail says what the status is).

### Fairness

- `WF(Continue(q))` for each slot: the event loop resumes a handler whose await is settled. Nobody is
  obliged to send requests, so no action that begins one is fair.
- `WF(Due(i))`: time passes.
- `WF(CronStart)`, `WF(CronSave(i))`: `@Cron` runs the job every midnight
  (`scheduler.service.ts`), and what it started is resumed.
- `WF(Sweeping)`: likewise every ten hours (`user-scheduler.service.ts`).
- `WF(Answer)`: redis answers what it was sent, and the client connects again when it has lost redis.
- `WF(Queue)`: bull's processors do not rest while there are jobs, and its check for stalled jobs recurs.

Restarts are bounded by `MaxCrashes`; a process restarted for ever would never finish anything.
`UnverifiedEnd` does not ask that users ever use their tokens, nor that grace periods end: it
speaks of users whose period is over.

## Where the code falls short

Each is a run that is expected to be violated, with the line it contradicts in `PROJECT.json`.

- `two_pending`: the validator reads the latest invitation of an address, the insert comes awaits
  later. Two overlapping `POST /invitations` leave two pending invitations, which
  the message "Invitation with this email already exists" and its e2e test rule out.
- `final_status_left`: `StateService.apply` checks the transition against its copy and saves the copy. An
  invitation accepted meanwhile turns cancelled, or a cancelled one accepted; the graph has
  transitions from pending only.
- `accepted_when_due`: `ValidToken` never looks at `expiresAt`. An invitation works until the next
  midnight job although its mail says three days. `NoAccountWhenDue` speaks of invitations that are over while
  no request for their address is served, so that whoever accepts one begins, and is validated, after its time: in the
  trace it becomes due, then `AcceptValidate` lets the request in. No overlap is needed.
- `password_lost`: a suspension (or any other save) that loaded the user before a password change takes the
  old hash for a change, writes it back, and has it hashed again. The change was answered
  "password updated successfully", and no password opens the account.

For the same reason `KeepsBook` holds only in the serial run: with overlap, the sweep can delete a user
who verified after it loaded them, and a request can write a deleted user back.

What a hazard in `PROJECT.json` notes as done by the code is not ruled out by a property either: a second use
of a token under overlap, a cancelled invitation that still makes a user, an avatar whose object a restart left deleted.

## Proofs

All for arbitrary sets of slots, addresses and users and arbitrary bounds, except those about serial
instances: the theorems of `InvitationSerialProofs`, `BookKept` and `PasswordsStayOpen` assume `MaxBusy = 1`, one request or job in
flight, and finitely many slots; `AvatarsAreStored` and `LastNoticesAreTrue` assume finitely many slots, and
their properties name the workloads they speak of.

| theorem | states |
|---|---|
| `InvitationsProofs!TypeCorrect` | `Spec => []TypeOK` |
| `InvitationsProofs!AcceptedCorrect` | `Spec => []AcceptedHasAccount` |
| `InvitationsProofs!Inductive` | `Spec => []IInv` |
| `InvitationLedgerProofs!LedgerKept` | `Spec => KeepsLedger`: Invitations implements InvitationLedger |
| `InvitationHistoryProofs!AllInvitationsMailed` | `Spec => []InvitationsAreMailed` |
| `InvitationHistoryProofs!SettledStaysFinal` | `Spec => SettledIsFinal` |
| `InvitationSerialProofs!OnePendingAtMost` | `Spec => []AtMostOnePending`, if one request or job is in flight at a time |
| `InvitationSerialProofs!InvitationsAreUsedUp` | `Spec => []AccountUsesInvitation`, likewise |
| `InvitationSerialProofs!GraphIsFollowed` | `Spec => StatusFollowsGraph`, likewise |
| `AccountsProofs!TypeCorrect` | `Spec => []TypeOK` |
| `AccountsProofs!OnlyTokensVerify` | `Spec => []VerifiedByToken` |
| `AccountsProofs!Inductive` | `Spec => []IInv` |
| `AccountsProofs!BookKept` | `Spec => KeepsBook`: Accounts implements AccountBook, if one request or sweep is in flight at a time |
| `AccountsProofs!DeletedRightly` | `Spec => []ClosedRightly` |
| `AccountsProofs!PasswordsStayOpen` | `Spec => []PasswordsOpen`, if one request or sweep is in flight at a time |
| `AccessProofs!TypeCorrect` | `Spec => []TypeOK` |
| `AccessProofs!LetInRight` | `Spec => []LetInRightly` |
| `AccessProofs!RefusedRight` | `Spec => []RefusedRightly` |
| `AccessProofs!ListingsStayWithinReach` | `Spec => []ListingWithinReach` |
| `AccessProofs!RolesChangedRightly` | `Spec => RolesChangeRightly` |
| `AccessProofs!WaitersWillBeAnswered` | `Spec => []WaitersAreAnswered` |
| `ProfilesProofs!TypeCorrect` | `Spec => []TypeOK` |
| `ProfilesProofs!AvatarsWereSynced` | `Spec => []AvatarWasSynced` |
| `ProfilesProofs!MailedOnceOrTwice` | `Spec => []MailedAtMostTwice` |
| `ProfilesProofs!NoticesWereTrue` | `Spec => NoticesAreTrue` |
| `ProfilesProofs!MailsAreDelivered` | `Spec => KeepsDelivery`: Profiles implements MailDelivery |
| `ProfilesProofs!AvatarsAreStored` | `Spec => []SerialAvatars` |
| `ProfilesProofs!LastNoticesAreTrue` | `Spec => []SerialNotices` |
| `SearchProofs!EnforcedAlwaysHolds` | if the entity takes the filters, no query shows a row the enforced filters exclude |
| `SearchProofs!RolesAreIntersected` | likewise, roles listed are in the first roles filter and in the enforced one |
| `SearchProofs!WantedIsListed` | likewise, a row that satisfies all filters and the term is listed |

Assumptions: `RolesAssumption` (the roles of an instance are roles), `BoundsAssumption` and
`LimitsAssumption` (bounds are natural numbers, and there is room for the first password),
`UsersAssumption` (invited users are users), `KindsAssumption`, `WorkloadsAssumption`, `ProcessorsAssumption` and
`PrefixesAssumption` (mails are of the two kinds the handlers add, workloads are well-formed, bounds are
numbers), `LivesAssumption` (a session record lives at least as long as a token,
as `auth.config.ts` and `auth.module.ts` have it), `FirstRoleAssumption`, `BundlesAssumption` and
`QueriesAssumption` (users start with roles, what is assigned to roles are permissions, and queries have filters as
`SearchDto` makes them). TLC evaluates them in every run.

**Invitations.** `AcceptedHasAccount` is not inductive: a slot may be about to save *accepted*.
`IInv` adds `SavesAnswers`: a slot at one of its saves holds an answer, never pending, and holds *accepted*
only if the account is there already. `AcceptCreateUser` establishes it, since the code
creates the user before it applies the transition; no step removes an invited account. The
refinement needs the same fact: because every save writes an answer, no stale save maps to a
step that would reopen an entry of the ledger.

The history needs to know whose row a request works on. `OwnRow` says that a request at a step that works on a row
holds that row's address and role; only its status may be stale. Since `Enqueue` mails what it holds, mails
name rows, and `InvitationsAreMailed` is inductive together with it. An address is settled when the last row is
accepted or expired and no save in flight is of its rows: then no step that begins can reach one of them, because
validators and guards refuse, and no step that continues can, because none is there.

One at a time, `SInv` says that what a request has read is still so. `PendingIsLatest`: only the last row of an
address may be pending; hence when that row is answered, none is (`LastAnswered`), and an insert may follow.
`Fresh` says it of the request that is served: the row it is about to answer is pending, the one it
has answered has its status, and an address it is about to insert has no pending row. `CronFresh` says it of the job.
From these a status only moves from pending to an answer (`StatusMoves`), and an account's invitation is accepted
or about to be (`UsedStays`): only a restart can come in between.

**Accounts.** `VerifiedByToken` alone is not inductive either: a copy of the user in some
slot may read verified. `IInv` is a conjunction by variable. `RowsOK` has the property itself.
`TokensOK` says that tokens belong to users that exist. `RequestsOK` says of each request
(`GoodRequest`) that its token, if it has one, is for its user and of its type, and that a copy it is going
to save reads verified only if a token of the user is used up, or this very request is about to
use one up (it is at *spend*). That exception is where the order in `verifyEmail` matters: the
token is saved first. `SweepOK` says that the sweep holds only copies that are not verified. Since tokens
are never taken back (`TokensGrow`), a good copy stays good however long it is held. Most
actions change one slot only and are covered by `ServePreserves`; saves go through `WrittenRow`, which says
that a written row is verified only if the row or the copy was.

`ClosedRightly` holds although a sweep may delete who verified meanwhile, and a request may write the deleted back.
`ClosedInv` says why: what a request holds never reads deleted, so no request deletes; what it holds of an invited user
always reads verified, as the row does, so no save makes one due; and whoever the sweep holds is over the grace
period and not invited. The sweep's choice (`OverGracePeriod`) and `Join`, which
inserts invited users verified, are what it rests on. It also justifies what `Invitations` assumes of the
sweep: that no account made by an invitation is removed.

The refinement needs to know that what is in memory is not stale. Part of `FreshParts` is that the entity of a request
is its row but for what the handler meant to change (`Meant`). Hence the changed columns a save finds are
exactly those, and the row it writes is the entity (`SavedEntity`), with a password hashed once. A token about to be
spent is still unused, and the sweep holds the rows as they are, with *deleted* set. Passwords chosen later have larger numbers
(`Chosen`), so a new password differs from the one there was. Each action is then one step of
the book, or none. `NothingBusy` is where finitely many slots are needed: a count below one means that no slot is in use.
`PasswordsOpen` follows from the refinement: the book lets a password only stay or become a later one (`BookRekeys`),
and a user registers with one that was chosen (`NewPasswords`).

**Profiles.** `AvatarWasSynced` needs that no entity in memory names an object that is not there either:
`StoreOK` is the property of the table with the store, `RequestsOK` says the same of the avatar of each entity,
and that a request past `sync` has its own file in the store. Objects only disappear through `Delete`, which
records the name. For the mails, a request at *notify* has the status it announces among those it has
`seen`. Either the save wrote it, or it was not among the changed columns; so at *write* the invariant says that
a status that is not going to be written was seen. `JobsOK` bounds mails by stalls: a job that is yet to be mailed has at most one mail for each stall,
any other at most one more. `WaitOK` says that the list holds exactly the
waiting jobs, each once; without it `Take` could take a job that was mailed already.

That few mails are overtaken needs the order of the list. `OrderOK` says that commands leave in the order they were
given in, so jobs on the connection are later than all that arrived, and that the list is the jobs that stalled, then
the others in their order. Hence when a job is being processed, whatever earlier one is not sent yet is being processed
too or was once interrupted (`FewAreOvertaken`). `LanesOK` counts both:
at most `Processors` jobs are being processed, and at most `Processors` for each restart have ever been interrupted. `Crash` keeps the
second because it interrupts no more jobs than were being processed (`CrashRestarts`); that what it loses was
neither sent nor interrupted, and has nothing behind it but what is lost too, is the order again.

One at a time, `Serial` adds that what was read is still so (`RequestsFresh`): a save writes the entity's status,
and its avatar unless that is the row's with its prefix (`WrittenFresh`). `NoticesFresh` says that the last mail of a user tells
the status, or that the request just now at *notify* is going to. `OwnRequest` follows an avatar through its handler, and
`OwnAvatar` allows an avatar without its object only to a user whose removal is being served: since nobody else
names the file, that removal is also what takes the name out of the row.

**Search.** There is no state: a row is listed by some alternative; the enforced columns are not
searchable (`SearchableIsNotEnforced`), so no term replaces them; and the spread lets the enforced filter
win. The other direction needs that of several filters of one key there is a first and a last
(`LeastNatural`, `GreatestPlace`).

**Access.** The invariants say that the guard's comparison tells the truth, and that is decided before the comparison:
when redis executes the `GET`. So `IInv` looks ahead. `Reads(commands, first, n, u, v)` says that v is what
redis holds of u after n commands when it holds `first` before them; `PipeOK` says of each `GET` on its way
that the value it is going to read will `Fit` its request: the request's token only if it was the
current one at some moment since, another one only if that was no longer current or has expired.
A `GET` is fit when it is sent, because of `OwnerOK`: all commands executed, redis holds the token of the
last login or logout, unless it has expired. It stays fit when commands are appended behind it, when the
first one is executed (`FirstDone`), when a prefix is lost (`Suffix`: the same value, or the one redis has now, which is
why a broken connection is a moment of its own), and when a record expires (`OtherFirst`): `SessionOK`
says that a record outlives its token, the only place where the two lifetimes are compared. `RequestsOK`
carries the answer to the decision, and `Held` says that the copy of the caller is one of what the
caller was since. The listing follows from `EnforcedAlwaysHolds` and `RolesAreIntersected`. `SubjectWith` follows a save from
the pipe that loads its user to the write: the subject of one's own profile is the caller, that of any other save was
within the reach of the copy's role when it was loaded, and the role a profile keeps is one the subject had. With
`Held` and the decision this is `RolesChangeRightly` at the write.

`WaitersAreAnswered` has two directions. That a command's request waits for it, and for no other, is part of
`PipeOK`: it is what makes a look ahead to the answer meaningful. That a waiting request has its command is `AwaitOK`,
which a broken connection keeps only because it refuses, in the same step, whoever waits for a command that is lost.

**Only model-checked:** the liveness properties, which are out of the prover's reach, as is `ENABLED`. No
model uses recursive operators or induction over data.

## Not modelled

- Two thirds of the lines of `src/src` are tables of data: `database/seeds/blacklist.seed.ts` and
  `country.seed.ts`, 8652 of 13005. They hold no control, and no definition stands for them.
- Countries, translations, mail texts, configuration, the users' seed, response shaping: they change no state.
  Listings of countries, roles and permissions only read; that of users is in `Access`.
- Throttling: it only refuses requests, and models let any request not come.
- Validation of formats, wording, status codes, token entropy and hashing strength.
- Failures of the database itself: a query that rejects ends its handler, which the models
  have where the code's outcome depends on it (unique indexes, restarts).
- In `Accounts`: the values of profile columns, role and avatar; the address of a deleted user, which the
  sweep makes unusable. Avatar and status are in `Profiles`, the role in `Access`. `Invitations` leaves the sweep free to remove any user without an invitation instead.

## How to run

    tlc -config InvitationsConcurrent.cfg MCInvitations
    tlc -config Access.cfg MCAccess
    tlapm AccountsProofs.tla

Each run of `PROJECT.json` names its module and its configuration.
