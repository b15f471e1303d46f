---------------------------- MODULE AccountBook ----------------------------
(***************************************************************************)
(* What the application promises of user accounts as long as its requests  *)
(* and sweeps do not overlap.  Every step changes one thing.  A token is   *)
(* spent once and then has its one effect, or none when the process dies.  *)
(* Only a token verifies an account, and for ever; only an old account     *)
(* that was never verified is closed, and a closed account stays as it is. *)
(***************************************************************************)
EXTENDS Naturals

CONSTANTS Users, Invited

VARIABLES
  accounts,  \* password, verified, status and deleted of each account opened
  old,       \* the users whose grace period is over
  unspent,   \* the tokens nobody has used: number, user and type
  credits    \* what the tokens spent last are for, until it is done

book == <<accounts, old, unspent, credits>>

BookInit ==
  /\ DOMAIN accounts = {}
  /\ old = {}
  /\ unspent = {}
  /\ credits = {}

Standing(user) == user \in DOMAIN accounts /\ ~ accounts[user].deleted

(* An account is opened, verified only if its user was invited. *)
Open(user) ==
  /\ user \notin DOMAIN accounts
  /\ DOMAIN accounts' = DOMAIN accounts \cup {user}
  /\ \A u \in DOMAIN accounts : accounts'[u] = accounts[u]
  /\ ~ accounts'[user].deleted
  /\ accounts'[user].verified <=> user \in Invited
  /\ UNCHANGED <<old, unspent, credits>>

(* The account gets a password that was chosen later than the one it has. *)
Rekeyed(user) ==
  LET password == accounts'[user].password
  IN /\ password > accounts[user].password
     /\ accounts' = [accounts EXCEPT ![user].password = password]

ChangePassword(user) == Standing(user) /\ Rekeyed(user) /\ UNCHANGED <<old, unspent, credits>>

(* Activation and suspension. *)
Move(user) ==
  /\ Standing(user)
  /\ \/ accounts[user].status # "active" /\ accounts' = [accounts EXCEPT ![user].status = "active"]
     \/ accounts[user].status # "suspended" /\ accounts' = [accounts EXCEPT ![user].status = "suspended"]
  /\ UNCHANGED <<old, unspent, credits>>

Issue ==
  /\ unspent \subseteq unspent'
  /\ UNCHANGED <<accounts, old, credits>>

Spend(token) ==
  /\ token \in unspent
  /\ unspent' = unspent \ {token}
  /\ credits' = credits \cup {[user |-> token.user, type |-> token.type]}
  /\ UNCHANGED <<accounts, old>>

(* What the token was for is done, to its user and once. *)
Honour(credit) ==
  /\ Standing(credit.user)
  /\ \/ credit.type = "reset" /\ Rekeyed(credit.user)
     \/ credit.type = "verify" /\ accounts' = [accounts EXCEPT ![credit.user].verified = TRUE]
  /\ credits' = credits \ {credit}
  /\ UNCHANGED <<old, unspent>>

(* The process died, or had nothing to do: another token verified the user. *)
Lose == credits' = {} /\ UNCHANGED <<accounts, old, unspent>>

Age(user) == old' = old \cup {user} /\ UNCHANGED <<accounts, unspent, credits>>

(* The sweep closes some of the old accounts nobody verified. *)
Close(closed) ==
  /\ \A u \in closed : Standing(u) /\ u \in old /\ ~ accounts[u].verified
  /\ accounts' = [u \in DOMAIN accounts |-> [accounts[u] EXCEPT !.deleted = @ \/ u \in closed]]
  /\ UNCHANGED <<old, unspent, credits>>

BookNext ==
  \/ \E user \in Users : Open(user) \/ ChangePassword(user) \/ Move(user) \/ Age(user)
  \/ Issue
  \/ \E token \in unspent : Spend(token)
  \/ \E credit \in credits : Honour(credit)
  \/ Lose
  \/ \E closed \in SUBSET DOMAIN accounts : Close(closed)

BookSpec == BookInit /\ [][BookNext]_book
=============================================================================
