-------------------------- MODULE InvitationLedger --------------------------
(***************************************************************************)
(* What the application promises of an invitation however its requests,    *)
(* the midnight job and restarts interleave: it is issued open, once       *)
(* answered it never opens again, an answer may be overwritten by a late   *)
(* one, and it reads accepted only if an account was made by it.  Accounts *)
(* once made stay.                                                         *)
(***************************************************************************)
EXTENDS Naturals, Sequences

VARIABLES
  book,     \* the answer each issued invitation has, in order of issue
  members   \* the invitations an account was made by

ledger == <<book, members>>

Answers == {"open", "accepted", "withdrawn"}

LedgerInit == book = <<>> /\ members = {}

Issue == book' = Append(book, "open") /\ UNCHANGED members

Admit(i) == members' = members \cup {i} /\ UNCHANGED book

Accept(i) ==
  /\ i \in members
  /\ book' = [book EXCEPT ![i] = "accepted"]
  /\ UNCHANGED members

Withdraw(i) == book' = [book EXCEPT ![i] = "withdrawn"] /\ UNCHANGED members

LedgerNext ==
  \/ Issue
  \/ \E i \in DOMAIN book : Admit(i) \/ Accept(i) \/ Withdraw(i)

LedgerSpec == LedgerInit /\ [][LedgerNext]_ledger
=============================================================================
