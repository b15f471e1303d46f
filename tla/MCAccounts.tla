----------------------------- MODULE MCAccounts -----------------------------
(* Small instances of Accounts for TLC. *)
EXTENDS Accounts, TLC

CONSTANTS q1, q2, u1, u2

MCSlots == {q1, q2}
OneSlot == {q1}
MCUsers == {u1, u2}
OneUser == {u1}
MCInvited == {u2}
Nobody == {}

SlotSymmetry == Permutations(MCSlots)
=============================================================================
