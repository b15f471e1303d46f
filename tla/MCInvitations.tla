--------------------------- MODULE MCInvitations ---------------------------
(* Small instances of Invitations for TLC. *)
EXTENDS Invitations, TLC

CONSTANTS q1, q2, e1, e2

MCSlots == {q1, q2}
MCEmails == {e1, e2}
OneSlot == {q1}
OneEmail == {e1}
(* One caller whose reach holds the invited role, and one whose does not. *)
MCActorRoles == {"technicalAdmin", "businessAdmin"}
MCInvitedRoles == {"labManager", "player"}

SlotSymmetry == Permutations(MCSlots)
Symmetry == Permutations(MCSlots) \cup Permutations(MCEmails)
=============================================================================
