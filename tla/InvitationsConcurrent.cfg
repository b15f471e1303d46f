SPECIFICATION Spec
CONSTANTS
  q1 = q1
  q2 = q2
  e1 = e1
  e2 = e2
  Slots <- MCSlots
  Emails <- MCEmails
  ActorRoles <- MCActorRoles
  InvitedRoles <- MCInvitedRoles
  MaxInvitations = 2
  MaxBusy = 3
  MaxCrashes = 1
SYMMETRY Symmetry
INVARIANTS TypeOK AcceptedHasAccount InvitationsAreMailed
PROPERTIES SettledIsFinal KeepsLedger
