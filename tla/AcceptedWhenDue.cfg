SPECIFICATION FairSpec
CONSTANTS
  q1 = q1
  q2 = q2
  e1 = e1
  e2 = e2
  Slots <- OneSlot
  Emails <- OneEmail
  ActorRoles <- MCActorRoles
  InvitedRoles <- MCInvitedRoles
  MaxInvitations = 1
  MaxBusy = 1
  MaxCrashes = 0
PROPERTIES NoAccountWhenDue
