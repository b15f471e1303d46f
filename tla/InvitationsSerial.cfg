SPECIFICATION Spec
CONSTANTS
  q1 = q1
  q2 = q2
  e1 = e1
  e2 = e2
  Slots <- OneSlot
  Emails <- MCEmails
  ActorRoles <- MCActorRoles
  InvitedRoles <- MCInvitedRoles
  MaxInvitations = 3
  MaxBusy = 1
  MaxCrashes = 1
INVARIANTS AtMostOnePending AccountUsesInvitation
PROPERTIES StatusFollowsGraph
