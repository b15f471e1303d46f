SPECIFICATION FairSpec
CONSTANTS
  q1 = q1
  q2 = q2
  e1 = e1
  e2 = e2
  Slots <- MCSlots
  Emails <- OneEmail
  ActorRoles <- MCActorRoles
  InvitedRoles <- MCInvitedRoles
  MaxInvitations = 2
  MaxBusy = 2
  MaxCrashes = 0
PROPERTIES StatusFollowsGraph
