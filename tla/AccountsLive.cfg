SPECIFICATION FairSpec
CONSTANTS
  q1 = q1
  q2 = q2
  u1 = u1
  u2 = u2
  Slots <- MCSlots
  Users <- OneUser
  Invited <- Nobody
  MaxTokens = 1
  MaxPasswords = 1
  MaxBusy = 3
  MaxCrashes = 1
PROPERTIES UnverifiedEnd
CHECK_DEADLOCK FALSE
