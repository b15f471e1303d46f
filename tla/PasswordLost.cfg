SPECIFICATION Spec
CONSTANTS
  q1 = q1
  q2 = q2
  u1 = u1
  u2 = u2
  Slots <- MCSlots
  Users <- OneUser
  Invited <- Nobody
  MaxTokens = 1
  MaxPasswords = 2
  MaxBusy = 2
  MaxCrashes = 0
INVARIANTS PasswordsOpen
CHECK_DEADLOCK FALSE
