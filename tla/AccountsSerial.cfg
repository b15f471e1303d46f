SPECIFICATION Spec
CONSTANTS
  q1 = q1
  q2 = q2
  u1 = u1
  u2 = u2
  Slots <- OneSlot
  Users <- MCUsers
  Invited <- MCInvited
  MaxTokens = 2
  MaxPasswords = 3
  MaxBusy = 1
  MaxCrashes = 1
PROPERTIES KeepsBook
INVARIANTS ClosedRightly PasswordsOpen
