SPECIFICATION Spec
CONSTANTS
  q1 = q1
  q2 = q2
  u1 = u1
  u2 = u2
  Slots <- MCSlots
  Users <- OneUser
  Invited <- Nobody
  MaxTokens = 2
  MaxPasswords = 2
  MaxBusy = 2
  MaxCrashes = 1
SYMMETRY SlotSymmetry
INVARIANTS TypeOK VerifiedByToken ClosedRightly
CHECK_DEADLOCK FALSE
