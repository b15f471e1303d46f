SPECIFICATION FairSpec
CONSTANTS
  q1 = q1
  q2 = q2
  a = a
  b = b
  f = f
  g = g
  Slots <- MCSlots
  Recipients <- MCUsers
  Names <- MCNames
  Kinds <- MCKinds
  Workloads <- MCWorkloads
  Processors = 2
  MaxJobs = 3
  MaxPrefixes = 2
INVARIANTS TypeOK AvatarWasSynced SerialAvatars SerialNotices MailedAtMostTwice
PROPERTIES NoticesAreTrue KeepsDelivery JobsEnd
CHECK_DEADLOCK FALSE
