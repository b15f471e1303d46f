SPECIFICATION FairSpec
CONSTANTS
  q1 = q1
  q2 = q2
  a = a
  b = b
  Slots <- MCSlots
  Users <- MCUsers
  FirstRole <- MCFirstRole
  Bundles <- MCBundles
  Queries <- MCQueries
  Workloads <- MCWorkloads
  JwtLife = 1
  RecordLife = 2
  MaxTime = 2
  MaxPipe = 3
  MaxFaults = 1
INVARIANTS TypeOK LetInRightly RefusedRightly ListingWithinReach WaitersAreAnswered
PROPERTIES RequestsEnd 
CHECK_DEADLOCK FALSE
