SPECIFICATION FairSpec
CONSTANTS
  Calls = {c1, c2, c3}
  Threshold = 3
  MaxRetries = 2
  Cooldown = 2
INVARIANTS
  BreakerInv
  BreakerAgrees
PROPERTIES
  OpenOnlyDrains
  Recovers
  CallsEnd
CHECK_DEADLOCK TRUE
