SPECIFICATION FairSpec
CONSTANTS
  Count = 2
  Runners = {r1, r2}
  MaxAttempts = 3
  MaxCrashes = 1
  MaxStalls = 2
INVARIANTS
  TypeOK
  DeliveredWasAccepted
  GivenUpOnlyAfterRetries
  RetriesBounded
PROPERTY
  EveryEventSettles
CHECK_DEADLOCK FALSE
