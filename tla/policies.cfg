CONSTANTS
  Stacks <- Orders
  Backoffs <- Settings
  MaxDuration = 15
SPECIFICATION FairSpec
CHECK_DEADLOCK FALSE
INVARIANTS
  AttemptsBounded
  LateOnce
  DelaysAsDocumented
PROPERTIES
  KilledReturns
