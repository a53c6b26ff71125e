CONSTANTS
  Stacks <- Orders
  Backoffs <- Settings
  MaxDuration = 15
SPECIFICATION Spec
CHECK_DEADLOCK FALSE
INVARIANTS
  BackoffAsCommented
