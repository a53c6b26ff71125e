CONSTANTS
  s1 = s1  s2 = s2
  None = None
  Subs = {s1, s2}
  MaxListeners = 2
  MaxMail = 2
  MaxValidity = 2
  MaxFaults = 1
  CanBackfill = FALSE
  CanCrash = TRUE
  Interval = TRUE
SPECIFICATION Spec
CHECK_DEADLOCK FALSE
INVARIANTS
  RegisteredIsWanted
  NothingSkipped
PROPERTIES
  CursorStands
SYMMETRY SubSymmetry
