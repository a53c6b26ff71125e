CONSTANTS
  t1 = t1  h1 = h1  h2 = h2  s1 = s1  s2 = s2
  None = None
  Tasks = {t1}
  Handles = {h1, h2}
  TaskOf <- OneTask
  States = {s1, s2}
  Initial = s1
  Keys = {k1}
  MaxEffects = 2
  OneRun = TRUE
  CanCrash = TRUE
  CanFail = TRUE
  CanExpire = TRUE
  CanStray = FALSE
SPECIFICATION Spec
CHECK_DEADLOCK FALSE
INVARIANTS
  LiveHasRecord
  RecordIsTrue
PROPERTIES
  ImplementsLifecycle
