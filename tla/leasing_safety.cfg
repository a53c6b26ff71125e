CONSTANTS
  r1 = r1  r2 = r2  g0 = g0  g1 = g1  t1 = t1  t2 = t2  c1 = c1  c2 = c2
  None = None
  Resources = {r1, r2}
  Groups = {g0, g1}
  Global = g0
  Tasks = {t1, t2}
  Callers = {c1, c2}
  Policies <- Sharing
  Requests <- MixedRequests
SPECIFICATION Spec
INVARIANTS
  Consistent
  LockExclusive
  LeasedStaysPooled
  NoLostWakeup
  LeasesCounted
  HolderCap
PROPERTIES
  AcquireKeepsLocks
  GrantHonoursRequest
