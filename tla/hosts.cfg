CONSTANTS
  t1 = t1  t2 = t2  c1 = c1  c2 = c2  e1 = e1  e2 = e2
  None = None
  Resources = {1, 2}
  Tasks = {t1, t2}
  Callers = {c1, c2}
  Emails = {e1, e2}
  Kinds = {"proxy", "account", "payment"}
  MaxTally = 1
  MaxPicks = 5
SPECIFICATION Spec
INVARIANTS
  TypeOK
  OutcomesKept
  EvenRotation
PROPERTIES
  DeletionGuarded
SYMMETRY HostSymmetry
