CONSTANTS
  t1 = t1  t2 = t2  k1 = k1  k2 = k2  g0 = g0  g1 = g1
  p1 = p1  p2 = p2  r1 = r1  r2 = r2  r3 = r3
  None = None
  Inherit = Inherit
  Tasks = {t1, t2}
  MaxHandles = 2
  Kinds = {k1}
  Pools = {p1, p2}
  Resources = {r1}
  PoolOf <- Homes
  Groups = {g0, g1}
  Global = g0
  Assignments <- Moves
  Placements <- FirstPool
  Failing = {}
  CanCrash = FALSE
  Races = {"sweep"}
SPECIFICATION Spec
CHECK_DEADLOCK FALSE
SYMMETRY Symmetric
PROPERTY EndedStands
