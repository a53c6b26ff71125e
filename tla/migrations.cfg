CONSTANTS
  p1 = p1  p2 = p2  p3 = p3  s1 = s1  s2 = s2
  None = None
  Processes = {p1, p2, p3}
  Stores = {s1, s2}
  MaxVersion = 3
  Known <- Rolling
SPECIFICATION Spec
INVARIANT LedgerIsTrue
PROPERTY UpgradeWhole
