CONSTANTS
  u1 = u1  u2 = u2  p1 = p1  p2 = p2  a = a  b = b
  None = None
  Subs = {u1, u2}
  Publishers = {p1, p2}
  Topics = {a, b}
  Size = 0
  MaxSent = 3
SPECIFICATION Spec
CHECK_DEADLOCK FALSE
INVARIANTS
  Accounted
  NoSendOnClosed
PROPERTY NobodyStalls
