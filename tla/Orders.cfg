CONSTANTS
  r1 = r1
  r2 = r2
  r3 = r3
  k1 = k1
  k2 = k2
  k3 = k3
  p1 = p1
  p2 = p2
  None = None
  Request = {r1, r2, r3}
  Key = {k1, k2, k3}
  Pair = {p1, p2}
  MaxIntent = 3
SPECIFICATION Spec
SYMMETRY Symmetry
CHECK_DEADLOCK FALSE
INVARIANTS TypeOK KeyIsOfTicket
PROPERTY IntentsKept
