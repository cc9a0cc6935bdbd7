CONSTANTS
  k1 = k1
  k2 = k2
  btc = btc
  eth = eth
  t1 = t1
  t2 = t2
  t3 = t3
  t4 = t4
  p1 = p1
  p2 = p2
  u1 = u1
  None = None
  Scale = 1
  MmrNum = 1
  MmrDen = 8
  FeeBps = 1250
  User = {u1}
  Pid = {p1, p2}
  Task = {t1, t2, t3}
  Order <- Orders
  Price <- Prices
  StartingCash = 8
  Floor = 3
  Presets = {2}
  MinCollateral = 1
  AuthLoadsUser = FALSE
  MayFail = TRUE
SPECIFICATION Spec
SYMMETRY Symmetry
INVARIANTS IndexedAtRest
