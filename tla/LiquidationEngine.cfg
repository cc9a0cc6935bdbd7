CONSTANTS
  p1 = p1
  p2 = p2
  u1 = u1
  u2 = u2
  Scale = 1
  MmrNum = 1
  MmrDen = 8
  FeeBps = 0
  Pid = {p1, p2}
  Owner <- TwoOwners
  SideOf <- BothLong
  LiqPrice <- Staggered
  Mark = {80, 100}
  QueueCap = 1
  MaxFaults = 2
SPECIFICATION FairSpec
INVARIANTS TypeOK
PROPERTIES LiquidatedIsReviewed ScanLeavesNone CrossedFalls IndexHeals
