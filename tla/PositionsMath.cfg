CONSTANTS
  Scale = 100
  MmrNum = 1
  MmrDen = 20
  FeeBps = 0
  Collateral = {1, 5, 13, 40}
  Leverage = {2, 5, 10}
  Entries = {12, 30, 64, 99}
  LastMark = 160
SPECIFICATION Spec
INVARIANTS SizeIsGreatest SparedIsSolvent PickedIsSpent BornSafe
