CONSTANTS
  u1 = u1
  None = None
  User = {u1}
  Start = 1
  Price = {0, 2}
  MaxChanges = 2
  MaxFaults = 1
SPECIFICATION Spec
INVARIANTS TypeOK OnlyVerifiedRank
PROPERTIES BoardHeals HolderViewHeals
