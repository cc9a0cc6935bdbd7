CONSTANTS
  u1 = u1
  s1 = s1
  s2 = s2
  k1 = k1
  k2 = k2
  r1 = r1
  r2 = r2
  None = None
  User = {u1}
  Session = {s1, s2}
  Token = {k1, k2}
  Request = {r1, r2}
  SessionTtl = 1
  TokenTtl = 1
  Limit = 1
  Window = 2
  MaxTime = 2
  MaxFaults = 1
SPECIFICATION Spec
SYMMETRY MCSymmetry
INVARIANTS TypeOK VerifiedByLiveLink LimitKept
PROPERTY SetOnce
CHECK_DEADLOCK FALSE
