SPECIFICATION Spec
CONSTANTS
  p1 = p1
  p2 = p2
  a1 = a1
  a2 = a2
  Provider <- MCProvider
  Account <- MCAccount
  Whitelisted <- MCWhitelisted
  Request = {r1, r2}
  CacheSize = 1
  PendingTtl = 1
  Never = Never
  NoToken = NoToken
  MaxPending = 2
  MaxCodes = 2
  MaxTime = 2
SYMMETRY Symmetry
INVARIANTS PendingEnds LoginConsented
CHECK_DEADLOCK FALSE
