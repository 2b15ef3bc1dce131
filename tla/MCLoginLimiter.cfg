SPECIFICATION FairSpec
CONSTANTS
  Id = {alice, x1, x2, x3, x4}
  KnownUser = {alice}
  Request = {r1, r2}
  MaxRetries = 2
  LoginTimeout = 2
  LockdownEnabled = TRUE
  MaxLoginLimits = 2
  MaxSpawned = 2
  Never = Never
INVARIANTS OverrunBounded LimiterBounded
PROPERTIES LockHolds EveryLockEnds
