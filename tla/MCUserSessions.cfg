SPECIFICATION Spec
CONSTANTS
  User = {tina}
  TotpUser = {tina}
  Provider = {"oauth"}
  Request = {r1, r2}
  SessionExpiry = 2
  SessionMaxLifetime = 3
  Hour = 2
  MaxSessions = 2
  MaxTime = 5
  MaxSerialSessions = 3
  MaxSerialTime = 4
SYMMETRY Symmetry
INVARIANTS TypeOK DeletedForGood IdleSessionExpires PendingUsedOnce
PROPERTIES LifetimeRespected SecondFactorRequired DiscardsOnlyDead
