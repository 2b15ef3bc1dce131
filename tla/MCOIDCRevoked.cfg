SPECIFICATION Spec
CONSTANTS
  User = {u1}
  Client = {c1, c2}
  Request = {r1, r2}
  CacheSize = 256
  CodeTtl = 1
  UsedTtl = 2
  TicketTtl = 2
  SessionExpiry = 1
  Never = Never
  MaxTickets = 2
  MaxCodes = 2
  MaxGrants = 3
  MaxTime = 3
  MaxRestarts = 0
  MaxOverlapGrants = 3
  MaxOverlapTime = 3
SYMMETRY Symmetry
INVARIANTS RevokedStaysRevoked
