SPECIFICATION Spec
CONSTANTS
  User = {"alice"}
  Request = {r1, r2}
  GroupCacheTTL = 1
  MaxTries = 2
  Configured = {"docker"}
PROPERTY GivesUpUnconnected
