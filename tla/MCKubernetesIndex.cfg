SPECIFICATION FairSpec
CONSTANTS
  Ingress = {i1, i2}
  a1 = a1
  a2 = a2
  d1 = d1
  d2 = d2
  NoDomain = NoDomain
  AppName <- MCAppName
  Domain <- MCDomain
  Manifest <- MCManifest
  MaxChanges = 2
INVARIANTS TypeOK IndexSound ClaimsIndexed NothingOverlooked
PROPERTIES ServedInTheEnd
CHECK_DEADLOCK FALSE
