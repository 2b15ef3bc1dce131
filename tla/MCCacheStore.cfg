SPECIFICATION FairSpec
CONSTANTS
  Key = {k1, k2, k3}
  Value = {v1, v2}
  Ttl = {0, 1, 2}
  MaxSize = 2
  MaxTime = 4
  Never = Never
  EmptyKey = EmptyKey
INVARIANTS TypeOK OrderMatchesCache SizeBounded
PROPERTIES ImplementsBoundedMap ExpiredIsReclaimed
