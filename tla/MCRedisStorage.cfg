SPECIFICATION Spec
CONSTANTS
  None = None
  Absent = Absent
  w1 = w1
  w2 = w2
  k1 = k1
  t1 = t1
  Keys = {k1}
  Tags = {t1}
  Writers = {w1, w2}
  KeyOf <- MCOneKey
  TagsOf <- MCOneTag
  Invalidations = {i1, i2}
  Erasers = {e1, e2}
  Fallible = {w1, w2}
  Scoped = TRUE
  Clients <- MCClients
  BatchSize = 1
  Ttl = 1
  StaleTtl = 1
  LockTtl = 1
  MaxDisturbances = 2
  MaxNow = 1
INVARIANTS
  TypeOK
  InvalidationReaches
  AlwaysRegistered
  ClearReaches
PROPERTIES
  LockKeptFromPeers
  KeepsContract
SYMMETRY MCSymmetry
CHECK_DEADLOCK FALSE
