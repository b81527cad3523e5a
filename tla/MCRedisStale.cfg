SPECIFICATION Spec
CONSTANTS
  None = None
  Absent = Absent
  w1 = w1
  w2 = w2
  k1 = k1
  t1 = t1
  Keys = {k1}
  Tags = {t1}
  Writers = {w1, w2}
  KeyOf <- MCOneKey
  TagsOf <- MCOneTag
  Invalidations = {i1}
  Erasers = {e1}
  Fallible = {w1}
  Scoped = TRUE
  Clients <- MCScripts
  BatchSize = 1
  Ttl = 1
  StaleTtl = 1
  LockTtl = 1
  MaxDisturbances = 0
  MaxNow = 2
PROPERTIES
  StaleWindowKept
CHECK_DEADLOCK FALSE
