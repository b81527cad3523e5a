SPECIFICATION Spec
CONSTANTS
  a1 = a1
  a2 = a2
  a3 = a3
  k1 = k1
  k2 = k2
  k3 = k3
  None = None
  Adders = {a1, a2, a3}
  KeyOf <- MCKeyOf
  Invalidations = {i1}
  CasModes = {"atomic", "emulated", "none"}
  CasRetries = 2
  MaxKeysPerTag = 3
  Ttl = 2
  MaxNow = 1
INVARIANTS
  TypeOK
  InvalidationReaches
  GivesUpOnlyWhenBeaten
CHECK_DEADLOCK FALSE
