SPECIFICATION Spec
CONSTANTS
  None = None
  shop = shop
  next = next
  legacy = legacy
  users = users
  unnamed = unnamed
  product = product
  audit = audit
  shared = shared
  memory = memory
  Instances = {shop, next, legacy, users, unnamed}
  Config <- MCConfig
  AtStart <- MCAtStart
  Functions = {product, audit}
  FunctionOf <- MCFunctionOf
  TagScopes <- MCTagScopes
  Invalidations = {v1}
  Requests <- MCRequests
  MaxFaults = 1
INVARIANTS
  TypeOK
  InvalidationReaches
  RegistryExact
PROPERTIES
  OthersSpared
CHECK_DEADLOCK FALSE
