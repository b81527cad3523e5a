SPECIFICATION FairSpec
CONSTANTS
  p1 = p1
  p2 = p2
  c1 = c1
  c2 = c2
  c3 = c3
  NoEntry = NoEntry
  NoProc = NoProc
  Procs = {p1, p2}
  Calls = {c1, c2}
  Writers = {}
  ProcOf <- MCTwoProcs
  Ttl = 1
  StaleTtl = 1
  ErrorTtl = 1
  LockTtl = 1
  Strict = TRUE
  Versioned = FALSE
  Background = FALSE
  ServeStale = TRUE
  CacheErrors = FALSE
  UseLock = TRUE
  LockThrows = FALSE
  FailClosed = FALSE
  Cancellable = {c2}
  SourceFails = TRUE
  MaxNow = 1
  MaxPolls = 1
  MaxFaults = 1
INVARIANTS
  OnlyOverstayersShare
  LockReleased
  FailOpenHidesStorage
PROPERTIES
  EveryCallReturns
CHECK_DEADLOCK FALSE
