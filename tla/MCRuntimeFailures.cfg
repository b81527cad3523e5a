SPECIFICATION Spec
CONSTANTS
  p1 = p1
  p2 = p2
  c1 = c1
  c2 = c2
  c3 = c3
  NoEntry = NoEntry
  NoProc = NoProc
  Procs = {p1, p2}
  Calls = {c1, c2, c3}
  Writers = {}
  ProcOf <- MCThreeCalls
  Ttl = 1
  StaleTtl = 1
  ErrorTtl = 1
  LockTtl = 1
  Strict = FALSE
  Versioned = FALSE
  Background = TRUE
  ServeStale = TRUE
  CacheErrors = TRUE
  UseLock = FALSE
  LockThrows = FALSE
  FailClosed = TRUE
  Cancellable = {}
  SourceFails = TRUE
  MaxNow = 1
  MaxPolls = 1
  MaxFaults = 1
PROPERTIES
  NewerKeptWithinLife
CHECK_DEADLOCK FALSE
