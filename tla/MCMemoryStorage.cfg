SPECIFICATION Spec
CONSTANTS
  t1 = t1
  t2 = t2
  Absent = Absent
  Keys = {k1, k2, k3}
  Tags = {t1, t2}
  Inputs <- MCInputs
  Cleanup = "interval"
  CleanupInterval = 2
  UpdateAgeOnGet = TRUE
  MaxEntries = 2
  MaxSizeBytes = 4
  TagIndexLimit = 3
  MaxRevision = 2
  MaxNow = 2
INVARIANTS
  TypeOK
  BytesExact
  BudgetsKept
  IndexSound
  IndexComplete
PROPERTIES
  KeepsContract
SYMMETRY MCSymmetry
CHECK_DEADLOCK FALSE
