SPECIFICATION Spec
CONSTANTS
  p1 = p1
  p2 = p2
  None = None
  Processes <- MCProcesses
  Scenarios <- MCScenarios
  Oversized <- MCOversized
  Names <- MCNames
  Unsafe = {" ", ":", "|"}
  MaxDepth = 2
  MaxInlineBytes = 2
  MaxLabel = 3
  MaxKeyLength = 14
  MaxTime = 2
  Lists <- MCLists
  StableStringify <- EncodeList
  EntryKey <- KeyOf
  MayShare <- SameOrConfusable
  Serializes <- SerializesBy
  Serialized <- SerializedBy
  Parses <- ParsesBy
  Parsed <- ParsedBy
  Promised <- PromisedBy
  NameOf <- MCNameOf
INVARIANTS
  ServedAsStored
  Recached
CHECK_DEADLOCK FALSE
