SPECIFICATION Spec
CONSTANTS
  c1 = c1
  c2 = c2
  v1 = v1
  v2 = v2
  empty = empty
  Keys <- TwoKeys
  Values <- OneValue
  MaxTxnId = 3
  MaxActive = 1
  Concurrent = FALSE
  MemtableSizeLimit = 2
  FlushMemtableCalls = FALSE
  Compactors <- OneCompactor
  CompactionThreshold = 2
  EntriesPerBlock = 1
  EmptyValue = empty
  MaxFileId = 3
  MaxCrashes = 2
  Reopen = TRUE
INVARIANTS
  LastVersionReadable
  TypeOK
PROPERTIES
  RecoveryComplete
CHECK_DEADLOCK FALSE
