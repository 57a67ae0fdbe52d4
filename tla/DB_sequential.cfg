SPECIFICATION Spec
CONSTANTS
  c1 = c1
  c2 = c2
  v1 = v1
  v2 = v2
  empty = empty
  Keys <- TwoKeys
  Values <- OneValue
  MaxTxnId = 4
  MaxActive = 1
  Concurrent = FALSE
  MemtableSizeLimit = 2
  FlushMemtableCalls = TRUE
  Compactors <- OneCompactor
  CompactionThreshold = 2
  EntriesPerBlock = 1
  EmptyValue = empty
  MaxFileId = 3
  MaxCrashes = 0
  Reopen = FALSE
INVARIANTS
  StorageTransparent
  DurableHoldsNewest
CHECK_DEADLOCK FALSE
