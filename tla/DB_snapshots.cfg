SPECIFICATION Spec
CONSTANTS
  c1 = c1
  c2 = c2
  v1 = v1
  v2 = v2
  empty = empty
  Keys <- OneKey
  Values <- OneValue
  MaxTxnId = 5
  MaxActive = 2
  Concurrent = FALSE
  MemtableSizeLimit = 1
  FlushMemtableCalls = FALSE
  Compactors <- TwoCompactors
  CompactionThreshold = 2
  EntriesPerBlock = 1
  EmptyValue = empty
  MaxFileId = 4
  MaxCrashes = 0
  Reopen = FALSE
SYMMETRY CompactorSymmetry
INVARIANTS
  ReadsCommitted
  DurableHoldsNewest
CHECK_DEADLOCK FALSE
