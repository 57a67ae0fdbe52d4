SPECIFICATION Spec
CONSTANTS
  c1 = c1
  c2 = c2
  v1 = v1
  v2 = v2
  empty = empty
  Keys <- OneKey
  Values <- TwoValues
  MaxTxnId = 3
  MaxActive = 1
  Concurrent = FALSE
  MemtableSizeLimit = 1
  FlushMemtableCalls = FALSE
  Compactors <- OneCompactor
  CompactionThreshold = 4
  EntriesPerBlock = 1
  EmptyValue = empty
  MaxFileId = 5
  MaxCrashes = 1
  Reopen = TRUE
INVARIANT LastCommitReadable
CHECK_DEADLOCK FALSE
