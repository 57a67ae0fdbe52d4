SPECIFICATION FairSpec
CONSTANTS
  f1 = f1
  f2 = f2
  c1 = c1
  c2 = c2
  v1 = v1
  empty = empty
  Keys <- OneKey
  Values <- OneValue
  Flushers <- TwoFlushers
  Compactors <- TwoCompactors
  CompactionThreshold = 2
  EntriesPerBlock = 2
  EmptyValue = empty
  MinActiveTxnIds <- SomeMins
  MaxFlushes = 3
  MaxFileId = 5
  IOFaults = FALSE
  MaxCrashes = 0
PROPERTIES
  CompactionEnds
INVARIANTS
  FlagReset
  ListsAgree
  ManifestFilesExist
  OnlySupersededDropped
CHECK_DEADLOCK FALSE
