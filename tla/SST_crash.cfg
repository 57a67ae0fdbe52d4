SPECIFICATION Spec
CONSTANTS
  f1 = f1
  f2 = f2
  c1 = c1
  c2 = c2
  v1 = v1
  empty = empty
  Keys <- OneKey
  Values <- OneValue
  Flushers <- OneFlusher
  Compactors <- OneCompactor
  CompactionThreshold = 2
  EntriesPerBlock = 2
  EmptyValue = empty
  MinActiveTxnIds <- SomeMins
  MaxFlushes = 3
  MaxFileId = 5
  IOFaults = TRUE
  MaxCrashes = 2
INVARIANTS
  TypeOK
  ListsAgree
  ManifestFilesExist
  OldestFirst
CHECK_DEADLOCK FALSE
