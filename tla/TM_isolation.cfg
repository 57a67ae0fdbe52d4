SPECIFICATION Spec
CONSTANTS
  k1 = k1
  k2 = k2
  v1 = v1
  v2 = v2
  Keys <- TwoKeys
  Values <- OneValue
  FirstTxnId = 2
  MaxTxnId = 4
  StorageFaults = FALSE
SYMMETRY KeySymmetry
INVARIANTS
  TypeOK
  SeesOnlyFinished
  RolledBackInvisible
  ReadsMatch
PROPERTIES
  ImplementsSnapshotIsolation
CHECK_DEADLOCK FALSE
