SPECIFICATION FairSpec
CONSTANTS
  k1 = k1
  k2 = k2
  v1 = v1
  v2 = v2
  Keys <- TwoKeys
  Values <- TwoValues
  FirstTxnId = 2
  MaxTxnId = 3
  StorageFaults = TRUE
INVARIANTS
  LocksAgree
  BufferedKeysLocked
PROPERTIES
  RepeatableRead
  CallsReturn
CHECK_DEADLOCK FALSE
