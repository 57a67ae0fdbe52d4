SPECIFICATION Spec
CONSTANTS
  k1 = k1
  k2 = k2
  v1 = v1
  cmdTransaction = cmdTransaction
  garbage = garbage
  CmdTransaction = cmdTransaction
  Garbage = garbage
  Keys <- TwoKeys
  Values <- OneValue
  FieldCells = 2
  SizeLimit = 5
  MaxTxnId = 4
  MaxFileCells = 24
  MaxCrashes = 2
  MaxFaults = 1
SYMMETRY KeySymmetry
INVARIANTS
  ReplayAtomic
  AckedRecovered
  RefusedOnlyIfTorn
  TypeOK
CHECK_DEADLOCK FALSE
