SPECIFICATION Spec
CONSTANTS
  t1 = t1
  t2 = t2
  p1 = p1
  p2 = p2
  none = none
  None = none
  Tables <- TwoTables
  Creators <- TwoCreators
  Inputs <- Statements
  MaxCreates = 3
  MaxCrashes = 2
  MaxFaults = 1
INVARIANTS
  RestoredAsCreated
  RefusedOnlyIfDisturbed
  MadeTablesListed
  TypeOK
CHECK_DEADLOCK FALSE
