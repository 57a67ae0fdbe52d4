SPECIFICATION Spec
CONSTANTS
  noValue = noValue
  NoValue = noValue
  PkColumn = "id"
  RowsToInsert <- NewRows
  StoredRows <- OldRows
  SecondaryIndexes <- OneIndex
  Queries <- AllQueries
  Keys <- AllKeys
  Values <- AllValues
  MaxTxnId = 4
  MaxSelects = 1
  MaxCalls = 2
  MemtableSizeLimit = 3
INVARIANT
  LatestIsInLatestFile
CHECK_DEADLOCK FALSE
