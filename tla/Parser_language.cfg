SPECIFICATION FairSpec
CONSTANTS
  Names <- OneName
  ColumnsSelectLimit = 2
  ConditionsLimit = 2
  MaxTokens = 13
  MaxItems = 7
INVARIANTS
  AcceptsSentences
  RejectsOnlyOthers
  TypeOK
PROPERTY ParseEnds
CHECK_DEADLOCK FALSE
