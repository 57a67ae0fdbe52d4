SPECIFICATION Spec
CONSTANTS
  Names <- OneName
  ColumnsSelectLimit = 2
  ConditionsLimit = 2
  MaxTokens = 8
  MaxItems = 2
INVARIANT InsertWithColumnsTaken
CHECK_DEADLOCK FALSE
