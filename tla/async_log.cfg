SPECIFICATION FairSpec
CONSTANTS
  MaxRecords = 3
  Size = 2
  Limit = 5
  Undrained = FALSE
INVARIANTS
  LogInv
  LogInOrder
  Accounted
PROPERTIES
  CallsReturn
  RecordsWritten
