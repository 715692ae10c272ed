SPECIFICATION Spec
CONSTANTS
  MaxRecords = 2
  Size = 2
  Limit = 5
  Undrained = TRUE
INVARIANTS
  SinkAlone
