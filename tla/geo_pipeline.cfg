SPECIFICATION FairSpec
CONSTANT MaxParses = 4
INVARIANTS
  NothingAfterError
PROPERTIES
  OneFrameLate
  Undisturbed
  OneParseAtATime
  CallsReturn
CHECK_DEADLOCK FALSE
