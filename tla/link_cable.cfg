SPECIFICATION FairSpec
CONSTANTS
  Size = 2
  Room = 3
  OutRoom = 5
  Immediate = TRUE
  MaxFrames = 4
  MaxConns = 2
  MaxBreaks = 1
  MaxInits = 1
INVARIANTS
  WholeUnlessTorn
  NothingLostInside
PROPERTIES
  StallBeforeLoss
  OutgoingDrains
CHECK_DEADLOCK FALSE
