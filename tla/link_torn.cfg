SPECIFICATION Spec
CONSTANTS
  Size = 2
  Room = 3
  OutRoom = 5
  Immediate = FALSE
  MaxFrames = 4
  MaxConns = 2
  MaxBreaks = 0
  MaxInits = 0
INVARIANTS
  FramesWhole
CHECK_DEADLOCK FALSE
