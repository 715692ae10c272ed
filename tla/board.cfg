SPECIFICATION FairSpec
CONSTANTS
  kProbe = 2
  kFrameCap = 6
  kVblankCap = 4
  MaxBlock = 3
  MaxLate = 1
  MaxQueue = 2
  Bytes = 3
INVARIANTS
  BoardInv
  TakenAtBoundary
  NothingPassed
  BytesInOrder
PROPERTIES
  BytesLeave
  FramesEnd
