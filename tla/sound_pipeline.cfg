SPECIFICATION PFair
CONSTANTS
  MaxJobs = 4
  MaxBoards = 2
INVARIANTS
  WorkerInv
  MainAlone
  PlayedInOrder
  SavedWhole
PROPERTIES
  OneAtATime
  PacketKept
  OperationsEnd
CHECK_DEADLOCK FALSE
