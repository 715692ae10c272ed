SPECIFICATION FairSpec
CONSTANTS
  K = 2
  M = 4
  MaxPacket = 3
  MaxFrames = 1
  MaxMade = 5
  MaxGames = 2
INVARIANTS
  HeardAsMade
  WholePackets
PROPERTIES
  FaultShown
  SentIsHeard
