SPECIFICATION FairSpec
CONSTANTS
  N = 3
  Relays = {}
  FrameSync = 1
  StartTimer = 2
  Slots = 2
  MaxInFlight = 1
  MaxFaults = 0
PROPERTIES
  AllUp
  DataArrives
  VsyncComes
