SPECIFICATION RebootSpec
CONSTANTS
  N = 3
  Relays = {}
  FrameSync = 0
  StartTimer = 2
  Slots = 1
  MaxInFlight = 2
  MaxFaults = 1
INVARIANTS
  Numbered
