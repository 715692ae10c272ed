SPECIFICATION ResetSpec
CONSTANTS
  N = 3
  Relays = {1}
  FrameSync = 0
  StartTimer = 2
  Slots = 1
  MaxInFlight = 1
  MaxFaults = 2
INVARIANTS
  SlavesNumbered
