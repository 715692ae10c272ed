SPECIFICATION Spec
CONSTANTS
  N = 3
  Relays = {}
  FrameSync = 1
  StartTimer = 2
  Slots = 4
  MaxInFlight = 1
  MaxFaults = 1
INVARIANTS
  TypeOK
  Numbered
  BlocksInPlace
  OneVsync
PROPERTIES
  KeepsPromise
