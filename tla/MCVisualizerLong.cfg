SPECIFICATION Spec
CONSTANTS
  Uavs = {1, 2}
  LogInterval = 2
  MaxDelta = 3
  Cap = 4
  MaxRows = 3
  MaxFrames = 3
PROPERTIES GraphIsMade
