SPECIFICATION Spec
CONSTANTS
  Uavs = {1, 2}
  LogInterval = 2
  MaxDelta = 3
  Cap = 4
  MaxRows = 4
  MaxFrames = 3
INVARIANTS
  PlaybackInv SurroundsNow PlayedToEnd
PROPERTIES ShortFileEnds
