SPECIFICATION Spec
CONSTANTS
  Uavs = {"a", "b"}
  Positions = {0, 3}
  LogInterval = 2
  MaxStep = 3
  MaxRows = 5
  MaxTime = 7
INVARIANTS
  FirstRowKept
CHECK_DEADLOCK FALSE
