SPECIFICATION Spec
CONSTANTS
  Positions = {0, 2, 5}
  CalculateInterval = 3
  StartTime = 2
  Second = 2
  MaxTime = 14
CHECK_DEADLOCK FALSE
INVARIANTS
  IntegratesExactly WaypointInv
PROPERTIES Approaches
