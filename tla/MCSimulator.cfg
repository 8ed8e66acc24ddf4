SPECIFICATION Spec
CONSTANTS
  Delays = {0, 1}
  MaxEvents = 4
  FirstUid = 4
  DestroyUid = 2
INVARIANTS SimulatorInv ExpiredIsOver
PROPERTIES EngineSpec
