SPECIFICATION SmootherSpec
CONSTANTS
  MaxSteps = 12
  MaxLen = 14
INVARIANTS
  Covers OwnShare
PROPERTIES Terminates
