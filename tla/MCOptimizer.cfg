SPECIFICATION FairSpec
CONSTANTS
  Runners = {r1, r2, r3}
  r1 = r1
  r2 = r2
  r3 = r3
  Errors = {1, 2, 4}
  DefaultError = 3
  MaxSimulations = 2
  ForceExitAt = 1
INVARIANTS
  BestExported BoundedOvershoot EndsForReason LossNeedsPoison
PROPERTIES Stops
