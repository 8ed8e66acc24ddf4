SPECIFICATION FairSpec
CONSTANTS
  Runners = {r1}
  r1 = r1
  Errors = {1}
  DefaultError = 3
  MaxSimulations = 2
  ForceExitAt = 1
PROPERTIES EmptyRunEnds
