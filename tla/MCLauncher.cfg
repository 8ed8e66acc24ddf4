SPECIFICATION Spec
CONSTANTS
  Commits = {ba8ea4ac, other}
  Wanted = ba8ea4ac
  None = None
  Torn = Torn
  MaxLaunches = 4
INVARIANTS SearchesWanted
PROPERTIES FailsForReason
