\* Jobs with and without a time limit; any combination of faults.
SPECIFICATION FairSpec
CONSTANTS
  Polls = 3
  Limits = {0, 2}
  SaysStarted = FALSE
  Faults = {"net", "full", "slow"}
INVARIANTS
  NeverHalfWritten
  LeavesResponse
  ModuleStopped
PROPERTIES
  StartedIsFound
  JobEnds
