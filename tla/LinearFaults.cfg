\* Workers are killed, lose their result or are never forked; task 1 loops,
\* task 2 is run_once.
SPECIFICATION Spec
CONSTANTS
  a = a  b = b  c = c
  Hosts = {a, b, c}
  NumTasks = 2
  Forks = 2
  Throttle <- NoThrottle
  RunOnce = {2}
  Loops = {1}
  Pauses = {}
  Faults = {"kill", "swallow", "fork"}
  NoJob = NoJob
SYMMETRY Symmetry
INVARIANTS
  ThreadNeverCrashes
  PendingCounts
  OneReport
  RoundsDoNotOverlap
  CleanEnd
PROPERTIES
  ImplementsLockstep
