\* A worker may fail to start.
SPECIFICATION Spec
CONSTANTS
  a = a  b = b  c = c
  Hosts = {a, b}
  NumTasks = 2
  Forks = 1
  Throttle <- NoThrottle
  RunOnce = {}
  Loops = {}
  Pauses = {}
  Faults = {"fork"}
  NoJob = NoJob
INVARIANTS
  QueuedMeansStarted
