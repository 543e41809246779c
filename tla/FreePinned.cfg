\* host_pinned with a meta task between two tasks.
SPECIFICATION Spec
CONSTANTS
  a = a  b = b  c = c
  Hosts = {a, b, c}
  HostOrder <- InOrder
  Settings <- PinnedMetaPlay
  Failing = {a}
  NumTasks = 3
  Forks = 1
  Throttle <- NoThrottle
  RunOnce = {}
  Loops = {}
  Pauses = {}
  Faults = {}
  NoJob = NoJob
INVARIANTS
  PinnedToForks
