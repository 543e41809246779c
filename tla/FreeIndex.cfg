\* A throttled task and a host that becomes unreachable.
SPECIFICATION Spec
CONSTANTS
  a = a  b = b  c = c
  Hosts = {a, b, c}
  HostOrder <- InOrder
  Settings <- ThrottledPlay
  Failing = {a}
  NumTasks = 1
  Forks = 3
  Throttle <- NoThrottle
  RunOnce = {}
  Loops = {}
  Pauses = {}
  Faults = {}
  NoJob = NoJob
INVARIANTS
  LastHostInList
