\* Three hosts on two forks, two tasks each: plays with a meta task, a role, a throttle,
\* and host_pinned. No faults.
SPECIFICATION FairSpec
CONSTANTS
  a = a  b = b  c = c
  Hosts = {a, b, c}
  HostOrder <- InOrder
  Settings <- AllPlays
  Failing = {a}
  NumTasks = 2
  Forks = 2
  Throttle <- NoThrottle
  RunOnce = {}
  Loops = {}
  Pauses = {}
  Faults = {}
  NoJob = NoJob
INVARIANTS
  OneTaskPerHost
  FreeThrottle
  AllServed
PROPERTIES
  FreeEnds
