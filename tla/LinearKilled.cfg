\* One fork for two hosts, and workers may be killed.
SPECIFICATION FairSpec
CONSTANTS
  a = a  b = b  c = c
  Hosts = {a, b}
  NumTasks = 1
  Forks = 1
  Throttle <- NoThrottle
  RunOnce = {}
  Loops = {}
  Pauses = {}
  Faults = {"kill"}
  NoJob = NoJob
PROPERTIES
  WaitEnds
