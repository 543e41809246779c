\* The timeout of a task goes off while it waits for the user, and another host gets
\* its slot.
SPECIFICATION Spec
CONSTANTS
  a = a  b = b  c = c
  Hosts = {a, b}
  NumTasks = 1
  Forks = 1
  Throttle <- NoThrottle
  RunOnce = {}
  Loops = {}
  Pauses = {1}
  Faults = {"timeout"}
  NoJob = NoJob
PROPERTIES
  OwnAnswer
