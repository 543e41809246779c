\* Three hosts on two forks; task 1 loops and is run_once, which leaves the search for a
\* slot beyond the throttle of task 2, one host at a time. Task 2 prompts, and a prompt
\* may outlast the timeout of its task.
SPECIFICATION FairSpec
CONSTANTS
  a = a  b = b  c = c
  Hosts = {a, b, c}
  NumTasks = 2
  Forks = 2
  Throttle <- OneAtATime
  RunOnce = {1}
  Loops = {1}
  Pauses = {2}
  Faults = {"timeout"}
  NoJob = NoJob
INVARIANTS
  SlotsAndThrottle
  AnswerForAsker
PROPERTIES
  RunEnds
