\* Two hosts, every kind of task, and anything that may go wrong.
SPECIFICATION FairSpec
CONSTANTS
  u = u  v = v  w3 = w3  l1 = l1  l2 = l2
  Workers = {u, v}
  Locks = {l1}
  LockOf <- OneName
  NoWorker = NoWorker
  Tasks <- SomeTasks
  Tries = 2
  Faults = {"kill", "raise", "skip"}
INVARIANTS
  WholeModule
  RetriesAsAsked
PROPERTIES
  TaskEnds
