\* Three hosts, one of which calls the module by its full name.
SPECIFICATION Spec
CONSTANTS
  u = u  v = v  w3 = w3  l1 = l1  l2 = l2
  Workers = {u, v, w3}
  Locks = {l1, l2}
  LockOf <- TwoNames
  NoWorker = NoWorker
  Tasks <- Once
  Tries = 1
  Faults = {}
INVARIANT WholeModule
