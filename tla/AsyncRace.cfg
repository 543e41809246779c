\* The child ends while the watcher reports a timeout, and the module has ended by then.
\* Both fail; one at a time is to be kept.
SPECIFICATION Spec
CONSTANTS
  Polls = 2
  Limits = {2}
  SaysStarted = FALSE
  Faults = {}
INVARIANTS
  ResponseLeft
PROPERTIES
  KeptResult
