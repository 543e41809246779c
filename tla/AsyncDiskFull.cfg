\* The file system is full when the watcher reports a timeout.
SPECIFICATION Spec
CONSTANTS
  Polls = 2
  Limits = {2}
  SaysStarted = FALSE
  Faults = {"full"}
INVARIANTS
  StopsModule
