\* A handler fails that is flushed in a nested block.
SPECIFICATION Spec
CONSTANTS
  NumHandlers = 1
  Cases <- FlushInNestedCases
INVARIANTS
  AlwaysSectionsRun
