\* A handler fails that is flushed in the always section of a block.
SPECIFICATION Spec
CONSTANTS
  NumHandlers = 1
  Cases <- FlushInAlwaysCases
PROPERTIES
  AlwaysErrorsComplete
