\* Blocks in blocks and includes with every pattern of failures, starting at a
\* later task, other hosts that fail this one, end it or clear its errors, and
\* handlers that tasks notify and that notify each other.
SPECIFICATION FairSpec
CONSTANTS
  NumHandlers = 2
  Cases <- IterCases
INVARIANTS
  RunsAsBlocksSay
  StartsAtTask
  NotifiedHandlersRun
PROPERTIES
  HostEnds
