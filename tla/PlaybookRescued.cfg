\* Hosts that are rescued and yet stay out of the play: from a task that another host ran
\* for them, and from a handler.
SPECIFICATION Spec
CONSTANTS
  NumHandlers = 1
  FailMax = 100
  h1 = h1
  h2 = h2
  h3 = h3
  Hosts <- ThreeHosts
  Playbooks <- RescuedPlaybooks
INVARIANT AllRescuedAreBack
