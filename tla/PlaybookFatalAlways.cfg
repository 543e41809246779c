\* A fatal error does not end the play when its block has an always section.
SPECIFICATION Spec
CONSTANTS
  NumHandlers = 1
  FailMax = 100
  h1 = h1
  h2 = h2
  h3 = h3
  Hosts <- ThreeHosts
  Playbooks <- FatalAlways
INVARIANT FatalEndsPlay
