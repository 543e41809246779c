\* An include that cannot be loaded, in a block that rescues it.
SPECIFICATION Spec
CONSTANTS
  NumHandlers = 1
  FailMax = 100
  h1 = h1
  h2 = h2
  h3 = h3
  Hosts <- ThreeHosts
  Playbooks <- IncludeRescued
INVARIANT ResultTells
