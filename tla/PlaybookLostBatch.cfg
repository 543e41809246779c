\* A batch that lost all its hosts in an earlier play.
SPECIFICATION Spec
CONSTANTS
  NumHandlers = 1
  FailMax = 100
  h1 = h1
  h2 = h2
  h3 = h3
  Hosts <- ThreeHosts
  Playbooks <- AgainOneByOne
PROPERTY LostBatchEndsPlay
