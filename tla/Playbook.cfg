\* Plays over two and three hosts: rescues, run_once, fatal errors, meta tasks,
\* handlers, includes and serial batches.
SPECIFICATION FairSpec
CONSTANTS
  NumHandlers = 1
  FailMax = 100
  h1 = h1
  h2 = h2
  h3 = h3
  Hosts <- ThreeHosts
  Playbooks <- AllPlaybooks
INVARIANTS
  HostsDoAsBlocksSay
  LostStayOut
  RescuedIsBack
  FatalEndsPlay
  ResultTells
PROPERTIES
  RunOnceIsOnce
  PlaybookEnds
