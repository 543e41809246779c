\* A task that is run once is run by a second host in the phase of handlers.
SPECIFICATION Spec
CONSTANTS
  NumHandlers = 1
  FailMax = 100
  h1 = h1
  h2 = h2
  h3 = h3
  Hosts <- ThreeHosts
  Playbooks <- OnceAfterFlush
PROPERTY RunOnceIsOnce
