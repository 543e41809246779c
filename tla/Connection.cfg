SPECIFICATION FairSpec
CONSTANTS
  Clients = {c1, c2, c3}
  NoClient = NoClient
INVARIANTS
  OneProcess
  NoStaleSocket
PROPERTY
  AllComeToEnd
