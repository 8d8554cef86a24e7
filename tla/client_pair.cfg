SPECIFICATION FairSpec
CONSTANTS
  w1 = w1
  Workers = {w1}
  NClients = 2
  Consoles = {1}
  MaxFd = 2
  MaxConnects = 0
  MaxPieces = 2
INVARIANTS
  DescriptorsOwned
PROPERTIES
  MessageRead
CHECK_DEADLOCK FALSE
