SPECIFICATION FairCallsSpec
CONSTANTS
  w1 = w1
  w2 = w2
  Workers = {w1, w2}
  NClients = 1
  Consoles = {1}
  MaxFd = 2
  MaxConnects = 2
  MaxPieces = 1
INVARIANTS
  TypeOK
  ReadyHasReader
PROPERTIES
  ChainDrains
CHECK_DEADLOCK FALSE
