SPECIFICATION FairSpec
CONSTANTS
  MaxConnects = 3
  MaxFrames = 3
INVARIANTS
  ReaderEndsFirst
PROPERTIES
  DisconnectReturns
CHECK_DEADLOCK FALSE
