SPECIFICATION FairSpec
CONSTANTS
  Size <- MessageSizes
  MaxSize = 2
  MaxRaw = 1
  Huge = 100
INVARIANTS
  TypeOK
  FramesKept
PROPERTIES
  MessageArrives
CHECK_DEADLOCK FALSE
