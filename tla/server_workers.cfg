SPECIFICATION Spec
CONSTANTS
  Sessions = {c1, c2}
  Workers = {w1, w2}
  MaxMsgs = 2
  MaxSent = 2
  CtlOps <- AllOps
  MaxCalls = 2
  None = None
  Free = Free
  Ctl = Ctl
  c1 = c1
  c2 = c2
  w1 = w1
  w2 = w2
SYMMETRY Symmetry
INVARIANTS
  TypeOK
  OneLoopEach
  HandlersExclusive
  FaultNeedsDisconnect
PROPERTIES
  AnyOrderService
CHECK_DEADLOCK FALSE
