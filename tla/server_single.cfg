SPECIFICATION FairSpec
CONSTANTS
  Sessions = {c1, c2}
  Workers = {w1}
  MaxMsgs = 2
  MaxSent = 4
  CtlOps <- LifeOps
  MaxCalls = 3
  None = None
  Free = Free
  Ctl = Ctl
  c1 = c1
  c2 = c2
  w1 = w1
INVARIANTS
  NoFault
  GoneIsLast
PROPERTIES
  InOrderService
  MessageHandled
  EndNoticed
CHECK_DEADLOCK FALSE
