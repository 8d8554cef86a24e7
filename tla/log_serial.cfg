SPECIFICATION LogSpec
CONSTANTS
  c1 = c1
  c2 = c2
  c3 = c3
  Sessions = {c1, c2, c3}
  PortOf <- SharedPort
  DayOf <- TwoDays
  Lasting <- Lengths
  Garbage <- SomeTimes
  Names = {"ann", ""}
  NoName = ""
  None = None
  MaxAuths = 3
  MaxHandlers = 1
  MaxCommands = 1
INVARIANTS
  SafeReads
PROPERTIES
  OneRowEach
  TotalIsTime
CHECK_DEADLOCK FALSE
