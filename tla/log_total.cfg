SPECIFICATION LogSpec
CONSTANTS
  c1 = c1
  c2 = c2
  c3 = c3
  Sessions = {c1, c2, c3}
  PortOf <- SharedPort
  DayOf <- TwoDays
  Lasting <- Lengths
  Garbage <- SomeTimes
  Names = {"ann", ""}
  NoName = ""
  None = None
  MaxAuths = 2
  MaxHandlers = 1
  MaxCommands = 1
INVARIANTS
  CalculatesTime
CHECK_DEADLOCK FALSE
