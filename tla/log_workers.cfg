SPECIFICATION Spec
CONSTANTS
  c1 = c1
  c2 = c2
  c3 = c3
  Sessions = {c1, c2, c3}
  PortOf <- SharedPort
  Names = {"ann", ""}
  NoName = ""
  None = None
  MaxAuths = 2
  MaxHandlers = 2
INVARIANTS
  TypeOK
  LeftoverOnlyRenamed
  LoggedOnce
  IncompleteRow
PROPERTIES
  SomeRowsEach
CHECK_DEADLOCK FALSE
