SPECIFICATION Spec
CONSTANTS
  MaxItems = 2
  BatchLimit = 2
  Connections = {c1}
  None = None
  MaxIDs = 2
  MaxDataIDs = 1
INVARIANTS TypeOK MarkPassesNothing RequestsFindTheirTables
PROPERTY SweepsEnd
CHECK_DEADLOCK FALSE
