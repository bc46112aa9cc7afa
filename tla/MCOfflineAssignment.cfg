SPECIFICATION Spec
CONSTANTS
  MaxItems = 1
  BatchLimit = 2
  Connections = {c1, c2}
  None = None
  MaxIDs = 1
  MaxDataIDs = 2
INVARIANT OfflineAssignmentIsBypassed
CHECK_DEADLOCK FALSE
