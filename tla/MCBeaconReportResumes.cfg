CONSTANTS
  Nodes <- MCNodes
  Kind <- MCKind
  None = None
  Operations <- MCOperations
  MaxTokens = 2
  MaxRetries = 0
  MaxCrashes = 0
SPECIFICATION Spec
INVARIANT BeaconReportResumes
CHECK_DEADLOCK FALSE
