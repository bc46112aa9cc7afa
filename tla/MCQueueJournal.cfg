CONSTANTS
  None = None
  MaxItems = 2
  CompactThreshold = 3
  MaxCrashes = 1
SPECIFICATION Spec
INVARIANTS TypeOK AcceptedWorkSurvives ReportedWorkStaysOver
CHECK_DEADLOCK FALSE
