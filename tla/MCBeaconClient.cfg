SPECIFICATION Spec
CONSTANTS
  MaxConcurrent = 1
  MaxRequests = 2
  MaxEpochs = 3
  MaxFailures = 1
  MaxItems = 1
  MaxRemovals = 1
  NonPromiscuous = FALSE
  None = None
INVARIANTS TypeOK NoIntervalLeaks PollsUnderItsRecord
PROPERTY Reconnects
CHECK_DEADLOCK FALSE
