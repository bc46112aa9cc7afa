CONSTANTS
  Nodes <- MCNodes
  Kind <- MCKind
  None = None
  Operations <- MCOperations
  MaxTokens = 2
  MaxRetries = 1
  MaxCrashes = 1
SPECIFICATION Spec
INVARIANTS TypeOK OneLoop CompleteHasEnded WaitingCanGoOn RestartKeepsWaiting
  WaitIsServed
PROPERTIES StalledUntilRetried EndIsFinal InProgressEnds
CHECK_DEADLOCK FALSE
