SPECIFICATION Spec
CONSTANTS
  q = q
  o1 = o1
  o2 = o2
  None = None
  Pollers <- MCPollers
  Bucket <- MCBucket
  Limit <- MCLimit
  Cap = 3
  MaxWaiters = 2
  MaxEvents = 5
  MaxPolls = 2
INVARIANTS TypeOK AnswersAreGapless NobodySleepsOnEvents OneResponse
PROPERTY QueuePollIsAnswered
CHECK_DEADLOCK FALSE
