SPECIFICATION Spec
CONSTANTS
  c1 = c1
  c2 = c2
  None = None
  Unsubscribe = Unsubscribe
  Clients <- MCClients
  Cap = 2
  MaxEvents = 4
  MaxLoops = 2
  MaxTries <- MCTries
  MaxRestarts = 1
INVARIANTS TypeOK NoSilentGap SubscriberIsUpToDate
PROPERTY EndedRunIsDropped
CHECK_DEADLOCK FALSE
