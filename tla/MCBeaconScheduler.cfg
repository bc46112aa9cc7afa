CONSTANTS
  Names <- MCNames
  Keys <- MCKeys
  None = None
  Transport <- MCTransport
  Provides <- MCProvides
  MaxConcurrent <- MCMaxConcurrent
  FleetDenies <- MCFleetDenies
  Requests <- MCRequests
  MaxItems = 2
  MaxBeacons = 2
  TimeoutCheckerRuns = FALSE
  PriorityBound = 1
SPECIFICATION HubSpec
VIEW HubView
INVARIANT ToldOnce
PROPERTY NoPriorityInversion
CHECK_DEADLOCK FALSE
