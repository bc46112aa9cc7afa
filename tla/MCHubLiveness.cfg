CONSTANTS
  Names <- MCNames
  Keys <- MCKeys
  None = None
  Transport <- MCTransport
  Provides <- MCProvides
  MaxConcurrent <- MCMaxConcurrent
  FleetDenies <- MCFleetDenies
  Requests <- MCLiveRequests
  MaxItems = 2
  MaxBeacons = 1
  TimeoutCheckerRuns = FALSE
  PriorityBound = 0
SPECIFICATION FairHubSpec
PROPERTY HandedOutIsSettled
CHECK_DEADLOCK FALSE
