CONSTANTS
  Names <- MCNames
  Keys <- MCKeys
  None = None
  Transport <- MCTransport
  Provides <- MCProvides
  MaxConcurrent <- MCMaxConcurrent
  FleetDenies <- MCFleetDenies
  Requests <- MCRetried
  MaxItems = 1
  MaxBeacons = 1
  TimeoutCheckerRuns = FALSE
SPECIFICATION Spec
INVARIANT SlotsHoldOwnWork
CHECK_DEADLOCK FALSE
