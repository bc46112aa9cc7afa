CONSTANTS
  Names <- MCNames
  Keys <- MCKeys
  None = None
  Transport <- MCTransport
  Provides <- MCProvides
  MaxConcurrent <- MCMaxConcurrent
  FleetDenies <- MCFleetDenies
  Requests <- MCRequests
  MaxItems = 2
  MaxBeacons = 2
  TimeoutCheckerRuns = TRUE
SPECIFICATION Spec
INVARIANTS TypeOK HeldOnRegisteredBeacon StrictAffinity UnroutedWorkIsFiltered
  RunningWithinCapacity ToldOnce
PROPERTIES FinalIsFinal ImplementsWorkDispatch
CHECK_DEADLOCK FALSE
