SPECIFICATION FairSpec
CONSTANTS
  A = A
  B = B
  C = C
  bus1 = bus1
  bus2 = bus2
  Other = Other
  MaxRequests = 4
  StopName <- MCStopName
  BusName <- MCBusName
  Documents <- MCDocuments
INVARIANTS
  TypeOK
  IndexInv
  FilledAsRequested
  RoutesAsRequested
  UniqueStopsCounted
  CrashesOnUnknownStop
PROPERTIES
  LoadingEnds
CHECK_DEADLOCK FALSE
