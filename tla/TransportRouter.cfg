SPECIFICATION FairSpec
CONSTANTS
  A = A
  B = B
  C = C
  Nowhere = Nowhere
  bus1 = bus1
  bus2 = bus2
  VertexCount = 6
  Bases <- MCBases
  WaitTimes <- MCWaitTimes
  Names <- MCNames
INVARIANTS
  VerticesInv
  RoutesAreQuickest
  ItemsAreAnItinerary
  TerminatesOnlyFor
PROPERTIES
  RouteRequestsAreAnswered
CHECK_DEADLOCK FALSE
