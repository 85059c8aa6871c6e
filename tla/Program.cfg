SPECIFICATION FairSpec
CONSTANTS
  A = A
  Nowhere = Nowhere
  Empty = Empty
  bus1 = bus1
  bus2 = bus2
  Name <- MCName
  EmptyName = Empty
  Unsigned = 1024
  IntRange = 32
  Other = Other
  Bases <- MCBases
  RequestLists <- MCRequestLists
  MaxBuilds = 2
  MaxReads = 1
  MaxStale = 1
INVARIANTS
  TypeOK
  RestoredIsSaved
  WholeBaseIsServed
  PartialBaseIsNotServed
  AnswersInOrder
PROPERTIES
  ProcessesEnd
CHECK_DEADLOCK FALSE
