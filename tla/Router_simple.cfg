SPECIFICATION FairSpec
CONSTANTS
  VertexCount = 3
  Graphs <- SimpleGraphs
  MaxEdges = 6
INVARIANTS
  TypeOK
  MatrixInv
  TriangleInv
  PredecessorInv
  BellmanInv
PROPERTIES
  PassReadsAreStable
  PlannerSpec
