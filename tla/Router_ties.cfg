SPECIFICATION FairSpec
CONSTANTS
  VertexCount = 4
  Graphs <- TiesAndNegatives
  MaxEdges = 6
INVARIANTS
  WalkIsSimple
PROPERTIES
  PlannerSpec
  EveryQuestionIsAnswered
CHECK_DEADLOCK FALSE
