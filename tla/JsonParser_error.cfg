SPECIFICATION Spec
CONSTANTS
  Short = 3
  Texts <- MCArrays
  Documents <- MCDocuments
  IntMax = 1050
  MaxExponent = 5
  Precision = 3
INVARIANTS
  ParsingErrorIsThrown
CHECK_DEADLOCK FALSE
