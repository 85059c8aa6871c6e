SPECIFICATION FairSpec
CONSTANTS
  Short = 4
  Texts <- MCTexts
  Documents <- MCDocuments
  IntMax = 1050
  MaxExponent = 5
  Precision = 3
INVARIANTS
  LoadsJson
  CutTextIsRefused
  ReloadsWhatItPrints
PROPERTIES
  LoadEnds
CHECK_DEADLOCK FALSE
