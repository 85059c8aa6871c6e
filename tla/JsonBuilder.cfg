SPECIFICATION AnswersSpec
CONSTANTS
  a = a
  b = b
  MaxCalls = 7
  MaxRides = 2
  Nil = Nil
  Keys <- MCKeys
  Values <- MCValues
SYMMETRY Symmetry
INVARIANTS
  TypeOK
  CallsAreASentence
  BuiltIsWritten
  CrashesOnlyForRepeatedKeys
  AnswersAreBuilt
CHECK_DEADLOCK FALSE
