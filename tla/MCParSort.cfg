SPECIFICATION Spec
CONSTANTS
  Length = 6
  Values <- MCValues
  Inputs <- MCInputs
  Threshold = 2
  IntMax = 5
  Failures = TRUE
INVARIANTS
  TypeOK
  DisjointParts
  ZeroMeansAllDone
  SortedWhenZero
PROPERTY
  AllEnd
