SPECIFICATION Spec
CONSTANTS
  Inputs <- MCInputs
  ShortReads <- MCShortReads
  IntMax <- MCIntMax
INVARIANT
  LinesRight
