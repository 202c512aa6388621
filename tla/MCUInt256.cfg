SPECIFICATION Spec
CONSTANTS
  W <- MCWidth
  D <- MCDigits
  MaxDigits = 12
INVARIANTS
  WrongOnlyWhenCarryLost
  MulIsProduct
  ShiftMultiplies
  HexIsValue
