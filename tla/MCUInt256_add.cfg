SPECIFICATION Spec
CONSTANTS
  W <- MCWidth
  D <- MCDigits
  MaxDigits = 12
INVARIANT
  AddIsSum
