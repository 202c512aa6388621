SPECIFICATION Spec
CONSTANTS
  ADDR_LEN = 5
  Addresses <- MCAddresses
  Sizes <- MCSizes
  MaxAccesses = 6
INVARIANTS
  TypeOK
  OrderIsTotal
  CyclesAccounted
PROPERTY
  ImplementsPolicy
