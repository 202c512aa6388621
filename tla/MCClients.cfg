SPECIFICATION FairSpec
CONSTANTS
  Senders = {s1}
  Receivers = {r}
  Texts <- MCTexts
  MAX_LEN = 9
  ROOM = 2
  DELIVERY <- MCDelivery
  RoomKinds <- MCRoomKinds
  MaxFds = 2
  MaxLines = 2
INVARIANTS
  RepliesLagBySurplus
  PrintedInOrder
PROPERTIES
  SaidIsPrinted
  WaitsEnd
  OnlyListenersStay
CHECK_DEADLOCK FALSE
