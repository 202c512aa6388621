SPECIFICATION FairSpec
CONSTANTS
  MAX_LEN = 4
  Lengths <- MCLengths
  RIO_BUFSIZE = 3
  SocketRoom = 4
  MaxMessages = 3
INVARIANTS
  TypeOK
  BytesArriveInOrder
  ShortMessagesWhole
PROPERTY
  SentIsReceived
