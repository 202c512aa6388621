\* Five clients of whom either `any' and one of each kind, or the other four come; symmetry in what nothing tells apart.
SPECIFICATION Spec
CONSTANTS
  any = any
  s1 = s1
  s2 = s2
  v1 = v1
  v2 = v2
  r1 = r1
  r2 = r2
  None = None
  Workers <- AllWorkers
  Logins <- AllLogins
  Moods <- AllMoods
  RoomNames <- TwoRooms
  MaxBroadcasts = 2
CONSTRAINT Stories
SYMMETRY AllSymmetry
INVARIANTS
  TypeOK
  NoNullDereference
  UniqueRoom
  NoUseAfterFree
  NoLockWhileBlocked
  AnswersMatchRequests
  HeardInOrder
PROPERTY
  ImplementsChatRooms
