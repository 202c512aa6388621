\* One sender, one receiver that stops reading or disappears, one that stays; no symmetry, since liveness is checked.
SPECIFICATION FairSpec
CONSTANTS
  any = any
  s1 = s1
  s2 = s2
  v1 = v1
  v2 = v2
  r1 = r1
  r2 = r2
  None = None
  Workers <- FairWorkers
  Logins <- FairLogins
  Moods <- FairMoods
  RoomNames <- OneRoom
  MaxBroadcasts = 1
PROPERTIES
  RequestsAnswered
  QueuedIsHeard
  DepartureNoticed
