\* Three producers and four messages: the queue fills while the consumer is
\* inside dequeue, and every pair of operations overlaps.
SPECIFICATION FairSpec
CONSTANTS
  p1 = p1
  p2 = p2
  p3 = p3
  c = c
  none = none
  Producers <- MCProducers
  Consumer = c
  Unlocked = none
  MaxMessages = 4
INVARIANTS
  TypeOK
  SemaphoreCountsMessages
  NothingLostOrReordered
PROPERTIES
  ImplementsFifo
  CallsReturn
  EveryMessageLeaves
