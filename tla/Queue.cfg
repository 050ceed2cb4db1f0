CONSTANTS
  p1 = p1
  p2 = p2
  c1 = c1
  c2 = c2
  a = a
  b = b
  NoItem = NoItem
  NoThread = NoThread
  Size = 3
  Producers <- MCProducers
  Consumers <- MCConsumers
  Items <- MCItems
SPECIFICATION FairSpec
INVARIANTS TypeOK RingIsContiguous NoLostWakeup
PROPERTIES ImplementsFifo OldestIsTaken
