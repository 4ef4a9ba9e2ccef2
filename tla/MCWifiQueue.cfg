SPECIFICATION FairSpec
CONSTANTS
  HeapSize = 4
  MaxArrivals = 6
INVARIANTS
  TypeOK
  NoDanglingAccess
  EveryItemAccountedFor
PROPERTIES
  OnlyLateArrivalsLost
  ImplementsFifo
  EventuallyServed
CHECK_DEADLOCK FALSE
