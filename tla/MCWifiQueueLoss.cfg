SPECIFICATION Spec
CONSTANTS
  HeapSize = 4
  MaxArrivals = 3
INVARIANT
  NoItemLost
CHECK_DEADLOCK FALSE
