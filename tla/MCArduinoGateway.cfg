SPECIFICATION Spec
CONSTANTS
  Scripts <- MCScripts
  Sensors <- MCSensors
  RxSize = 3
  UartFifo = 1
  MaxBurst = 3
  LineSize = 4
  ByteMod = 4
  MaxCallbacks = 2
  MaxRounds = 1
INVARIANTS
  ExecutedAsSent
  LineFits
  NumbersUnique
  GluedOnlyTo
PROPERTIES
  ImplementsRelay
  EventuallyExecuted
CHECK_DEADLOCK FALSE
