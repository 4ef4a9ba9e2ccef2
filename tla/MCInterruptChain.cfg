SPECIFICATION FairSpec
CONSTANTS
  Callbacks = {kaku, wt440}
  Modes = {low, change}
  LOW = low
  Garbage = garbage
  MaxLinks = 4
INVARIANTS
  CalledInReverse
PROPERTIES
  WildOnlyDuringAdd
  InterruptsEnd
CHECK_DEADLOCK FALSE
