SPECIFICATION FairSpec
CONSTANTS
  RetryWrap = 2
  CountMod = 9
  TextRoom = 4
  LoopLine = 1
  CallbackLine = 1
  LeftLine = 1
  Sensors = {"bh1750"}
  MaxDallas = 1
  MaxItems = 2
  MaxBreaks = 1
  MaxTasks = 1
INVARIANTS
  TypeOK
  BeginsOnce
  StampsIncrease
  StaysAudible
PROPERTIES
  DroppedOnlyWhenBroken
  ImplementsRelay
  EventuallyHandled
