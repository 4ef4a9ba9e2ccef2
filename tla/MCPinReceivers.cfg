SPECIFICATION Spec
CONSTANTS
  UIntMod = 65536
  Presses <- OneOfEach
  Frames = 7
  Idles = {300, 20000}
  Glitches = {40, 150}
  DeafEdges = {1, 5}
  MaxEvents = 2
INVARIANTS
  CalledOnlyInARow
  NothingClaimed
  Reported
CHECK_DEADLOCK FALSE
