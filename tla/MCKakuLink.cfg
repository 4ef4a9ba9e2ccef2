SPECIFICATION LinkSpec
CONSTANTS
  AddressBits = 1
  UnitBits = 1
  DimBits = 1
  PeriodUsec = 260
  MinRepeats = 2
  UIntMod = 65536
  ShortMax = 32767
  Gaps = {260, 1300}
  MaxAcc = 400
  SentCodes <- Commands
  Repeats = 3
  Idles = {5000, 10400, 16000, 30000}
  Glitches = {20, 77}
  NoiseAfterDim = FALSE
  MaxPresses = 2
  MaxGlitches = 1
  MaxNoise = 2
INVARIANTS
  Delivered
  OnlySent
CHECK_DEADLOCK FALSE
