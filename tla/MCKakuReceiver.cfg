SPECIFICATION Spec
CONSTANTS
  AddressBits = 1
  UnitBits = 1
  DimBits = 1
  PeriodUsec = 260
  MinRepeats = 2
  UIntMod = 65536
  ShortMax = 24
  Gaps = {260, 1300, 2730, 10400}
  MaxAcc = 400
INVARIANTS
  CalledOnlyInARow
  RepeatsBelowLimit
  HeardIsDecoded
