SPECIFICATION LinkSpec
CONSTANTS
  AddressBits = 1
  ChannelBits = 1
  ConstBits = 2
  HumidityBits = 1
  TemperatureBits = 2
  MinRepeats = 1
  Gaps = {400, 1050, 2000, 5000}
  SentMessages <- ThreeMessages
  Idles = {300, 50000}
  Glitches = {60, 300, 699}
  Shifts <- BothWays
  MaxSends = 2
  MaxGlitches = 1
  MaxShifts = 1
  MaxNoise = 3
INVARIANTS
  FirstFrameDelivered
  OnlySent
CHECK_DEADLOCK FALSE
