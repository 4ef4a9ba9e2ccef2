SPECIFICATION RepeaterSpec
CONSTANTS
  AddressBits = 4
  ChannelBits = 2
  ConstBits = 3
  HumidityBits = 7
  TemperatureBits = 15
  MinRepeats = 1
  Gaps = {}
  CounterMod = 256
  OwnReadings <- Own
  Neighbours <- Nearby
  AuriolReadings <- Auriols
  Junk = {0, 5}
  Silences = {50000, 67000}
  IsrPauses = {1500, 50000}
  LateGaps = {1050, 30000}
  MaxMessages = 3
INVARIANTS
  SentInFull
  EchoedOnce
  RelayedWasSent
PROPERTIES
  SendEnds
CHECK_DEADLOCK FALSE
