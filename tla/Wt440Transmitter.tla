---------------------------- MODULE Wt440Transmitter ----------------------------
(***************************************************************************)
(* libraries/LamPI/wt440Transmitter.cpp as a function from a message to    *)
(* the intervals between the edges it puts on the transmitter pin, in      *)
(* microseconds.  A 1 is two short intervals and a 0 is one long interval, *)
(* so that the level after a frame depends on what was sent.               *)
(*                                                                         *)
(* The widths of the fields are parameters: 4, 2, 3, 7 and 15 in the code. *)
(***************************************************************************)
EXTENDS Naturals, Sequences, SequencesExt

CONSTANTS
  AddressBits, ChannelBits, ConstBits, HumidityBits, TemperatureBits

WidthAssumption ==
  {AddressBits, ChannelBits, ConstBits, HumidityBits, TemperatureBits} \subseteq Nat \ {0}
ASSUME WidthAssumption

ByteMod == 256      \* a byte
WordMod == 65536    \* an unsigned int of an AVR board
PULSE0 == 2000
PULSE1 == 1050
Pause == 50000      \* delay(50) after each frame

\* v >> n, one place at a time
RightShift(v, n) ==
  LET shifted[i \in 0 .. n] == IF i = 0 THEN v ELSE shifted[i - 1] \div 2
  IN  shifted[n]

\* The members of wt440TxCode, bytes and a 16-bit temperature, with no bit above
\* those that are sent.
Field(mod, bits) == {v \in 0 .. mod - 1 : RightShift(v, bits) = 0}
Messages ==
  [address : Field(ByteMod, AddressBits), channel : Field(ByteMod, ChannelBits),
   wconst : Field(ByteMod, ConstBits), humidity : Field(ByteMod, HumidityBits),
   temperature : Field(WordMod, TemperatureBits)]

\* bitRead from the highest bit down to bit 0
NumberBits(v, bits) == [k \in 1 .. bits |-> RightShift(v, bits - k) % 2]

DataBits(m) ==
  NumberBits(m.address, AddressBits) \o NumberBits(m.channel, ChannelBits)
    \o NumberBits(m.wconst, ConstBits) \o NumberBits(m.humidity, HumidityBits)
    \o NumberBits(m.temperature, TemperatureBits)

\* par after the bits of a field, with par before them: par ^= bitRead
ParityAfter(par, v, bits) ==
  LET after[k \in 0 .. bits] ==
        IF k = 0 THEN par ELSE (after[k - 1] + (RightShift(v, bits - k) % 2)) % 2
  IN  after[bits]

MessageParity(m) ==
  LET address == ParityAfter(0, m.address, AddressBits)
      channel == ParityAfter(address, m.channel, ChannelBits)
      wconst == ParityAfter(channel, m.wconst, ConstBits)
      humidity == ParityAfter(wconst, m.humidity, HumidityBits)
  IN  ParityAfter(humidity, m.temperature, TemperatureBits)

\* the start bits, the fields and the parity of the fields
FrameBits(m) == <<1, 1, 0, 0>> \o DataBits(m) \o <<MessageParity(m)>>

\* selectPulse
BitUsec(b) == IF b = 1 THEN <<PULSE1, PULSE1>> ELSE <<PULSE0>>

\* The intervals of a frame, from the rising edge it begins with.
FrameUsec(m) ==
  LET bits == FrameBits(m)
  IN  FlattenSeq([k \in DOMAIN bits |-> BitUsec(bits[k])])

\* A frame begins with the pin HIGH, and each of its intervals ends with an
\* edge.
EndsHigh(frame) == Len(frame) % 2 = 0

\* The frames after the first one.  Between two frames the pin keeps its level;
\* if that is HIGH, the pause and the first interval are one.
LaterFrameUsec(frame) ==
  IF EndsHigh(frame) THEN <<Pause + Head(frame)>> \o Tail(frame) ELSE <<Pause>> \o frame

\* sendMsg, with the pin LOW for idle before it: four frames, and the pin LOW
\* again.
MessageUsec(m, idle) ==
  LET frame == FrameUsec(m)
      later == LaterFrameUsec(frame)
  IN  <<idle>> \o frame \o later \o later \o later
        \o (IF EndsHigh(frame) THEN <<Pause>> ELSE <<>>)

================================================================================
