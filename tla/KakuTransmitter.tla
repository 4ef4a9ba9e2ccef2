---------------------------- MODULE KakuTransmitter ----------------------------
(***************************************************************************)
(* libraries/LamPI/kakuTransmitter.cpp as a function from a command to the *)
(* intervals between the edges it puts on the transmitter pin, in          *)
(* microseconds.  The sketches never share a transmitter object between    *)
(* the main loop and an interrupt, so a call is one value.                 *)
(*                                                                         *)
(* The widths of the address, unit and dim fields are parameters: 26, 4    *)
(* and 4 in the code.                                                      *)
(***************************************************************************)
EXTENDS Naturals, Sequences, SequencesExt

CONSTANTS
  AddressBits, UnitBits, DimBits,
  PeriodUsec      \* _periodusec, the length of one period T

FrameAssumption ==
  /\ {AddressBits, UnitBits, DimBits} \subseteq Nat \ {0}
  /\ PeriodUsec \in Nat \ {0}
ASSUME FrameAssumption

\* One part of a bit is short (T) or long (5T).
S == "S"
L == "L"

\* _sendBit
BitParts(b) == IF b = 1 THEN <<S, L, S, S>> ELSE <<S, S, S, L>>

\* the switch field of a dim command
DimParts == <<S, S, S, S>>

\* v >> n, one place at a time
RightShift(v, n) ==
  LET shifted[i \in 0 .. n] == IF i = 0 THEN v ELSE shifted[i - 1] \div 2
  IN  shifted[n]

\* the bits of a number, most significant first
NumberParts(v, bits) ==
  FlattenSeq([k \in 1 .. bits |-> BitParts(RightShift(v, bits - k) % 2)])

SwitchParts(s) ==
  CASE s = "off" -> BitParts(0)
    [] s = "on" -> BitParts(1)
    [] s = "dim" -> DimParts

Flag(b) == IF b THEN 1 ELSE 0

\* The parts between the start and the stop pulse, as sendUnit, sendGroup,
\* sendDim and sendGroupDim emit them; only the dim commands have a level.
CodeParts(c) ==
  NumberParts(c.address, AddressBits) \o BitParts(Flag(c.group))
    \o SwitchParts(c.switch) \o NumberParts(c.unit, UnitBits)
    \o (IF c.dimPresent THEN NumberParts(c.dim, DimBits) ELSE <<>>)

PartUsec(part) == IF part = S THEN PeriodUsec ELSE 5 * PeriodUsec

\* _sendStartPulse, the bits, _sendStopPulse
FrameUsec(c) ==
  <<PeriodUsec, 10 * PeriodUsec + PeriodUsec \div 2>>
    \o [k \in DOMAIN CodeParts(c) |-> PartUsec(CodeParts(c)[k])]
    \o <<PeriodUsec, 40 * PeriodUsec>>

\* The four commands; a group command carries unit 0.
UnitCode(a, u, on) ==
  [address |-> a, group |-> FALSE, switch |-> IF on THEN "on" ELSE "off",
   unit |-> u, dimPresent |-> FALSE, dim |-> 0]
GroupCode(a, on) == [UnitCode(a, 0, on) EXCEPT !.group = TRUE]
DimCode(a, u, level) ==
  [UnitCode(a, u, TRUE) EXCEPT !.switch = "dim", !.dimPresent = TRUE, !.dim = level]
GroupDimCode(a, level) == [DimCode(a, 0, level) EXCEPT !.group = TRUE]

Addresses == 0 .. 2 ^ AddressBits - 1
Units == 0 .. 2 ^ UnitBits - 1
DimLevels == 0 .. 2 ^ DimBits - 1

SendableCodes ==
  {UnitCode(a, u, on) : a \in Addresses, u \in Units, on \in BOOLEAN}
    \cup {GroupCode(a, on) : a \in Addresses, on \in BOOLEAN}
    \cup {DimCode(a, u, d) : a \in Addresses, u \in Units, d \in DimLevels}
    \cup {GroupDimCode(a, d) : a \in Addresses, d \in DimLevels}

\* The constructor stores (1 << repeats) - 1 in a byte, and the send loops
\* count it down to 0 in an int8_t, in which 255 is -1.
FramesSent(repeats) ==
  LET stored == (2 ^ repeats - 1) % 256
  IN  IF stored < 128 THEN stored + 1 ELSE 0

================================================================================
