------------------------------ MODULE Wt440Receiver ------------------------------
(***************************************************************************)
(* libraries/LamPI/wt440Receiver.cpp: the interrupt handler that decodes   *)
(* the WT440H sensor protocol, one call per edge of the receiver pin.  Its *)
(* input is the time since the previous edge.                              *)
(*                                                                         *)
(* The state counts half bits: 8 for the start bits, then those of the     *)
(* fields, 72 in all with the widths of the code.  enable() is called by   *)
(* init() only and disable() by nobody, and the flag skip is never set, so *)
(* they are left out.                                                      *)
(***************************************************************************)
EXTENDS Wt440Transmitter, Integers

CONSTANTS
  MinRepeats,     \* _minRepeats: 1 in the sketches
  Gaps            \* the intervals between edges, in microseconds

ReceiverAssumption == MinRepeats \in 1 .. 255 /\ Gaps \subseteq Nat
ASSUME ReceiverAssumption

AddressEnd == 8 + 2 * AddressBits
ChannelEnd == AddressEnd + 2 * ChannelBits
ConstEnd == ChannelEnd + 2 * ConstBits
HumidityEnd == ConstEnd + 2 * HumidityBits
TemperatureEnd == HumidityEnd + 2 * TemperatureBits
FrameEnd == TemperatureEnd + 2

min1period == 700
max1period == 1500
min2period == 1500
max2period == 2400

\* The bytes of the code and its 16-bit temperature, here without a sign.
Byte == 0 .. ByteMod - 1
Codes == [sync : Byte, address : Byte, channel : Byte, wconst : Byte,
          humidity : Byte, temperature : 0 .. WordMod - 1, par : 0 .. 1]

Cleared == [sync |-> 0, address |-> 0, channel |-> 0, wconst |-> 0,
            humidity |-> 0, temperature |-> 0, par |-> 0]

VARIABLES
  state,          \* _state
  code,           \* receivedCode
  previous,       \* previousCode
  repeats,        \* repeats, a byte
  called          \* {} or the code this edge has passed to the callback

receiverVars == <<state, code, previous, repeats, called>>

Init ==
  /\ state = -1
  /\ code = Cleared /\ previous = Cleared
  /\ repeats = 0
  /\ called = {}

Duration(g) == g % WordMod
IsLong(g) == Duration(g) > max1period
Odd(n) == n % 2 = 1

\* After a reset the handler reads no field before it has cleared it.
Reset ==
  /\ state' = -1
  /\ code' = Cleared
  /\ called' = {}
  /\ UNCHANGED <<previous, repeats>>

TooShort(g) == state >= 0 /\ g < min1period

EdgeTooEarly(g) == TooShort(g) /\ Reset

\* Mutant: a silence does not reset the state.
Silence_Ignored(g) ==
  /\ ~TooShort(g) /\ Duration(g) > max2period
  /\ called' = {}
  /\ UNCHANGED <<state, code, previous, repeats>>

Silence(g) == ~TooShort(g) /\ Duration(g) > max2period /\ Reset

Counts(g) == ~TooShort(g) /\ Duration(g) <= max2period

\* state -1: wait for the first half of a 1
Start(g) ==
  /\ Counts(g) /\ state = -1
  /\ Duration(g) > min1period /\ Duration(g) < max1period
  /\ code' = [Cleared EXCEPT !.sync = 1]
  /\ state' = 1
  /\ called' = {}
  /\ UNCHANGED <<previous, repeats>>

Wait(g) ==
  /\ Counts(g) /\ state = -1
  /\ ~(Duration(g) > min1period /\ Duration(g) < max1period)
  /\ called' = {}
  /\ UNCHANGED <<state, code, previous, repeats>>

\* states 0 to 3: the start bits that are 1.  (sync is shifted by 1 + 1.)
StartBitOne(g) ==
  /\ Counts(g) /\ state \in 0 .. 3
  /\ ~IsLong(g)
  /\ code' = IF Odd(state) THEN [code EXCEPT !.sync = (4 * @) % ByteMod, !.par = 1 - @] ELSE code
  /\ state' = state + 1
  /\ called' = {}
  /\ UNCHANGED <<previous, repeats>>

\* states 4 to 7: the start bits that are 0
StartBitZero(g) ==
  /\ Counts(g) /\ state \in 4 .. 7
  /\ Duration(g) >= min2period
  /\ code' = [code EXCEPT !.sync = (2 * @) % ByteMod]
  /\ state' = state + 2
  /\ called' = {}
  /\ UNCHANGED <<previous, repeats>>

StartBitWrong(g) ==
  /\ Counts(g)
  /\ \/ state \in 0 .. 3 /\ IsLong(g)
     \/ state \in 4 .. 7 /\ Duration(g) < min2period
  /\ Reset

\* A long interval is a 0, two short ones are a 1.  A long interval counts for
\* two states even if it comes second.
Bit(g) == IF IsLong(g) THEN 0 ELSE 1
LastHalf(g) == IF IsLong(g) THEN state + 1 ELSE state
BitEnds(g) ==
  IF state < AddressEnd THEN IsLong(g) \/ Odd(state) ELSE Odd(LastHalf(g))

Shift(v, b, mod) == (2 * v + b) % mod
Xor(a, b) == (a + b) % 2

\* Mutant: the last bit of the humidity goes to the temperature.
WithBit_EarlyField(b) ==
  CASE state < AddressEnd ->
         [code EXCEPT !.address = Shift(@, b, ByteMod), !.par = Xor(@, b)]
    [] state \in AddressEnd .. ChannelEnd - 1 ->
         [code EXCEPT !.channel = Shift(@, b, ByteMod), !.par = Xor(@, b)]
    [] state \in ChannelEnd .. ConstEnd - 1 ->
         [code EXCEPT !.wconst = Shift(@, b, ByteMod), !.par = Xor(@, 1)]
    [] state \in ConstEnd .. HumidityEnd - 2 ->
         [code EXCEPT !.humidity = Shift(@, b, ByteMod), !.par = Xor(@, b)]
    [] state \in HumidityEnd - 1 .. TemperatureEnd - 1 ->
         [code EXCEPT !.temperature = Shift(@, b, WordMod), !.par = Xor(@, b)]
    [] OTHER -> [code EXCEPT !.par = Xor(@, b)]

\* The code with bit b added to the field that state belongs to.  Each bit of
\* the constant counts for the parity as a 1.
WithBit(b) ==
  CASE state < AddressEnd ->
         [code EXCEPT !.address = Shift(@, b, ByteMod), !.par = Xor(@, b)]
    [] state \in AddressEnd .. ChannelEnd - 1 ->
         [code EXCEPT !.channel = Shift(@, b, ByteMod), !.par = Xor(@, b)]
    [] state \in ChannelEnd .. ConstEnd - 1 ->
         [code EXCEPT !.wconst = Shift(@, b, ByteMod), !.par = Xor(@, 1)]
    [] state \in ConstEnd .. HumidityEnd - 1 ->
         [code EXCEPT !.humidity = Shift(@, b, ByteMod), !.par = Xor(@, b)]
    [] state \in HumidityEnd .. TemperatureEnd - 1 ->
         [code EXCEPT !.temperature = Shift(@, b, WordMod), !.par = Xor(@, b)]
    [] OTHER -> [code EXCEPT !.par = Xor(@, b)]

WithInterval(g) == IF BitEnds(g) THEN WithBit(Bit(g)) ELSE code

DataInterval(g) ==
  /\ Counts(g) /\ state >= 8
  /\ LastHalf(g) + 1 < FrameEnd
  /\ state' = LastHalf(g) + 1
  /\ code' = WithInterval(g)
  /\ called' = {}
  /\ UNCHANGED <<previous, repeats>>

\* What makes two codes equal.  The constant is not part of it.
Compared(c) == [c EXCEPT !.wconst = 0]

\* The count is reset by another code only, and it is a byte.
Complete(c) ==
  LET count == IF Compared(c) = Compared(previous) THEN (repeats + 1) % ByteMod ELSE 1
  IN  /\ previous' = IF Compared(c) = Compared(previous) THEN previous ELSE c
      /\ repeats' = count
      /\ IF count >= MinRepeats
         THEN state' = -1 /\ code' = Cleared /\ called' = {c}
         ELSE state' = 0 /\ code' = c /\ called' = {}

LastInterval(g) ==
  /\ Counts(g) /\ state >= 8
  /\ LastHalf(g) + 1 >= FrameEnd
  /\ Complete(WithInterval(g))

\* interruptHandler
Edge(g) ==
  \/ EdgeTooEarly(g) \/ Silence(g)
  \/ Start(g) \/ Wait(g)
  \/ StartBitOne(g) \/ StartBitZero(g) \/ StartBitWrong(g)
  \/ DataInterval(g) \/ LastInterval(g)

Next == \E g \in Gaps : Edge(g)

Spec == Init /\ [][Next]_receiverVars

================================================================================
