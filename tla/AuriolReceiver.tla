----------------------------- MODULE AuriolReceiver -----------------------------
(***************************************************************************)
(* libraries/LamPI/auriolReceiver.cpp: the interrupt handler that decodes  *)
(* the Auriol weather sensor, one call per edge of the receiver pin.  Its  *)
(* input is the time since the previous edge.                              *)
(*                                                                         *)
(* The state counts half bits: HIGH in the even states, LOW, which tells   *)
(* the bit, in the odd ones.  The channel and the humidity of the code are *)
(* always 0 and left out.  init() enables the receiver and no sketch       *)
(* disables it again.                                                      *)
(***************************************************************************)
EXTENDS Integers

CONSTANTS
  AddressBits, N1Bits, TemperatureBits, N2Bits,   \* 8, 4, 12 and 7 in the code
  MinRepeats,             \* _minRepeats: 2 in the sketches
  UIntMod,                \* 2^16 on the AVR boards, 2^32 on the ESP8266
  Gaps                    \* the intervals between edges, in microseconds

AddressEnd == 2 * AddressBits
N1End == AddressEnd + 2 * N1Bits
TemperatureEnd == N1End + 2 * TemperatureBits
N2End == TemperatureEnd + 2 * N2Bits
FrameEnd == N2End + 2

min1period == 1800
max1period == 2200
min2period == 3800
max2period == 4200

Cleared == [address |-> 0, n1 |-> 0, temperature |-> 0, n2 |-> 0, csum |-> 0]

\* What makes two codes equal.  n1 and n2 are not part of it.
Compared(c) == [address |-> c.address, temperature |-> c.temperature, csum |-> c.csum]

VARIABLE
  rx              \* the statics of the handler and, as history, the number
                  \* of equal frames in a row and {} or the code passed to
                  \* the callback at this edge

Init ==
  rx = [state |-> -1, code |-> Cleared, previous |-> Compared(Cleared),
        repeats |-> 0, row |-> 0, called |-> {}]

\* After a reset nothing is read before the next sync has cleared it.
Reset == rx' = [rx EXCEPT !.state = -1, !.code = Cleared, !.called = {}]

Duration(g) == g % UIntMod
SyncPulse(g) == Duration(g) > 8500 /\ Duration(g) < 10000

\* state -1: wait for the long LOW of a sync
Wait(g) == rx.state = -1 /\ ~SyncPulse(g) /\ rx' = [rx EXCEPT !.called = {}]
Sync(g) ==
  /\ rx.state = -1 /\ SyncPulse(g)
  /\ rx' = [rx EXCEPT !.state = 0, !.called = {}]

InFrame == rx.state \in 0 .. FrameEnd - 1
Odd == rx.state % 2 = 1

\* the HIGH of a bit
HighFits(g) == Duration(g) >= 350 /\ Duration(g) <= 700
High(g) ==
  /\ InFrame /\ ~Odd /\ HighFits(g)
  /\ rx' = [rx EXCEPT !.state = @ + 1, !.called = {}]

\* the LOW of a bit
LowFits(g) ==
  \/ Duration(g) >= min1period /\ Duration(g) <= max1period
  \/ Duration(g) >= min2period /\ Duration(g) <= max2period

Wrong(g) ==
  /\ InFrame
  /\ IF Odd THEN ~LowFits(g) ELSE ~HighFits(g)
  /\ Reset

IsOne(g) == Duration(g) > min2period
Bit(g) == IF IsOne(g) THEN 1 ELSE 0

\* The code with bit b added to the field that state belongs to.  The parity
\* is kept over all bits, but nobody looks at it.
WithBit(b) ==
  LET c == [rx.code EXCEPT !.csum = (@ + b) % 2]
  IN  CASE rx.state < AddressEnd -> [c EXCEPT !.address = 2 * @ + b]
        [] rx.state \in AddressEnd .. N1End - 1 -> [c EXCEPT !.n1 = (2 * @ + b) % 256]
        [] rx.state \in N1End .. TemperatureEnd - 1 -> [c EXCEPT !.temperature = 2 * @ + b]
        [] rx.state \in TemperatureEnd .. N2End - 1 -> [c EXCEPT !.n2 = (2 * @ + b) % 256]
        [] OTHER -> c

Low(g) ==
  /\ InFrame /\ Odd /\ LowFits(g)
  /\ rx.state + 1 < FrameEnd
  /\ rx' = [rx EXCEPT !.state = @ + 1, !.code = WithBit(Bit(g)), !.called = {}]

\* Mutant: a sensor is reported at its first frame.
Complete_Once(c) ==
  LET same == Compared(c) = rx.previous
      count == IF same THEN (rx.repeats + 1) % 256 ELSE 1
  IN  rx' = [state |-> -1, code |-> Cleared,
             previous |-> Compared(c), repeats |-> count,
             row |-> IF same THEN rx.row + 1 ELSE 1,
             called |-> IF count >= 1 THEN {c} ELSE {}]

\* A frame: equal ones are counted, in a byte that only another code resets.
Complete(c) ==
  LET same == Compared(c) = rx.previous
      count == IF same THEN (rx.repeats + 1) % 256 ELSE 1
  IN  rx' = [state |-> -1, code |-> Cleared,
             previous |-> Compared(c), repeats |-> count,
             row |-> IF same THEN rx.row + 1 ELSE 1,
             called |-> IF count >= MinRepeats THEN {c} ELSE {}]

LastLow(g) ==
  /\ InFrame /\ Odd /\ LowFits(g)
  /\ rx.state + 1 = FrameEnd
  /\ Complete(WithBit(Bit(g)))

\* interruptHandler
Edge(g) ==
  \/ Wait(g) \/ Sync(g)
  \/ High(g) \/ Low(g) \/ LastLow(g) \/ Wrong(g)

Next == \E g \in Gaps : Edge(g)

Spec == Init /\ [][Next]_rx

--------------------------------------------------------------------------------
(* Properties                                                              *)

Codes ==
  [address : Nat, n1 : 0 .. 255, temperature : Nat, n2 : 0 .. 255, csum : {0, 1}]

TypeOK ==
  rx \in [state : -1 .. FrameEnd - 1, code : Codes,
          previous : [address : Nat, temperature : Nat, csum : {0, 1}],
          repeats : 0 .. 255, row : Nat, called : SUBSET Codes]

\* auriolReceiver.h: the callback is called after MinRepeats equal codes in a
\* row.  The byte that counts them wraps, but never runs ahead.
CalledOnlyInARow ==
  \A c \in rx.called : Compared(c) = rx.previous /\ rx.row >= MinRepeats

================================================================================
