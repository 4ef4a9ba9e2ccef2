------------------------------ MODULE QuhwaReceiver ------------------------------
(***************************************************************************)
(* libraries/LamPI/quhwaReceiver.cpp: the interrupt handler that decodes   *)
(* the Quhwa door bell, one call per edge of the receiver pin.  Its input  *)
(* is the time since the previous edge.                                    *)
(*                                                                         *)
(* The state counts bits: 27 for the address and 8 for the unit.           *)
(* init() enables the receiver and no sketch disables it again.            *)
(***************************************************************************)
EXTENDS Integers

CONSTANTS
  AddressBits, UnitBits,  \* 27 and 8 in the code
  MinRepeats,             \* _minRepeats: 3 in the sketches
  UIntMod,                \* 2^16 on the AVR boards, 2^32 on the ESP8266
  Gaps                    \* the intervals between edges, in microseconds

AddressEnd == AddressBits
FrameEnd == AddressEnd + UnitBits

_min1Period == 300
_max1Period == 450
_max3Period == 1250

Cleared == [address |-> 0, unit |-> 0]

VARIABLE
  rx              \* the statics of the handler and, as history, the number
                  \* of equal frames in a row and {} or the code passed to
                  \* the callback at this edge

Init ==
  rx = [state |-> -1, code |-> Cleared, previous |-> Cleared,
        repeats |-> 0, row |-> 0, called |-> {}]

\* After a reset nothing is read before the next start pulse has cleared it.
Reset ==
  rx' = [rx EXCEPT !.state = -1, !.code = Cleared, !.called = {}]

Stay == rx' = [rx EXCEPT !.called = {}]

Filtered(g) == rx.state >= 0 /\ (g < _min1Period \/ g > _max3Period)

EdgeFiltered(g) == Filtered(g) /\ Reset

Duration(g) == g % UIntMod
StartPulse(g) == Duration(g) > 2000 /\ Duration(g) < 7000

\* state -1: wait for the long LOW of a start pulse
Wait(g) == rx.state = -1 /\ ~StartPulse(g) /\ Stay
Start(g) ==
  /\ rx.state = -1 /\ StartPulse(g)
  /\ rx' = [rx EXCEPT !.state = 0, !.called = {}]

InFrame(g) == ~Filtered(g) /\ rx.state \in 0 .. FrameEnd - 1
Bit(g) == IF Duration(g) < _max1Period THEN 0 ELSE 1

WithBit(b) ==
  IF rx.state < AddressEnd THEN [rx.code EXCEPT !.address = 2 * @ + b]
                           ELSE [rx.code EXCEPT !.unit = 2 * @ + b]

\* A frame: equal ones are counted, in a byte that only another code resets.
Complete(c) ==
  LET same == c = rx.previous
      count == IF same THEN (rx.repeats + 1) % 256 ELSE 1
  IN  rx' = [state |-> -1, code |-> Cleared,
             previous |-> c, repeats |-> count,
             row |-> IF same THEN rx.row + 1 ELSE 1,
             called |-> IF count >= MinRepeats THEN {c} ELSE {}]

\* Every interval within the limits is a bit.
BitInterval(g) ==
  /\ InFrame(g) /\ rx.state + 1 < FrameEnd
  /\ rx' = [rx EXCEPT !.state = @ + 1, !.called = {}, !.code = WithBit(Bit(g))]

LastInterval(g) == InFrame(g) /\ rx.state + 1 = FrameEnd /\ Complete(WithBit(Bit(g)))

\* interruptHandler
Edge(g) ==
  \/ EdgeFiltered(g)
  \/ Wait(g) \/ Start(g)
  \/ BitInterval(g) \/ LastInterval(g)

Next == \E g \in Gaps : Edge(g)

Spec == Init /\ [][Next]_rx

--------------------------------------------------------------------------------
(* Properties                                                              *)

Codes == [address : Nat, unit : Nat]

TypeOK ==
  rx \in [state : -1 .. FrameEnd - 1, code : Codes, previous : Codes,
          repeats : 0 .. 255, row : Nat, called : SUBSET Codes]

\* quhwaReceiver.h: the callback is called after MinRepeats equal codes in a
\* row.  The byte that counts them wraps, but never runs ahead.
CalledOnlyInARow == rx.called /= {} => rx.called = {rx.previous} /\ rx.row >= MinRepeats

================================================================================
