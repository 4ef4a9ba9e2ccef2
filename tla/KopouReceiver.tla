------------------------------ MODULE KopouReceiver ------------------------------
(***************************************************************************)
(* libraries/LamPI/kopouReceiver.cpp: the interrupt handler that decodes   *)
(* Kopou remotes, one call per edge of the receiver pin.  Its input is     *)
(* the time since the previous edge.                                       *)
(*                                                                         *)
(* The state counts half bits: 32 for the address and 16 for the unit.  A  *)
(* 0 is a short interval and a long one, a 1 a long and a short one.       *)
(* init() enables the receiver and no sketch disables it again.            *)
(***************************************************************************)
EXTENDS Integers

CONSTANTS
  AddressBits, UnitBits,  \* 16 and 8 in the code
  MinRepeats,             \* _minRepeats: 3 in the sketches
  UIntMod,                \* 2^16 on the AVR boards, 2^32 on the ESP8266
  Gaps                    \* the intervals between edges, in microseconds

AddressEnd == 2 * AddressBits
FrameEnd == AddressEnd + 2 * UnitBits

min1Period == 90
max1Period == 180
min2Period == 180
max2Period == 300

Cleared == [address |-> 0, unit |-> 0, level |-> 1]
NoCode == [address |-> 0, unit |-> 0, level |-> 0]

VARIABLE
  rx              \* the statics of the handler and, as history, the number
                  \* of equal frames in a row and {} or the code passed to
                  \* the callback at this edge

Init ==
  rx = [state |-> -1, receivedBit |-> 0, code |-> Cleared, previous |-> NoCode,
        repeats |-> 0, row |-> 0, called |-> {}]

\* After a reset nothing is read before the next start pulse has cleared it.
Reset ==
  rx' = [rx EXCEPT !.state = -1, !.receivedBit = 0, !.code = Cleared, !.called = {}]

Stay == rx' = [rx EXCEPT !.called = {}]

Filtered(g) == rx.state >= 0 /\ (g < min1Period \/ g > max2Period)

EdgeFiltered(g) == Filtered(g) /\ Reset

Duration(g) == g % UIntMod
StartPulse(g) == Duration(g) > 500 /\ Duration(g) < 750

\* state -1: wait for the long part of the start bit
Wait(g) == rx.state = -1 /\ ~StartPulse(g) /\ Stay
Start(g) ==
  /\ rx.state = -1 /\ StartPulse(g)
  /\ rx' = [rx EXCEPT !.state = 0, !.called = {}]

InFrame(g) == ~Filtered(g) /\ rx.state \in 0 .. FrameEnd - 1
Odd == rx.state % 2 = 1

WithBit(b) ==
  IF rx.state < AddressEnd THEN [rx.code EXCEPT !.address = 2 * @ + b]
                           ELSE [rx.code EXCEPT !.unit = 2 * @ + b]

\* A frame: equal ones are counted, in a byte that only another code resets.
Complete(c) ==
  LET same == c = rx.previous
      count == IF same THEN (rx.repeats + 1) % 256 ELSE 1
  IN  rx' = [state |-> -1, receivedBit |-> 0, code |-> Cleared,
             previous |-> c, repeats |-> count,
             row |-> IF same THEN rx.row + 1 ELSE 1,
             called |-> IF count >= MinRepeats THEN {c} ELSE {}]

\* The first half says which bit it is to be, the second one has to fit.
FirstHalf(g) ==
  /\ InFrame(g) /\ ~Odd
  /\ rx' = [rx EXCEPT !.state = @ + 1, !.called = {},
                      !.receivedBit = IF Duration(g) < max1Period THEN 0 ELSE 1]

Fits(g) == rx.receivedBit = IF Duration(g) > min2Period THEN 0 ELSE 1

SecondHalf(g) ==
  /\ InFrame(g) /\ Odd /\ Fits(g)
  /\ IF rx.state + 1 = FrameEnd
     THEN Complete(WithBit(rx.receivedBit))
     ELSE rx' = [rx EXCEPT !.state = @ + 1, !.called = {}, !.code = WithBit(rx.receivedBit)]

HalfWrong(g) == InFrame(g) /\ Odd /\ ~Fits(g) /\ Reset

\* interruptHandler
Edge(g) ==
  \/ EdgeFiltered(g)
  \/ Wait(g) \/ Start(g)
  \/ FirstHalf(g) \/ SecondHalf(g) \/ HalfWrong(g)

Next == \E g \in Gaps : Edge(g)

Spec == Init /\ [][Next]_rx

--------------------------------------------------------------------------------
(* Properties                                                              *)

Codes == [address : Nat, unit : Nat, level : {0, 1}]

TypeOK ==
  rx \in [state : -1 .. FrameEnd - 1, receivedBit : {0, 1}, code : Codes, previous : Codes,
          repeats : 0 .. 255, row : Nat, called : SUBSET Codes]

\* kopouReceiver.h: the callback is called after MinRepeats equal codes in a
\* row.  The byte that counts them wraps, but never runs ahead.
CalledOnlyInARow == rx.called /= {} => rx.called = {rx.previous} /\ rx.row >= MinRepeats

================================================================================
