----------------------------- MODULE LivoloReceiver -----------------------------
(***************************************************************************)
(* libraries/LamPI/livoloReceiver.cpp: the interrupt handler that decodes  *)
(* Livolo remotes, one call per edge of the receiver pin.  Its input is    *)
(* the time since the previous edge.                                       *)
(*                                                                         *)
(* The state counts half bits: 32 for the address and 14 for the unit.     *)
(* init() enables the receiver and no sketch disables it again.            *)
(***************************************************************************)
EXTENDS Integers

CONSTANTS
  AddressBits, UnitBits,  \* 16 and 7 in the code
  MinRepeats,             \* _minRepeats: 3 in the sketches
  UIntMod,                \* 2^16 on the AVR boards, 2^32 on the ESP8266
  Gaps                    \* the intervals between edges, in microseconds

AddressEnd == 2 * AddressBits
FrameEnd == AddressEnd + 2 * UnitBits

min1Period == 100
min3Period == 240
\* Mutant: the limit at which the receiver claims Action telegrams.
max3Period_Claims == 600
max3Period == 400

Cleared == [address |-> 0, unit |-> 0, level |-> 1]
NoCode == [address |-> 0, unit |-> 0, level |-> 0]

VARIABLE
  rx              \* the statics of the handler and, as history, the number
                  \* of equal frames in a row and {} or the code passed to
                  \* the callback at this edge

Init ==
  rx = [state |-> -1, receivedBit |-> 0, code |-> Cleared, previous |-> NoCode,
        repeats |-> 0, row |-> 0, called |-> {}]

\* After a reset nothing is read before the next start pulse has cleared it.
Reset ==
  rx' = [rx EXCEPT !.state = -1, !.receivedBit = 0, !.code = Cleared, !.called = {}]

Stay == rx' = [rx EXCEPT !.called = {}]

Filtered(g) == rx.state >= 0 /\ (g < min1Period \/ g > max3Period)

EdgeFiltered(g) == Filtered(g) /\ Reset

Duration(g) == g % UIntMod
StartPulse(g) == Duration(g) > 440 /\ Duration(g) < 600

\* state -1: wait for a start pulse
Wait(g) == rx.state = -1 /\ ~StartPulse(g) /\ Stay
Start(g) ==
  /\ rx.state = -1 /\ StartPulse(g)
  /\ rx' = [rx EXCEPT !.state = 0, !.called = {}]

InFrame(g) == ~Filtered(g) /\ rx.state \in 0 .. FrameEnd - 1
IsOne(g) == Duration(g) > min3Period
Odd == rx.state % 2 = 1

WithBit(b) ==
  IF rx.state < AddressEnd THEN [rx.code EXCEPT !.address = 2 * @ + b]
                           ELSE [rx.code EXCEPT !.unit = 2 * @ + b]

\* Mutant: the count goes on when another code comes.
Complete_KeepsCount(c) ==
  LET same == c = rx.previous
      count == (rx.repeats + 1) % 256
  IN  rx' = [state |-> -1, receivedBit |-> 0, code |-> Cleared,
             previous |-> c, repeats |-> count,
             row |-> IF same THEN rx.row + 1 ELSE 1,
             called |-> IF count >= MinRepeats THEN {c} ELSE {}]

\* A frame: equal ones are counted, in a byte that only another code resets.
Complete(c) ==
  LET same == c = rx.previous
      count == IF same THEN (rx.repeats + 1) % 256 ELSE 1
  IN  rx' = [state |-> -1, receivedBit |-> 0, code |-> Cleared,
             previous |-> c, repeats |-> count,
             row |-> IF same THEN rx.row + 1 ELSE 1,
             called |-> IF count >= MinRepeats THEN {c} ELSE {}]

Advance(steps, b, c) ==
  IF rx.state + steps = FrameEnd
  THEN Complete(c)
  ELSE rx' = [rx EXCEPT !.state = @ + steps, !.receivedBit = b, !.code = c, !.called = {}]

\* A long interval is a 1 and counts for two half bits, wherever it comes.
One(g) == InFrame(g) /\ IsOne(g) /\ Advance(2, 1, WithBit(1))

\* Two short ones are a 0.
FirstHalf(g) == InFrame(g) /\ ~IsOne(g) /\ ~Odd /\ Advance(1, 0, rx.code)
SecondHalf(g) ==
  InFrame(g) /\ ~IsOne(g) /\ Odd /\ rx.receivedBit = 0 /\ Advance(1, 0, WithBit(0))

HalfMissing(g) == InFrame(g) /\ ~IsOne(g) /\ Odd /\ rx.receivedBit /= 0 /\ Reset

\* A 1 that came in place of the last half bit has led past the end.
Overrun(g) == ~Filtered(g) /\ rx.state >= FrameEnd /\ Reset

\* interruptHandler
Edge(g) ==
  \/ EdgeFiltered(g)
  \/ Wait(g) \/ Start(g)
  \/ One(g) \/ FirstHalf(g) \/ SecondHalf(g) \/ HalfMissing(g)
  \/ Overrun(g)

Next == \E g \in Gaps : Edge(g)

Spec == Init /\ [][Next]_rx

--------------------------------------------------------------------------------
(* Properties                                                              *)

Codes == [address : Nat, unit : Nat, level : {0, 1}]

TypeOK ==
  rx \in [state : -1 .. FrameEnd + 1, receivedBit : {0, 1}, code : Codes, previous : Codes,
          repeats : 0 .. 255, row : Nat, called : SUBSET Codes]

\* livoloReceiver.h: the callback is called after MinRepeats equal codes in a
\* row.  The byte that counts them wraps, but never runs ahead.
CalledOnlyInARow == rx.called /= {} => rx.called = {rx.previous} /\ rx.row >= MinRepeats

================================================================================
