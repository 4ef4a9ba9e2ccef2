----------------------------- MODULE RemoteReceiver -----------------------------
(***************************************************************************)
(* libraries/LamPI/RemoteReceiver.cpp: the interrupt handler that decodes  *)
(* the remotes of twelve digits of base 3, one call per edge of the        *)
(* receiver pin.  Its input is the time since the previous edge; it looks  *)
(* at the interval before that one, so that an edge that comes too early   *)
(* can still be filtered out.                                              *)
(*                                                                         *)
(* The state counts the 48 parts of the digits, then the two parts of the  *)
(* termination signal.  init() enables the receiver and no sketch disables *)
(* it again.                                                               *)
(***************************************************************************)
EXTENDS Integers

CONSTANTS
  Trits,          \* 12 in the code
  MinRepeats,     \* _minRepeats: 2 in the sketches
  UIntMod,        \* 2^16 on the AVR boards, 2^32 on the ESP8266
  Gaps            \* the intervals between edges, in microseconds

SyncHigh == 4 * Trits
SyncLow == SyncHigh + 1

VARIABLE
  rx              \* the statics of the handler, the time stamps as acc (from
                  \* edgeTimeStamp[0] to [1]) and gap (from [1] to [2]), and,
                  \* as history, the number of equal telegrams in a row since
                  \* the sync and {} or what was passed to the callback

Init ==
  rx = [state |-> -1, period |-> 0, receivedBit |-> 0, code |-> 0, previous |-> 0,
        repeats |-> 0, acc |-> 0, gap |-> 0, skip |-> FALSE, row |-> 0, called |-> {}]

U(x) == x % UIntMod

\* The limits, computed at every sync from the measured period.
min1Period == U(5 * rx.period) \div 10
max1Period == U(15 * rx.period) \div 10
min3Period == U(23 * rx.period) \div 10
max3Period == U(37 * rx.period) \div 10

Duration == U(rx.acc + rx.gap)
IsShort == Duration <= max1Period
IsLong == ~IsShort /\ Duration >= min3Period /\ Duration <= max3Period

\* The time stamps of an edge that is filtered out: the interval grows.
Skipped(g) == [rx EXCEPT !.acc = @ + rx.gap, !.gap = g, !.called = {}]

\* The time stamps of an edge that counts.
Counted(g) == [rx EXCEPT !.acc = 0, !.gap = g, !.called = {}]

TooEarly(g) == rx.state >= 0 /\ g < min1Period

\* The second edge of a pulse that was too short, and the first.
EdgeSkipped(g) == rx.skip /\ rx' = [Skipped(g) EXCEPT !.skip = FALSE]
EdgeTooEarly(g) == ~rx.skip /\ TooEarly(g) /\ rx' = [Skipped(g) EXCEPT !.skip = TRUE]

Counts(g) == ~rx.skip /\ ~TooEarly(g)

\* After a reset nothing is read before the next sync has cleared it.
Reset(g) ==
  rx' = [Counted(g) EXCEPT !.state = -1, !.period = 0, !.receivedBit = 0, !.code = 0,
                           !.previous = 0, !.repeats = 0, !.row = 0]

\* state -1: wait for the long part of a termination signal
Wait(g) == Counts(g) /\ rx.state = -1 /\ Duration <= 3720 /\ rx' = Counted(g)

\* Mutant: the code is not cleared.
Sync_KeepsCode(g) ==
  /\ Counts(g) /\ rx.state = -1 /\ Duration > 3720
  /\ rx' = [Counted(g) EXCEPT !.state = 0, !.period = Duration \div 31, !.code = 1]

Sync(g) ==
  /\ Counts(g) /\ rx.state = -1 /\ Duration > 3720
  /\ rx' = [Counted(g) EXCEPT !.state = 0, !.period = Duration \div 31]

InDigits == rx.state \in 0 .. SyncHigh - 1
Part == IF IsShort THEN 0 ELSE 1
\* the parts of the digit so far, as receivedBit keeps them
Parts == (2 * rx.receivedBit + Part) % 16

BitPart(g) ==
  /\ Counts(g) /\ InDigits /\ (IsShort \/ IsLong)
  /\ rx.state % 4 /= 3
  /\ rx' = [Counted(g) EXCEPT !.state = @ + 1, !.receivedBit = Parts]

\* short long short long, long short long short, short long long short
TritParts(t) == CASE t = 0 -> 5 [] t = 1 -> 10 [] t = 2 -> 6

BitEnd(g) ==
  /\ Counts(g) /\ InDigits /\ (IsShort \/ IsLong)
  /\ rx.state % 4 = 3
  /\ \E t \in 0 .. 2 :
       /\ Parts = TritParts(t)
       /\ rx' = [Counted(g) EXCEPT !.state = @ + 1, !.receivedBit = 0, !.code = 3 * @ + t]

BitWrong(g) ==
  /\ Counts(g) /\ InDigits
  /\ \/ ~IsShort /\ ~IsLong
     \/ /\ rx.state % 4 = 3 /\ (IsShort \/ IsLong)
        /\ \A t \in 0 .. 2 : Parts /= TritParts(t)
  /\ Reset(g)

SyncPart1(g) ==
  /\ Counts(g) /\ rx.state = SyncHigh /\ IsShort
  /\ rx' = [Counted(g) EXCEPT !.state = SyncLow]

IsSync == Duration >= U(25 * rx.period) /\ Duration <= U(36 * rx.period)

SyncWrong(g) ==
  /\ Counts(g)
  /\ \/ rx.state = SyncHigh /\ ~IsShort
     \/ rx.state = SyncLow /\ ~IsSync
  /\ Reset(g)

\* Mutant: the count goes on when another code comes.
Complete_KeepsCount(g) ==
  LET same == rx.repeats > 0 /\ rx.code = rx.previous
      count == (rx.repeats + 1) % 256
  IN  /\ Counts(g) /\ rx.state = SyncLow /\ IsSync
      /\ IF count >= MinRepeats
         THEN rx' = [Counted(g) EXCEPT
                !.state = -1, !.period = 0, !.code = 0, !.previous = 0, !.repeats = 0,
                !.row = IF same THEN @ + 1 ELSE 1,
                !.called = {[code |-> rx.code, period |-> rx.period]}]
         ELSE rx' = [Counted(g) EXCEPT
                !.state = 0, !.code = 0, !.previous = rx.code, !.repeats = count,
                !.row = IF same THEN @ + 1 ELSE 1]

\* A telegram: equal ones are counted, and called at MinRepeats.  The code 0
\* equals what the sync has put in previousCode, with no telegram counted yet.
Complete(g) ==
  LET same == rx.repeats > 0 /\ rx.code = rx.previous
      count == IF rx.code = rx.previous THEN (rx.repeats + 1) % 256 ELSE 1
  IN  /\ Counts(g) /\ rx.state = SyncLow /\ IsSync
      /\ IF count >= MinRepeats
         THEN rx' = [Counted(g) EXCEPT
                !.state = -1, !.period = 0, !.code = 0, !.previous = 0, !.repeats = 0,
                !.row = IF same THEN @ + 1 ELSE 1,
                !.called = {[code |-> rx.code, period |-> rx.period]}]
         ELSE rx' = [Counted(g) EXCEPT
                !.state = 0, !.code = 0, !.previous = rx.code, !.repeats = count,
                !.row = IF same THEN @ + 1 ELSE 1]

\* interruptHandler
Edge(g) ==
  \/ EdgeSkipped(g) \/ EdgeTooEarly(g)
  \/ Wait(g) \/ Sync(g)
  \/ BitPart(g) \/ BitEnd(g) \/ BitWrong(g)
  \/ SyncPart1(g) \/ SyncWrong(g) \/ Complete(g)

Next == \E g \in Gaps : Edge(g)

Spec == Init /\ [][Next]_rx

--------------------------------------------------------------------------------
(* Properties                                                              *)

TypeOK ==
  rx \in [state : -1 .. SyncLow, period : Nat, receivedBit : 0 .. 15, code : Nat,
          previous : Nat, repeats : 0 .. 255, acc : Nat, gap : Nat, skip : BOOLEAN,
          row : Nat, called : SUBSET [code : Nat, period : Nat]]

\* RemoteReceiver.h: the callback is called after MinRepeats equal codes in a
\* row, which here means since the last sync.
CalledOnlyInARow == rx.called /= {} => rx.row >= MinRepeats

================================================================================
