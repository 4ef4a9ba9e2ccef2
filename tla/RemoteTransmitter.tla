--------------------------- MODULE RemoteTransmitter ---------------------------
(***************************************************************************)
(* libraries/LamPI/RemoteTransmitter.cpp: the remotes that send twelve     *)
(* digits of base 3 (Action, Blokker, the old KlikAanKlikUit and Elro), as *)
(* functions from a command to the digits and from these to the intervals  *)
(* between edges, in microseconds.                                         *)
(***************************************************************************)
EXTENDS Naturals, Sequences, SequencesExt

Bit(v, k) == (v \div 2 ^ k) % 2

\* ActionTransmitter::getTelegram
ActionTrits(systemCode, device, on) ==
  [k \in 1 .. 12 |->
     CASE k \in 1 .. 5 -> IF Bit(systemCode, 5 - k) = 1 THEN 1 ELSE 2
       [] k \in 6 .. 10 -> IF k - 6 = device THEN 0 ELSE 2
       [] k = 11 -> IF on THEN 2 ELSE 0
       [] k = 12 -> IF on THEN 0 ELSE 2]

\* BlokkerTransmitter::getTelegram
BlokkerTrits(device, on) ==
  [k \in 1 .. 12 |->
     CASE k \in 2 .. 4 -> IF Bit(device - 1, k - 2) = 1 THEN 0 ELSE 1
       [] k = 9 -> IF on THEN 1 ELSE 0
       [] OTHER -> 0]

\* KaKuTransmitter::getTelegram with an address and a device
KaKuTrits(address, device, on) ==
  [k \in 1 .. 12 |->
     CASE k \in 1 .. 4 -> 2 * Bit(address, k - 1)
       [] k \in 5 .. 8 -> 2 * Bit(device - 1, k - 5)
       [] k = 9 -> 0
       [] k \in {10, 11} -> 2
       [] k = 12 -> IF on THEN 2 ELSE 0]

\* ElroTransmitter::getTelegram
ElroTrits(systemCode, device, on) ==
  [k \in 1 .. 12 |->
     CASE k \in 1 .. 5 -> IF Bit(systemCode, k - 1) = 1 THEN 0 ELSE 2
       [] k \in 6 .. 10 -> IF k - 6 = device THEN 0 ELSE 2
       [] k = 11 -> IF on THEN 0 ELSE 2
       [] k = 12 -> IF on THEN 2 ELSE 0]

\* encodeTelegram: the digits in the 20 lowest bits, above them the repeats in
\* 3 bits and the period in 9 bits, of which sendTelegram reads them back.
Data(trits) == FoldLeft(LAMBDA n, t : 3 * n + t, 0, trits)
Encoded(trits, periodusec, repeats) ==
  [data |-> Data(trits), period |-> periodusec % 2 ^ 9, repeats |-> repeats]

\* The digits of a code, as sendCode takes them apart again.
Digits(data) == [k \in 1 .. 12 |-> (data \div 3 ^ (12 - k)) % 3]

TritUsec(t, T) ==
  CASE t = 0 -> <<T, 3 * T, T, 3 * T>>
    [] t = 1 -> <<3 * T, T, 3 * T, T>>
    [] t = 2 -> <<T, 3 * T, 3 * T, T>>

\* One telegram: the digits, the termination signal.
TelegramUsec(e) ==
  FlattenSeq([k \in 1 .. 12 |-> TritUsec(Digits(e.data)[k], e.period)])
    \o <<e.period, 31 * e.period>>

\* sendTelegram and sendCode, with the pin LOW for idle before it.  The low of the
\* last termination signal goes on until the next edge, whatever its source.
RemoteUsec(e, idle) ==
  <<idle>> \o Front(FlattenSeq([j \in 1 .. 2 ^ e.repeats |-> TelegramUsec(e)]))

================================================================================
