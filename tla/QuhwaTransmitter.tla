---------------------------- MODULE QuhwaTransmitter ----------------------------
(***************************************************************************)
(* libraries/LamPI/quhwaTransmitter.cpp, the door bell button, as a        *)
(* function from a command to the intervals between the edges on the       *)
(* transmitter pin, in microseconds.  Every bit is one interval.           *)
(***************************************************************************)
EXTENDS Naturals, Sequences, SequencesExt

BellBits(v, bits) == [k \in 1 .. bits |-> (v \div 2 ^ (bits - k)) % 2]

\* sendPulse 1, and selectPulse for the bits
BellUsec(remoteID, keycode) ==
  LET bits == BellBits(remoteID, 27) \o BellBits(keycode, 8)
  IN  <<350, 6000>> \o [k \in DOMAIN bits |-> IF bits[k] = 1 THEN 1050 ELSE 350]

\* The 35 intervals end LOW, and the HIGH of the next start follows at once.
BellSpike == 4

\* sendButton, with the pin LOW for idle before it: frames times the same
\* frame, 26 in the code.
QuhwaUsec(remoteID, keycode, frames, idle) ==
  <<idle>> \o BellUsec(remoteID, keycode)
    \o FlattenSeq([k \in 1 .. frames - 1 |-> <<BellSpike>> \o BellUsec(remoteID, keycode)])

================================================================================
