--------------------------- MODULE LivoloTransmitter ---------------------------
(***************************************************************************)
(* libraries/LamPI/livoloTransmitter.cpp and kopouTransmitter.cpp, which   *)
(* is a copy of it with one more bit, as functions from a command to the   *)
(* intervals between the edges on the transmitter pin, in microseconds.    *)
(* A frame is a start pulse, then one interval for a 1 and two for a 0.    *)
(***************************************************************************)
EXTENDS Naturals, Sequences, SequencesExt

\* The bits of a number, most significant first.
NumberBits(v, bits) == [k \in 1 .. bits |-> (v \div 2 ^ (bits - k)) % 2]

StartUsec == 500

\* selectPulse: the level alternates with every pulse.
PulseUsec(b) == IF b = 1 THEN <<300>> ELSE <<100, 100>>

PulsesUsec(bits) == FlattenSeq([k \in DOMAIN bits |-> PulseUsec(bits[k])])

\* A frame whose last pulse ends LOW is followed at once by the HIGH of the next
\* start; one that ends HIGH runs into it without an edge.
Spike == 4
BetweenFrames(bits) == IF Len(PulsesUsec(bits)) % 2 = 0 THEN <<Spike>> ELSE <<>>

\* sendButton, with the pin LOW for idle before it: frames times the same
\* frame (181 in the code), and the pin LOW again.
SendUsec(bits, frames, idle) ==
  <<idle, StartUsec>> \o PulsesUsec(bits)
    \o FlattenSeq([k \in 1 .. frames - 1 |->
                     BetweenFrames(bits) \o <<StartUsec>> \o PulsesUsec(bits)])
    \o (IF Len(PulsesUsec(bits)) % 2 = 0 THEN <<>> ELSE <<Spike>>)

\* Livolo::sendButton and Kopou::sendButton
LivoloUsec(remoteID, keycode, frames, idle) ==
  SendUsec(NumberBits(remoteID, 16) \o NumberBits(keycode, 7), frames, idle)
KopouUsec(remoteID, keycode, frames, idle) ==
  SendUsec(NumberBits(remoteID, 16) \o NumberBits(keycode, 8), frames, idle)

================================================================================
