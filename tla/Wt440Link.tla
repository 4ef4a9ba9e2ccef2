-------------------------------- MODULE Wt440Link --------------------------------
(***************************************************************************)
(* A sensor that sends with wt440Transmitter.cpp and the wt440Receiver.cpp *)
(* of a gateway with the air between them: edges reach the interrupt       *)
(* handler one at a time, some of them early or late, with glitches in     *)
(* between and noise between the messages.                                 *)
(***************************************************************************)
EXTENDS Wt440Receiver

CONSTANTS
  SentMessages,   \* the messages that are sent
  Idles,          \* the time from the last edge to a message
  Glitches,       \* the lengths of a glitch
  Shifts,         \* how much an edge is late, or early if negative
  MaxSends,       \* bound: on the messages sent
  MaxGlitches,    \* bound: on the glitches
  MaxShifts,      \* bound: on the edges shifted
  MaxNoise        \* bound: on the noise edges between two messages

LinkAssumption ==
  /\ SentMessages \subseteq Messages
  /\ {Idles, Glitches} \subseteq SUBSET Nat
  /\ Shifts \subseteq Int
  /\ {MaxSends, MaxGlitches, MaxShifts, MaxNoise} \subseteq Nat
ASSUME LinkAssumption

VARIABLES
  air,            \* the gaps before the edges that are to come
  sends,          \* the messages sent so far
  hit,            \* whether a glitch hit the latest message up to the end
                  \* of its first frame
  glitches,       \* how many glitches there have been
  shifts,         \* how many edges have been shifted
  noise,          \* how many noise edges since the last message
  delivered       \* how often the latest message has been delivered

linkVars == <<receiverVars, air, sends, hit, glitches, shifts, noise, delivered>>

LinkInit ==
  /\ Init
  /\ air = <<>> /\ sends = <<>> /\ hit = FALSE
  /\ glitches = 0 /\ shifts = 0 /\ noise = 0 /\ delivered = 0

Send(m, idle) ==
  /\ air = <<>>
  /\ Len(sends) < MaxSends
  /\ air' = MessageUsec(m, idle)
  /\ sends' = Append(sends, m)
  /\ hit' = FALSE /\ noise' = 0 /\ delivered' = 0
  /\ called' = {}
  /\ UNCHANGED <<state, code, previous, repeats, glitches, shifts>>

Says(c, m) ==
  /\ c.address = m.address /\ c.channel = m.channel /\ c.wconst = m.wconst
  /\ c.humidity = m.humidity /\ c.temperature = m.temperature

Count ==
  delivered' = IF \E c \in called' : Says(c, Last(sends)) THEN delivered + 1 ELSE delivered

Arrive ==
  /\ air /= <<>>
  /\ Edge(Head(air))
  /\ air' = Tail(air)
  /\ Count
  /\ UNCHANGED <<sends, hit, glitches, shifts, noise>>

\* Whether the gap that comes next is in the first frame or just before it.
InFirstFrame ==
  Len(MessageUsec(Last(sends), 0)) - Len(air) <= Len(FrameUsec(Last(sends)))

\* A glitch of e splits a gap in two.
Glitch(e) ==
  /\ air /= <<>>
  /\ glitches < MaxGlitches
  /\ glitches' = glitches + 1
  /\ \E g \in {e, Head(air) \div 2, Head(air) - 2 * e} :
       /\ g > 0 /\ g + e < Head(air)
       /\ air' = <<g, e, Head(air) - g - e>> \o Tail(air)
  /\ hit' = (hit \/ InFirstFrame)
  /\ called' = {}
  /\ UNCHANGED <<state, code, previous, repeats, sends, shifts, noise, delivered>>

\* An edge that is late or early takes from one gap what it gives to another.
Displace(d) ==
  /\ Len(air) > 1
  /\ shifts < MaxShifts
  /\ shifts' = shifts + 1
  /\ air[1] + d > 0 /\ air[2] - d > 0
  /\ air' = [air EXCEPT ![1] = @ + d, ![2] = @ - d]
  /\ called' = {}
  /\ UNCHANGED <<state, code, previous, repeats, sends, hit, glitches, noise, delivered>>

Noise(g) ==
  /\ air = <<>>
  /\ noise < MaxNoise
  /\ noise' = noise + 1
  /\ Edge(g)
  /\ UNCHANGED <<air, sends, hit, glitches, shifts, delivered>>

LinkNext ==
  \/ \E m \in SentMessages, idle \in Idles : Send(m, idle)
  \/ Arrive
  \/ \E e \in Glitches : Glitch(e)
  \/ \E d \in Shifts : Displace(d)
  \/ \E g \in Gaps : Noise(g)

LinkSpec == LinkInit /\ [][LinkNext]_linkVars

\* What the receiver allows of the timing: with every edge shifted as far as it
\* may be, half of a 1 stays between min1period and max1period and a 0 between
\* min2period and max2period, and the silence before a message is over before
\* min1period or lasts beyond max2period on a clock of 16 bits.
Tolerance == 349
InTolerance ==
  /\ MinRepeats = 1
  /\ \E most \in 0 .. Tolerance :
       most * MaxShifts <= Tolerance /\ \A d \in Shifts : -most <= d /\ d <= most
  /\ \A idle \in Idles :
       \/ idle + Tolerance < min1period
       \/ idle % WordMod \in max2period + Tolerance + 1 .. WordMod - 1 - Tolerance

--------------------------------------------------------------------------------
(* Properties                                                              *)

\* wt440Receiver.h:35: when a correct signal is received, the callback is
\* called.  Whatever came before it, and with edges early or late by as much as
\* the limits allow, a message without a glitch before or in its first frame
\* is delivered.
FirstFrameDelivered ==
  air = <<>> /\ sends /= <<>> /\ ~hit => delivered > 0

\* Nothing is delivered during a message but that message, although the parity
\* is not looked at: a glitch too short for a half bit never makes another
\* message.
OnlySent ==
  \A c \in called : sends /= <<>> /\ noise = 0 => Says(c, Last(sends))

\* wt440Transmitter.cpp:52: the frame is transmitted four times.  A glitch hits
\* only one of them, so the message is delivered.
Delivered == air = <<>> /\ sends /= <<>> => delivered > 0

================================================================================
