-------------------------------- MODULE KakuLink --------------------------------
(***************************************************************************)
(* A KlikAanKlikUit sender and the receiver of a gateway with the air      *)
(* between them: the edges kakuTransmitter.cpp makes reach the interrupt   *)
(* handler of kakuReceiver.cpp one at a time, with short glitches in a     *)
(* press and noise after it.                                               *)
(***************************************************************************)
EXTENDS KakuReceiver

CONSTANTS
  SentCodes,      \* the commands that are sent
  Repeats,        \* the transmitter's repeats parameter: 3 in the sketches
  Idles,          \* the silence before a press, since the edge before it
  Glitches,       \* the lengths of a glitch
  NoiseAfterDim,  \* whether noise follows a dim command too
  MaxPresses,     \* bound: on the presses
  MaxGlitches,    \* bound: on the glitches
  MaxNoise        \* bound: on the noise edges after a press

\* The bits of a number that are sent are all it has: it is below 2 ^ bits.
\* This is so for every sendable code; it is assumed as well because nothing
\* is known of ^ in a proof.
Fits(v, bits) == RightShift(v, bits) = 0

LinkAssumption ==
  /\ SentCodes \subseteq SendableCodes
  /\ \A c \in SentCodes :
       Fits(c.address, AddressBits) /\ Fits(c.unit, UnitBits) /\ Fits(c.dim, DimBits)
  /\ Repeats \in 0 .. 8
  /\ {Idles, Glitches} \subseteq SUBSET Nat
  /\ NoiseAfterDim \in BOOLEAN
ASSUME LinkAssumption

VARIABLES
  air,            \* the gaps before the edges of the press that are to come
  presses,        \* the commands sent so far
  glitches,       \* how many glitches there have been
  noise,          \* how many noise edges since the last press
  delivered       \* how often the latest command has been delivered

linkVars == <<receiverVars, air, presses, glitches, noise, delivered>>

LinkInit ==
  /\ Init
  /\ air = <<>> /\ presses = <<>>
  /\ glitches = 0 /\ noise = 0 /\ delivered = 0

\* The send routine of a command: the same frame again and again.  The low
\* part of the last stop pulse goes on until the next edge, whatever its source.
PressUsec(c, idle) ==
  IF FramesSent(Repeats) = 0 THEN <<>>
  ELSE <<idle>> \o Front(FlattenSeq([i \in 1 .. FramesSent(Repeats) |-> FrameUsec(c)]))

Press(c, idle) ==
  /\ air = <<>>
  /\ Len(presses) < MaxPresses
  /\ air' = PressUsec(c, idle)
  /\ presses' = Append(presses, c)
  /\ noise' = 0 /\ delivered' = 0
  /\ called' = {}
  /\ UNCHANGED <<enabled, state, parts, code, period, timing, repetition, heard, glitches>>

Same(c, d) == [c EXCEPT !.dimPresent = FALSE] = [d EXCEPT !.dimPresent = FALSE]

Count ==
  delivered' = IF \E c \in called' : Same(c, Last(presses)) THEN delivered + 1 ELSE delivered

Arrive ==
  /\ air /= <<>>
  /\ Edge(Head(air))
  /\ air' = Tail(air)
  /\ Count
  /\ UNCHANGED <<presses, glitches, noise>>

\* A glitch of e splits a gap in two.
Glitch(e) ==
  /\ air /= <<>>
  /\ glitches < MaxGlitches
  /\ glitches' = glitches + 1
  /\ \E g \in {e, Head(air) \div 2, Head(air) - 2 * e} :
       /\ g + e < Head(air)
       /\ air' = <<g, e, Head(air) - g - e>> \o Tail(air)
  /\ called' = {}
  /\ UNCHANGED <<enabled, state, parts, code, period, timing, repetition, heard,
                 presses, noise, delivered>>

Noise(g) ==
  /\ air = <<>> /\ presses /= <<>>
  /\ NoiseAfterDim \/ ~Last(presses).dimPresent
  /\ noise < MaxNoise
  /\ noise' = noise + 1
  /\ Edge(g)
  /\ Count
  /\ UNCHANGED <<air, presses, glitches>>

LinkNext ==
  \/ \E c \in SentCodes, idle \in Idles : Press(c, idle)
  \/ Arrive
  \/ \E e \in Glitches : Glitch(e)
  \/ \E g \in Gaps : Noise(g)

LinkSpec == LinkInit /\ [][LinkNext]_linkVars

--------------------------------------------------------------------------------
(* Properties                                                              *)

\* kakuReceiver.h:36: when a correct signal is received, the callback is
\* called.  A command, repeated as the sketches send it, has been delivered
\* by the time its last frame is in the air; and not often, because after a
\* delivery the receiver needs a sync and as many frames again.  The first may
\* have been counted for already when the same command was sent before.
Delivered ==
  /\ air = <<>> /\ presses /= <<>> => delivered > 0
  /\ (MinRepeats + 1) * delivered <= FramesSent(Repeats) + MinRepeats

\* Nothing is delivered that was not sent.
OnlySent == \A c \in called : \E d \in Range(presses) : Same(c, d)

================================================================================
