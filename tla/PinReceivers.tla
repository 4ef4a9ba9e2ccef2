------------------------------ MODULE PinReceivers ------------------------------
(***************************************************************************)
(* The receiver pin of a gateway: InterruptChain passes every edge to the  *)
(* handlers of all receivers, whatever was sent.  Remotes of each kind are *)
(* pressed one after the other; the air adds glitches, and the gateway     *)
(* misses edges while it handles a command or prints in a callback.        *)
(*                                                                         *)
(* KlikAanKlikUit and WT440H have links of their own (KakuLink, Wt440Link) *)
(* and are present here as transmitters only.                              *)
(***************************************************************************)
EXTENDS Integers, Sequences, SequencesExt

CONSTANTS
  UIntMod,        \* 2^16 on the AVR boards, 2^32 on the ESP8266
  Presses,        \* what is pressed, or sent by a sensor
  Frames,         \* how often each kind repeats its frame
  Idles,          \* the silence before a press, since the edge before it
  Glitches,       \* the lengths of a glitch
  DeafEdges,      \* how many edges the gateway misses at a time
  MaxEvents       \* bound: on the presses, the glitches and the times edges are
                  \* missed, together

PinAssumption ==
  /\ UIntMod \in Nat \ {0} /\ Frames \in Nat \ {0} /\ MaxEvents \in Nat
  /\ Idles \subseteq Nat /\ Glitches \subseteq Nat
  /\ DeafEdges \subseteq Nat \ {0}
ASSUME PinAssumption

VARIABLES
  livolo, kopou, quhwa, auriol, remote,   \* the receivers
  air,            \* the gaps before the edges of the press that are to come
  presses,        \* the presses so far
  hits,           \* how many glitches and missed edges there have been
  reported        \* whether the latest press has been reported

receivers == <<livolo, kopou, quhwa, auriol, remote>>
vars == <<receivers, air, presses, hits, reported>>

\* The receivers as the sketches initialise them.
Livolo == INSTANCE LivoloReceiver
  WITH rx <- livolo, AddressBits <- 16, UnitBits <- 7, MinRepeats <- 3, Gaps <- {}
Kopou == INSTANCE KopouReceiver
  WITH rx <- kopou, AddressBits <- 16, UnitBits <- 8, MinRepeats <- 3, Gaps <- {}
Quhwa == INSTANCE QuhwaReceiver
  WITH rx <- quhwa, AddressBits <- 27, UnitBits <- 8, MinRepeats <- 3, Gaps <- {}
Auriol == INSTANCE AuriolReceiver
  WITH rx <- auriol, AddressBits <- 8, N1Bits <- 4, TemperatureBits <- 12, N2Bits <- 7,
       MinRepeats <- 2, Gaps <- {}
Remote == INSTANCE RemoteReceiver
  WITH rx <- remote, Trits <- 12, MinRepeats <- 2, Gaps <- {}

LivoloTx == INSTANCE LivoloTransmitter
QuhwaTx == INSTANCE QuhwaTransmitter
RemoteTx == INSTANCE RemoteTransmitter
KakuTx == INSTANCE KakuTransmitter
  WITH AddressBits <- 26, UnitBits <- 4, DimBits <- 4, PeriodUsec <- 260
Wt440Tx == INSTANCE Wt440Transmitter
  WITH AddressBits <- 4, ChannelBits <- 2, ConstBits <- 3, HumidityBits <- 7,
       TemperatureBits <- 15

--------------------------------------------------------------------------------
(* What is on the air.                                                     *)

Repeated(n, seq) == FlattenSeq([k \in 1 .. n |-> seq])

\* The Kopou remote: a start of 140 and 600, then 140 and 260 for a 0 and 260
\* and 140 for a 1.
KopouRemoteUsec(address, unit, frames, idle) ==
  LET bits == LivoloTx!NumberBits(address, 16) \o LivoloTx!NumberBits(unit, 8)
      bit(b) == IF b = 1 THEN <<260, 140>> ELSE <<140, 260>>
  IN  <<idle>> \o Repeated(frames,
                    <<140, 600>> \o FlattenSeq([k \in DOMAIN bits |-> bit(bits[k])]))

\* The Auriol sensor: a sync of 500 and 9000, then 500 and 2000 for a 0 and 500
\* and 4000 for a 1; the last bit makes the number of ones even.
AuriolSensorUsec(address, temperature, frames, idle) ==
  LET data == LivoloTx!NumberBits(address, 8) \o <<1, 0, 0, 0>>
                \o LivoloTx!NumberBits(temperature, 12) \o <<0, 0, 0, 0, 0, 0, 0>>
      bits == Append(data, FoldLeft(LAMBDA n, b : (n + b) % 2, 0, data))
      bit(b) == IF b = 1 THEN <<500, 4000>> ELSE <<500, 2000>>
  IN  <<idle>> \o Repeated(frames,
                    <<500, 9000>> \o FlattenSeq([k \in DOMAIN bits |-> bit(bits[k])]))

Telegram(p) ==
  RemoteTx!Encoded(
    CASE p.kind = "action" -> RemoteTx!ActionTrits(p.address, p.unit, p.on)
      [] p.kind = "blokker" -> RemoteTx!BlokkerTrits(p.unit, p.on)
      [] p.kind = "oldkaku" -> RemoteTx!KaKuTrits(p.address, p.unit, p.on)
      [] p.kind = "elro" -> RemoteTx!ElroTrits(p.address, p.unit, p.on),
    p.period, 3)

BaseThree == {"action", "blokker", "oldkaku", "elro"}

PressUsec(p, idle) ==
  CASE p.kind = "livolo" -> LivoloTx!LivoloUsec(p.address, p.unit, Frames, idle)
    [] p.kind = "kopouTransmitter" -> LivoloTx!KopouUsec(p.address, p.unit, Frames, idle)
    [] p.kind = "kopou" -> KopouRemoteUsec(p.address, p.unit, Frames, idle)
    [] p.kind = "quhwa" -> QuhwaTx!QuhwaUsec(p.address, p.unit, Frames, idle)
    [] p.kind = "auriol" -> AuriolSensorUsec(p.address, p.temperature, 6, idle)
    [] p.kind \in BaseThree -> RemoteTx!RemoteUsec(Telegram(p), idle)
    [] p.kind = "kaku" -> <<idle>> \o Front(Repeated(8, KakuTx!FrameUsec(p.code)))
    [] p.kind = "wt440" -> Wt440Tx!MessageUsec(p.code, idle)

--------------------------------------------------------------------------------
(* What the gateway makes of it.                                           *)

\* the lowest unit of a 5-digit number in base 3 whose digit is 0, or 0
UnitOf(digits) ==
  LET zeros == {i \in 0 .. 4 : digits[6 + i] = 0}
  IN  IF zeros = {} THEN 0 ELSE CHOOSE i \in zeros : \A j \in zeros : i <= j

\* showRemoteCode: a code is decoded if the period is that of an Action remote;
\* others are reported as address 0, unit 0, off.
ShowRemote(r) ==
  LET digits == RemoteTx!Digits(r.code)
      one(k) == IF digits[k] = 1 THEN 1 ELSE 0
  IN  IF r.period > 120 /\ r.period < 200
      THEN [address |-> 16 * one(1) + 8 * one(2) + 4 * one(3) + 2 * one(4) + one(5),
            unit |-> UnitOf(digits), on |-> <<digits[12], digits[11]>> /= <<2, 0>>]
      ELSE [address |-> 0, unit |-> 0, on |-> FALSE]

\* the callbacks of this edge
Calls ==
  {<<"livolo", c>> : c \in livolo.called} \cup {<<"kopou", c>> : c \in kopou.called}
    \cup {<<"quhwa", c>> : c \in quhwa.called}
    \cup {<<"auriol", Auriol!Compared(c)>> : c \in auriol.called}
    \cup {<<"remote", r.code>> : r \in remote.called}

\* the line that is printed of these: only of a base-3 code it depends on more
\* than the code, the period that was measured at its first sync
Lines == {c \in Calls : c[1] /= "remote"} \cup {<<"remote", ShowRemote(r)>> : r \in remote.called}

\* The callback a press has to lead to.  The transmitter for Kopou is a copy of the
\* one for Livolo, and what it sends is what a Livolo remote sends but for a bit
\* after the end.
Report(p) ==
  CASE p.kind = "livolo" ->
         {<<"livolo", [address |-> p.address, unit |-> p.unit, level |-> 1]>>}
    [] p.kind = "kopouTransmitter" ->
         {<<"livolo", [address |-> p.address, unit |-> p.unit \div 2, level |-> 1]>>}
    [] p.kind = "kopou" ->
         {<<"kopou", [address |-> p.address, unit |-> p.unit, level |-> 1]>>}
    [] p.kind = "quhwa" -> {<<"quhwa", [address |-> p.address, unit |-> p.unit]>>}
    [] p.kind = "auriol" ->
         {<<"auriol", [address |-> p.address, temperature |-> p.temperature, csum |-> 0]>>}
    [] p.kind \in BaseThree -> {<<"remote", Telegram(p).data>>}
    [] OTHER -> {}

\* Its line: only that of an Action remote is decoded.
Line(p) ==
  CASE p.kind = "action" ->
         {<<"remote", [address |-> p.address, unit |-> p.unit, on |-> p.on]>>}
    [] p.kind \in BaseThree ->
         {<<"remote", [address |-> 0, unit |-> 0, on |-> FALSE]>>}
    [] OTHER -> Report(p)

--------------------------------------------------------------------------------
Init ==
  /\ Livolo!Init /\ Kopou!Init /\ Quhwa!Init /\ Auriol!Init /\ Remote!Init
  /\ air = <<>> /\ presses = <<>>
  /\ hits = 0
  /\ reported = FALSE

Press(p, idle) ==
  /\ air = <<>>
  /\ Len(presses) + hits < MaxEvents
  /\ air' = PressUsec(p, idle)
  /\ presses' = Append(presses, p)
  /\ reported' = FALSE
  /\ UNCHANGED <<receivers, hits>>

\* InterruptChain::processInterrupt: every handler is called.
Edge(g) ==
  /\ Livolo!Edge(g) /\ Kopou!Edge(g) /\ Quhwa!Edge(g) /\ Auriol!Edge(g) /\ Remote!Edge(g)

Arrive ==
  /\ air /= <<>>
  /\ Edge(Head(air))
  /\ air' = Tail(air)
  /\ reported' = (reported \/ Line(Last(presses)) \cap Lines' /= {})
  /\ UNCHANGED <<presses, hits>>

\* A glitch of e splits a gap in two.
Glitch(e) ==
  /\ air /= <<>> /\ Len(presses) + hits < MaxEvents
  /\ hits' = hits + 1
  /\ \E g \in {e, Head(air) \div 2} :
       /\ g + e < Head(air)
       /\ air' = <<g, e, Head(air) - g - e>> \o Tail(air)
  /\ UNCHANGED <<receivers, presses, reported>>

\* The interrupt is off while n edges pass; the last of them may be latched and seen
\* when it is on again.
Deaf(n) ==
  /\ Len(air) > n + 1 /\ Len(presses) + hits < MaxEvents
  /\ hits' = hits + 1
  /\ LET missed == FoldLeft(LAMBDA x, y : x + y, 0, SubSeq(air, 1, n))
         late == air[n + 1] \div 2
     IN  \/ air' = <<missed + air[n + 1]>> \o SubSeq(air, n + 2, Len(air))
         \/ air' = <<missed + late, air[n + 1] - late>> \o SubSeq(air, n + 2, Len(air))
  /\ UNCHANGED <<receivers, presses, reported>>

Next ==
  \/ \E p \in Presses, idle \in Idles : Press(p, idle)
  \/ Arrive
  \/ \E e \in Glitches : Glitch(e)
  \/ \E n \in DeafEdges : Deaf(n)

Spec == Init /\ [][Next]_vars

--------------------------------------------------------------------------------
(* Properties                                                              *)

TypeOK ==
  /\ Livolo!TypeOK /\ Kopou!TypeOK /\ Quhwa!TypeOK /\ Auriol!TypeOK /\ Remote!TypeOK
  /\ air \in Seq(Nat) /\ presses \in Seq(Presses)
  /\ hits \in 0 .. MaxEvents /\ reported \in BOOLEAN

\* livoloReceiver.h and the others: the callback gets a code that was received
\* MinRepeats times in a row.
CalledOnlyInARow ==
  /\ Livolo!CalledOnlyInARow /\ Kopou!CalledOnlyInARow /\ Quhwa!CalledOnlyInARow
  /\ Auriol!CalledOnlyInARow /\ Remote!CalledOnlyInARow

\* livoloReceiver.cpp:87: with too large limits a receiver "claims" messages of
\* other remotes.  As they are, every code a callback gets was sent, by a remote
\* of that kind, whatever glitches and missed edges do to the frames.
NothingClaimed == Calls \subseteq UNION {Report(presses[k]) : k \in DOMAIN presses}

\* RemoteReceiver filters out the edges that follow the one before within half
\* of the period it has measured.  A silence of some 30 ms or more in a state
\* that waits for a sync makes that longer than all but the sync of a remote.
FiltersAll(p) ==
  p.kind \in BaseThree /\ remote.state >= 0 /\ Remote!min1Period > 3 * p.period

\* The line of a press, with its own address, unit and state, has been printed by
\* the time its last frame has passed: the disturbed frames cost some of the
\* repeats, and a base-3 code measured with the wrong period is measured anew,
\* unless that period filters out every edge.
Reported ==
  LET p == Last(presses)
  IN  air = <<>> /\ presses /= <<>> /\ Line(p) /= {} => reported \/ FiltersAll(p)

================================================================================
