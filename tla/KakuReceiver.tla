------------------------------ MODULE KakuReceiver ------------------------------
(***************************************************************************)
(* libraries/LamPI/kakuReceiver.cpp: the interrupt handler that decodes    *)
(* the self-learning KlikAanKlikUit protocol, one call per edge of the     *)
(* receiver pin.  Its input is the time since the previous edge; the       *)
(* handler looks at the interval before that one, so that an edge that     *)
(* comes too early can still be filtered out.                              *)
(*                                                                         *)
(* Field widths are parameters, and with them the state numbers: address   *)
(* states 2 .. 105, group 106 .. 109, switch 110 .. 113, unit 114 .. 129   *)
(* and dim 130 .. 145 in the code.  _inCallback is left out: the handler   *)
(* runs with interrupts disabled, so it is FALSE at every call.            *)
(***************************************************************************)
EXTENDS KakuTransmitter, Integers

CONSTANTS
  MinRepeats,     \* _minRepeats
  UIntMod,        \* 2^16 on the AVR boards, 2^32 on the ESP8266
  ShortMax,       \* the largest value of _state, a short: 2^15 - 1
  Gaps,           \* the intervals between edges, in microseconds
  MaxAcc          \* bound: on the time skipped edges add up to

U(x) == x % UIntMod

AddressEnd == 2 + 4 * AddressBits
GroupEnd == AddressEnd + 4
SwitchEnd == GroupEnd + 4
UnitEnd == SwitchEnd + 4 * UnitBits
DimEnd == UnitEnd + 4 * DimBits

ReceiverAssumption ==
  /\ MinRepeats \in 1 .. 255
  /\ UIntMod \in Nat \ {0}
  /\ ShortMax \in Nat /\ ShortMax > DimEnd + 1
  /\ Gaps \subseteq Nat
  /\ MaxAcc \in Nat
ASSUME ReceiverAssumption

NoCode == [address |-> 0, group |-> FALSE, switch |-> "off", unit |-> 0,
           dimPresent |-> FALSE, dim |-> 0]

VARIABLES
  enabled,        \* _enabled
  state,          \* _state
  parts,          \* receivedBit: the parts of the bit being received
  code,           \* receivedCode without its period
  period,         \* receivedCode.period, from which the limits follow
  previous,       \* previousCode
  repeats,        \* repeats, a byte
  acc,            \* edgeTimeStamp[1] - edgeTimeStamp[0]
  gap,            \* edgeTimeStamp[2] - edgeTimeStamp[1]
  skip,           \* skip
  \* history variables
  heard,          \* all parts since the start pulse
  lastFrame,      \* {} or the code of the latest complete frame since the sync
  row,            \* how many complete frames up to it had that same code
  called          \* {} or the code this edge has passed to the callback

timing == <<acc, gap, skip>>
repetition == <<previous, repeats, lastFrame, row>>
receiverVars == <<enabled, state, parts, code, period, timing, repetition, heard, called>>

Init ==
  /\ enabled = TRUE
  /\ state = -1
  /\ parts = <<>>
  /\ code = NoCode /\ previous = NoCode
  /\ period = 0
  /\ repeats = 0
  /\ acc = 0 /\ gap = 0 /\ skip = FALSE
  /\ heard = <<>> /\ lastFrame = {} /\ row = 0 /\ called = {}

\* What a frame that is not completed leaves behind is not read again, but
\* for the presence of a dim level.
Forget ==
  /\ parts' = <<>> /\ heard' = <<>>
  /\ code' = [NoCode EXCEPT !.dimPresent = code.dimPresent]

\* enable() and disable()
Enable ==
  /\ enabled' = TRUE
  /\ state' = -1
  /\ Forget
  /\ called' = {}
  /\ UNCHANGED <<period, timing, repetition>>

Disable ==
  /\ enabled' = FALSE
  /\ called' = {}
  /\ UNCHANGED <<state, parts, code, period, timing, repetition, heard>>

--------------------------------------------------------------------------------
(* The time limits, recomputed at every sync from the measured period.     *)

MinPeriod1 == U(3 * period) \div 10
MaxPeriod1 == U(3 * period)
MinPeriod5 == U(3 * period)
MaxPeriod5 == U(8 * period)

Duration == U(acc + gap)
IsShort == Duration <= MaxPeriod1
IsLong == ~IsShort /\ Duration >= MinPeriod5 /\ Duration <= MaxPeriod5
IsStop == Duration >= U(20 * period) /\ Duration <= U(80 * period)

--------------------------------------------------------------------------------
(* What the handler does with an edge that arrives g after the last one.   *)

\* The second edge of a pulse that was too short.
EdgeSkipped(g) ==
  /\ skip
  /\ skip' = FALSE
  /\ acc' = acc + gap /\ gap' = g
  /\ called' = {}
  /\ UNCHANGED <<enabled, state, parts, code, period, repetition, heard>>

\* An edge that comes too early: forget it and the next one.
EdgeTooEarly(g) ==
  /\ ~skip
  /\ state >= 0 /\ g < MinPeriod1
  /\ skip' = TRUE
  /\ acc' = acc + gap /\ gap' = g
  /\ called' = {}
  /\ UNCHANGED <<enabled, state, parts, code, period, repetition, heard>>

\* Any other edge completes an interval of length Duration.
EdgeCounts(g) ==
  /\ ~skip
  /\ ~(state >= 0 /\ g < MinPeriod1)
  /\ acc' = 0 /\ gap' = g /\ skip' = FALSE

Reset ==
  /\ state' = -1
  /\ Forget
  /\ called' = {}
  /\ UNCHANGED <<enabled, period, repetition>>

\* state -1: wait for the long low part of a stop pulse
WaitForSync ==
  /\ state = -1
  /\ Duration <= 4800
  /\ called' = {}
  /\ UNCHANGED <<enabled, state, parts, code, period, repetition, heard>>

\* Mutant: the count survives a sync.
Sync_KeepsRepeats ==
  /\ state = -1
  /\ Duration > 4800
  /\ repeats' = repeats
  /\ period' = Duration \div 40
  /\ state' = 0
  /\ lastFrame' = {} /\ row' = 0
  /\ called' = {}
  /\ UNCHANGED <<enabled, parts, code, previous, heard>>

Sync ==
  /\ state = -1
  /\ Duration > 4800
  /\ repeats' = 0
  /\ period' = Duration \div 40
  /\ state' = 0
  /\ lastFrame' = {} /\ row' = 0
  /\ called' = {}
  /\ UNCHANGED <<enabled, parts, code, previous, heard>>

\* states 0 and 1: the two parts of the start pulse
StartHigh ==
  /\ state = 0
  /\ IsShort
  /\ Forget
  /\ state' = 1
  /\ called' = {}
  /\ UNCHANGED <<enabled, period, repetition>>

StartLow ==
  /\ state = 1
  /\ Duration >= U(7 * period) /\ Duration <= U(15 * period)
  /\ state' = 2
  /\ called' = {}
  /\ UNCHANGED <<enabled, parts, code, period, repetition, heard>>

StartWrong ==
  /\ \/ state = 0 /\ ~IsShort
     \/ state = 1 /\ ~(Duration >= U(7 * period) /\ Duration <= U(15 * period))
  /\ Reset

InBits == state \in 2 .. DimEnd + 1
Part == IF IsShort THEN S ELSE L
LastPart == state % 4 = 1

\* A part of a bit that is not its last one, or the first part of the stop
\* pulse after the last dim bit.
BitPart ==
  /\ InBits /\ (IsShort \/ IsLong)
  /\ ~LastPart
  /\ parts' = Append(parts, Part)
  /\ heard' = Append(heard, Part)
  /\ state' = state + 1
  /\ called' = {}
  /\ UNCHANGED <<enabled, code, period, repetition>>

\* Mutant: the switch bit counts as a group bit.
WithBit_LateSwitch(b) ==
  CASE state < AddressEnd -> [code EXCEPT !.address = 2 * @ + b]
    [] state \in AddressEnd .. SwitchEnd - 1 -> [code EXCEPT !.group = (b = 1)]
    [] state \in GroupEnd .. SwitchEnd - 1 ->
         [code EXCEPT !.switch = IF b = 1 THEN "on" ELSE "off"]
    [] state \in SwitchEnd .. UnitEnd - 1 -> [code EXCEPT !.unit = 2 * @ + b]
    [] OTHER -> [code EXCEPT !.dim = 2 * @ + b]

\* The code with bit b added to the field that state belongs to.
WithBit(b) ==
  CASE state < AddressEnd -> [code EXCEPT !.address = 2 * @ + b]
    [] state \in AddressEnd .. GroupEnd - 1 -> [code EXCEPT !.group = (b = 1)]
    [] state \in GroupEnd .. SwitchEnd - 1 ->
         [code EXCEPT !.switch = IF b = 1 THEN "on" ELSE "off"]
    [] state \in SwitchEnd .. UnitEnd - 1 -> [code EXCEPT !.unit = 2 * @ + b]
    [] OTHER -> [code EXCEPT !.dim = 2 * @ + b]

\* Mutant: a dim bit is taken in every field.
BitEnd_DimAnywhere ==
  /\ InBits /\ (IsShort \/ IsLong)
  /\ LastPart
  /\ LET bit == Append(parts, Part)
     IN  \/ \E b \in {0, 1} : bit = BitParts(b) /\ code' = WithBit(b)
         \/ /\ bit = DimParts
            /\ code' = [code EXCEPT !.switch = "dim"]
  /\ parts' = <<>>
  /\ heard' = Append(heard, Part)
  /\ state' = state + 1
  /\ called' = {}
  /\ UNCHANGED <<enabled, period, repetition>>

\* The last part of a bit completes it; only the switch can be dim.
BitEnd ==
  /\ InBits /\ (IsShort \/ IsLong)
  /\ LastPart
  /\ LET bit == Append(parts, Part)
     IN  \/ \E b \in {0, 1} : bit = BitParts(b) /\ code' = WithBit(b)
         \/ /\ bit = DimParts /\ state \in GroupEnd .. SwitchEnd - 1
            /\ code' = [code EXCEPT !.switch = "dim"]
  /\ parts' = <<>>
  /\ heard' = Append(heard, Part)
  /\ state' = state + 1
  /\ called' = {}
  /\ UNCHANGED <<enabled, period, repetition>>

\* The second part of the stop pulse, where one may come.
StopFits ==
  /\ IsStop
  /\ parts = <<S>>
  /\ state \in {UnitEnd + 1, DimEnd + 1}

\* Neither a part nor a stop pulse, or a bit with an unknown pattern.
BitWrong ==
  /\ InBits
  /\ \/ ~IsShort /\ ~IsLong /\ ~StopFits
     \/ /\ (IsShort \/ IsLong) /\ LastPart
        /\ Append(parts, Part) \notin {BitParts(0), BitParts(1)}
        /\ Append(parts, Part) = DimParts => state \notin GroupEnd .. SwitchEnd - 1
  /\ Reset

\* Mutant: the count goes on when another code comes.
FrameEnd_KeepsCount ==
  /\ InBits /\ ~IsShort /\ ~IsLong /\ StopFits
  /\ LET frame == IF state = DimEnd + 1 THEN [code EXCEPT !.dimPresent = TRUE] ELSE code
         count == (repeats + 1) % 256
     IN  /\ code' = frame
         /\ previous' = frame
         /\ repeats' = count
         /\ lastFrame' = {frame}
         /\ row' = IF frame \in lastFrame THEN row + 1 ELSE 1
         /\ IF count >= MinRepeats
            THEN state' = -1 /\ called' = {frame}
            ELSE state' = 0 /\ called' = {}
  /\ parts' = <<>>
  /\ UNCHANGED <<enabled, period, heard>>

\* Mutant: every frame needs a sync of its own.
FrameEnd_Resyncs ==
  /\ InBits /\ ~IsShort /\ ~IsLong /\ StopFits
  /\ LET frame == IF state = DimEnd + 1 THEN [code EXCEPT !.dimPresent = TRUE] ELSE code
         count == IF frame = previous THEN (repeats + 1) % 256 ELSE 1
     IN  /\ code' = frame
         /\ previous' = frame
         /\ repeats' = count
         /\ lastFrame' = {frame}
         /\ row' = IF frame \in lastFrame THEN row + 1 ELSE 1
         /\ IF count >= MinRepeats
            THEN state' = -1 /\ called' = {frame}
            ELSE state' = -1 /\ called' = {}
  /\ parts' = <<>>
  /\ UNCHANGED <<enabled, period, heard>>

\* A complete frame: dimLevelPresent is set here and cleared nowhere.
FrameEnd ==
  /\ InBits /\ ~IsShort /\ ~IsLong /\ StopFits
  /\ LET frame == IF state = DimEnd + 1 THEN [code EXCEPT !.dimPresent = TRUE] ELSE code
         count == IF frame = previous THEN (repeats + 1) % 256 ELSE 1
     IN  /\ code' = frame
         /\ previous' = frame
         /\ repeats' = count
         /\ lastFrame' = {frame}
         /\ row' = IF frame \in lastFrame THEN row + 1 ELSE 1
         /\ IF count >= MinRepeats
            THEN state' = -1 /\ called' = {frame}
            ELSE state' = 0 /\ called' = {}
  /\ parts' = <<>>
  /\ UNCHANGED <<enabled, period, heard>>

\* Past state DimEnd + 1 no branch of the handler applies but the last one.
Overrun ==
  /\ state > DimEnd + 1
  /\ state' = IF state >= ShortMax THEN -ShortMax - 1 ELSE state + 1
  /\ Forget
  /\ called' = {}
  /\ UNCHANGED <<enabled, period, repetition>>

\* The counter has wrapped: negative states count as bits without end.
NegativeState ==
  /\ state < -1
  /\ IF IsShort \/ IsLong
     THEN /\ state' = state + 1
          /\ called' = {}
          /\ UNCHANGED <<enabled, parts, code, period, repetition, heard>>
     ELSE Reset

Interpret ==
  \/ WaitForSync \/ Sync
  \/ StartHigh \/ StartLow \/ StartWrong
  \/ BitPart \/ BitEnd \/ BitWrong \/ FrameEnd
  \/ Overrun \/ NegativeState

\* interruptHandler; a disabled receiver does not even look at the time
Edge(g) ==
  /\ enabled
  /\ \/ EdgeSkipped(g)
     \/ EdgeTooEarly(g)
     \/ EdgeCounts(g) /\ Interpret

Next ==
  \/ \E g \in Gaps : Edge(g) /\ acc' <= MaxAcc
  \/ Enable \/ Disable

Spec == Init /\ [][Next]_receiverVars

--------------------------------------------------------------------------------
(* Properties                                                              *)

Codes == [address : Nat, group : BOOLEAN, switch : {"off", "on", "dim"},
          unit : Nat, dimPresent : BOOLEAN, dim : Nat]

TypeOK ==
  /\ enabled \in BOOLEAN /\ skip \in BOOLEAN
  /\ state \in -ShortMax - 1 .. ShortMax
  /\ parts \in Seq({S, L}) /\ heard \in Seq({S, L})
  /\ code \in Codes /\ previous \in Codes
  /\ lastFrame \subseteq Codes /\ called \subseteq Codes
  /\ period \in Nat /\ acc \in Nat /\ gap \in Nat /\ row \in Nat
  /\ repeats \in 0 .. 255

\* kakuReceiver.h:59: minRepeats is the number of times the same code must be
\* received in a row before the callback is called.  In a row means: since
\* the last sync, with no interval in between that fits no frame.
CalledOnlyInARow ==
  called /= {} => called = lastFrame /\ row >= MinRepeats

\* While a frame is being received one more repetition never wraps the byte
\* and never comes after the callback was due.
RepeatsBelowLimit == state >= 0 => repeats < MinRepeats

\* The code passed to the callback, encoded the way the transmitter does it,
\* is what the last frame consisted of, up to the presence of the dim level.
HeardIsDecoded ==
  \A c \in called : \E p \in BOOLEAN :
    heard = CodeParts([c EXCEPT !.dimPresent = p]) \o <<S>>

================================================================================
