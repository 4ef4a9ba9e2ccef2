------------------------- MODULE ArduinoGatewayProofs -------------------------
(***************************************************************************)
(* That the board executes the commands of the daemon as they were sent,   *)
(* in their order, whatever characters are lost, for any commands, buffer  *)
(* sizes, sensors and number of callbacks; which lines can be cut; and     *)
(* that no two lines get the same number before the counter wraps.         *)
(*                                                                         *)
(* The invariant looks at the next character the loop will see: the one at *)
(* the head of the receive buffer, or else the next one the daemon sends.  *)
(* What lies between two characters in the buffer is lost; and readLine is *)
(* what the daemon has sent of the command so far, unless something of it, *)
(* or the newline before it, is lost.  As a relay (LossyRelay) the board   *)
(* has under way the commands behind the last one executed.  For the       *)
(* numbers, what the loop has of the counter in its registers and what it  *)
(* has stored of it is related to the numbers printed, byte by byte.       *)
(***************************************************************************)
EXTENDS ArduinoGateway, FiniteSetTheorems, FunctionTheorems, TLAPS

LEMMA Constants ==
  /\ \A s \in Scripts :
       /\ s \in Seq([last : Nat \ {0}, does : Outcomes])
       /\ \A j, k \in DOMAIN s : j < k => s[j].last < s[k].last
  /\ Sensors \in Seq({"dallas", "other"})
  /\ RxSize \in Nat /\ UartFifo \in Nat /\ MaxBurst \in Nat
  /\ LineSize \in Nat /\ LineSize > 0 /\ ByteMod \in Nat /\ ByteMod > 1
  /\ MaxCallbacks \in Nat /\ MaxRounds \in Nat
<1>1. /\ \A s \in Scripts :
           /\ s \in Seq([last : Nat \ {0}, does : Outcomes])
           /\ \A j, k \in DOMAIN s : j < k => s[j].last < s[k].last
      /\ Sensors \in Seq({"dallas", "other"})
  BY GatewayAssumption DEF GatewayAssumption
<1>2. /\ RxSize \in Nat \ {0} /\ UartFifo \in Nat /\ MaxBurst \in Nat
      /\ LineSize \in Nat \ {0} /\ ByteMod \in Nat \ {0, 1}
      /\ MaxCallbacks \in Nat /\ MaxRounds \in Nat
  BY GatewayAssumption DEF GatewayAssumption
<1>3. /\ RxSize \in Nat /\ UartFifo \in Nat /\ MaxBurst \in Nat
      /\ LineSize \in Nat /\ LineSize > 0 /\ ByteMod \in Nat /\ ByteMod > 1
      /\ MaxCallbacks \in Nat /\ MaxRounds \in Nat
  BY <1>2
<1> QED BY <1>1, <1>3, Zenon

LEMMA Sizes ==
  /\ RxSize \in Nat /\ UartFifo \in Nat /\ MaxBurst \in Nat
  /\ LineSize \in Nat /\ LineSize > 0 /\ ByteMod \in Nat /\ ByteMod > 1
  /\ MaxCallbacks \in Nat /\ MaxRounds \in Nat
BY Constants

LEMMA SeqEqual ==
  ASSUME NEW s \in Seq(Nat), NEW t \in Seq(Nat), Len(s) = Len(t),
         \A i \in 1 .. Len(t) : s[i] = t[i]
  PROVE  s = t
OBVIOUS

LEMMA ScriptType ==
  ASSUME NEW s \in Scripts
  PROVE  /\ Len(s) \in Nat /\ DOMAIN s = 1 .. Len(s)
         /\ \A k \in DOMAIN s : s[k].last \in Nat \ {0} /\ s[k].does \in Outcomes
<1> DEFINE R == [last : Nat \ {0}, does : Outcomes]
<1>1. s \in Seq(R)
  BY Constants
<1>2. Len(s) \in Nat /\ DOMAIN s = 1 .. Len(s) /\ \A k \in DOMAIN s : s[k] \in R
  <2> HIDE DEF R
  <2> QED BY <1>1
<1> QED BY <1>2

\* The commands of the script end where the next ones begin.
LEMMA ScriptFacts ==
  ASSUME TypeOK
  PROVE  /\ Len(script) \in Nat /\ DOMAIN script = 1 .. Len(script)
         /\ \A k \in 0 .. Len(script) : Last(k) \in Nat /\ (k > 0 => Last(k) > 0)
         /\ \A j, k \in 0 .. Len(script) : j < k => Last(j) < Last(k)
         /\ \A k \in DOMAIN script : script[k].last = Last(k) /\ script[k].does \in Outcomes
         /\ Newlines = {Last(k) : k \in DOMAIN script}
<1>1. \A j, k \in DOMAIN script : j < k => script[j].last < script[k].last
  BY Constants DEF TypeOK
<1>2. Len(script) \in Nat /\ DOMAIN script = 1 .. Len(script)
  BY ScriptType DEF TypeOK
<1>3. \A k \in DOMAIN script : script[k].last \in Nat \ {0} /\ script[k].does \in Outcomes
  BY ScriptType DEF TypeOK
<1>4. \A k \in 0 .. Len(script) : Last(k) \in Nat /\ (k > 0 => Last(k) > 0 /\ Last(k) = script[k].last)
  BY <1>2, <1>3 DEF Last
<1>5. \A j, k \in 0 .. Len(script) : j < k => Last(j) < Last(k)
  BY <1>1, <1>2, <1>4 DEF Last
<1>6. Newlines = {Last(k) : k \in DOMAIN script}
  BY <1>2, <1>4 DEF Newlines
<1> QED BY <1>2, <1>3, <1>4, <1>5, <1>6

\* A newline ends one command only.
LEMMA CommandOfNewline ==
  ASSUME TypeOK, NEW k \in DOMAIN script
  PROVE  CommandOf(Last(k)) = k
<1>1. Last(k - 1) < Last(k) /\ Last(k) <= Last(k)
  BY ScriptFacts
<1>2. \A j \in DOMAIN script : Last(j - 1) < Last(k) /\ Last(k) <= Last(j) => j = k
  <2> SUFFICES ASSUME NEW j \in DOMAIN script, Last(j - 1) < Last(k), Last(k) <= Last(j), j /= k
               PROVE  FALSE
    OBVIOUS
  <2>1. CASE j < k
    BY <2>1, ScriptFacts
  <2>2. CASE k < j
    <3>1. k = j - 1 \/ Last(k) < Last(j - 1)
      BY <2>2, ScriptFacts
    <3> QED BY <3>1, ScriptFacts
  <2> QED BY <2>1, <2>2, ScriptFacts
<1> QED BY <1>1, <1>2 DEF CommandOf

LEMMA ParsedOutcome ==
  ASSUME TypeOK, NEW c \in Newlines, NEW text, NEW d \in Parsed(text, c)
  PROVE  d \in Outcomes
<1>1. PICK k \in DOMAIN script : c = Last(k)
  BY ScriptFacts
<1>2. script[CommandOf(c)].does \in Outcomes
  BY <1>1, CommandOfNewline, ScriptFacts
<1>3. Refused \in Outcomes
  BY DEF Outcomes
<1>4. Parsed(text, c) \subseteq Outcomes
  BY <1>2, <1>3 DEF Parsed
<1> QED BY <1>4

--------------------------------------------------------------------------------
(* The strengthening.                                                      *)

\* Where the loop is among the sensors, and what it has loaded then.
SensorPlace ==
  /\ pc \in {"sensor", "number", "store", "print", "rest", "plus"} => sensor \in 1 .. Len(Sensors)
  /\ pc = "plus" => Kind = "other"
  /\ pc \in {"store", "print"} => reg.lo /= -1 /\ reg.hi /= -1

\* Who can have begun the line that is open.
OpenLine ==
  /\ pc \in {"command", "answered"} => ~attached
  /\ pc = "command" => open = "nobody"
  /\ open = "answer" => pc = "answered"
  /\ pc \in {"loop", "sensor", "plus"} => open \in {"nobody", "comment"}
  /\ pc = "store" /\ Kind = "other" => open \in {"nobody", "comment"}

\* The next character that the loop will see.
Upcoming == IF rx = <<>> THEN next ELSE rx[1]

\* The buffer has the characters behind it in their order, but for those lost.
BufferInOrder ==
  /\ \A i \in DOMAIN rx : rx[i] \in 1 .. next - 1
  /\ \A i, j \in DOMAIN rx : i < j => rx[i] < rx[j]
  /\ \A c \in Upcoming .. next - 1 : c \in lost \/ \E i \in DOMAIN rx : rx[i] = c

Reading == pc \notin {"command", "answered", "overrun"}
SentUpTo(k, c) == [i \in 1 .. c - 1 - Last(k - 1) |-> Last(k - 1) + i]

LineInStep ==
  Reading =>
    \A k \in DOMAIN script :
      Last(k - 1) < Upcoming /\ Upcoming <= Last(k) /\ (Last(k - 1) .. Upcoming - 1) \cap lost = {}
        => readLine = SentUpTo(k, Upcoming)

\* Command e, of newline Last(k), does what it was sent for.
AsSent(e) ==
  \E k \in DOMAIN script :
    /\ e.newline = Last(k)
    /\ (Last(k - 1) .. Last(k)) \cap lost = {} => e.does = script[k].does

CommandInStep ==
  pc \in {"command", "answered"} =>
    /\ AsSent(command)
    /\ command.newline < Upcoming
    /\ command.newline + 1 .. Upcoming - 1 \subseteq lost

ExecutedInStep == \A i \in DOMAIN executed : AsSent(executed[i])

\* While no newline is lost, the line began behind the last newline.
LineBegins ==
  Newlines \cap lost = {} /\ Reading =>
    \E j \in 0 .. Len(script) :
      /\ Last(j) + Len(readLine) < Upcoming
      /\ \A c \in Newlines : ~(Last(j) < c /\ c < Upcoming)

\* The commands of the daemon fit into readLine.
CommandsFit == \A s \in Scripts : \A k \in DOMAIN s :
  s[k].last - (IF k = 1 THEN 0 ELSE s[k - 1].last) <= LineSize

LEMMA CommandInLine ==
  ASSUME TypeOK, NEW k \in DOMAIN script
  PROVE  k - 1 \in 0 .. Len(script) /\ k \in 0 .. Len(script)
         /\ Last(k - 1) \in Nat /\ Last(k) \in Nat /\ Last(k - 1) < Last(k)
         /\ Last(k) \in Newlines
<1>1. Len(script) \in Nat /\ DOMAIN script = 1 .. Len(script)
  BY ScriptFacts
<1>2. k - 1 \in 0 .. Len(script) /\ k \in 0 .. Len(script) /\ k - 1 < k
  BY <1>1
<1>3. Last(k - 1) \in Nat /\ Last(k) \in Nat /\ Last(k - 1) < Last(k)
  BY <1>2, ScriptFacts
<1>4. Last(k) \in Newlines
  BY ScriptFacts
<1> QED BY <1>2, <1>3, <1>4


--------------------------------------------------------------------------------
(* Types.                                                                  *)

LEMMA BytesType ==
  ASSUME NEW n \in Nat
  PROVE  /\ Bytes(n).lo \in 0 .. ByteMod - 1 /\ Bytes(n).hi \in 0 .. ByteMod - 1
         /\ Bytes(n) \in [lo : 0 .. ByteMod - 1, hi : 0 .. ByteMod - 1]
<1>1. ByteMod \in Nat \ {0}
  BY Constants
<1>2. \A a \in Nat, b \in Nat \ {0} : a % b \in 0 .. b - 1 /\ a \div b \in Nat
  OBVIOUS
<1>3. n % ByteMod \in 0 .. ByteMod - 1 /\ n \div ByteMod \in Nat
  BY <1>1, <1>2
<1>4. (n \div ByteMod) % ByteMod \in 0 .. ByteMod - 1
  BY <1>1, <1>2, <1>3
<1> QED BY <1>3, <1>4 DEF Bytes

LEMMA CountType ==
  ASSUME NEW bytes, bytes.lo \in 0 .. ByteMod - 1, bytes.hi \in 0 .. ByteMod - 1
  PROVE  Count(bytes) \in Nat
<1>1. ByteMod \in Nat
  BY Constants
<1>2. \A a, b \in Nat : a * b \in Nat
  OBVIOUS
<1>3. bytes.lo \in Nat /\ bytes.hi \in Nat
  BY <1>1
<1>4. bytes.hi * ByteMod \in Nat
  BY <1>1, <1>2, <1>3
<1> QED BY <1>3, <1>4 DEF Count

LEMMA PlusType ==
  ASSUME TypeOK, NEW n \in Nat
  PROVE  /\ Count(msgCnt) \in Nat
         /\ Plus(n) \in [lo : 0 .. ByteMod - 1, hi : 0 .. ByteMod - 1]
<1>1. msgCnt.lo \in 0 .. ByteMod - 1 /\ msgCnt.hi \in 0 .. ByteMod - 1
  BY DEF TypeOK
<1>2. Count(msgCnt) \in Nat
  BY <1>1, CountType
<1>3. Count(msgCnt) + n \in Nat
  BY <1>2
<1> QED BY <1>2, <1>3, BytesType DEF Plus

LEMMA OutcomeType ==
  ASSUME NEW d \in Outcomes
  PROVE  d.counts \in Nat /\ d.ends \in BOOLEAN /\ d.answers \in BOOLEAN
<1>1. d = Refused \/ d = List \/ d = Set \/ d = Transmit \/ d = NotFound
  BY DEF Outcomes
<1>2. CASE d = Refused
  BY <1>2 DEF Refused
<1>3. CASE d = List
  BY <1>3 DEF List
<1>4. CASE d = Set
  BY <1>4 DEF Set
<1>5. CASE d = Transmit
  BY <1>5 DEF Transmit
<1>6. CASE d = NotFound
  BY <1>6 DEF NotFound
<1> QED BY <1>1, <1>2, <1>3, <1>4, <1>5, <1>6

LEMMA LeastType ==
  ASSUME NEW a \in Int, NEW b \in Int
  PROVE  Least(a, b) \in {a, b} /\ Least(a, b) <= a /\ Least(a, b) <= b
BY DEF Least

LEMMA SerialType ==
  ASSUME TypeOK
  PROVE  /\ next \in Nat /\ next >= 1 /\ Last(Len(script)) \in Nat /\ ToCome \in Int
         /\ next <= Last(Len(script)) + 1
<1>1. Last(Len(script)) \in Nat
  <2>1. Len(script) \in Nat /\ Len(script) \in 0 .. Len(script)
    BY ScriptFacts
  <2> QED BY <2>1, ScriptFacts
<1>2. next \in 1 .. Last(Len(script)) + 1
  BY DEF TypeOK
<1>3. next \in Nat /\ next >= 1 /\ next <= Last(Len(script)) + 1
  BY <1>1, <1>2
<1> QED BY <1>1, <1>3 DEF ToCome

\* The characters that come in.
LEMMA ReceiveType ==
  ASSUME TypeOK, NEW m \in 0 .. ToCome, NEW most \in Nat, Receive(m, most)
  PROVE  /\ script' = script /\ next' \in 1 .. Last(Len(script)) + 1
         /\ rx' \in Seq(Nat) /\ Len(rx') <= RxSize
         /\ lost' \subseteq 1 .. Last(Len(script))
<1> DEFINE kept == Least(Least(m, most), RxSize - Len(rx))
           new == [i \in 1 .. kept |-> next - 1 + i]
<1>1. Last(Len(script)) \in Nat /\ RxSize \in Nat /\ Len(rx) \in Nat /\ next \in Nat /\ next >= 1
  <2>1. RxSize \in Nat
    BY Sizes
  <2>2. Len(rx) \in Nat
    BY DEF TypeOK
  <2> QED BY <2>1, <2>2, SerialType
<1>2. m \in Nat /\ next + m <= Last(Len(script)) + 1
  BY <1>1 DEF ToCome
<1>3. kept \in Nat /\ kept <= m /\ kept <= RxSize - Len(rx)
  <2>1. RxSize - Len(rx) \in Nat /\ most \in Nat /\ most \in Int /\ m \in Int
    BY <1>1, <1>2 DEF TypeOK
  <2>2. Least(m, most) \in Nat /\ Least(m, most) <= m
    BY <1>2, <2>1, LeastType
  <2>3. kept \in {Least(m, most), RxSize - Len(rx)} /\ kept <= Least(m, most)
        /\ kept <= RxSize - Len(rx)
    BY <2>1, <2>2, LeastType
  <2> QED BY <1>2, <2>1, <2>2, <2>3
<1>4. new \in Seq(Nat) /\ Len(new) = kept
  <2> HIDE DEF kept
  <2>1. \A i \in 1 .. kept : next - 1 + i \in Nat
    BY <1>1, <1>3
  <2> QED BY <2>1, <1>3
<1>5. rx' = rx \o new /\ next' = next + m /\ script' = script
      /\ lost' = lost \cup (next + kept .. next + m - 1)
  BY DEF Receive
<1> HIDE DEF new, kept
<1>6. rx' \in Seq(Nat) /\ Len(rx') <= RxSize
  BY <1>1, <1>3, <1>4, <1>5 DEF TypeOK
<1>7. lost' \subseteq 1 .. Last(Len(script))
  <2>1. next + kept .. next + m - 1 \subseteq 1 .. Last(Len(script))
    BY <1>1, <1>2, <1>3
  <2> QED BY <2>1, <1>5 DEF TypeOK
<1> QED BY <1>1, <1>2, <1>5, <1>6, <1>7

LEMMA TakesFromType ==
  ASSUME TypeOK, TakesFrom(rx)
  PROVE  /\ rx' \in Seq(Nat) /\ Len(rx') <= RxSize /\ Head(rx) \in Nat
         /\ script' = script /\ next' = next /\ lost' = lost
<1>1. rx \in Seq(Nat) /\ rx /= <<>> /\ Len(rx) <= RxSize /\ rx' = Tail(rx)
  BY DEF TypeOK, TakesFrom
<1>2. Tail(rx) \in Seq(Nat) /\ Len(Tail(rx)) = Len(rx) - 1 /\ Head(rx) \in Nat /\ Len(rx) \in Nat
  BY <1>1
<1>3. RxSize \in Nat
  BY Constants
<1> QED BY <1>1, <1>2, <1>3 DEF TakesFrom

AmongSensors == pc \in {"number", "store", "print", "rest", "plus"}

\* Where the loop goes on with a sensor, or leaves it.
LEMMA GoesOnFacts ==
  ASSUME TypeOK, SensorPlace, AmongSensors, GoesOn(pc)
  PROVE  \/ /\ pc' = "sensor" /\ sensor' \in 1 .. Len(Sensors) /\ sensor' = sensor + 1
            /\ pc = "rest" \/ (pc = "store" /\ Kind = "other")
         \/ /\ pc' = "loop" /\ sensor' = 0 /\ sensor = Len(Sensors)
            /\ pc = "rest" \/ (pc = "store" /\ Kind = "other")
         \/ /\ sensor' = sensor /\ Kind' = Kind
            /\ \/ pc = "number" /\ pc' = "store" /\ Kind = "dallas"
               \/ pc = "number" /\ pc' = "print" /\ Kind = "other"
               \/ pc = "store" /\ pc' = "print" /\ Kind = "dallas"
               \/ pc = "print" /\ pc' = "rest"
               \/ pc = "rest" /\ pc' = "plus" /\ Kind = "other"
               \/ pc = "plus" /\ pc' = "store" /\ Kind = "other"
<1>1. sensor \in 1 .. Len(Sensors) /\ Len(Sensors) \in Nat /\ Kind \in {"dallas", "other"}
  BY Constants DEF SensorPlace, AmongSensors, Kind
<1>2. CASE Follows[Kind][pc] = "next"
  <2>1. pc = "rest" \/ (pc = "store" /\ Kind = "other")
    BY <1>1, <1>2 DEF Follows, SensorPlace, AmongSensors
  <2>2. IF sensor < Len(Sensors) THEN pc' = "sensor" /\ sensor' = sensor + 1
                                 ELSE pc' = "loop" /\ sensor' = 0
    BY <1>2 DEF GoesOn
  <2> QED BY <1>1, <2>1, <2>2
<1>3. CASE Follows[Kind][pc] /= "next"
  <2>1. pc' = Follows[Kind][pc] /\ sensor' = sensor
    BY <1>3 DEF GoesOn
  <2>2. Kind' = Kind
    BY <2>1 DEF Kind
  <2>3. CASE Kind = "dallas"
    BY <1>3, <2>1, <2>2, <2>3 DEF Follows, SensorPlace, AmongSensors
  <2>4. CASE Kind = "other"
    BY <1>3, <2>1, <2>2, <2>4 DEF Follows, AmongSensors
  <2> QED BY <1>1, <2>3, <2>4
<1> QED BY <1>2, <1>3

\* A byte loaded is a byte of the counter.
LEMMA RegLoaded ==
  ASSUME TypeOK, SensorPlace, pc \in {"store", "print"}
  PROVE  Count(reg) \in Nat
<1>1. ByteMod \in Nat /\ ByteMod > 1
  BY Constants
<1>2. reg.lo \in 0 .. ByteMod - 1 /\ reg.hi \in 0 .. ByteMod - 1
  <2>1. reg.lo \in -1 .. ByteMod - 1 /\ reg.hi \in -1 .. ByteMod - 1
    BY DEF TypeOK, ByteOrNot
  <2>2. reg.lo /= -1 /\ reg.hi /= -1
    BY DEF SensorPlace
  <2> QED BY <1>1, <2>1, <2>2
<1> QED BY <1>2, CountType

LEMMA TypeInit == Init => TypeOK /\ SensorPlace /\ OpenLine
<1> SUFFICES ASSUME Init PROVE TypeOK /\ SensorPlace /\ OpenLine
  OBVIOUS
<1>1. Bytes(0) \in [lo : 0 .. ByteMod - 1, hi : 0 .. ByteMod - 1]
  BY BytesType
<1>2. Unloaded \in [lo : ByteOrNot, hi : ByteOrNot]
  BY Constants DEF Unloaded, ByteOrNot
<1>3. Idle \in [newline : Nat, does : Outcomes]
  BY DEF Idle, Outcomes
<1>4. next \in 1 .. Last(Len(script)) + 1
  <2>1. Len(script) \in Nat /\ \A k \in DOMAIN script : script[k].last \in Nat
         /\ DOMAIN script = 1 .. Len(script)
    BY ScriptType DEF Init
  <2>2. Last(Len(script)) \in Nat
    BY <2>1 DEF Last
  <2> QED BY <2>2 DEF Init
<1>5. /\ rx \in Seq(Nat) /\ Len(rx) <= RxSize /\ readLine \in Seq(Nat) /\ Len(readLine) < LineSize
      /\ executed \in Seq([newline : Nat, does : Outcomes]) /\ said \in Seq(Nat)
  BY Constants DEF Init
<1>6. 0 \in 0 .. Len(Sensors) /\ 0 \in 0 .. MaxCallbacks /\ 0 \in 0 .. MaxRounds
  BY Constants
<1>7. TypeOK
  BY <1>1, <1>2, <1>3, <1>4, <1>5, <1>6 DEF Init, TypeOK
<1>8. SensorPlace /\ OpenLine
  BY DEF Init, SensorPlace, OpenLine
<1> QED BY <1>7, <1>8

LEMMA AppendSaid ==
  ASSUME TypeOK, NEW n \in Nat, said' = Append(said, n)
  PROVE  said' \in Seq(Nat)
BY DEF TypeOK

LEMMA TypeNext ==
  ASSUME TypeOK, SensorPlace, [Next]_vars
  PROVE  TypeOK' /\ SensorPlace'
<1> USE DEF serialVars, counterVars, boundVars
<1> DEFINE B == 0 .. ByteMod - 1
           Places == {"loop", "command", "answered", "sensor", "number", "store", "print",
                      "rest", "plus", "overrun"}
<1>c. ByteMod \in Nat /\ ByteMod > 1 /\ Len(Sensors) \in Nat /\ LineSize \in Nat
      /\ MaxCallbacks \in Nat /\ MaxRounds \in Nat
  BY Constants
<1>0. Unloaded \in [lo : ByteOrNot, hi : ByteOrNot] /\ Unloaded.lo = -1 /\ Unloaded.hi = -1
  BY <1>c DEF Unloaded, ByteOrNot
<1>1. CASE UNCHANGED vars
  BY <1>1 DEF vars, TypeOK, SensorPlace, Kind, Last
<1>2. CASE HostSends
  <2>1. 1 \in 0 .. ToCome /\ 1 \in Nat
    BY <1>2, SerialType DEF HostSends
  <2>2. Receive(1, 1)
    BY <1>2 DEF HostSends
  <2>3. /\ script' = script /\ next' \in 1 .. Last(Len(script)) + 1
        /\ rx' \in Seq(Nat) /\ Len(rx') <= RxSize
        /\ lost' \subseteq 1 .. Last(Len(script))
    BY <2>1, <2>2, ReceiveType
  <2>4. SensorPlace'
    BY <1>2 DEF HostSends, SensorPlace, Kind
  <2> QED BY <1>2, <2>3, <2>4 DEF HostSends, TypeOK, Last
<1>3. CASE ReadCharacter
  <2>1. readLine' \in Seq(Nat) /\ Len(readLine') = Len(readLine) + 1
    BY <1>3, TakesFromType DEF ReadCharacter, TypeOK
  <2> QED BY <1>3, <2>1, TakesFromType DEF ReadCharacter, TypeOK, SensorPlace, Kind, Last
<1>4. CASE ReadBeyond
  BY <1>4, TakesFromType DEF ReadBeyond, TypeOK, SensorPlace, Kind, Last
<1>5. CASE ReadNewline
  <2>1. PICK d \in Parsed(readLine, Head(rx)) : command' = [newline |-> Head(rx), does |-> d]
    BY <1>5 DEF ReadNewline
  <2>2. d \in Outcomes
    BY <1>5, ParsedOutcome DEF ReadNewline
  <2>3. TakesFrom(rx)
    BY <1>5 DEF ReadNewline
  <2>4. command' \in [newline : Nat, does : Outcomes]
    BY <2>1, <2>2, <2>3, TakesFromType
  <2> QED BY <1>5, <2>3, <2>4, TakesFromType DEF ReadNewline, TypeOK, SensorPlace, Kind, Last
<1>6. CASE Answer
  <2>1. said' \in Seq(Nat)
    BY <1>6, PlusType, AppendSaid DEF Answer
  <2> QED BY <1>6, <2>1 DEF Answer, TypeOK, SensorPlace, Kind, Last
<1>7. CASE EndCommand
  <2>1. command.does \in Outcomes
    BY DEF TypeOK
  <2>2. command.does.counts \in Nat
    BY <2>1, OutcomeType
  <2>3. msgCnt' \in [lo : B, hi : B]
    BY <1>7, <2>2, PlusType DEF EndCommand, Executes
  <2>4. executed' \in Seq([newline : Nat, does : Outcomes])
    BY <1>7 DEF EndCommand, Executes, TypeOK
  <2>5. command' \in [newline : Nat, does : Outcomes]
    BY <1>7 DEF EndCommand, Executes, Idle, Outcomes
  <2>6. readLine' \in Seq(Nat) /\ Len(readLine') < LineSize
    BY <1>7, Constants DEF EndCommand
  <2> QED BY <1>7, <2>3, <2>4, <2>5, <2>6 DEF EndCommand, Executes, TypeOK, SensorPlace, Kind, Last
<1>8. CASE SensorFails
  <2>1. pc' \in {"sensor", "loop"} /\ sensor' \in 0 .. Len(Sensors)
        /\ (pc' = "sensor" => sensor' \in 1 .. Len(Sensors))
    BY <1>8, <1>c DEF SensorFails, TypeOK
  <2>2. SensorPlace'
    BY <2>1 DEF SensorPlace
  <2> QED BY <1>8, <2>1, <2>2 DEF SensorFails, TypeOK, Last
<1>9. CASE SensorBegins
  BY <1>9, <1>0 DEF SensorBegins, TypeOK, SensorPlace, Kind, Last
<1>10. CASE PrintNumber
  <2>1. said' \in Seq(Nat)
    BY <1>10, RegLoaded, AppendSaid DEF PrintNumber
  <2>2. pc' \in Places /\ sensor' \in 0 .. Len(Sensors) /\ SensorPlace'
    BY <1>10, <1>c, GoesOnFacts DEF PrintNumber, SensorPlace, AmongSensors
  <2> QED BY <1>10, <2>1, <2>2 DEF PrintNumber, TypeOK, Last
<1>11. CASE PrintRest
  <2>1. pc' \in Places /\ sensor' \in 0 .. Len(Sensors) /\ SensorPlace'
    BY <1>11, <1>c, GoesOnFacts DEF PrintRest, SensorPlace, AmongSensors
  <2> QED BY <1>11, <1>0, <2>1 DEF PrintRest, TypeOK, Last
<1>12. ASSUME NEW b \in {"lo", "hi"}, LoadByte(b) PROVE TypeOK' /\ SensorPlace'
  <2>1. msgCnt[b] \in B /\ msgCnt[b] /= -1
    BY <1>c DEF TypeOK
  <2>2. reg' \in [lo : ByteOrNot, hi : ByteOrNot]
    <3>1. msgCnt[b] \in ByteOrNot
      BY <1>c, <2>1 DEF ByteOrNot
    <3>2. reg' = [reg EXCEPT ![b] = msgCnt[b]]
      BY <1>12 DEF LoadByte
    <3> QED BY <3>1, <3>2 DEF TypeOK
  <2>3. CASE \E c \in {"lo", "hi"} \ {b} : reg[c] = -1
    <3>1. UNCHANGED <<pc, sensor>>
      BY <1>12, <2>3 DEF LoadByte
    <3> QED BY <1>12, <2>2, <3>1 DEF LoadByte, TypeOK, SensorPlace, Kind, Last
  <2>4. CASE ~ \E c \in {"lo", "hi"} \ {b} : reg[c] = -1
    <3>1. GoesOn(pc) /\ AmongSensors
      BY <1>12, <2>4 DEF LoadByte, AmongSensors
    <3>2. reg'.lo /= -1 /\ reg'.hi /= -1
      BY <1>12, <2>1, <2>4 DEF LoadByte, TypeOK
    <3>3. pc' \in Places /\ sensor' \in 0 .. Len(Sensors) /\ SensorPlace'
      BY <1>12, <1>c, <3>1, <3>2, GoesOnFacts DEF LoadByte, SensorPlace, AmongSensors
    <3> QED BY <1>12, <2>2, <3>3 DEF LoadByte, TypeOK, Last
  <2> QED BY <2>3, <2>4
<1>13. ASSUME NEW b \in {"lo", "hi"}, StoreByte(b) PROVE TypeOK' /\ SensorPlace'
  <2>1. Count(reg) + 1 \in Nat
    BY <1>13, RegLoaded DEF StoreByte
  <2>2. Bytes(Count(reg) + 1)[b] \in B
    BY <2>1, BytesType
  <2>3. msgCnt' \in [lo : B, hi : B]
    BY <1>13, <2>2 DEF StoreByte, TypeOK
  <2>4. CASE stored = {}
    BY <1>13, <2>3, <2>4 DEF StoreByte, TypeOK, SensorPlace, Kind, Last
  <2>5. CASE stored /= {}
    <3>1. GoesOn(pc) /\ AmongSensors /\ reg' = reg
      BY <1>13, <2>5 DEF StoreByte, AmongSensors
    <3>2. pc' \in Places /\ sensor' \in 0 .. Len(Sensors) /\ SensorPlace'
      BY <1>13, <1>c, <3>1, GoesOnFacts DEF StoreByte, SensorPlace, AmongSensors
    <3> QED BY <1>13, <2>3, <2>5, <3>2 DEF StoreByte, TypeOK, Last
  <2> QED BY <2>4, <2>5
<1>14. CASE SensorsDue
  <2>1. 1 \in 1 .. Len(Sensors)
    BY <1>14, Constants DEF SensorsDue
  <2> QED BY <1>14, <1>c, <2>1 DEF SensorsDue, TypeOK, SensorPlace, Kind, Last
<1>15. ASSUME NEW m \in 0 .. Least(MaxBurst, ToCome), Callback(m) PROVE TypeOK' /\ SensorPlace'
  <2>1. Receive(m, UartFifo) /\ UartFifo \in Nat
    BY <1>15, Constants DEF Callback
  <2>2. m \in 0 .. ToCome
    <3>1. MaxBurst \in Int /\ ToCome \in Int
      BY Sizes, SerialType
    <3>2. Least(MaxBurst, ToCome) <= ToCome /\ Least(MaxBurst, ToCome) \in Int
      BY <3>1, LeastType
    <3> QED BY <3>1, <3>2
  <2>3. /\ script' = script /\ next' \in 1 .. Last(Len(script)) + 1
        /\ rx' \in Seq(Nat) /\ Len(rx') <= RxSize
        /\ lost' \subseteq 1 .. Last(Len(script))
    BY <2>1, <2>2, ReceiveType
  <2>4. said' \in Seq(Nat)
    BY <1>15, PlusType, AppendSaid DEF Callback
  <2>5. msgCnt' \in [lo : B, hi : B]
    BY <1>15, PlusType DEF Callback
  <2>6. hit' \in BOOLEAN
    BY <1>15 DEF Callback, TypeOK, AtNumber
  <2>7. callbacks' \in 0 .. MaxCallbacks
    BY <1>15, <1>c DEF Callback, TypeOK
  <2> QED BY <1>15, <2>3, <2>4, <2>5, <2>6, <2>7 DEF Callback, TypeOK, SensorPlace, Kind, Last
<1> QED
  BY <1>1, <1>2, <1>3, <1>4, <1>5, <1>6, <1>7, <1>8, <1>9, <1>10, <1>11, <1>12, <1>13, <1>14, <1>15
  DEF Next, LoopStep

--------------------------------------------------------------------------------
(* Whose line can be cut.                                                  *)

LEMMA OpenNext ==
  ASSUME TypeOK, SensorPlace, OpenLine, GluedOnlyTo, [Next]_vars
  PROVE  OpenLine' /\ GluedOnlyTo'
<1> USE DEF serialVars, counterVars, boundVars
<1>1. CASE UNCHANGED vars
  BY <1>1 DEF vars, OpenLine, GluedOnlyTo, Kind
<1>2. CASE HostSends
  BY <1>2 DEF HostSends, OpenLine, GluedOnlyTo, Kind
<1>3. CASE ReadCharacter \/ ReadBeyond
  BY <1>3 DEF ReadCharacter, ReadBeyond, OpenLine, GluedOnlyTo, Kind
<1>4. CASE ReadNewline
  BY <1>4 DEF ReadNewline, OpenLine, GluedOnlyTo
<1>5. CASE Answer
  BY <1>5 DEF Answer, OpenLine, GluedOnlyTo, Begins
<1>6. CASE EndCommand
  BY <1>6 DEF EndCommand, AtEnd, Executes, OpenLine, GluedOnlyTo
<1>7. CASE SensorFails
  BY <1>7 DEF SensorFails, OpenLine, GluedOnlyTo
<1>8. CASE SensorBegins
  BY <1>8 DEF SensorBegins, Begins, OpenLine, GluedOnlyTo
<1>9. CASE PrintNumber
  BY <1>9, GoesOnFacts DEF PrintNumber, AmongSensors, OpenLine, GluedOnlyTo
<1>10. CASE PrintRest
  BY <1>10, GoesOnFacts DEF PrintRest, AmongSensors, OpenLine, GluedOnlyTo
<1>11. ASSUME NEW b \in {"lo", "hi"}, LoadByte(b) PROVE OpenLine' /\ GluedOnlyTo'
  <2>1. CASE UNCHANGED <<pc, sensor>>
    BY <1>11, <2>1 DEF LoadByte, OpenLine, GluedOnlyTo, Kind
  <2>2. CASE GoesOn(pc)
    BY <1>11, <2>2, GoesOnFacts DEF LoadByte, AmongSensors, OpenLine, GluedOnlyTo
  <2> QED BY <1>11, <2>1, <2>2 DEF LoadByte
<1>12. ASSUME NEW b \in {"lo", "hi"}, StoreByte(b) PROVE OpenLine' /\ GluedOnlyTo'
  <2>1. CASE UNCHANGED <<pc, sensor>>
    BY <1>12, <2>1 DEF StoreByte, OpenLine, GluedOnlyTo, Kind
  <2>2. CASE GoesOn(pc)
    BY <1>12, <2>2, GoesOnFacts DEF StoreByte, AmongSensors, OpenLine, GluedOnlyTo
  <2> QED BY <1>12, <2>1, <2>2 DEF StoreByte
<1>13. CASE SensorsDue
  BY <1>13 DEF SensorsDue, OpenLine, GluedOnlyTo
<1>14. ASSUME NEW m, Callback(m) PROVE OpenLine' /\ GluedOnlyTo'
  <2>1. open \in {"nobody", "sensor", "comment"}
    BY <1>14 DEF Callback, OpenLine, TypeOK
  <2>2. GluedOnlyTo'
    BY <1>14, <2>1 DEF Callback, Begins, GluedOnlyTo
  <2>3. OpenLine'
    BY <1>14 DEF Callback, OpenLine, Kind
  <2> QED BY <2>2, <2>3
<1> QED
  BY <1>1, <1>2, <1>3, <1>4, <1>5, <1>6, <1>7, <1>8, <1>9, <1>10, <1>11, <1>12, <1>13, <1>14
  DEF Next, LoopStep

\* A line of the daemon's begins in the middle of another only in a sensor's line
\* that a callback interrupts, or behind the comment of an unknown command.
THEOREM LinesKeptWhole == Spec => []GluedOnlyTo
<1>1. Init => GluedOnlyTo
  BY DEF Init, GluedOnlyTo
<1>2. TypeOK /\ SensorPlace /\ OpenLine /\ GluedOnlyTo /\ [Next]_vars
        => (TypeOK /\ SensorPlace /\ OpenLine /\ GluedOnlyTo)'
  BY TypeNext, OpenNext
<1> QED BY <1>1, <1>2, TypeInit, PTL DEF Spec

--------------------------------------------------------------------------------
(* The characters.                                                         *)

\* A step that takes no character and gets none.
LEMMA SerialUnchanged ==
  ASSUME BufferInOrder, UNCHANGED serialVars
  PROVE  BufferInOrder' /\ Upcoming' = Upcoming
BY DEF BufferInOrder, Upcoming, serialVars

LEMMA UpcomingType ==
  ASSUME TypeOK, BufferInOrder
  PROVE  Upcoming \in Nat /\ 1 <= Upcoming /\ Upcoming <= next /\ next \in Nat
         /\ (rx /= <<>> => Upcoming = Head(rx) /\ Upcoming < next)
<1>1. next \in Nat /\ 1 <= next /\ rx \in Seq(Nat)
  BY ScriptFacts DEF TypeOK
<1>2. rx /= <<>> => 1 \in DOMAIN rx /\ Head(rx) = rx[1]
  BY <1>1
<1>3. rx /= <<>> => rx[1] \in 1 .. next - 1
  BY <1>2 DEF BufferInOrder
<1> QED BY <1>1, <1>2, <1>3 DEF Upcoming

\* What the loop will see after the character it takes: what lies between is lost.
LEMMA TakesFacts ==
  ASSUME TypeOK, BufferInOrder, TakesFrom(rx)
  PROVE  /\ BufferInOrder'
         /\ Upcoming = Head(rx) /\ Upcoming < next
         /\ Upcoming' \in Nat /\ Upcoming < Upcoming'
         /\ Upcoming + 1 .. Upcoming' - 1 \subseteq lost
<1> DEFINE t == Tail(rx)
<1>1. rx \in Seq(Nat) /\ rx /= <<>> /\ Len(rx) \in Nat /\ Len(rx) >= 1 /\ DOMAIN rx = 1 .. Len(rx)
  <2>1. rx \in Seq(Nat) /\ rx /= <<>>
    BY DEF TakesFrom, TypeOK
  <2> QED BY <2>1
<1>2. t \in Seq(Nat) /\ DOMAIN t = 1 .. Len(rx) - 1 /\ \A i \in DOMAIN t : t[i] = rx[i + 1]
      /\ Len(t) = Len(rx) - 1 /\ (t = <<>> <=> Len(rx) = 1)
  BY <1>1
<1>3. rx' = t /\ next' = next /\ lost' = lost
  BY DEF TakesFrom
<1> HIDE DEF t
<1>4. Upcoming = Head(rx) /\ Upcoming = rx[1] /\ Upcoming < next /\ Upcoming \in Nat /\ next \in Nat
  BY <1>1, UpcomingType DEF Upcoming
<1>5. Upcoming' = IF Len(rx) = 1 THEN next ELSE rx[2]
  <2>1. CASE Len(rx) = 1
    BY <1>2, <1>3, <2>1 DEF Upcoming
  <2>2. CASE Len(rx) /= 1
    <3>0. Len(rx) \in Int /\ Len(rx) >= 2
      BY <1>1, <2>2
    <3>1. 1 \in DOMAIN t
      <4>1. 1 \in 1 .. Len(rx) - 1
        BY <3>0
      <4>2. DOMAIN t = 1 .. Len(rx) - 1
        BY <1>2
      <4> QED BY <4>1, <4>2
    <3>2. t[1] = rx[1 + 1] /\ t /= <<>>
      BY <1>2, <2>2, <3>1
    <3>3. Upcoming' = t[1]
      BY <1>3, <3>2 DEF Upcoming
    <3> QED BY <2>2, <3>2, <3>3
  <2> QED BY <2>1, <2>2
<1>6. \A i \in DOMAIN rx : rx[i] \in 1 .. next - 1
  BY DEF BufferInOrder
<1>7. \A i, j \in DOMAIN rx : i < j => rx[i] < rx[j]
  BY DEF BufferInOrder
<1>8. Upcoming' \in Nat /\ Upcoming < Upcoming' /\ Upcoming' <= next
  <2>1. Len(rx) /= 1 => 1 \in DOMAIN rx /\ 2 \in DOMAIN rx
    BY <1>1
  <2> QED BY <1>4, <1>5, <1>6, <1>7, <2>1
<1>9. ASSUME NEW c \in Upcoming + 1 .. next - 1
      PROVE  c \in lost \/ \E i \in 2 .. Len(rx) : rx[i] = c
  <2>1. c \in Upcoming .. next - 1 /\ c /= Upcoming
    BY <1>4
  <2>2. c \in lost \/ \E i \in DOMAIN rx : rx[i] = c
    BY <2>1 DEF BufferInOrder
  <2> QED BY <1>1, <1>4, <2>1, <2>2
<1>10. Upcoming + 1 .. Upcoming' - 1 \subseteq lost
  <2>1. PICK e \in Nat, f \in Nat, n \in Nat : e = Upcoming /\ f = Upcoming' /\ n = next
    BY <1>4, <1>8
  <2>2. f <= n
    BY <1>8, <2>1
  <2> SUFFICES ASSUME NEW c \in e + 1 .. f - 1, c \notin lost PROVE FALSE
    BY <2>1
  <2>3. c \in e + 1 .. n - 1 /\ c < f /\ c \in Int
    BY <2>2
  <2>4. PICK i \in 2 .. Len(rx) : rx[i] = c
    BY <1>9, <2>1, <2>3
  <2>5. 2 \in DOMAIN rx /\ i \in DOMAIN rx /\ Len(rx) /= 1
    BY <1>1, <2>4
  <2>6. rx[2] <= rx[i]
    <3>1. rx[2] \in Int
      BY <1>6, <2>5
    <3>2. i = 2 \/ 2 < i
      BY <2>4
    <3>3. CASE 2 < i
      BY <1>6, <1>7, <2>5, <3>3
    <3> QED BY <3>1, <3>2, <3>3
  <2>7. f = rx[2]
    BY <1>5, <2>1, <2>5
  <2> QED BY <2>3, <2>4, <2>6, <2>7
<1>11. BufferInOrder'
  <2>1. \A i \in DOMAIN t : i + 1 \in DOMAIN rx /\ t[i] = rx[i + 1] /\ i \in Int
    <3> TAKE i \in DOMAIN t
    <3>0. DOMAIN t = 1 .. Len(rx) - 1
      BY <1>2
    <3>a. Len(rx) \in Int
      BY <1>1
    <3>1. i \in Int /\ i >= 1 /\ i <= Len(rx) - 1
      BY <3>0, <3>a
    <3>2. i + 1 \in DOMAIN rx
      BY <1>1, <3>1
    <3> QED BY <1>2, <3>1, <3>2
  <2>2. \A i \in DOMAIN t : t[i] \in 1 .. next - 1
    BY <1>6, <2>1
  <2>3. \A i, j \in DOMAIN t : i < j => t[i] < t[j]
    BY <1>7, <2>1
  <2>4. ASSUME NEW c \in Upcoming' .. next - 1
        PROVE  c \in lost \/ \E i \in DOMAIN t : t[i] = c
    <3>1. c \in Upcoming + 1 .. next - 1
      BY <1>4, <1>8
    <3>2. CASE c \notin lost
      <4>1. PICK i \in 2 .. Len(rx) : rx[i] = c
        BY <1>9, <3>1, <3>2
      <4>2. i - 1 \in DOMAIN t /\ (i - 1) + 1 = i
        <5>1. i \in Int /\ 2 <= i /\ i <= Len(rx) /\ Len(rx) \in Int
          BY <1>1, <4>1
        <5>2. i - 1 \in 1 .. Len(rx) - 1
          BY <5>1
        <5>3. DOMAIN t = 1 .. Len(rx) - 1
          BY <1>2
        <5> QED BY <5>1, <5>2, <5>3
      <4>3. t[i - 1] = rx[i]
        BY <2>1, <4>2
      <4> QED BY <4>1, <4>2, <4>3
    <3> QED BY <3>2
  <2> QED BY <1>3, <2>2, <2>3, <2>4 DEF BufferInOrder
<1> QED BY <1>4, <1>8, <1>10, <1>11

\* What comes in does not change what the loop will see, unless the buffer was
\* empty and there was no time for the first characters.
LEMMA ReceiveFacts ==
  ASSUME TypeOK, BufferInOrder, NEW m \in 0 .. ToCome, NEW most \in Nat, Receive(m, most)
  PROVE  /\ BufferInOrder'
         /\ lost \subseteq lost' /\ script' = script
         /\ Upcoming' \in Nat /\ Upcoming <= Upcoming'
         /\ Upcoming .. Upcoming' - 1 \subseteq lost'
<1> DEFINE kept == Least(Least(m, most), RxSize - Len(rx))
           new == [i \in 1 .. kept |-> next - 1 + i]
<1>1. next \in Nat /\ next >= 1
  BY UpcomingType
<1>a. RxSize \in Int /\ rx \in Seq(Nat) /\ Len(rx) <= RxSize
  BY Constants DEF TypeOK
<1>2. m \in Nat
  BY SerialType
<1>3. PICK n \in Nat : n = Len(rx)
  BY <1>a
<1>4. PICK k \in Nat : k = kept /\ k <= m
  <2>1. RxSize - Len(rx) \in Nat /\ most \in Int /\ m \in Int
    BY <1>a, <1>1, <1>2, <1>3
  <2>2. Least(m, most) \in Nat /\ Least(m, most) <= m
    BY <1>2, <2>1, LeastType
  <2>3. kept \in {Least(m, most), RxSize - Len(rx)} /\ kept <= Least(m, most)
    BY <2>1, <2>2, LeastType
  <2> QED BY <1>2, <2>1, <2>2, <2>3
<1>5. rx' = rx \o new /\ next' = next + m /\ script' = script
      /\ lost' = lost \cup (next + k .. next + m - 1)
  BY <1>4 DEF Receive
<1>6. new \in Seq(Nat) /\ Len(new) = k /\ \A i \in 1 .. k : new[i] = next - 1 + i
  <2>1. new = [i \in 1 .. k |-> next - 1 + i]
    BY <1>4
  <2>2. \A i \in 1 .. k : next - 1 + i \in Nat
    BY <1>1
  <2> HIDE DEF new
  <2>3. new \in [1 .. k -> Nat]
    BY <2>1, <2>2
  <2>4. new \in Seq(Nat) /\ Len(new) = k
    BY <2>3
  <2>5. \A i \in 1 .. k : new[i] = next - 1 + i
    BY <2>1
  <2> QED BY <2>4, <2>5
<1> HIDE DEF kept, new
<1>7. DOMAIN rx = 1 .. n /\ DOMAIN rx' = 1 .. n + k
  <2>1. DOMAIN rx = 1 .. n
    BY <1>a, <1>3
  <2>2. rx \o new \in Seq(Nat) /\ Len(rx \o new) = n + k
    <3>1. rx \o new \in Seq(Nat) /\ Len(rx \o new) = Len(rx) + Len(new)
      BY <1>a, <1>6
    <3> QED BY <1>3, <1>6, <3>1
  <2>3. DOMAIN (rx \o new) = 1 .. n + k
    BY <2>2
  <2> QED BY <1>5, <2>1, <2>3
<1>8. \A i \in 1 .. n : rx'[i] = rx[i] /\ rx[i] \in 1 .. next - 1
  <2>1. \A i \in 1 .. n : rx'[i] = rx[i]
    BY <1>a, <1>3, <1>5, <1>6
  <2> QED BY <1>7, <2>1 DEF BufferInOrder
<1>9. \A i \in n + 1 .. n + k : rx'[i] = next - 1 + (i - n)
  <2> TAKE i \in n + 1 .. n + k
  <2>1. i - n \in 1 .. k
    OBVIOUS
  <2>2. rx'[i] = new[i - n]
    BY <1>a, <1>3, <1>5, <1>6, <2>1
  <2> QED BY <1>6, <2>1, <2>2
<1>10. \A i \in 1 .. n + k : i \in 1 .. n \/ i \in n + 1 .. n + k
  OBVIOUS
<1>11. (rx = <<>> <=> n = 0) /\ (rx' = <<>> <=> n + k = 0)
  BY <1>a, <1>3, <1>5, <1>6
<1>12. Upcoming' = IF n > 0 THEN Upcoming ELSE IF k > 0 THEN next ELSE next + m
  <2>1. CASE n > 0
    BY <1>8, <1>11, <2>1 DEF Upcoming
  <2>2. CASE n = 0 /\ k > 0
    <3>1. rx'[1] = next
      <4>1. 1 \in n + 1 .. n + k /\ next - 1 + (1 - n) = next
        BY <1>1, <2>2
      <4> QED BY <1>9, <4>1
    <3> QED BY <1>11, <2>2, <3>1 DEF Upcoming
  <2>3. CASE n = 0 /\ k = 0
    BY <1>5, <1>11, <2>3 DEF Upcoming
  <2> QED BY <2>1, <2>2, <2>3
<1>13. n = 0 => Upcoming = next
  BY <1>11 DEF Upcoming
<1>14. Upcoming \in Nat
  BY UpcomingType
<1>15. Upcoming' \in Nat /\ Upcoming <= Upcoming'
  BY <1>1, <1>2, <1>12, <1>13, <1>14
<1>16. Upcoming .. Upcoming' - 1 \subseteq lost'
  <2>1. CASE n > 0 \/ k > 0
    <3>1. Upcoming' = Upcoming
      BY <1>12, <1>13, <2>1
    <3>2. Upcoming .. Upcoming - 1 = {}
      BY <1>14
    <3> QED BY <3>1, <3>2
  <2>2. CASE n = 0 /\ k = 0
    <3>1. Upcoming = next /\ Upcoming' = next + m
      BY <1>12, <1>13, <2>2
    <3>2. PICK e \in Nat, f \in Nat : e = Upcoming /\ f = Upcoming' /\ e = next /\ f = next + m
      BY <1>14, <1>15, <3>1
    <3>3. e .. f - 1 \subseteq lost'
      BY <1>1, <1>5, <2>2, <3>2
    <3> QED BY <3>2, <3>3
  <2>3. (n > 0 \/ k > 0) \/ (n = 0 /\ k = 0)
    OBVIOUS
  <2> QED BY <2>1, <2>2, <2>3, Zenon
<1>17. BufferInOrder'
  <2>0. PICK u \in Nat : u = next' /\ u = next + m
    BY <1>1, <1>2, <1>5
  <2>1. \A i \in 1 .. n + k : rx'[i] \in 1 .. u - 1
    BY <1>1, <1>2, <1>4, <1>8, <1>9, <1>10, <2>0
  <2>2. \A i, j \in 1 .. n + k : i < j => rx'[i] < rx'[j]
    <3> SUFFICES ASSUME NEW i \in 1 .. n + k, NEW j \in 1 .. n + k, i < j PROVE rx'[i] < rx'[j]
      OBVIOUS
    <3>1. CASE j \in 1 .. n
      <4>1. i \in 1 .. n /\ rx[i] < rx[j]
        BY <1>7, <3>1 DEF BufferInOrder
      <4> QED BY <1>8, <3>1, <4>1
    <3>2. CASE i \in 1 .. n /\ j \in n + 1 .. n + k
      BY <1>1, <1>8, <1>9, <3>2
    <3>3. CASE i \in n + 1 .. n + k /\ j \in n + 1 .. n + k
      BY <1>1, <1>9, <3>3
    <3> QED BY <1>10, <3>1, <3>2, <3>3
  <2>3. \A c \in Upcoming' .. next' - 1 : c \in lost' \/ \E i \in 1 .. n + k : rx'[i] = c
    <3>0. PICK g \in Nat, h \in Nat : g = Upcoming' /\ g >= Upcoming /\ h = next' /\ h = next + m
      BY <1>1, <1>2, <1>5, <1>15
    <3> SUFFICES ASSUME NEW c \in g .. h - 1, c \notin lost'
                 PROVE  \E i \in 1 .. n + k : rx'[i] = c
      BY <3>0
    <3>a. c \in Int /\ g <= c /\ c < next + m
      BY <3>0
    <3>1. CASE c < next
      <4>1. c \in Upcoming .. next - 1
        BY <1>1, <1>14, <3>0, <3>a, <3>1
      <4>2. PICK i \in 1 .. n : rx[i] = c
        BY <1>5, <1>7, <4>1 DEF BufferInOrder
      <4> QED BY <1>8, <4>2
    <3>2. CASE c >= next
      <4>1. c < next + k
        BY <1>1, <1>2, <1>5, <3>a, <3>2
      <4> DEFINE i == n + (c - next) + 1
      <4>2. i \in n + 1 .. n + k /\ i \in 1 .. n + k /\ next - 1 + (i - n) = c
        BY <1>1, <3>a, <3>2, <4>1
      <4> HIDE DEF i
      <4>3. rx'[i] = c
        BY <1>9, <4>2
      <4> QED BY <4>2, <4>3, Zenon
    <3>3. c < next \/ c >= next
      BY <1>1, <3>a
    <3> QED BY <3>1, <3>2, <3>3, Zenon
  <2>4. \A i \in 1 .. n + k : rx'[i] \in 1 .. next' - 1
    BY <2>0, <2>1
  <2> QED BY <1>7, <2>2, <2>3, <2>4, Zenon DEF BufferInOrder
<1> QED BY <1>5, <1>15, <1>16, <1>17

--------------------------------------------------------------------------------
(* The line and the command.                                               *)

\* The loop takes no character; those it will not see any more are lost.
Advances ==
  /\ script' = script /\ lost \subseteq lost'
  /\ Upcoming' \in Nat /\ Upcoming <= Upcoming'
  /\ Upcoming .. Upcoming' - 1 \subseteq lost'

LEMMA ScriptKept ==
  ASSUME script' = script
  PROVE  /\ Newlines' = Newlines
         /\ \A k : Last(k)' = Last(k)
         /\ \A k, c : SentUpTo(k, c)' = SentUpTo(k, c)
BY DEF Newlines, Last, SentUpTo

LEMMA AsSentKept ==
  ASSUME script' = script, lost \subseteq lost', NEW e, AsSent(e)
  PROVE  AsSent(e)'
<1>1. PICK k \in DOMAIN script :
        e.newline = Last(k) /\ ((Last(k - 1) .. Last(k)) \cap lost = {} => e.does = script[k].does)
  BY DEF AsSent
<1>2. Last(k)' = Last(k) /\ Last(k - 1)' = Last(k - 1)
  BY ScriptKept
<1>3. (Last(k - 1) .. Last(k)) \cap lost' = {} => (Last(k - 1) .. Last(k)) \cap lost = {}
  OBVIOUS
<1> QED BY <1>1, <1>2, <1>3 DEF AsSent

LEMMA LineKept ==
  ASSUME TypeOK, BufferInOrder, Advances, readLine' = readLine, Reading, LineInStep
  PROVE  LineInStep'
<1>1. PICK e \in Nat, f \in Nat : e = Upcoming /\ f = Upcoming' /\ e <= f
  BY UpcomingType DEF Advances
<1>2. \A c \in e .. f - 1 : c \in lost'
  BY <1>1 DEF Advances
<1> SUFFICES ASSUME NEW k \in DOMAIN script, Last(k - 1) < f, f <= Last(k),
                    (Last(k - 1) .. f - 1) \cap lost' = {}
             PROVE  readLine = SentUpTo(k, f)
  BY <1>1, ScriptKept DEF LineInStep, Advances
<1>3. Last(k - 1) \in Nat /\ Last(k) \in Nat
  BY CommandInLine
<1>4. f - 1 \notin lost'
  <2>1. f - 1 \in Last(k - 1) .. f - 1
    BY <1>3
  <2> QED BY <2>1
<1>5. e = f
  <2>1. e < f => f - 1 \in e .. f - 1
    OBVIOUS
  <2>2. ~(e < f)
    BY <1>2, <1>4, <2>1
  <2>3. e <= f
    BY <1>1
  <2> QED BY <2>2, <2>3
<1>6. (Last(k - 1) .. e - 1) \cap lost = {}
  BY <1>5 DEF Advances
<1> QED BY <1>1, <1>5, <1>6 DEF LineInStep

LEMMA BeginKept ==
  ASSUME TypeOK, BufferInOrder, Advances, readLine' = readLine, Reading, LineBegins
  PROVE  LineBegins'
<1>1. PICK e \in Nat, f \in Nat : e = Upcoming /\ f = Upcoming' /\ e <= f
  BY UpcomingType DEF Advances
<1>2. \A c \in e .. f - 1 : c \in lost'
  BY <1>1 DEF Advances
<1> SUFFICES ASSUME Newlines \cap lost' = {}
             PROVE  \E j \in 0 .. Len(script) :
                      /\ Last(j) + Len(readLine) < f
                      /\ \A c \in Newlines : ~(Last(j) < c /\ c < f)
  BY <1>1, ScriptKept DEF LineBegins, Advances
<1>3. Newlines \cap lost = {}
  BY DEF Advances
<1>4. PICK j \in 0 .. Len(script) :
        Last(j) + Len(readLine) < e /\ \A c \in Newlines : ~(Last(j) < c /\ c < e)
  BY <1>1, <1>3 DEF LineBegins
<1>5. Last(j) \in Nat /\ Len(readLine) \in Nat
  BY ScriptFacts DEF TypeOK
<1>6. Last(j) + Len(readLine) < f
  BY <1>1, <1>4, <1>5
<1>7. ASSUME NEW c \in Newlines, Last(j) < c, c < f PROVE FALSE
  <2>1. c \in Nat
    BY ScriptFacts DEF Newlines
  <2>2. e <= c
    BY <1>4, <1>7, <2>1
  <2>3. c \in e .. f - 1
    BY <1>7, <2>1, <2>2
  <2> QED BY <1>2, <2>3
<1> QED BY <1>6, <1>7

LEMMA CommandKept ==
  ASSUME TypeOK, BufferInOrder, Advances, CommandInStep,
         pc \in {"command", "answered"}, command' = command
  PROVE  CommandInStep'
<1>1. PICK e \in Nat, f \in Nat : e = Upcoming /\ f = Upcoming' /\ e <= f
  BY UpcomingType DEF Advances
<1>2. \A c \in e .. f - 1 : c \in lost'
  BY <1>1 DEF Advances
<1>3. AsSent(command)'
  BY AsSentKept DEF CommandInStep, Advances
<1>4. PICK n \in Nat : n = command.newline
  BY DEF TypeOK
<1>5. n < e /\ \A c \in n + 1 .. e - 1 : c \in lost
  BY <1>1, <1>4 DEF CommandInStep
<1>6. n < f
  BY <1>1, <1>5
<1>7. ASSUME NEW c \in n + 1 .. f - 1 PROVE c \in lost'
  <2>1. c \in n + 1 .. e - 1 \/ c \in e .. f - 1
    OBVIOUS
  <2> QED BY <1>2, <1>5, <2>1 DEF Advances
<1> QED BY <1>1, <1>3, <1>4, <1>6, <1>7 DEF CommandInStep

LEMMA ExecutedKept ==
  ASSUME Advances \/ UNCHANGED <<script, lost>>, executed' = executed, ExecutedInStep
  PROVE  ExecutedInStep'
<1>1. script' = script /\ lost \subseteq lost'
  BY DEF Advances
<1>2. \A i \in DOMAIN executed : AsSent(executed[i])'
  BY <1>1, AsSentKept DEF ExecutedInStep
<1> QED BY <1>2 DEF ExecutedInStep

\* A character that does not end a command is appended, and the next one that
\* is not lost follows it.
LEMMA LineRead ==
  ASSUME TypeOK, BufferInOrder, LineInStep, ReadCharacter
  PROVE  LineInStep'
<1>1. PICK e \in Nat, f \in Nat : e = Upcoming /\ f = Upcoming' /\ e < f
  BY TakesFacts, UpcomingType DEF ReadCharacter
<1>2. e = Head(rx) /\ e \notin Newlines /\ e >= 1 /\ \A c \in e + 1 .. f - 1 : c \in lost
  <2>1. e = Head(rx) /\ e \notin Newlines /\ \A c \in e + 1 .. f - 1 : c \in lost
    BY <1>1, TakesFacts DEF ReadCharacter
  <2>2. e >= 1
    BY <1>1, UpcomingType
  <2> QED BY <2>1, <2>2
<1>3. script' = script /\ lost' = lost /\ readLine' = Append(readLine, e) /\ Reading
  BY <1>2 DEF ReadCharacter, TakesFrom, Reading
<1> SUFFICES ASSUME NEW k \in DOMAIN script, Last(k - 1) < f, f <= Last(k),
                    (Last(k - 1) .. f - 1) \cap lost = {}
             PROVE  readLine' = SentUpTo(k, f)
  BY <1>1, <1>3, ScriptKept DEF LineInStep
<1>4. PICK a \in Nat, b \in Nat : a = Last(k - 1) /\ b = Last(k) /\ a < b /\ a < f /\ f <= b
  BY CommandInLine
<1>5. \A c \in a .. f - 1 : c \notin lost
  BY <1>4
<1>6. f = e + 1
  <2>1. f - 1 \in a .. f - 1 /\ (e + 1 < f => f - 1 \in e + 1 .. f - 1)
    BY <1>4
  <2>2. ~(e + 1 < f)
    BY <1>2, <1>5, <2>1
  <2>3. e < f
    BY <1>1
  <2> QED BY <2>2, <2>3
<1>7. a < e
  <2>1. a /= e
    <3>1. CASE k = 1
      <4>1. a = 0
        BY <1>4, <3>1 DEF Last
      <4> QED BY <1>2, <4>1
    <3>2. CASE k /= 1
      <4>1. k - 1 \in DOMAIN script
        BY <3>2, ScriptFacts
      <4>2. a \in Newlines
        BY <1>4, <4>1, CommandInLine
      <4> QED BY <1>2, <4>2
    <3> QED BY <3>1, <3>2
  <2>2. a < e + 1
    BY <1>4, <1>6
  <2> QED BY <2>1, <2>2
<1>8. (a .. e - 1) \cap lost = {}
  BY <1>5, <1>6
<1>9. e <= b
  BY <1>4, <1>6
<1>10. readLine = SentUpTo(k, e)
  BY <1>1, <1>3, <1>4, <1>7, <1>8, <1>9 DEF LineInStep
<1>11. readLine = [i \in 1 .. e - 1 - a |-> a + i]
  BY <1>4, <1>10 DEF SentUpTo
<1>12. Append(readLine, e) = [i \in 1 .. e - a |-> a + i]
  <2> DEFINE s == readLine
             t == [i \in 1 .. e - a |-> a + i]
  <2>1. e - 1 - a \in Nat /\ e - a \in Nat /\ e - a = e - 1 - a + 1
    BY <1>7
  <2>2. s \in Seq(Nat)
    BY DEF TypeOK
  <2>3. Len(s) = e - 1 - a /\ \A i \in 1 .. e - 1 - a : s[i] = a + i
    BY <1>11, <2>1
  <2>4. t \in Seq(Nat) /\ Len(t) = e - a /\ \A i \in 1 .. e - a : t[i] = a + i
    BY <2>1
  <2> HIDE DEF s, t
  <2>5. Append(s, e) \in Seq(Nat) /\ Len(Append(s, e)) = e - a
    BY <2>1, <2>2, <2>3
  <2>6. \A i \in 1 .. e - a : Append(s, e)[i] = t[i]
    <3> TAKE i \in 1 .. e - a
    <3>1. CASE i = e - a
      BY <2>1, <2>2, <2>3, <2>4, <3>1
    <3>2. CASE i /= e - a
      <4>1. i \in 1 .. e - 1 - a
        BY <2>1, <3>2
      <4> QED BY <2>2, <2>3, <2>4, <4>1
    <3> QED BY <3>1, <3>2
  <2>7. Append(s, e) = t
    <3>1. Append(s, e) \in Seq(Nat) /\ t \in Seq(Nat) /\ Len(Append(s, e)) = Len(t)
          /\ \A i \in 1 .. Len(t) : Append(s, e)[i] = t[i]
      BY <2>4, <2>5, <2>6
    <3> QED BY <3>1, SeqEqual
  <2> QED BY <2>7 DEF s, t
<1>13. SentUpTo(k, f) = [i \in 1 .. e - a |-> a + i]
  <2>1. f - 1 - a = e - a
    BY <1>6
  <2> QED BY <1>4, <2>1 DEF SentUpTo
<1> QED BY <1>3, <1>12, <1>13

LEMMA BeginRead ==
  ASSUME TypeOK, BufferInOrder, LineBegins, ReadCharacter
  PROVE  LineBegins'
<1>1. PICK e \in Nat, f \in Nat : e = Upcoming /\ f = Upcoming' /\ e < f
  BY TakesFacts, UpcomingType DEF ReadCharacter
<1>2. e \notin Newlines /\ \A c \in e + 1 .. f - 1 : c \in lost
  BY <1>1, TakesFacts DEF ReadCharacter
<1>3. script' = script /\ lost' = lost /\ Len(readLine') = Len(readLine) + 1 /\ Reading
      /\ Len(readLine) \in Nat
  BY DEF ReadCharacter, TakesFrom, Reading, TypeOK
<1> SUFFICES ASSUME Newlines \cap lost = {}
             PROVE  \E j \in 0 .. Len(script) :
                      /\ Last(j) + Len(readLine') < f
                      /\ \A c \in Newlines : ~(Last(j) < c /\ c < f)
  BY <1>1, <1>3, ScriptKept DEF LineBegins
<1>4. PICK j \in 0 .. Len(script) :
        Last(j) + Len(readLine) < e /\ \A c \in Newlines : ~(Last(j) < c /\ c < e)
  BY <1>1, <1>3 DEF LineBegins
<1>5. Last(j) \in Nat
  BY ScriptFacts
<1>6. Last(j) + Len(readLine') < f
  BY <1>1, <1>3, <1>4, <1>5
<1>7. ASSUME NEW c \in Newlines, Last(j) < c, c < f PROVE FALSE
  <2>1. c \in Nat
    BY ScriptFacts DEF Newlines
  <2>2. e < c
    BY <1>2, <1>4, <1>7, <2>1
  <2>3. c \in e + 1 .. f - 1
    BY <1>7, <2>1, <2>2
  <2> QED BY <1>2, <2>3
<1> QED BY <1>6, <1>7

\* What is read up to a newline is what was sent, unless something of it is lost.
LEMMA CommandRead ==
  ASSUME TypeOK, BufferInOrder, LineInStep, ReadNewline
  PROVE  CommandInStep'
<1>1. PICK e \in Nat, f \in Nat : e = Upcoming /\ f = Upcoming' /\ e < f
  BY TakesFacts, UpcomingType DEF ReadNewline
<1>2. e = Head(rx) /\ e \in Newlines /\ \A c \in e + 1 .. f - 1 : c \in lost
  BY <1>1, TakesFacts DEF ReadNewline
<1>3. script' = script /\ lost' = lost /\ Reading
  BY DEF ReadNewline, TakesFrom, Reading
<1>4. PICK d \in Parsed(readLine, e) : command' = [newline |-> e, does |-> d]
  BY <1>2 DEF ReadNewline
<1>5. PICK k \in DOMAIN script : e = Last(k)
  BY <1>2, ScriptFacts
<1>6. PICK a \in Nat : a = Last(k - 1) /\ a < e
  BY <1>5, CommandInLine
<1>7. (a .. e) \cap lost = {} => d = script[k].does
  <2> SUFFICES ASSUME (a .. e) \cap lost = {} PROVE d = script[k].does
    OBVIOUS
  <2>1. (a .. e - 1) \cap lost = {}
    BY <1>6
  <2>2. readLine = SentUpTo(k, e)
    BY <1>1, <1>3, <1>5, <1>6, <2>1 DEF LineInStep
  <2>3. CommandOf(e) = k
    BY <1>5, CommandOfNewline
  <2>4. readLine = Text(k)
    BY <1>5, <2>2 DEF SentUpTo, Text
  <2>5. Parsed(readLine, e) = {script[k].does}
    BY <2>3, <2>4 DEF Parsed
  <2> QED BY <2>5
<1>8. AsSent(command)'
  <2>1. Last(k)' = e /\ Last(k - 1)' = a
    BY <1>3, <1>5, <1>6, ScriptKept
  <2> QED BY <1>3, <1>4, <1>5, <1>7, <2>1 DEF AsSent
<1> QED BY <1>1, <1>2, <1>3, <1>4, <1>8 DEF CommandInStep

\* When a command has been executed, the line is empty where the next one begins.
LEMMA LineEnded ==
  ASSUME TypeOK, BufferInOrder, CommandInStep, EndCommand
  PROVE  LineInStep' /\ LineBegins'
<1>1. PICK e \in Nat : e = Upcoming /\ e = Upcoming'
  BY UpcomingType DEF EndCommand, Executes, serialVars, Upcoming
<1>2. PICK k \in DOMAIN script : command.newline = Last(k)
  BY DEF CommandInStep, AsSent, EndCommand, AtEnd
<1>3. PICK n \in Nat : n = Last(k)
  BY CommandInLine
<1>4. n < e /\ \A c \in n + 1 .. e - 1 : c \in lost
  BY <1>1, <1>2, <1>3 DEF CommandInStep, EndCommand, AtEnd
<1>5. script' = script /\ lost' = lost /\ readLine' = <<>>
  BY DEF EndCommand, Executes, serialVars
<1>6. ASSUME NEW m \in DOMAIN script, Last(m - 1) < e, e <= Last(m),
             (Last(m - 1) .. e - 1) \cap lost = {}
      PROVE  SentUpTo(m, e) = <<>>
  <2>1. PICK a \in Nat, b \in Nat : a = Last(m - 1) /\ b = Last(m) /\ a < e /\ e <= b
    BY <1>6, CommandInLine
  <2>2. \A c \in a .. e - 1 : c \notin lost
    BY <1>6, <2>1
  <2>3. n = e - 1
    <3>1. e - 1 \in a .. e - 1 /\ (n < e - 1 => e - 1 \in n + 1 .. e - 1)
      BY <2>1
    <3>2. ~(n < e - 1)
      BY <1>4, <2>2, <3>1
    <3> QED BY <1>4, <3>2
  <2>4. m - 1 = k
    <3>1. n < b /\ a <= n
      BY <2>1, <2>3
    <3>2. k < m
      <4>1. ~(m < k) /\ m /= k
        <5>1. k \in 0 .. Len(script) /\ m \in 0 .. Len(script)
          BY CommandInLine
        <5>2. m < k => Last(m) < Last(k)
          BY <5>1, ScriptFacts
        <5>3. ~(Last(m) < Last(k)) /\ Last(m) /= Last(k)
          BY <1>3, <2>1, <3>1
        <5> QED BY <5>2, <5>3
      <4> QED BY <4>1, ScriptFacts
    <3>3. ~(k < m - 1)
      <4>1. k \in 0 .. Len(script) /\ m - 1 \in 0 .. Len(script)
        BY CommandInLine
      <4>2. k < m - 1 => Last(k) < Last(m - 1)
        BY <4>1, ScriptFacts
      <4> QED BY <1>3, <2>1, <3>1, <4>2
    <3>4. k \in Int /\ m \in Int
      BY ScriptFacts
    <3> QED BY <3>2, <3>3, <3>4
  <2>5. e - 1 - a = 0
    <3>1. a = n
      BY <1>3, <2>1, <2>4
    <3> QED BY <2>3, <3>1
  <2>6. SentUpTo(m, e) = [i \in 1 .. 0 |-> a + i]
    BY <2>1, <2>5 DEF SentUpTo
  <2> QED BY <2>6
<1>7. LineInStep'
  BY <1>1, <1>5, <1>6, ScriptKept DEF LineInStep
<1>8. Last(k) + Len(<<>>) < e
  BY <1>3, <1>4
<1>9. ASSUME Newlines \cap lost = {}, NEW c \in Newlines, Last(k) < c, c < e PROVE FALSE
  <2>1. c \in Nat
    BY ScriptFacts DEF Newlines
  <2>2. c \in n + 1 .. e - 1
    BY <1>3, <1>9, <2>1
  <2> QED BY <1>4, <1>9, <2>2
<1>10. k \in 0 .. Len(script)
  BY CommandInLine
<1>11. LineBegins'
  BY <1>1, <1>5, <1>8, <1>9, <1>10, ScriptKept DEF LineBegins
<1> QED BY <1>7, <1>11

\* The steps that take no character from the buffer.
LEMMA StepAdvances ==
  ASSUME TypeOK, BufferInOrder, [Next]_vars,
         ~ReadCharacter, ~ReadBeyond, ~ReadNewline
  PROVE  Advances /\ BufferInOrder'
<1> USE DEF serialVars, counterVars, boundVars
<1>1. ToCome \in Int
  BY SerialType
<1>2. CASE UNCHANGED serialVars
  <2>1. BufferInOrder' /\ Upcoming' = Upcoming
    BY <1>2, SerialUnchanged
  <2>2. PICK e \in Nat : e = Upcoming
    BY UpcomingType
  <2>3. e .. e - 1 \subseteq lost'
    OBVIOUS
  <2> QED BY <1>2, <2>1, <2>2, <2>3 DEF Advances
<1>3. CASE HostSends
  <2>1. Receive(1, 1) /\ 1 \in 0 .. ToCome /\ 1 \in Nat
    BY <1>1, <1>3 DEF HostSends
  <2> QED BY <2>1, ReceiveFacts DEF Advances
<1>4. ASSUME NEW m \in 0 .. Least(MaxBurst, ToCome), Callback(m) PROVE Advances /\ BufferInOrder'
  <2>1. MaxBurst \in Int
    BY Constants
  <2>2. Least(MaxBurst, ToCome) <= ToCome /\ Least(MaxBurst, ToCome) \in Int
    BY <1>1, <2>1, LeastType
  <2>3. m \in 0 .. ToCome
    BY <1>1, <2>2
  <2>4. Receive(m, UartFifo) /\ UartFifo \in Nat
    BY <1>4, Constants DEF Callback
  <2> QED BY <2>3, <2>4, ReceiveFacts DEF Advances
<1>5. ASSUME LoopStep \/ SensorsDue \/ UNCHANGED vars PROVE UNCHANGED serialVars
  BY <1>5 DEF LoopStep, Answer, EndCommand, Executes, SensorFails, SensorBegins, PrintNumber,
              PrintRest, LoadByte, StoreByte, SensorsDue, vars
<1> QED BY <1>2, <1>3, <1>4, <1>5 DEF Next

\* The steps that neither change the line nor end or begin a command.
LEMMA LineLeftAlone ==
  ASSUME TypeOK, SensorPlace, [Next]_vars,
         ~ReadCharacter, ~ReadBeyond, ~ReadNewline, ~EndCommand
  PROVE  /\ readLine' = readLine /\ executed' = executed
         /\ Reading' => Reading
         /\ pc' \in {"command", "answered"} => pc \in {"command", "answered"} /\ command' = command
<1> USE DEF Reading
<1>1. CASE UNCHANGED vars
  BY <1>1 DEF vars
<1>2. CASE HostSends \/ \E m \in 0 .. Least(MaxBurst, ToCome) : Callback(m)
  BY <1>2 DEF HostSends, Callback
<1>3. CASE Answer
  BY <1>3 DEF Answer
<1>4. CASE SensorsDue \/ SensorFails \/ SensorBegins
  BY <1>4 DEF SensorsDue, SensorFails, SensorBegins
<1>5. CASE PrintNumber
  BY <1>5, GoesOnFacts DEF PrintNumber, AmongSensors
<1>6. CASE PrintRest
  BY <1>6, GoesOnFacts DEF PrintRest, AmongSensors
<1>7. ASSUME NEW b \in {"lo", "hi"}, LoadByte(b) \/ StoreByte(b)
      PROVE  /\ readLine' = readLine /\ executed' = executed
             /\ Reading' => Reading
             /\ pc' \in {"command", "answered"} => pc \in {"command", "answered"}
                                                    /\ command' = command
  <2>1. AmongSensors /\ (pc' = pc \/ GoesOn(pc)) /\ UNCHANGED <<readLine, executed, command>>
    BY <1>7 DEF LoadByte, StoreByte, AmongSensors
  <2> QED BY <2>1, GoesOnFacts DEF AmongSensors
<1> QED BY <1>1, <1>2, <1>3, <1>4, <1>5, <1>6, <1>7 DEF Next, LoopStep

InStep == LineInStep /\ CommandInStep /\ ExecutedInStep

LEMMA InStepNext ==
  ASSUME TypeOK, SensorPlace, BufferInOrder, InStep, [Next]_vars
  PROVE  BufferInOrder' /\ InStep' /\ (LineBegins => LineBegins')
<1> USE DEF serialVars, counterVars, boundVars, InStep
<1>1. CASE ReadCharacter
  <2>1. CommandInStep'
    BY <1>1 DEF ReadCharacter, CommandInStep
  <2>2. ExecutedInStep'
    BY <1>1, ExecutedKept DEF ReadCharacter, TakesFrom
  <2> QED BY <1>1, <2>1, <2>2, TakesFacts, LineRead, BeginRead DEF ReadCharacter
<1>2. CASE ReadBeyond
  <2>1. CommandInStep' /\ LineInStep' /\ LineBegins'
    BY <1>2 DEF ReadBeyond, CommandInStep, LineInStep, LineBegins, Reading
  <2>2. ExecutedInStep'
    BY <1>2, ExecutedKept DEF ReadBeyond, TakesFrom
  <2> QED BY <1>2, <2>1, <2>2, TakesFacts DEF ReadBeyond
<1>3. CASE ReadNewline
  <2>1. LineInStep' /\ LineBegins'
    BY <1>3 DEF ReadNewline, LineInStep, LineBegins, Reading
  <2>2. ExecutedInStep'
    BY <1>3, ExecutedKept DEF ReadNewline, TakesFrom
  <2> QED BY <1>3, <2>1, <2>2, TakesFacts, CommandRead DEF ReadNewline
<1>4. CASE EndCommand
  <2>1. Advances /\ BufferInOrder'
    BY <1>4, StepAdvances DEF EndCommand, AtEnd, ReadCharacter, ReadBeyond, ReadNewline
  <2>2. CommandInStep'
    BY <1>4 DEF EndCommand, Executes, CommandInStep
  <2>3. ExecutedInStep'
    <3>1. executed' = Append(executed, command) /\ script' = script /\ lost' = lost
      BY <1>4 DEF EndCommand, Executes
    <3>2. AsSent(command)
      BY <1>4 DEF EndCommand, AtEnd, CommandInStep
    <3>3. executed \in Seq([newline : Nat, does : Outcomes])
          /\ command \in [newline : Nat, does : Outcomes]
      BY DEF TypeOK
    <3> SUFFICES ASSUME NEW i \in DOMAIN executed' PROVE AsSent(executed[i])'
      BY DEF ExecutedInStep
    <3>4. executed'[i] = command \/ (i \in DOMAIN executed /\ executed'[i] = executed[i])
      <4> DEFINE C == [newline : Nat, does : Outcomes]
                 x == command
      <4>1. executed \in Seq(C) /\ x \in C /\ executed' = Append(executed, x)
        BY <3>1, <3>3
      <4> HIDE DEF C, x
      <4>2. executed'[i] = x \/ (i \in DOMAIN executed /\ executed'[i] = executed[i])
        BY <4>1
      <4> QED BY <4>2 DEF x
    <3>5. PICK e : e = executed'[i]
      OBVIOUS
    <3>6. AsSent(e)
      BY <3>2, <3>4, <3>5 DEF ExecutedInStep
    <3>7. AsSent(e)'
      BY <3>1, <3>6, AsSentKept
    <3> QED BY <3>5, <3>7
  <2> QED BY <1>4, <2>1, <2>2, <2>3, LineEnded
<1>5. CASE ~ReadCharacter /\ ~ReadBeyond /\ ~ReadNewline /\ ~EndCommand
  <2>1. Advances /\ BufferInOrder'
    BY <1>5, StepAdvances
  <2>2. readLine' = readLine /\ executed' = executed /\ (Reading' => Reading)
        /\ (pc' \in {"command", "answered"} => pc \in {"command", "answered"} /\ command' = command)
    BY <1>5, LineLeftAlone
  <2>3. LineInStep' /\ (LineBegins => LineBegins')
    <3>1. CASE Reading
      BY <2>1, <2>2, <3>1, LineKept, BeginKept
    <3>2. CASE ~Reading
      BY <2>2, <3>2 DEF LineInStep, LineBegins
    <3> QED BY <3>1, <3>2
  <2>4. CommandInStep'
    <3>1. CASE pc' \in {"command", "answered"}
      BY <2>1, <2>2, <3>1, CommandKept
    <3>2. CASE pc' \notin {"command", "answered"}
      BY <3>2 DEF CommandInStep
    <3> QED BY <3>1, <3>2
  <2> QED BY <2>1, <2>2, <2>3, <2>4, ExecutedKept
<1> QED BY <1>1, <1>2, <1>3, <1>4, <1>5

Inv == TypeOK /\ SensorPlace /\ BufferInOrder /\ InStep

LEMMA InvInit == Init => Inv /\ LineBegins
<1> SUFFICES ASSUME Init PROVE Inv /\ LineBegins
  OBVIOUS
<1>1. TypeOK /\ SensorPlace
  BY TypeInit
<1>2. Upcoming = 1 /\ rx = <<>> /\ next = 1 /\ readLine = <<>> /\ executed = <<>> /\ pc = "loop"
  BY DEF Init, Upcoming
<1>3. BufferInOrder
  BY <1>2 DEF BufferInOrder
<1>4. LineInStep
  <2> SUFFICES ASSUME NEW k \in DOMAIN script, Last(k - 1) < 1 PROVE <<>> = SentUpTo(k, 1)
    BY <1>2 DEF LineInStep
  <2>1. 1 - 1 - Last(k - 1) = 0
    BY <1>1, CommandInLine
  <2> QED BY <2>1 DEF SentUpTo
<1>5. CommandInStep /\ ExecutedInStep
  BY <1>2 DEF CommandInStep, ExecutedInStep
<1>6. LineBegins
  <2>1. Last(0) = 0 /\ Len(readLine) = 0 /\ 0 \in 0 .. Len(script)
    BY <1>1, <1>2, ScriptFacts DEF Last
  <2>2. \A c \in Newlines : c > 0 /\ c \in Nat
    BY <1>1, ScriptFacts DEF Newlines
  <2>3. Last(0) + Len(readLine) < Upcoming /\ \A c \in Newlines : ~(Last(0) < c /\ c < Upcoming)
    BY <1>2, <2>1, <2>2
  <2> QED BY <2>1, <2>3 DEF LineBegins
<1> QED BY <1>1, <1>3, <1>4, <1>5, <1>6 DEF Inv, InStep

LEMMA InvNext == Inv /\ [Next]_vars => Inv'
BY TypeNext, InStepNext DEF Inv

\* Every variable keeps its type, in particular readLine its size and the buffer
\* its own, and the counter its two bytes.
THEOREM TypeCorrect == Spec => []TypeOK
<1>1. Inv => TypeOK
  BY DEF Inv
<1> QED BY <1>1, InvInit, InvNext, PTL DEF Spec

\* A command of which no character, and not the newline before it, is lost does
\* what it was sent for, whatever was lost before and whatever the callbacks print.
THEOREM CommandsAsSent == Spec => []ExecutedAsSent
<1>1. Inv => ExecutedAsSent
  <2> SUFFICES ASSUME Inv, NEW i \in DOMAIN executed,
                      LET k == CommandOf(executed[i].newline) IN Last(k - 1) .. Last(k) \cap lost = {}
               PROVE  executed[i].does = script[CommandOf(executed[i].newline)].does
    BY DEF ExecutedAsSent
  <2>1. PICK k \in DOMAIN script :
          /\ executed[i].newline = Last(k)
          /\ (Last(k - 1) .. Last(k)) \cap lost = {} => executed[i].does = script[k].does
    BY DEF Inv, InStep, ExecutedInStep, AsSent
  <2>2. CommandOf(executed[i].newline) = k
    BY <2>1, CommandOfNewline DEF Inv
  <2> QED BY <2>1, <2>2
<1> QED BY <1>1, InvInit, InvNext, PTL DEF Spec

LEMMA OverrunOnly ==
  ASSUME TypeOK, SensorPlace, [Next]_vars, ~ReadBeyond, pc' = "overrun"
  PROVE  pc = "overrun"
<1>1. CASE ReadCharacter \/ ReadNewline \/ EndCommand
  BY <1>1 DEF ReadCharacter, ReadNewline, EndCommand, Executes
<1>2. CASE UNCHANGED vars
  BY <1>2 DEF vars
<1>3. CASE HostSends \/ \E m \in 0 .. Least(MaxBurst, ToCome) : Callback(m)
  BY <1>3 DEF HostSends, Callback
<1>4. CASE Answer \/ SensorsDue \/ SensorFails \/ SensorBegins
  BY <1>4 DEF Answer, SensorsDue, SensorFails, SensorBegins
<1>5. CASE PrintNumber \/ PrintRest \/ \E b \in {"lo", "hi"} : LoadByte(b) \/ StoreByte(b)
  <2>1. AmongSensors /\ (pc' = pc \/ GoesOn(pc))
    BY <1>5 DEF PrintNumber, PrintRest, LoadByte, StoreByte, AmongSensors
  <2> QED BY <2>1, GoesOnFacts
<1> QED BY <1>1, <1>2, <1>3, <1>4, <1>5 DEF Next, LoopStep

LEMMA FitsNext ==
  ASSUME CommandsFit, Inv, LineBegins, LineFits, [Next]_vars
  PROVE  LineFits'
<1>1. CASE ReadBeyond
  <2> SUFFICES ASSUME Newlines \cap lost = {} PROVE FALSE
    BY <1>1, ScriptKept DEF ReadBeyond, TakesFrom, LineFits
  <2>1. PICK e \in Nat : e = Upcoming /\ e = Head(rx) /\ e \notin Newlines /\ e < next
    BY <1>1, TakesFacts, UpcomingType DEF Inv, ReadBeyond
  <2>2. Len(readLine) + 1 >= LineSize /\ Len(readLine) \in Nat /\ LineSize \in Nat
    BY <1>1, Constants DEF ReadBeyond, Inv, TypeOK
  <2>3. PICK j \in 0 .. Len(script) :
          Last(j) + Len(readLine) < e /\ \A c \in Newlines : ~(Last(j) < c /\ c < e)
    BY <1>1, <2>1 DEF LineBegins, Reading, ReadBeyond
  <2>4. Len(script) \in Nat /\ Last(j) \in Nat /\ Last(Len(script)) \in Nat
    BY ScriptFacts DEF Inv
  <2>5. j < Len(script)
    <3>1. e <= Last(Len(script))
      <4>1. next \in 1 .. Last(Len(script)) + 1
        BY DEF Inv, TypeOK
      <4> QED BY <2>1, <2>4, <4>1
    <3>2. Last(j) < e
      BY <2>2, <2>3, <2>4
    <3>3. j /= Len(script)
      BY <2>4, <3>1, <3>2
    <3> QED BY <2>4, <3>3
  <2>6. PICK k \in DOMAIN script : k = j + 1 /\ k - 1 = j
    BY <2>4, <2>5, ScriptFacts DEF Inv
  <2>7. Last(k) \in Nat /\ Last(j) < Last(k) /\ Last(k) \in Newlines
    BY <2>6, CommandInLine DEF Inv
  <2>8. e < Last(k)
    BY <2>1, <2>3, <2>7
  <2>9. Last(k) - Last(j) <= LineSize
    <3>1. script \in Scripts
      BY DEF Inv, TypeOK
    <3>2. script[k].last - (IF k = 1 THEN 0 ELSE script[k - 1].last) <= LineSize
      BY <3>1 DEF CommandsFit
    <3>3. k /= 0 /\ (k = 1 <=> j = 0)
      BY <2>6
    <3>4. Last(k) = script[k].last /\ Last(j) = IF k = 1 THEN 0 ELSE script[k - 1].last
      BY <2>6, <3>3 DEF Last
    <3> QED BY <3>2, <3>4
  <2> QED BY <2>2, <2>3, <2>4, <2>7, <2>8, <2>9
<1>2. CASE ~ReadBeyond
  <2>1. pc' = "overrun" => pc = "overrun"
    BY <1>2, OverrunOnly DEF Inv
  <2>2. script' = script /\ lost \subseteq lost'
    BY <1>2, StepAdvances DEF Inv, Advances, ReadCharacter, ReadNewline, TakesFrom
  <2>3. Newlines' = Newlines
    BY <2>2, ScriptKept
  <2> QED BY <2>1, <2>2, <2>3 DEF LineFits
<1> QED BY <1>1, <1>2

\* If each command of the daemon fits into readLine, it is written beyond its end
\* only after a newline was lost.
THEOREM LineFitsCommands == CommandsFit => (Spec => []LineFits)
<1> SUFFICES ASSUME CommandsFit PROVE Spec => []LineFits
  OBVIOUS
<1>1. Init => LineFits
  BY DEF Init, LineFits
<1>2. Inv /\ LineBegins /\ LineFits /\ [Next]_vars => (Inv /\ LineBegins /\ LineFits)'
  BY InvNext, InStepNext, FitsNext DEF Inv
<1> QED BY <1>1, <1>2, InvInit, PTL DEF Spec

--------------------------------------------------------------------------------
(* The commands as a relay.                                                *)

\* How many newlines are among the first characters, and which.
LEMMA CountBelow ==
  ASSUME TypeOK, NEW n \in Nat
  PROVE  LET K == Cardinality({c \in Newlines : c < n})
         IN  K \in 0 .. Len(script) /\ \A k \in DOMAIN script : Last(k) < n <=> k <= K
<1> DEFINE C == {c \in Newlines : c < n}
           D == {k \in DOMAIN script : Last(k) < n}
           f == [k \in D |-> Last(k)]
<1>1. PICK N \in Nat : N = Len(script) /\ DOMAIN script = 1 .. N
  BY ScriptFacts
<1>2. D \subseteq 1 .. N /\ \A k \in D : k \in Nat
  BY <1>1
<1>3. IsFiniteSet(D)
  <2>1. IsFiniteSet(1 .. N) /\ D \in SUBSET (1 .. N)
    BY <1>2, FS_Interval
  <2> HIDE DEF D
  <2> QED BY <2>1, FS_Subset
<1>4. f \in Bijection(D, C)
  <2>1. f \in [D -> C]
    BY ScriptFacts
  <2>2. ASSUME NEW a \in D, NEW b \in D, f[a] = f[b] PROVE a = b
    <3>1. CommandOf(Last(a)) = a /\ CommandOf(Last(b)) = b
      BY CommandOfNewline
    <3> QED BY <2>2, <3>1
  <2>3. ASSUME NEW c \in C PROVE \E k \in D : f[k] = c
    BY ScriptFacts
  <2> HIDE DEF C, D, f
  <2> QED BY <2>1, <2>2, <2>3, Fun_IsBij
<1>5. PICK K \in Nat : K = Cardinality(C) /\ K = Cardinality(D)
  <2> HIDE DEF C, D, f
  <2> QED BY <1>3, <1>4, FS_Bijection, FS_CardinalityType DEF ExistsBijection
<1>6. ASSUME NEW k \in D PROVE k <= K
  <2>1. k \in Nat /\ k \in 1 .. N
    BY <1>2
  <2>2. \A j \in 1 .. k : j \in D
    <3> TAKE j \in 1 .. k
    <3>1. j \in DOMAIN script /\ j \in 0 .. Len(script) /\ k \in 0 .. Len(script)
      BY <1>1, <2>1
    <3>2. Last(j) \in Nat /\ Last(k) \in Nat /\ (j < k => Last(j) < Last(k)) /\ Last(k) < n
      BY <3>1, ScriptFacts
    <3>3. j = k \/ j < k
      BY <2>1
    <3> QED BY <3>1, <3>2, <3>3
  <2> HIDE DEF D
  <2>3. 1 .. k \in SUBSET D
    BY <2>2
  <2>4. Cardinality(1 .. k) <= Cardinality(D)
    BY <1>3, <2>3, FS_Subset
  <2>5. Cardinality(1 .. k) = k
    BY <2>1, FS_Interval
  <2> QED BY <1>5, <2>4, <2>5
<1>7. D = 1 .. K
  <2>1. D \in SUBSET (1 .. K)
    <3>1. \A k \in D : k \in 1 .. K
      BY <1>2, <1>6
    <3> QED BY <3>1
  <2>2. IsFiniteSet(1 .. K) /\ Cardinality(1 .. K) = K
    BY FS_Interval
  <2> HIDE DEF D
  <2> QED BY <1>5, <2>1, <2>2, FS_Subset
<1>8. \A k \in DOMAIN script : Last(k) < n <=> k <= K
  BY <1>1, <1>7
<1>9. K <= N
  <2>1. K = 0 \/ K \in 1 .. K
    OBVIOUS
  <2> QED BY <1>2, <1>7, <2>1
<1> QED BY <1>1, <1>5, <1>8, <1>9

\* What has been executed was sent before what is in hand or comes next.
ExecutedBefore ==
  \A i \in DOMAIN executed :
    executed[i].newline < IF pc \in {"command", "answered"} THEN command.newline ELSE Upcoming

LEMMA ExecutedBeforeNext ==
  ASSUME Inv, ExecutedBefore, [Next]_vars
  PROVE  ExecutedBefore'
<1> USE DEF Inv, serialVars, counterVars, boundVars
<1>1. PICK e \in Nat : e = Upcoming
  BY UpcomingType
<1>2. \A i \in DOMAIN executed : executed[i].newline \in Nat
  <2> DEFINE C == [newline : Nat, does : Outcomes]
  <2>1. executed \in Seq(C) /\ \A x \in C : x.newline \in Nat
    BY DEF TypeOK
  <2> HIDE DEF C
  <2> QED BY <2>1
<1>3. command.newline \in Nat
  BY DEF TypeOK
<1>4. pc \in {"command", "answered"} => command.newline < e
  BY <1>1 DEF InStep, CommandInStep
<1>5. \A i \in DOMAIN executed : executed[i].newline < e
  BY <1>1, <1>2, <1>3, <1>4 DEF ExecutedBefore
<1>6. CASE ReadCharacter \/ ReadBeyond \/ ReadNewline
  <2>1. PICK f \in Nat : f = Upcoming' /\ e < f /\ e = Head(rx)
    BY <1>1, <1>6, TakesFacts DEF ReadCharacter, ReadBeyond, ReadNewline
  <2>2. \A i \in DOMAIN executed : executed[i].newline < f
    BY <1>2, <1>5, <2>1
  <2>3. executed' = executed
    BY <1>6 DEF ReadCharacter, ReadBeyond, ReadNewline
  <2>4. CASE ReadNewline
    <3>1. pc' = "command" /\ command'.newline = e
      BY <2>1, <2>4 DEF ReadNewline
    <3> QED BY <1>5, <2>3, <3>1 DEF ExecutedBefore
  <2>5. CASE ReadCharacter \/ ReadBeyond
    <3>1. pc' \notin {"command", "answered"}
      BY <2>5 DEF ReadCharacter, ReadBeyond
    <3> QED BY <2>1, <2>2, <2>3, <3>1 DEF ExecutedBefore
  <2> QED BY <1>6, <2>4, <2>5
<1>7. CASE EndCommand
  <2>1. pc' = "loop" /\ executed' = Append(executed, command) /\ Upcoming' = Upcoming
    BY <1>7 DEF EndCommand, Executes, Upcoming
  <2>2. command.newline < e
    BY <1>4, <1>7 DEF EndCommand, AtEnd
  <2>3. \A i \in DOMAIN executed' : executed'[i].newline < e
    <3> TAKE i \in DOMAIN executed'
    <3> DEFINE C == [newline : Nat, does : Outcomes]
               x == command
    <3>1. executed \in Seq(C) /\ x \in C /\ executed' = Append(executed, x)
      BY <2>1 DEF TypeOK
    <3> HIDE DEF C, x
    <3>2. executed'[i] = x \/ (i \in DOMAIN executed /\ executed'[i] = executed[i])
      BY <3>1
    <3> QED BY <1>5, <2>2, <3>2 DEF x
  <2> QED BY <1>1, <2>1, <2>3 DEF ExecutedBefore
<1>8. CASE ~ReadCharacter /\ ~ReadBeyond /\ ~ReadNewline /\ ~EndCommand
  <2>1. PICK f \in Nat : f = Upcoming' /\ e <= f
    BY <1>1, <1>8, StepAdvances DEF Advances
  <2>2. executed' = executed
        /\ (pc' \in {"command", "answered"} => pc \in {"command", "answered"} /\ command' = command)
    BY <1>8, LineLeftAlone
  <2>3. \A i \in DOMAIN executed : executed[i].newline < f
    BY <1>2, <1>5, <2>1
  <2>4. CASE pc' \in {"command", "answered"}
    BY <2>2, <2>4 DEF ExecutedBefore
  <2>5. CASE pc' \notin {"command", "answered"}
    BY <2>1, <2>2, <2>3, <2>5 DEF ExecutedBefore
  <2> QED BY <2>4, <2>5
<1> QED BY <1>6, <1>7, <1>8

\* The variables of the relay.
Sent == Cardinality({c \in Newlines : c < next})
Arrived == [i \in DOMAIN executed |-> CommandOf(executed[i].newline)]
Underway == {k \in 1 .. Sent : \A i \in DOMAIN executed : CommandOf(executed[i].newline) < k}

RelayStep == Relay!RelayNext \/ UNCHANGED <<Sent, Underway, Arrived>>

\* What is executed is among what was sent.
LEMMA ExecutedSent ==
  ASSUME Inv, ExecutedBefore
  PROVE  /\ Sent \in 0 .. Len(script) /\ \A k \in DOMAIN script : Last(k) < next <=> k <= Sent
         /\ \A i \in DOMAIN executed :
              /\ CommandOf(executed[i].newline) \in DOMAIN script
              /\ CommandOf(executed[i].newline) <= Sent
              /\ executed[i].newline = Last(CommandOf(executed[i].newline))
<1> USE DEF Inv
<1>1. Sent \in 0 .. Len(script) /\ \A k \in DOMAIN script : Last(k) < next <=> k <= Sent
  <2>1. next \in Nat
    BY UpcomingType
  <2> QED BY <2>1, CountBelow DEF Sent
<1>2. ASSUME NEW i \in DOMAIN executed
      PROVE  /\ CommandOf(executed[i].newline) \in DOMAIN script
             /\ CommandOf(executed[i].newline) <= Sent
             /\ executed[i].newline = Last(CommandOf(executed[i].newline))
  <2>1. PICK k \in DOMAIN script : executed[i].newline = Last(k)
    BY DEF InStep, ExecutedInStep, AsSent
  <2>2. CommandOf(executed[i].newline) = k
    BY <2>1, CommandOfNewline
  <2>3. PICK l \in Nat, e \in Nat, n \in Nat : l = Last(k) /\ e = Upcoming /\ n = next /\ e <= n
    BY CommandInLine, UpcomingType
  <2>4. l < e
    <3>1. CASE pc \in {"command", "answered"}
      <4>1. l < command.newline /\ command.newline < e /\ command.newline \in Nat
        BY <2>1, <2>3, <3>1 DEF ExecutedBefore, InStep, CommandInStep, TypeOK
      <4> QED BY <4>1
    <3>2. CASE pc \notin {"command", "answered"}
      BY <2>1, <2>3, <3>2 DEF ExecutedBefore
    <3> QED BY <3>1, <3>2
  <2>5. l < n
    BY <2>3, <2>4
  <2> QED BY <1>1, <2>1, <2>2, <2>3, <2>5
<1> QED BY <1>1, <1>2

LEMMA NextGrows ==
  ASSUME TypeOK, [Next]_vars
  PROVE  next' = next \/ \E m \in Nat : next' = next + m
<1>1. CASE HostSends
  BY <1>1 DEF HostSends, Receive
<1>2. ASSUME NEW m \in 0 .. Least(MaxBurst, ToCome), Callback(m)
      PROVE  \E d \in Nat : next' = next + d
  <2>1. next' = next + m
    BY <1>2 DEF Callback, Receive
  <2>2. m \in Nat
    <3>2. MaxBurst \in Int /\ ToCome \in Int
      BY Sizes, SerialType
    <3>3. Least(MaxBurst, ToCome) \in Int
      BY <3>2, LeastType
    <3> QED BY <3>3
  <2> QED BY <2>1, <2>2
<1>3. ASSUME LoopStep \/ SensorsDue \/ UNCHANGED vars PROVE next' = next
  BY <1>3 DEF LoopStep, ReadCharacter, ReadBeyond, ReadNewline, TakesFrom, Answer, EndCommand,
              Executes, SensorFails, SensorBegins, PrintNumber, PrintRest, LoadByte, StoreByte,
              SensorsDue, vars, serialVars
<1> QED BY <1>1, <1>2, <1>3 DEF Next

\* The daemon sends newlines, or none.
LEMMA SendsOn ==
  ASSUME Inv, ExecutedBefore, [Next]_vars, ~EndCommand
  PROVE  RelayStep
<1> USE DEF Inv
<1>1. executed' = executed /\ script' = script
  <2>1. CASE ReadCharacter \/ ReadBeyond \/ ReadNewline
    BY <2>1 DEF ReadCharacter, ReadBeyond, ReadNewline, TakesFrom
  <2>2. CASE ~ReadCharacter /\ ~ReadBeyond /\ ~ReadNewline
    BY <2>2, LineLeftAlone, StepAdvances DEF Advances
  <2> QED BY <2>1, <2>2
<1>2. Arrived' = Arrived
  BY <1>1 DEF Arrived, CommandOf, Last
<1>3. PICK n \in Nat, m \in Nat : n = next /\ m = next' /\ n <= m
  <2>1. next \in Nat
    BY UpcomingType
  <2> QED BY <2>1, NextGrows
<1>4. PICK K \in 0 .. Len(script) : K = Sent /\ \A k \in DOMAIN script : Last(k) < n <=> k <= K
  BY <1>3, ExecutedSent
<1>5. PICK L \in 0 .. Len(script) : L = Sent' /\ \A k \in DOMAIN script : Last(k) < m <=> k <= L
  <2>1. Sent' = Cardinality({c \in Newlines : c < m})
    BY <1>1, <1>3, ScriptKept DEF Sent
  <2> QED BY <2>1, CountBelow
<1>6. K \in Nat /\ L \in Nat /\ Len(script) \in Nat /\ DOMAIN script = 1 .. Len(script)
  BY ScriptFacts
<1>7. K <= L
  <2> SUFFICES ASSUME K > L PROVE FALSE
    BY <1>6
  <2>1. K \in DOMAIN script
    BY <1>6
  <2>2. Last(K) < n /\ Last(K) \in Nat
    BY <1>4, <1>6, <2>1, CommandInLine
  <2>3. Last(K) < m
    BY <1>3, <2>2
  <2> QED BY <1>5, <1>6, <2>1, <2>3
<1>8. \A i \in DOMAIN executed : CommandOf(executed[i].newline) \in 1 .. K
  BY <1>4, <1>6, ExecutedSent
<1>9. Underway' = Underway \cup (K + 1 .. L)
  <2>1. Underway = {k \in 1 .. K : \A i \in DOMAIN executed : CommandOf(executed[i].newline) < k}
    BY <1>4 DEF Underway
  <2>2. Underway' = {k \in 1 .. L : \A i \in DOMAIN executed : CommandOf(executed[i].newline) < k}
    BY <1>1, <1>5 DEF Underway, CommandOf, Last
  <2>3. \A k \in 1 .. L : k \in 1 .. K \/ k \in K + 1 .. L
    BY <1>6
  <2>4. \A k \in K + 1 .. L : k \in 1 .. L /\ \A c \in 1 .. K : c < k
    BY <1>6
  <2>5. \A k \in 1 .. K : k \in 1 .. L
    BY <1>6, <1>7
  <2> QED BY <1>8, <2>1, <2>2, <2>3, <2>4, <2>5
<1>10. CASE K < L
  <2>1. Sent' \in Nat /\ Sent' > Sent /\ Underway' = Underway \cup (Sent + 1 .. Sent')
    BY <1>4, <1>5, <1>6, <1>9, <1>10
  <2>2. Relay!Decode
    BY <1>2, <2>1 DEF Relay!Decode, Sent, Underway, Arrived
  <2> QED BY <2>2 DEF RelayStep, Relay!RelayNext
<1>11. CASE K = L
  <2>1. K + 1 .. L = {}
    BY <1>6, <1>11
  <2> QED BY <1>2, <1>4, <1>5, <1>9, <1>11, <2>1 DEF RelayStep
<1> QED BY <1>6, <1>7, <1>10, <1>11

\* A command arrives where it is executed, and those before it cannot any more.
LEMMA ArrivesNext ==
  ASSUME Inv, ExecutedBefore, EndCommand
  PROVE  RelayStep
<1> USE DEF Inv
<1>1. /\ executed' = Append(executed, command) /\ script' = script /\ next' = next
      /\ pc \in {"command", "answered"}
  BY DEF EndCommand, AtEnd, Executes, serialVars
<1>2. PICK k \in DOMAIN script : command.newline = Last(k) /\ CommandOf(command.newline) = k
  BY <1>1, CommandOfNewline DEF InStep, CommandInStep, AsSent
<1>3. PICK K \in 0 .. Len(script) :
        K = Sent /\ \A j \in DOMAIN script : Last(j) < next <=> j <= K
  BY ExecutedSent
<1>4. Sent' = Sent
  BY <1>1, ScriptKept DEF Sent
<1>5. k \in 1 .. K
  <2>1. PICK l \in Nat, e \in Nat, n \in Nat : l = Last(k) /\ e = Upcoming /\ n = next /\ e <= n
    BY CommandInLine, UpcomingType
  <2>2. l < e
    BY <1>1, <1>2, <2>1 DEF InStep, CommandInStep
  <2>3. Last(k) < next
    BY <2>1, <2>2
  <2>4. k \in 1 .. Len(script) /\ Len(script) \in Nat
    BY ScriptFacts
  <2> QED BY <1>3, <2>3, <2>4
<1>6. \A i \in DOMAIN executed : CommandOf(executed[i].newline) < k
  <2> TAKE i \in DOMAIN executed
  <2>1. PICK j \in DOMAIN script : j = CommandOf(executed[i].newline) /\ executed[i].newline = Last(j)
    BY ExecutedSent
  <2>2. Last(j) < Last(k)
    BY <1>1, <1>2, <2>1 DEF ExecutedBefore
  <2>3. j \in 0 .. Len(script) /\ k \in 0 .. Len(script) /\ j \in Int /\ k \in Int
        /\ Last(j) \in Nat /\ Last(k) \in Nat
    BY CommandInLine, ScriptFacts
  <2>4. k < j => Last(k) < Last(j)
    BY <2>3, ScriptFacts
  <2> QED BY <2>1, <2>2, <2>3, <2>4
<1>7. k \in Underway
  BY <1>3, <1>5, <1>6 DEF Underway
<1> DEFINE C == [newline : Nat, does : Outcomes]
           x == command
<1>8. executed \in Seq(C) /\ x \in C /\ executed' = Append(executed, x)
  BY <1>1 DEF TypeOK
<1>9. /\ DOMAIN executed' = DOMAIN executed \cup {Len(executed) + 1}
      /\ DOMAIN executed = 1 .. Len(executed) /\ Len(executed) \in Nat
      /\ \A i \in DOMAIN executed : executed'[i] = executed[i]
      /\ executed'[Len(executed) + 1] = x
  <2> HIDE DEF C, x
  <2> QED BY <1>8
<1>10. CommandOf(x.newline) = k /\ \A c : CommandOf(c)' = CommandOf(c)
  BY <1>1, <1>2 DEF CommandOf, Last
<1> HIDE DEF C, x
<1>11. Arrived' = Append(Arrived, k)
  <2>1. Arrived' = [i \in DOMAIN executed' |-> CommandOf(executed'[i].newline)]
    BY <1>1 DEF Arrived, CommandOf, Last
  <2>2. Arrived \in Seq(Nat) /\ Len(Arrived) = Len(executed) /\ k \in Nat
    <3>1. \A i \in DOMAIN executed : CommandOf(executed[i].newline) \in Nat
      BY ExecutedSent, ScriptFacts
    <3>2. Arrived \in [1 .. Len(executed) -> Nat]
      BY <1>9, <3>1 DEF Arrived
    <3> QED BY <1>5, <1>9, <3>2
  <2>3. \A i \in DOMAIN executed' :
          CommandOf(executed'[i].newline) = IF i = Len(executed) + 1 THEN k ELSE Arrived[i]
    <3> TAKE i \in DOMAIN executed'
    <3>1. CASE i = Len(executed) + 1
      BY <1>9, <1>10, <3>1
    <3>2. CASE i /= Len(executed) + 1
      BY <1>9, <3>2 DEF Arrived
    <3> QED BY <3>1, <3>2
  <2> DEFINE a == Arrived
  <2>4. DOMAIN executed' = 1 .. Len(a) + 1
    BY <1>9, <2>2
  <2>5. Arrived' = [i \in 1 .. Len(a) + 1 |-> IF i = Len(a) + 1 THEN k ELSE a[i]]
    BY <2>1, <2>2, <2>3, <2>4
  <2>6. a \in Seq(Nat) /\ k \in Nat
    BY <2>2
  <2> HIDE DEF a
  <2>7. Append(a, k) = [i \in 1 .. Len(a) + 1 |-> IF i = Len(a) + 1 THEN k ELSE a[i]]
    <3> DEFINE g == [i \in 1 .. Len(a) + 1 |-> IF i = Len(a) + 1 THEN k ELSE a[i]]
    <3>1. Append(a, k) \in Seq(Nat) /\ Len(Append(a, k)) = Len(a) + 1 /\ Len(a) \in Nat
      BY <2>6
    <3>2. \A i \in 1 .. Len(a) + 1 : Append(a, k)[i] = g[i]
      BY <2>6
    <3>3. g \in Seq(Nat) /\ Len(g) = Len(a) + 1
      <4>1. \A i \in 1 .. Len(a) + 1 : g[i] \in Nat
        <5> TAKE i \in 1 .. Len(a) + 1
        <5>1. i /= Len(a) + 1 => i \in 1 .. Len(a)
          BY <3>1
        <5>2. i /= Len(a) + 1 => a[i] \in Nat
          BY <2>6, <5>1
        <5> QED BY <2>6, <5>2
      <4>2. g \in [1 .. Len(a) + 1 -> Nat]
        BY <4>1
      <4> HIDE DEF g
      <4> QED BY <3>1, <4>2
    <3> HIDE DEF g
    <3>4. Append(a, k) = g
      BY <3>1, <3>2, <3>3, SeqEqual
    <3> QED BY <3>4 DEF g
  <2> QED BY <2>5, <2>7 DEF a
<1>12. Underway' \subseteq {n \in Underway : n > k}
  <2>1. Underway' = {n \in 1 .. K : \A i \in DOMAIN executed' : CommandOf(executed'[i].newline) < n}
    BY <1>1, <1>3, <1>4 DEF Underway, CommandOf, Last
  <2> SUFFICES ASSUME NEW n \in 1 .. K, \A i \in DOMAIN executed' : CommandOf(executed'[i].newline) < n
               PROVE  n \in Underway /\ n > k
    BY <2>1
  <2>2. \A i \in DOMAIN executed : CommandOf(executed[i].newline) < n
    BY <1>9
  <2>3. k < n
    BY <1>9, <1>10
  <2> QED BY <1>3, <1>5, <2>2, <2>3 DEF Underway
<1>13. Relay!Deliver
  BY <1>4, <1>7, <1>11, <1>12 DEF Relay!Deliver, Sent, Underway, Arrived
<1> QED BY <1>13 DEF RelayStep, Relay!RelayNext

\* The board is a relay for commands: whatever is lost in the buffer and whenever
\* callbacks come, commands are executed in the order in which they were sent, and
\* each at most once.
THEOREM GatewayIsRelay == Spec => ImplementsRelay
<1>1. Init => Relay!RelayInit /\ ExecutedBefore
  <2> SUFFICES ASSUME Init PROVE Relay!RelayInit /\ ExecutedBefore
    OBVIOUS
  <2>1. executed = <<>> /\ next = 1
    BY DEF Init
  <2>2. {c \in Newlines : c < next} = {}
    <3>1. \A c \in Newlines : c > 0 /\ c \in Nat
      BY InvInit, ScriptFacts DEF Inv, Newlines
    <3> QED BY <2>1, <3>1
  <2>3. Cardinality({c \in Newlines : c < next}) = 0
    BY <2>2, FS_EmptySet
  <2>4. 1 .. 0 = {} /\ DOMAIN executed = {}
    BY <2>1
  <2>5. {k \in 1 .. Sent : \A i \in DOMAIN executed : CommandOf(executed[i].newline) < k} = {}
    BY <2>3, <2>4 DEF Sent
  <2>6. [i \in DOMAIN executed |-> CommandOf(executed[i].newline)] = <<>>
    BY <2>1
  <2>7. Relay!RelayInit
    BY <2>3, <2>5, <2>6 DEF Relay!RelayInit, Sent
  <2>8. ExecutedBefore
    BY <2>4 DEF ExecutedBefore
  <2> QED BY <2>7, <2>8
<1>2. Inv /\ ExecutedBefore /\ [Next]_vars => RelayStep
  BY SendsOn, ArrivesNext
<1>3. RelayStep => [Relay!RelayNext]_(Relay!relayVars)
  BY DEF RelayStep, Relay!relayVars, Sent, Underway, Arrived
<1>4. Inv /\ ExecutedBefore /\ [Next]_vars => (Inv /\ ExecutedBefore)'
  BY InvNext, ExecutedBeforeNext
<1> QED BY <1>1, <1>2, <1>3, <1>4, InvInit, PTL DEF Spec, ImplementsRelay, Relay!RelaySpec

--------------------------------------------------------------------------------
(* The numbers of the lines.                                               *)

OfOther == sensor /= 0 /\ Kind = "other"
OfDallas == sensor /= 0 /\ Kind = "dallas"

\* Outside of readSensors there is no sensor, and only the store of its number is
\* ever half done.
CounterPlace ==
  /\ pc \notin {"sensor", "number", "store", "print", "rest", "plus"} => sensor = 0
  /\ stored \in {{}, {"lo"}, {"hi"}} /\ (pc /= "store" => stored = {})
  /\ pc = "answered" => command.does.answers

\* No more commands than were sent.
ExecutedFew == \A i \in DOMAIN executed : i <= CommandOf(executed[i].newline)

\* The number before the store that may be under way, and whether the last line has
\* it already.
Current == IF pc = "store" THEN Count(reg) ELSE Count(msgCnt)
Printed == pc = "answered" \/ (OfOther /\ pc \in {"rest", "plus", "store"})

\* The numbers printed are below the current one ...
SaidBelow == \A i \in DOMAIN said : said[i] <= Current /\ (said[i] = Current => Printed)

\* ... what the loop has loaded is the counter as it is, or, between the store and
\* the number of a Dallas sensor's line, a number that nobody else has printed ...
InReg ==
  /\ pc \in {"number", "plus"} => \A b \in {"lo", "hi"} : reg[b] \in {-1, msgCnt[b]}
  /\ pc = "print" /\ OfOther => reg = msgCnt
  /\ pc = "print" /\ OfDallas =>
       Count(reg) < Count(msgCnt) /\ \A i \in DOMAIN said : said[i] /= Count(reg)

\* ... the store has the bytes of the next number so far ...
StoredSoFar ==
  pc = "store" => \A b \in {"lo", "hi"} :
    msgCnt[b] = IF b \in stored THEN Bytes(Count(reg) + 1)[b] ELSE reg[b]

\* ... and each callback counts once, a command at most twice, a sensor once.
SensorCounts ==
  rounds * Len(Sensors) - (IF sensor = 0 THEN 0 ELSE Len(Sensors) - sensor + 1)
    + (IF OfDallas /\ pc \in {"print", "rest"} THEN 1 ELSE 0)
Counted == Current <= callbacks + 2 * Len(executed) + SensorCounts

NumbersInStep == ~hit => SaidBelow /\ InReg /\ StoredSoFar /\ Counted

\* Two bytes are enough for what is counted: until then the number does not wrap.
CountsFit == \A s \in Scripts :
  2 * Len(s) + MaxCallbacks + MaxRounds * Len(Sensors) < ByteMod * ByteMod

LEMMA CountBytes ==
  ASSUME NEW n \in Nat, n < ByteMod * ByteMod
  PROVE  Count(Bytes(n)) = n
<1>1. PICK B \in Nat \ {0} : B = ByteMod
  BY Constants
<1>2. PICK q \in Nat, r \in 0 .. B - 1 : n \div B = q /\ n % B = r /\ n = q * B + r
  <2>1. \A a \in Nat, b \in Nat \ {0} :
          /\ a % b \in 0 .. b - 1 /\ a \div b \in Nat
          /\ a = b * (a \div b) + (a % b)
    OBVIOUS
  <2> QED BY <1>1, <2>1
<1>3. q < B
  <2> SUFFICES ASSUME q >= B PROVE FALSE
    BY <1>1, <1>2
  <2>1. \A a, b, c \in Nat : a >= b => a * c >= b * c
    OBVIOUS
  <2>2. q * B >= B * B
    BY <1>1, <1>2, <2>1
  <2>3. n < B * B /\ B * B \in Nat /\ q * B \in Nat
    BY <1>1, <1>2
  <2> QED BY <1>2, <2>2, <2>3
<1>4. q % B = q
  BY <1>1, <1>2, <1>3
<1> QED BY <1>1, <1>2, <1>4 DEF Count, Bytes

LEMMA OutcomeCounts ==
  ASSUME NEW d \in Outcomes
  PROVE  d.counts \in 0 .. 2 /\ (d.answers => d.counts = 2)
<1>1. d = Refused \/ d = List \/ d = Set \/ d = Transmit \/ d = NotFound
  BY DEF Outcomes
<1>2. CASE d = Refused
  BY <1>2 DEF Refused
<1>3. CASE d = List
  BY <1>3 DEF List
<1>4. CASE d = Set
  BY <1>4 DEF Set
<1>5. CASE d = Transmit
  BY <1>5 DEF Transmit
<1>6. CASE d = NotFound
  BY <1>6 DEF NotFound
<1> QED BY <1>1, <1>2, <1>3, <1>4, <1>5, <1>6

\* There is room in the two bytes for one more of everything still to come.
LEMMA Room ==
  ASSUME CountsFit, TypeOK,
         NEW c \in 0 .. MaxCallbacks, NEW e \in 0 .. Len(script)
  PROVE  /\ rounds * Len(Sensors) \in Nat
         /\ c + 2 * e + rounds * Len(Sensors) < ByteMod * ByteMod
<1>1. /\ Len(Sensors) \in Nat /\ MaxCallbacks \in Nat /\ MaxRounds \in Nat
      /\ ByteMod * ByteMod \in Nat /\ Len(script) \in Nat /\ script \in Scripts
  BY Constants, ScriptFacts DEF TypeOK
<1>2. rounds \in Nat /\ rounds <= MaxRounds
  BY <1>1 DEF TypeOK
<1>3. \A i, j, k \in Nat : i * k \in Nat /\ (i <= j => i * k <= j * k)
  OBVIOUS
<1>4. PICK r \in Nat, m \in Nat :
        r = rounds * Len(Sensors) /\ m = MaxRounds * Len(Sensors) /\ r <= m
  BY <1>1, <1>2, <1>3
<1>5. 2 * Len(script) + MaxCallbacks + m < ByteMod * ByteMod
  BY <1>1, <1>4 DEF CountsFit
<1> QED BY <1>1, <1>4, <1>5

\* What the next line does to the numbers.
LEMMA SaidAppended ==
  ASSUME TypeOK, NEW n \in Nat, said' = Append(said, n),
         \A i \in DOMAIN said : said[i] /= n,
         \A i, j \in DOMAIN said : said[i] = said[j] => i = j
  PROVE  /\ \A i \in DOMAIN said' : said'[i] = n \/ \E j \in DOMAIN said : said'[i] = said[j]
         /\ \A i, j \in DOMAIN said' : said'[i] = said'[j] => i = j
<1>1. /\ DOMAIN said' = DOMAIN said \cup {Len(said) + 1}
      /\ DOMAIN said = 1 .. Len(said) /\ Len(said) \in Nat
      /\ \A i \in DOMAIN said : said'[i] = said[i]
      /\ said'[Len(said) + 1] = n
  <2>1. said \in Seq(Nat)
    BY DEF TypeOK
  <2> QED BY <2>1
<1> QED BY <1>1

LEMMA CounterTypes ==
  ASSUME TypeOK
  PROVE  /\ Count(msgCnt) \in Nat
         /\ msgCnt = [lo |-> msgCnt.lo, hi |-> msgCnt.hi]
         /\ reg = [lo |-> reg.lo, hi |-> reg.hi]
         /\ \A i \in DOMAIN said : said[i] \in Nat
         /\ Len(Sensors) \in Nat /\ Len(executed) \in Nat
         /\ callbacks \in Nat /\ rounds \in Nat /\ sensor \in Nat
<1>1. Len(Sensors) \in Nat /\ MaxCallbacks \in Nat /\ MaxRounds \in Nat
  BY Constants
<1>2. Count(msgCnt) \in Nat
  BY PlusType
<1>3. Len(executed) \in Nat
  <2> DEFINE C == [newline : Nat, does : Outcomes]
  <2>1. executed \in Seq(C)
    BY DEF TypeOK
  <2> HIDE DEF C
  <2> QED BY <2>1
<1> QED BY <1>1, <1>2, <1>3 DEF TypeOK

--------------------------------------------------------------------------------
\* Where the loop is at the counter.
LEMMA PlaceNext ==
  ASSUME TypeOK, SensorPlace, CounterPlace, [Next]_vars
  PROVE  CounterPlace'
<1> USE DEF serialVars, counterVars, boundVars, CounterPlace
<1>1. CASE UNCHANGED vars
  BY <1>1 DEF vars
<1>2. CASE HostSends \/ ReadCharacter \/ ReadBeyond
  BY <1>2 DEF HostSends, ReadCharacter, ReadBeyond
<1>3. CASE ReadNewline \/ Answer
  BY <1>3 DEF ReadNewline, Answer
<1>4. CASE EndCommand
  BY <1>4 DEF EndCommand, AtEnd, Executes
<1>5. CASE SensorFails \/ SensorBegins \/ SensorsDue
  BY <1>5 DEF SensorFails, SensorBegins, SensorsDue
<1>6. CASE PrintNumber
  BY <1>6, GoesOnFacts DEF PrintNumber, AmongSensors
<1>7. CASE PrintRest
  BY <1>7, GoesOnFacts DEF PrintRest, AmongSensors
<1>8. ASSUME NEW b \in {"lo", "hi"}, LoadByte(b) PROVE CounterPlace'
  <2>1. CASE UNCHANGED <<pc, sensor>>
    BY <1>8, <2>1 DEF LoadByte
  <2>2. CASE GoesOn(pc)
    BY <1>8, <2>2, GoesOnFacts DEF LoadByte, AmongSensors
  <2> QED BY <1>8, <2>1, <2>2 DEF LoadByte
<1>9. ASSUME NEW b \in {"lo", "hi"}, StoreByte(b) PROVE CounterPlace'
  <2>1. CASE stored = {}
    BY <1>9, <2>1 DEF StoreByte
  <2>2. CASE stored /= {}
    BY <1>9, <2>2, GoesOnFacts DEF StoreByte, AmongSensors
  <2> QED BY <2>1, <2>2
<1>10. ASSUME NEW m, Callback(m) PROVE CounterPlace'
  BY <1>10 DEF Callback
<1> QED BY <1>1, <1>2, <1>3, <1>4, <1>5, <1>6, <1>7, <1>8, <1>9, <1>10 DEF Next, LoopStep

\* The commands are executed in the order in which they are sent.
LEMMA ExecutedLater ==
  ASSUME Inv, ExecutedBefore, pc \in {"command", "answered"}
  PROVE  /\ CommandOf(command.newline) \in DOMAIN script
         /\ \A i \in DOMAIN executed :
              /\ CommandOf(executed[i].newline) \in DOMAIN script
              /\ CommandOf(executed[i].newline) < CommandOf(command.newline)
<1> USE DEF Inv
<1>1. PICK k \in DOMAIN script : command.newline = Last(k) /\ CommandOf(command.newline) = k
  BY CommandOfNewline DEF InStep, CommandInStep, AsSent
<1>2. ASSUME NEW i \in DOMAIN executed
      PROVE  CommandOf(executed[i].newline) \in DOMAIN script /\ CommandOf(executed[i].newline) < k
  <2>1. PICK j \in DOMAIN script : j = CommandOf(executed[i].newline) /\ executed[i].newline = Last(j)
    BY ExecutedSent
  <2>2. Last(j) < Last(k)
    BY <1>1, <2>1 DEF ExecutedBefore
  <2>3. j \in 0 .. Len(script) /\ k \in 0 .. Len(script) /\ j \in Int /\ k \in Int
        /\ Last(j) \in Nat /\ Last(k) \in Nat
    BY CommandInLine, ScriptFacts
  <2>4. k < j => Last(k) < Last(j)
    BY <2>3, ScriptFacts
  <2> QED BY <2>1, <2>2, <2>3, <2>4
<1> QED BY <1>1, <1>2

LEMMA FewNext ==
  ASSUME Inv, ExecutedBefore, ExecutedFew, [Next]_vars
  PROVE  ExecutedFew' /\ (EndCommand => Len(executed) + 1 <= Len(script))
<1> USE DEF Inv
<1>1. script' = script
  <2>1. CASE ReadCharacter \/ ReadBeyond \/ ReadNewline
    BY <2>1 DEF ReadCharacter, ReadBeyond, ReadNewline, TakesFrom
  <2> QED BY <2>1, StepAdvances DEF Advances
<1>2. \A c : CommandOf(c)' = CommandOf(c)
  BY <1>1 DEF CommandOf, Last
<1>3. CASE EndCommand
  <2>1. executed' = Append(executed, command) /\ pc \in {"command", "answered"}
    BY <1>3 DEF EndCommand, AtEnd, Executes
  <2>2. PICK k \in DOMAIN script :
          /\ k = CommandOf(command.newline)
          /\ \A i \in DOMAIN executed : CommandOf(executed[i].newline) \in DOMAIN script
                                        /\ CommandOf(executed[i].newline) < k
    BY <2>1, ExecutedLater
  <2>3. DOMAIN script = 1 .. Len(script) /\ Len(script) \in Nat
    BY ScriptFacts
  <2> DEFINE C == [newline : Nat, does : Outcomes]
             x == command
  <2>4. executed \in Seq(C) /\ x \in C /\ executed' = Append(executed, x)
    BY <2>1 DEF TypeOK
  <2>5. /\ DOMAIN executed' = DOMAIN executed \cup {Len(executed) + 1}
        /\ DOMAIN executed = 1 .. Len(executed) /\ Len(executed) \in Nat
        /\ \A i \in DOMAIN executed : executed'[i] = executed[i]
        /\ executed'[Len(executed) + 1] = x
    <3> HIDE DEF C, x
    <3> QED BY <2>4
  <2>6. Len(executed) + 1 <= k
    <3>1. CASE Len(executed) = 0
      BY <2>3, <3>1
    <3>2. CASE Len(executed) /= 0
      <4>1. Len(executed) \in DOMAIN executed
        BY <2>5, <3>2
      <4>2. Len(executed) <= CommandOf(executed[Len(executed)].newline)
        BY <4>1 DEF ExecutedFew
      <4> QED BY <2>2, <2>3, <2>5, <4>1, <4>2
    <3> QED BY <3>1, <3>2
  <2>7. Len(executed) + 1 <= Len(script)
    BY <2>3, <2>5, <2>6
  <2>8. ExecutedFew'
    <3> SUFFICES ASSUME NEW i \in DOMAIN executed' PROVE i <= CommandOf(executed'[i].newline)
      BY <1>2 DEF ExecutedFew
    <3>1. CASE i = Len(executed) + 1
      BY <2>2, <2>5, <2>6, <3>1
    <3>2. CASE i \in DOMAIN executed
      BY <2>5, <3>2 DEF ExecutedFew
    <3> QED BY <2>5, <3>1, <3>2
  <2> QED BY <2>7, <2>8
<1>4. CASE ~EndCommand
  <2>1. executed' = executed
    <3>1. CASE ReadCharacter \/ ReadBeyond \/ ReadNewline
      BY <3>1 DEF ReadCharacter, ReadBeyond, ReadNewline
    <3>2. CASE ~ReadCharacter /\ ~ReadBeyond /\ ~ReadNewline
      BY <1>4, <3>2, LineLeftAlone
    <3> QED BY <3>1, <3>2
  <2> QED BY <1>2, <1>4, <2>1 DEF ExecutedFew
<1> QED BY <1>3, <1>4

LEMMA FewExecuted ==
  ASSUME Inv, ExecutedBefore, ExecutedFew
  PROVE  Len(executed) \in 0 .. Len(script)
<1>1. Len(executed) \in Nat /\ Len(script) \in Nat /\ DOMAIN script = 1 .. Len(script)
  BY CounterTypes, ScriptFacts DEF Inv
<1>2. CASE Len(executed) = 0
  BY <1>1, <1>2
<1>3. CASE Len(executed) /= 0
  <2>1. Len(executed) \in DOMAIN executed
    <3> DEFINE C == [newline : Nat, does : Outcomes]
    <3>1. executed \in Seq(C)
      BY DEF Inv, TypeOK
    <3> HIDE DEF C
    <3> QED BY <1>3, <3>1
  <2>2. /\ Len(executed) <= CommandOf(executed[Len(executed)].newline)
        /\ CommandOf(executed[Len(executed)].newline) \in 1 .. Len(script)
    BY <1>1, <2>1, ExecutedSent DEF ExecutedFew
  <2> QED BY <1>1, <2>2
<1> QED BY <1>2, <1>3

--------------------------------------------------------------------------------
\* Steps that print no number and do not count.
LEMMA QuietNumbers ==
  ASSUME TypeOK, NumbersInStep, NumbersUnique,
         UNCHANGED <<said, msgCnt, hit, callbacks, executed>>,
         pc /= "store", pc' /= "store", Printed => Printed', ~hit /\ InReg => InReg',
         SensorCounts \in Int, SensorCounts' \in Int, SensorCounts <= SensorCounts'
  PROVE  NumbersInStep' /\ NumbersUnique'
<1>1. Current' = Current /\ Current \in Nat
  BY CounterTypes DEF Current, Count
<1>2. NumbersUnique'
  BY DEF NumbersUnique
<1> SUFFICES ASSUME ~hit PROVE SaidBelow' /\ InReg' /\ StoredSoFar' /\ Counted'
  BY <1>2 DEF NumbersInStep
<1>3. SaidBelow'
  BY <1>1 DEF NumbersInStep, SaidBelow
<1>4. InReg' /\ StoredSoFar'
  BY DEF NumbersInStep, StoredSoFar
<1>5. Counted'
  BY <1>1, CounterTypes DEF NumbersInStep, Counted
<1> QED BY <1>3, <1>4, <1>5

LEMMA StillNumbers ==
  ASSUME NumbersInStep, NumbersUnique,
         UNCHANGED <<said, msgCnt, hit, callbacks, executed, pc, sensor, reg, stored, rounds>>
  PROVE  NumbersInStep' /\ NumbersUnique'
<1>1. /\ Current' = Current /\ SensorCounts' = SensorCounts /\ (Printed' <=> Printed)
      /\ (OfOther' <=> OfOther) /\ (OfDallas' <=> OfDallas)
  BY DEF Current, Count, SensorCounts, Printed, OfOther, OfDallas, Kind
<1> QED BY <1>1 DEF NumbersInStep, NumbersUnique, SaidBelow, InReg, StoredSoFar, Counted, Count, Bytes

\* Products are opaque to what follows.
LEMMA SensorSum ==
  ASSUME TypeOK
  PROVE  /\ rounds * Len(Sensors) \in Nat /\ SensorCounts \in Int
         /\ (rounds + 1) * Len(Sensors) = rounds * Len(Sensors) + Len(Sensors)
<1>1. \A a, b \in Nat : a * b \in Nat /\ (a + 1) * b = a * b + b
  OBVIOUS
<1>2. rounds * Len(Sensors) \in Nat
      /\ (rounds + 1) * Len(Sensors) = rounds * Len(Sensors) + Len(Sensors)
  BY <1>1, CounterTypes
<1> QED BY <1>2, CounterTypes DEF SensorCounts

LEMMA ReadNumbers ==
  ASSUME TypeOK, SensorPlace, CounterPlace, NumbersInStep, NumbersUnique,
         \/ ReadCharacter \/ ReadBeyond \/ ReadNewline
         \/ SensorsDue \/ SensorFails \/ SensorBegins \/ PrintRest
  PROVE  NumbersInStep' /\ NumbersUnique'
<1> USE DEF serialVars, counterVars, boundVars
<1>s. /\ SensorCounts \in Int /\ rounds * Len(Sensors) \in Nat
      /\ (rounds + 1) * Len(Sensors) = rounds * Len(Sensors) + Len(Sensors)
      /\ Len(Sensors) \in Nat /\ sensor \in Nat
  BY SensorSum, CounterTypes
<1>1. CASE ReadCharacter \/ ReadBeyond \/ ReadNewline
  <2>1. /\ pc = "loop" /\ pc' \in {"loop", "overrun", "command"} /\ sensor = 0
        /\ UNCHANGED <<said, msgCnt, hit, callbacks, executed, sensor, rounds>>
    BY <1>1 DEF ReadCharacter, ReadBeyond, ReadNewline, CounterPlace
  <2>2. SensorCounts' = SensorCounts
    BY <2>1 DEF SensorCounts, OfDallas
  <2>3. (Printed => Printed') /\ InReg'
    BY <2>1 DEF Printed, InReg, OfOther
  <2> QED BY <1>s, <2>1, <2>2, <2>3, QuietNumbers
<1>2. CASE SensorsDue
  <2>1. /\ pc = "loop" /\ pc' = "sensor" /\ sensor = 0 /\ sensor' = 1 /\ rounds' = rounds + 1
        /\ UNCHANGED <<said, msgCnt, hit, callbacks, executed>>
    BY <1>2 DEF SensorsDue, CounterPlace
  <2>2. SensorCounts' = SensorCounts
    BY <1>s, <2>1 DEF SensorCounts, OfDallas
  <2>3. (Printed => Printed') /\ InReg'
    BY <2>1 DEF Printed, InReg, OfOther
  <2> QED BY <1>s, <2>1, <2>2, <2>3, QuietNumbers
<1>3. CASE SensorFails
  <2>1. /\ pc = "sensor" /\ sensor \in 1 .. Len(Sensors)
        /\ UNCHANGED <<said, msgCnt, hit, callbacks, executed, rounds>>
        /\ \/ pc' = "sensor" /\ sensor' = sensor + 1
           \/ pc' = "loop" /\ sensor' = 0 /\ sensor >= Len(Sensors)
    BY <1>s, <1>3 DEF SensorFails, SensorPlace
  <2>2. SensorCounts' \in Int /\ SensorCounts <= SensorCounts'
    <3>1. SensorCounts = rounds * Len(Sensors) - (Len(Sensors) - sensor + 1)
      BY <1>s, <2>1 DEF SensorCounts
    <3>2. SensorCounts' = rounds * Len(Sensors)
                           - (IF sensor' = 0 THEN 0 ELSE Len(Sensors) - sensor' + 1)
      BY <1>s, <2>1 DEF SensorCounts
    <3> QED BY <1>s, <2>1, <3>1, <3>2
  <2>3. (Printed => Printed') /\ InReg'
    BY <2>1 DEF Printed, InReg
  <2> QED BY <1>s, <2>1, <2>2, <2>3, QuietNumbers
<1>4. CASE SensorBegins
  <2>1. /\ pc = "sensor" /\ pc' = "number" /\ reg' = Unloaded
        /\ UNCHANGED <<said, msgCnt, hit, callbacks, executed, rounds, sensor>>
    BY <1>4 DEF SensorBegins
  <2>2. SensorCounts' = SensorCounts
    BY <2>1 DEF SensorCounts
  <2>3. (Printed => Printed') /\ InReg'
    BY <2>1 DEF Printed, InReg, Unloaded
  <2> QED BY <1>s, <2>1, <2>2, <2>3, QuietNumbers
<1>5. CASE PrintRest
  <2>1. /\ pc = "rest" /\ reg' = Unloaded /\ GoesOn(pc) /\ sensor \in 1 .. Len(Sensors)
        /\ UNCHANGED <<said, msgCnt, hit, callbacks, executed, rounds>>
    BY <1>5 DEF PrintRest, SensorPlace
  <2>2. \/ OfDallas /\ pc' = "sensor" /\ sensor' = sensor + 1
        \/ OfDallas /\ pc' = "loop" /\ sensor' = 0 /\ sensor = Len(Sensors)
        \/ OfOther /\ pc' = "plus" /\ sensor' = sensor /\ OfOther'
    <3>1. Kind \in {"dallas", "other"}
      BY <2>1, Constants DEF Kind
    <3>2. \/ pc' = "sensor" /\ sensor' = sensor + 1
          \/ pc' = "loop" /\ sensor' = 0 /\ sensor = Len(Sensors)
          \/ pc' = "plus" /\ sensor' = sensor /\ Kind = "other"
      BY <2>1, GoesOnFacts DEF AmongSensors
    <3>3. Kind = "dallas" => pc' /= "plus"
      BY <3>2
    <3>4. Kind = "other" => pc' = "plus" /\ sensor' = sensor
      BY <2>1 DEF GoesOn, Follows
    <3> QED BY <1>s, <2>1, <3>1, <3>2, <3>3, <3>4 DEF OfDallas, OfOther, Kind
  <2>3. SensorCounts' \in Int /\ SensorCounts <= SensorCounts'
    <3>1. ~(OfDallas /\ OfOther)
      BY DEF OfDallas, OfOther
    <3>2. SensorCounts = rounds * Len(Sensors) - (Len(Sensors) - sensor + 1)
                          + (IF OfDallas THEN 1 ELSE 0)
      BY <1>s, <2>1 DEF SensorCounts
    <3>3. SensorCounts' = rounds * Len(Sensors)
                           - (IF sensor' = 0 THEN 0 ELSE Len(Sensors) - sensor' + 1)
      BY <1>s, <2>1, <2>2 DEF SensorCounts
    <3> QED BY <1>s, <2>1, <2>2, <3>1, <3>2, <3>3
  <2>4. Printed => Printed'
    BY <2>1, <2>2 DEF Printed, OfOther, OfDallas
  <2>5. InReg'
    BY <2>1, <2>2 DEF InReg, Unloaded
  <2> QED BY <1>s, <2>1, <2>2, <2>3, <2>4, <2>5, QuietNumbers
<1> QED BY <1>1, <1>2, <1>3, <1>4, <1>5

\* The answer to admin 0 or 3 has the number, which is counted when it ends.
LEMMA AnswerNumbers ==
  ASSUME TypeOK, CounterPlace, NumbersInStep, NumbersUnique, Answer
  PROVE  NumbersInStep' /\ NumbersUnique'
<1>1. /\ pc = "command" /\ pc' = "answered" /\ sensor = 0 /\ sensor' = 0
      /\ said' = Append(said, Count(msgCnt))
      /\ UNCHANGED <<msgCnt, hit, callbacks, executed, rounds>>
  BY DEF Answer, CounterPlace, serialVars, counterVars, boundVars
<1>2. Current' = Current /\ Current = Count(msgCnt) /\ Current \in Nat
  BY <1>1, CounterTypes DEF Current, Count
<1> SUFFICES ASSUME ~hit
             PROVE  /\ SaidBelow' /\ InReg' /\ StoredSoFar' /\ Counted'
                    /\ \A i, j \in DOMAIN said' : said'[i] = said'[j] => i = j
  BY <1>1 DEF NumbersInStep, NumbersUnique
<1>3. \A i \in DOMAIN said : said[i] < Count(msgCnt) /\ said[i] \in Nat
  BY <1>1, <1>2, CounterTypes DEF NumbersInStep, SaidBelow, Printed, OfOther
<1>4. /\ \A i \in DOMAIN said' : said'[i] = Count(msgCnt) \/ \E j \in DOMAIN said : said'[i] = said[j]
      /\ \A i, j \in DOMAIN said' : said'[i] = said'[j] => i = j
  BY <1>1, <1>2, <1>3, SaidAppended DEF NumbersUnique
<1>5. SaidBelow'
  BY <1>1, <1>2, <1>3, <1>4 DEF SaidBelow, Printed
<1>6. InReg' /\ StoredSoFar'
  BY <1>1 DEF InReg, StoredSoFar
<1>7. Counted'
  BY <1>1, <1>2 DEF NumbersInStep, Counted, SensorCounts, OfDallas
<1> QED BY <1>4, <1>5, <1>6, <1>7

\* What a command counts is above what it printed.
LEMMA EndNumbers ==
  ASSUME CountsFit, TypeOK, CounterPlace, NumbersInStep, NumbersUnique, EndCommand,
         Len(executed) + 1 <= Len(script)
  PROVE  NumbersInStep' /\ NumbersUnique'
<1> DEFINE n == command.does.counts
<1>1. /\ pc \in {"command", "answered"} /\ pc' = "loop" /\ sensor = 0 /\ sensor' = 0
      /\ msgCnt' = Plus(n) /\ executed' = Append(executed, command)
      /\ UNCHANGED <<said, hit, callbacks, rounds>>
  BY DEF EndCommand, AtEnd, Executes, CounterPlace, serialVars, counterVars, boundVars
<1>2. n \in 0 .. 2 /\ (pc = "answered" => n = 2)
  <2>1. command.does \in Outcomes
    BY DEF TypeOK
  <2> QED BY <2>1, OutcomeCounts DEF CounterPlace
<1>3. Len(executed') = Len(executed) + 1 /\ Len(executed) \in Nat
  <2> DEFINE C == [newline : Nat, does : Outcomes]
             x == command
  <2>1. executed \in Seq(C) /\ x \in C /\ executed' = Append(executed, x)
    BY <1>1 DEF TypeOK
  <2> HIDE DEF C, x
  <2> QED BY <2>1
<1> SUFFICES ASSUME ~hit
             PROVE  /\ SaidBelow' /\ InReg' /\ StoredSoFar' /\ Counted'
                    /\ \A i, j \in DOMAIN said' : said'[i] = said'[j] => i = j
  BY <1>1 DEF NumbersInStep, NumbersUnique
<1>4. Count(msgCnt) \in Nat /\ rounds * Len(Sensors) \in Nat
      /\ callbacks \in 0 .. MaxCallbacks /\ callbacks \in Nat /\ Len(script) \in Nat
  BY CounterTypes, SensorSum, ScriptFacts DEF TypeOK
<1>5. Count(msgCnt) <= callbacks + 2 * Len(executed) + rounds * Len(Sensors)
  BY <1>1, <1>4 DEF NumbersInStep, Counted, Current, SensorCounts, OfDallas
<1>6. Count(msgCnt)' = Count(msgCnt) + n
  <2>1. Len(executed) + 1 \in 0 .. Len(script)
    BY <1>3, <1>4
  <2>2. callbacks + 2 * (Len(executed) + 1) + rounds * Len(Sensors) < ByteMod * ByteMod
    BY <1>4, <2>1, Room
  <2>3. ByteMod * ByteMod \in Nat
    BY Constants
  <2>4. Count(msgCnt) + n \in Nat /\ Count(msgCnt) + n < ByteMod * ByteMod
    <3> HIDE DEF n
    <3>1. PICK c \in Nat, d \in 0 .. 2, e \in Nat, k \in Nat, r \in Nat, w \in Nat :
            /\ c = Count(msgCnt) /\ d = n /\ e = Len(executed) /\ k = callbacks
            /\ r = rounds * Len(Sensors) /\ w = ByteMod * ByteMod
      BY <1>2, <1>3, <1>4, <2>3
    <3>2. c <= k + 2 * e + r /\ k + 2 * (e + 1) + r < w
      BY <1>5, <2>2, <3>1
    <3>3. c + d \in Nat /\ c + d < w
      BY <3>2
    <3> QED BY <3>1, <3>3
  <2>5. Count(msgCnt') = Count(msgCnt) + n
    BY <1>1, <2>4, CountBytes DEF Plus
  <2> QED BY <2>5 DEF Count
<1>7. Current' = Count(msgCnt) + n /\ Current = Count(msgCnt)
  BY <1>1, <1>6 DEF Current
<1>8. SaidBelow'
  <2>1. \A i \in DOMAIN said : said[i] \in Nat /\ said[i] <= Count(msgCnt)
                               /\ (said[i] = Count(msgCnt) => pc = "answered")
    BY <1>1, <1>7, CounterTypes DEF NumbersInStep, SaidBelow, Printed, OfOther
  <2> QED BY <1>1, <1>2, <1>4, <1>7, <2>1 DEF SaidBelow
<1>9. InReg' /\ StoredSoFar'
  BY <1>1 DEF InReg, StoredSoFar
<1>10. Counted'
  <2>1. SensorCounts' = rounds * Len(Sensors)
    BY <1>1, <1>4 DEF SensorCounts, OfDallas
  <2> QED BY <1>1, <1>2, <1>3, <1>4, <1>5, <1>7, <2>1 DEF Counted
<1> QED BY <1>1, <1>8, <1>9, <1>10 DEF NumbersUnique

\* What the loop has loaded when it goes on is the counter, unless a callback came.
LEMMA LoadNumbers ==
  ASSUME TypeOK, SensorPlace, CounterPlace, NumbersInStep, NumbersUnique,
         NEW b \in {"lo", "hi"}, LoadByte(b)
  PROVE  NumbersInStep' /\ NumbersUnique'
<1>1. /\ pc \in {"number", "plus"} /\ reg[b] = -1
      /\ reg' = [reg EXCEPT ![b] = msgCnt[b]]
      /\ UNCHANGED <<said, msgCnt, hit, callbacks, executed, rounds, stored>>
  BY DEF LoadByte, counterVars, boundVars
<1>2. stored = {}
  BY <1>1 DEF CounterPlace
<1> SUFFICES ASSUME ~hit
             PROVE  /\ SaidBelow' /\ InReg' /\ StoredSoFar' /\ Counted'
                    /\ \A i, j \in DOMAIN said' : said'[i] = said'[j] => i = j
  BY <1>1 DEF NumbersInStep, NumbersUnique
<1>3. \A c \in {"lo", "hi"} : reg'[c] \in {-1, msgCnt[c]} /\ (c = b => reg'[c] = msgCnt[c])
                              /\ (c /= b => reg'[c] = reg[c])
  <2>1. reg' \in [lo : {reg'.lo}, hi : {reg'.hi}]
    BY <1>1, CounterTypes
  <2>2. CASE b = "lo"
    <3>1. reg'.lo = msgCnt.lo /\ reg'.hi = reg.hi
      BY <1>1, <2>2, CounterTypes
    <3> QED BY <1>1, <2>2, <3>1 DEF NumbersInStep, InReg
  <2>3. CASE b = "hi"
    <3>1. reg'.hi = msgCnt.hi /\ reg'.lo = reg.lo
      BY <1>1, <2>3, CounterTypes
    <3> QED BY <1>1, <2>3, <3>1 DEF NumbersInStep, InReg
  <2> QED BY <2>2, <2>3
<1>4. Current = Count(msgCnt) /\ Current \in Nat
  BY <1>1, CounterTypes DEF Current
<1>5. \A i, j \in DOMAIN said' : said'[i] = said'[j] => i = j
  BY <1>1 DEF NumbersUnique
<1>6. CASE UNCHANGED <<pc, sensor>>
  <2>1. Current' = Current /\ (Printed => Printed') /\ SensorCounts' = SensorCounts
    BY <1>1, <1>4, <1>6 DEF Current, Count, Printed, OfOther, Kind, SensorCounts
  <2>2. InReg' /\ StoredSoFar'
    BY <1>1, <1>3, <1>6 DEF InReg, StoredSoFar
  <2>3. SaidBelow' /\ Counted'
    BY <1>1, <2>1 DEF NumbersInStep, SaidBelow, Counted
  <2> QED BY <1>5, <2>2, <2>3
<1>7. CASE GoesOn(pc) /\ ~ \E c \in {"lo", "hi"} \ {b} : reg[c] = -1
  <2>1. \A c \in {"lo", "hi"} : reg'[c] = msgCnt[c]
    BY <1>1, <1>3, <1>7
  <2>2. reg' = msgCnt /\ reg' = msgCnt'
    <3>1. reg' = [lo |-> reg'.lo, hi |-> reg'.hi]
      BY <1>1, CounterTypes
    <3>2. reg'.lo = msgCnt.lo /\ reg'.hi = msgCnt.hi
      BY <2>1
    <3>3. reg' = [lo |-> msgCnt.lo, hi |-> msgCnt.hi]
      BY <3>1, <3>2
    <3> QED BY <1>1, <3>3, CounterTypes
  <2>3. /\ sensor' = sensor /\ sensor /= 0
        /\ \/ pc = "number" /\ pc' = "store" /\ OfDallas
           \/ pc = "number" /\ pc' = "print" /\ OfOther
           \/ pc = "plus" /\ pc' = "store" /\ OfOther
    <3>1. sensor \in 1 .. Len(Sensors)
      BY <1>1 DEF SensorPlace
    <3> QED BY <1>1, <1>7, <3>1, GoesOnFacts, CounterTypes DEF AmongSensors, OfDallas, OfOther
  <2>4. (OfOther' <=> OfOther) /\ (OfDallas' <=> OfDallas) /\ ~(OfOther /\ OfDallas)
    BY <2>3 DEF OfOther, OfDallas, Kind
  <2>5. Current' = Current
    BY <1>1, <1>4, <2>2 DEF Current, Count
  <2>6. Printed <=> Printed'
    BY <1>1, <2>3, <2>4 DEF Printed
  <2>7. SensorCounts' = SensorCounts
    BY <1>1, <2>3, <2>4 DEF SensorCounts
  <2>8. InReg'
    BY <2>2, <2>3, <2>4 DEF InReg
  <2>9. StoredSoFar'
    BY <1>1, <1>2, <2>2 DEF StoredSoFar
  <2>10. SaidBelow' /\ Counted'
    BY <1>1, <2>5, <2>6, <2>7 DEF NumbersInStep, SaidBelow, Counted
  <2> QED BY <1>5, <2>8, <2>9, <2>10
<1> QED BY <1>6, <1>7 DEF LoadByte

\* The bytes of the next number, one after the other.
LEMMA StoreNumbers ==
  ASSUME CountsFit, TypeOK, SensorPlace, CounterPlace, NumbersInStep, NumbersUnique,
         Len(executed) \in 0 .. Len(script),
         NEW b \in {"lo", "hi"}, StoreByte(b)
  PROVE  NumbersInStep' /\ NumbersUnique'
<1> DEFINE n == Count(reg) + 1
<1>1. /\ pc = "store" /\ b \notin stored /\ sensor \in 1 .. Len(Sensors) /\ sensor /= 0
      /\ msgCnt' = [msgCnt EXCEPT ![b] = Bytes(n)[b]]
      /\ UNCHANGED <<said, reg, hit, callbacks, executed, rounds>>
  BY CounterTypes DEF StoreByte, SensorPlace, counterVars, boundVars
<1> SUFFICES ASSUME ~hit
             PROVE  /\ SaidBelow' /\ InReg' /\ StoredSoFar' /\ Counted'
                    /\ \A i, j \in DOMAIN said' : said'[i] = said'[j] => i = j
  BY <1>1 DEF NumbersInStep, NumbersUnique
<1>2. Current = Count(reg) /\ Count(reg) \in Nat /\ Count(reg)' = Count(reg)
  BY <1>1, RegLoaded DEF Current, Count
<1>3. \A c \in {"lo", "hi"} :
        msgCnt'[c] = IF c \in stored \cup {b} THEN Bytes(n)[c] ELSE reg[c]
  <2>1. CASE b = "lo"
    <3>1. msgCnt'.lo = Bytes(n).lo /\ msgCnt'.hi = msgCnt.hi
      BY <1>1, <2>1, CounterTypes
    <3> QED BY <1>1, <2>1, <3>1 DEF NumbersInStep, StoredSoFar
  <2>2. CASE b = "hi"
    <3>1. msgCnt'.hi = Bytes(n).hi /\ msgCnt'.lo = msgCnt.lo
      BY <1>1, <2>2, CounterTypes
    <3> QED BY <1>1, <2>2, <3>1 DEF NumbersInStep, StoredSoFar
  <2> QED BY <2>1, <2>2
<1>4. \A i, j \in DOMAIN said' : said'[i] = said'[j] => i = j
  BY <1>1 DEF NumbersUnique
<1>s. /\ SensorCounts \in Int /\ rounds * Len(Sensors) \in Nat /\ Len(Sensors) \in Nat
      /\ sensor \in Nat /\ callbacks \in 0 .. MaxCallbacks /\ callbacks \in Nat
      /\ Len(executed) \in Nat
      /\ \A i \in DOMAIN said : said[i] \in Nat
  BY SensorSum, CounterTypes DEF TypeOK
<1>5. CASE stored = {}
  <2>1. pc' = pc /\ sensor' = sensor /\ stored' = {b}
    BY <1>5 DEF StoreByte
  <2>2. Current' = Current /\ (Printed => Printed') /\ SensorCounts' = SensorCounts
    BY <1>1, <1>2, <2>1 DEF Current, Printed, OfOther, OfDallas, Kind, SensorCounts
  <2>3. StoredSoFar'
    <3>1. Bytes(Count(reg) + 1)' = Bytes(n)
      BY <1>1 DEF Count, Bytes
    <3> QED BY <1>1, <1>3, <1>5, <2>1, <3>1 DEF StoredSoFar
  <2>4. InReg'
    BY <1>1, <2>1 DEF InReg
  <2>5. SaidBelow' /\ Counted'
    BY <1>1, <2>2 DEF NumbersInStep, SaidBelow, Counted
  <2> QED BY <1>4, <2>3, <2>4, <2>5
<1>6. CASE stored /= {}
  <2>1. stored' = {} /\ GoesOn(pc) /\ stored \cup {b} = {"lo", "hi"}
    BY <1>1, <1>6 DEF StoreByte, CounterPlace
  <2>2. Count(msgCnt') = n /\ n \in Nat
    <3>1. msgCnt'.lo = Bytes(n).lo /\ msgCnt'.hi = Bytes(n).hi
      BY <1>3, <2>1
    <3>2. Count(msgCnt') = Count(Bytes(n))
      BY <3>1 DEF Count
    <3>3. n < ByteMod * ByteMod
      <4>1. callbacks + 2 * Len(executed) + rounds * Len(Sensors) < ByteMod * ByteMod
        BY <1>s, Room
      <4>2. SensorCounts = rounds * Len(Sensors) - (Len(Sensors) - sensor + 1)
        BY <1>1, <1>s DEF SensorCounts
      <4>3. Count(reg) <= callbacks + 2 * Len(executed) + SensorCounts
        BY <1>2 DEF NumbersInStep, Counted
      <4>4. ByteMod * ByteMod \in Nat
        BY Constants
      <4>5. PICK c \in Nat, e \in Nat, k \in Nat, r \in Nat, w \in Nat :
              /\ c = Count(reg) /\ e = Len(executed) /\ k = callbacks
              /\ r = rounds * Len(Sensors) /\ w = ByteMod * ByteMod
        BY <1>2, <1>s, <4>4
      <4>6. c <= k + 2 * e + SensorCounts /\ SensorCounts < r /\ k + 2 * e + r < w
        BY <1>1, <1>s, <4>1, <4>2, <4>3, <4>5
      <4>7. c + 1 < w
        BY <1>s, <4>6
      <4> QED BY <4>5, <4>7
    <3> QED BY <1>2, <3>2, <3>3, CountBytes
  <2>3. \/ pc' = "sensor" /\ sensor' = sensor + 1 /\ OfOther
        \/ pc' = "loop" /\ sensor' = 0 /\ sensor = Len(Sensors) /\ OfOther
        \/ pc' = "print" /\ sensor' = sensor /\ OfDallas /\ OfDallas' /\ ~OfOther'
    BY <1>1, <2>1, GoesOnFacts DEF AmongSensors, OfOther, OfDallas
  <2>4. ~(OfOther /\ OfDallas) /\ ~Printed'
    BY <2>3 DEF OfOther, OfDallas, Printed
  <2>5. Current' = n
    BY <2>2, <2>3 DEF Current, Count
  <2>6. \A i \in DOMAIN said : said[i] <= Count(reg) /\ (said[i] = Count(reg) => OfOther)
    BY <1>1, <1>2 DEF NumbersInStep, SaidBelow, Printed
  <2>7. SaidBelow'
    BY <1>1, <1>2, <1>s, <2>4, <2>5, <2>6 DEF SaidBelow
  <2>8. InReg'
    <3>1. CASE pc' \in {"sensor", "loop"}
      BY <3>1 DEF InReg
    <3>2. CASE pc' = "print" /\ OfDallas /\ OfDallas' /\ ~OfOther'
      <4>1. Count(reg)' < Count(msgCnt)'
        BY <1>2, <2>2 DEF Count
      <4>2. \A i \in DOMAIN said : said[i] /= Count(reg)
        BY <2>4, <2>6, <3>2
      <4> QED BY <1>1, <1>2, <3>2, <4>1, <4>2 DEF InReg
    <3> QED BY <2>3, <3>1, <3>2
  <2>9. StoredSoFar'
    BY <2>3 DEF StoredSoFar
  <2>10. Counted'
    <3>1. SensorCounts = rounds * Len(Sensors) - (Len(Sensors) - sensor + 1)
      BY <1>1, <1>s DEF SensorCounts
    <3>2. SensorCounts' = SensorCounts + 1
      <4>1. CASE pc' = "sensor" /\ sensor' = sensor + 1
        BY <1>1, <1>s, <3>1, <4>1 DEF SensorCounts
      <4>2. CASE pc' = "loop" /\ sensor' = 0 /\ sensor = Len(Sensors)
        BY <1>1, <1>s, <3>1, <4>2 DEF SensorCounts
      <4>3. CASE pc' = "print" /\ sensor' = sensor /\ OfDallas'
        BY <1>1, <1>s, <3>1, <4>3 DEF SensorCounts
      <4> QED BY <2>3, <4>1, <4>2, <4>3
    <3> QED BY <1>1, <1>2, <1>s, <2>5, <3>2 DEF NumbersInStep, Counted
  <2> QED BY <1>4, <2>7, <2>8, <2>9, <2>10
<1> QED BY <1>5, <1>6

\* The number of a sensor's line.
LEMMA PrintNumbers ==
  ASSUME TypeOK, SensorPlace, CounterPlace, NumbersInStep, NumbersUnique, PrintNumber
  PROVE  NumbersInStep' /\ NumbersUnique'
<1>1. /\ pc = "print" /\ GoesOn(pc) /\ sensor \in 1 .. Len(Sensors) /\ sensor /= 0
      /\ said' = Append(said, Count(reg))
      /\ UNCHANGED <<msgCnt, reg, hit, callbacks, executed, rounds, stored>>
  BY CounterTypes DEF PrintNumber, SensorPlace, serialVars, counterVars, boundVars
<1>2. pc' = "rest" /\ sensor' = sensor /\ (OfOther' <=> OfOther) /\ (OfDallas' <=> OfDallas)
      /\ (OfOther \/ OfDallas)
  <2>1. pc' = "rest" /\ sensor' = sensor /\ Kind' = Kind
    BY <1>1, GoesOnFacts DEF AmongSensors
  <2>2. Kind \in {"dallas", "other"}
    BY <1>1, Constants DEF Kind
  <2> QED BY <1>1, <2>1, <2>2 DEF OfOther, OfDallas
<1>3. /\ Count(reg) \in Nat /\ Count(msgCnt) \in Nat
      /\ Current = Count(msgCnt) /\ Current' = Count(msgCnt)
  BY <1>1, <1>2, RegLoaded, CounterTypes DEF Current, Count
<1> SUFFICES ASSUME ~hit
             PROVE  /\ SaidBelow' /\ InReg' /\ StoredSoFar' /\ Counted'
                    /\ \A i, j \in DOMAIN said' : said'[i] = said'[j] => i = j
  BY <1>1 DEF NumbersInStep, NumbersUnique
<1>4. \A i \in DOMAIN said : said[i] \in Nat /\ said[i] < Count(msgCnt)
  BY <1>1, <1>3, CounterTypes DEF NumbersInStep, SaidBelow, Printed
<1>5. (OfOther => Count(reg) = Count(msgCnt)) /\ (OfDallas => Count(reg) < Count(msgCnt))
      /\ \A i \in DOMAIN said : said[i] /= Count(reg)
  <2>1. CASE OfOther
    <3>1. Count(reg) = Count(msgCnt)
      BY <1>1, <2>1 DEF NumbersInStep, InReg
    <3> QED BY <1>3, <1>4, <2>1, <3>1 DEF OfOther, OfDallas
  <2>2. CASE OfDallas
    BY <1>1, <2>2 DEF NumbersInStep, InReg, OfOther, OfDallas
  <2> QED BY <1>2, <2>1, <2>2
<1>6. /\ \A i \in DOMAIN said' : said'[i] = Count(reg) \/ \E j \in DOMAIN said : said'[i] = said[j]
      /\ \A i, j \in DOMAIN said' : said'[i] = said'[j] => i = j
  BY <1>1, <1>3, <1>5, SaidAppended DEF NumbersUnique
<1>7. SaidBelow'
  <2>1. OfOther => Printed'
    BY <1>2 DEF Printed
  <2> QED BY <1>2, <1>3, <1>4, <1>5, <1>6, <2>1 DEF SaidBelow
<1>8. InReg' /\ StoredSoFar'
  BY <1>2 DEF InReg, StoredSoFar
<1>9. SensorCounts' = SensorCounts
  BY <1>1, <1>2 DEF SensorCounts
<1>10. Counted'
  BY <1>1, <1>3, <1>9 DEF NumbersInStep, Counted
<1> QED BY <1>6, <1>7, <1>8, <1>10

\* The line of a callback.
LEMMA CallbackNumbers ==
  ASSUME CountsFit, TypeOK, SensorPlace, OpenLine, CounterPlace, NumbersInStep, NumbersUnique,
         Len(executed) \in 0 .. Len(script),
         NEW m, Callback(m)
  PROVE  NumbersInStep' /\ NumbersUnique'
<1>1. /\ attached /\ callbacks < MaxCallbacks /\ callbacks' = callbacks + 1
      /\ said' = Append(said, Count(msgCnt)) /\ msgCnt' = Plus(1)
      /\ hit' = (hit \/ AtNumber)
      /\ UNCHANGED <<pc, reg, executed, sensor, stored, rounds>>
  BY DEF Callback
<1> SUFFICES ASSUME ~hit, ~AtNumber
             PROVE  /\ SaidBelow' /\ InReg' /\ StoredSoFar' /\ Counted'
                    /\ \A i, j \in DOMAIN said' : said'[i] = said'[j] => i = j
  BY <1>1 DEF NumbersInStep, NumbersUnique
<1>2. /\ pc \notin {"command", "answered"}
      /\ sensor /= 0 => /\ pc = "number" => reg = Unloaded
                        /\ pc /= "store"
                        /\ Kind = "other" => pc \notin {"print", "rest", "plus"}
  BY <1>1 DEF OpenLine, AtNumber
<1>3. pc /= "store" /\ ~Printed /\ ~Printed' /\ (sensor = 0 => pc \notin {"number", "print", "plus"})
  <2>1. pc \in {"sensor", "number", "store", "print", "rest", "plus"} => sensor /= 0
    BY CounterTypes DEF SensorPlace
  <2>2. pc /= "store"
    BY <1>2, <2>1
  <2>3. ~Printed
    BY <1>2, <2>2 DEF Printed, OfOther
  <2>4. Printed' <=> Printed
    BY <1>1 DEF Printed, OfOther, Kind
  <2> QED BY <2>1, <2>2, <2>3, <2>4
<1>4. Count(msgCnt) \in Nat /\ Current = Count(msgCnt)
  BY <1>3, CounterTypes DEF Current
<1>5. \A i \in DOMAIN said : said[i] \in Nat /\ said[i] < Count(msgCnt)
  BY <1>3, <1>4, CounterTypes DEF NumbersInStep, SaidBelow
<1>6. /\ \A i \in DOMAIN said' : said'[i] = Count(msgCnt) \/ \E j \in DOMAIN said : said'[i] = said[j]
      /\ \A i, j \in DOMAIN said' : said'[i] = said'[j] => i = j
  BY <1>1, <1>4, <1>5, SaidAppended DEF NumbersUnique
<1>s. /\ SensorCounts \in Int /\ rounds * Len(Sensors) \in Nat /\ Len(Sensors) \in Nat
      /\ sensor \in Nat /\ callbacks \in 0 .. MaxCallbacks /\ callbacks \in Nat
      /\ Len(executed) \in Nat /\ MaxCallbacks \in Nat /\ sensor <= Len(Sensors)
  BY SensorSum, CounterTypes, Sizes DEF TypeOK
<1>7. SensorCounts' = SensorCounts /\ SensorCounts <= rounds * Len(Sensors)
  <2>1. SensorCounts' = SensorCounts
    BY <1>1 DEF SensorCounts, OfDallas, Kind
  <2>2. SensorCounts <= rounds * Len(Sensors)
    BY <1>s DEF SensorCounts, OfDallas
  <2> QED BY <2>1, <2>2
<1>8. Count(msgCnt)' = Count(msgCnt) + 1
  <2>1. callbacks + 1 \in 0 .. MaxCallbacks
    BY <1>1, <1>s
  <2>2. (callbacks + 1) + 2 * Len(executed) + rounds * Len(Sensors) < ByteMod * ByteMod
    BY <2>1, Room
  <2>3. Count(msgCnt) <= callbacks + 2 * Len(executed) + SensorCounts
    BY <1>4 DEF NumbersInStep, Counted
  <2>4. ByteMod * ByteMod \in Nat
    BY Constants
  <2>5. Count(msgCnt) + 1 \in Nat /\ Count(msgCnt) + 1 < ByteMod * ByteMod
    <3>1. PICK c \in Nat, e \in Nat, k \in Nat, r \in Nat, w \in Nat :
            /\ c = Count(msgCnt) /\ e = Len(executed) /\ k = callbacks
            /\ r = rounds * Len(Sensors) /\ w = ByteMod * ByteMod
      BY <1>4, <1>s, <2>4
    <3>2. c <= k + 2 * e + SensorCounts /\ SensorCounts <= r /\ (k + 1) + 2 * e + r < w
      BY <1>7, <2>2, <2>3, <3>1
    <3>3. c + 1 \in Nat /\ c + 1 < w
      BY <1>s, <3>2
    <3> QED BY <3>1, <3>3
  <2>6. Count(msgCnt') = Count(msgCnt) + 1
    BY <1>1, <2>5, CountBytes DEF Plus
  <2> QED BY <2>6 DEF Count
<1>9. Current' = Count(msgCnt) + 1
  BY <1>1, <1>3, <1>8 DEF Current
<1>10. SaidBelow'
  BY <1>4, <1>5, <1>6, <1>9 DEF SaidBelow
<1>11. InReg'
  <2>1. Unloaded.lo = -1 /\ Unloaded.hi = -1
    BY DEF Unloaded
  <2>2. pc' \in {"number", "plus"} => \A b \in {"lo", "hi"} : reg'[b] = -1
    <3>1. pc = "plus" => Kind = "other"
      BY DEF SensorPlace
    <3> QED BY <1>1, <1>2, <1>3, <2>1, <3>1
  <2>3. ~(pc' = "print" /\ OfOther')
    BY <1>1, <1>2 DEF OfOther, Kind
  <2>4. ASSUME pc' = "print", OfDallas'
        PROVE  Count(reg)' < Count(msgCnt)' /\ \A i \in DOMAIN said' : said'[i] /= Count(reg)'
    <3>1. pc = "print" /\ OfDallas /\ Count(reg)' = Count(reg)
      BY <1>1, <2>4 DEF OfDallas, Kind, Count
    <3>2. /\ Count(reg) < Count(msgCnt) /\ Count(reg) \in Nat
          /\ \A i \in DOMAIN said : said[i] /= Count(reg)
      BY <3>1, RegLoaded DEF NumbersInStep, InReg
    <3> QED BY <1>4, <1>6, <1>8, <3>1, <3>2
  <2> QED BY <2>2, <2>3, <2>4 DEF InReg
<1>12. StoredSoFar'
  BY <1>1, <1>3 DEF StoredSoFar
<1>13. Counted'
  BY <1>1, <1>4, <1>s, <1>7, <1>9 DEF NumbersInStep, Counted
<1> QED BY <1>6, <1>10, <1>11, <1>12, <1>13

NumberInv == CounterPlace /\ ExecutedFew /\ NumbersInStep /\ NumbersUnique

LEMMA NumberInit == Init => NumberInv
<1> SUFFICES ASSUME Init PROVE NumberInv
  OBVIOUS
<1>1. /\ pc = "loop" /\ sensor = 0 /\ stored = {} /\ msgCnt = Bytes(0) /\ callbacks = 0
      /\ rounds = 0 /\ executed = <<>> /\ said = <<>>
  BY DEF Init
<1>2. CounterPlace /\ ExecutedFew /\ NumbersUnique
  BY <1>1 DEF CounterPlace, ExecutedFew, NumbersUnique
<1>3. SaidBelow /\ InReg /\ StoredSoFar
  BY <1>1 DEF SaidBelow, InReg, StoredSoFar
<1>4. Counted
  <2>1. ByteMod \in Nat \ {0, 1} /\ Len(Sensors) \in Nat
    BY Constants
  <2>2. 0 < ByteMod * ByteMod
    BY <2>1
  <2>3. Current = 0
    BY <1>1, <2>2, CountBytes DEF Current
  <2>4. SensorCounts = 0
    BY <1>1, <2>1 DEF SensorCounts, OfDallas
  <2> QED BY <1>1, <2>3, <2>4 DEF Counted
<1> QED BY <1>2, <1>3, <1>4 DEF NumberInv, NumbersInStep

LEMMA NumberNext ==
  ASSUME CountsFit, Inv, ExecutedBefore, OpenLine, NumberInv, [Next]_vars
  PROVE  NumberInv'
<1> USE DEF Inv, NumberInv
<1>1. CounterPlace' /\ ExecutedFew'
  BY PlaceNext, FewNext
<1>2. Len(executed) \in 0 .. Len(script)
  BY FewExecuted
<1>3. CASE UNCHANGED vars \/ HostSends
  <2>1. UNCHANGED <<said, msgCnt, hit, callbacks, executed, pc, sensor, reg, stored, rounds>>
    BY <1>3 DEF vars, HostSends, counterVars, boundVars
  <2> QED BY <1>1, <2>1, StillNumbers
<1>4. CASE \/ ReadCharacter \/ ReadBeyond \/ ReadNewline
           \/ SensorsDue \/ SensorFails \/ SensorBegins \/ PrintRest
  BY <1>1, <1>4, ReadNumbers
<1>5. CASE Answer
  BY <1>1, <1>5, AnswerNumbers
<1>6. CASE EndCommand
  BY <1>1, <1>6, FewNext, EndNumbers
<1>7. ASSUME NEW b \in {"lo", "hi"}, LoadByte(b) \/ StoreByte(b)
      PROVE  NumberInv'
  BY <1>1, <1>2, <1>7, LoadNumbers, StoreNumbers
<1>8. CASE PrintNumber
  BY <1>1, <1>8, PrintNumbers
<1>9. ASSUME NEW m, Callback(m) PROVE NumberInv'
  BY <1>1, <1>2, <1>9, CallbackNumbers
<1> QED BY <1>3, <1>4, <1>5, <1>6, <1>7, <1>8, <1>9 DEF Next, LoopStep

\* As long as two bytes are enough for what is counted, no two lines have the same
\* number, although the loop reads and writes the counter byte by byte and callbacks
\* print and count it in between, unless a callback comes between the load of the
\* number of a sensor's line and the store of the next.
THEOREM NumbersFit == CountsFit => (Spec => []NumbersUnique)
<1> SUFFICES ASSUME CountsFit PROVE Spec => []NumbersUnique
  OBVIOUS
<1> DEFINE All == Inv /\ ExecutedBefore /\ OpenLine /\ GluedOnlyTo /\ NumberInv
<1>1. Init => All
  <2>1. Init => ExecutedBefore /\ GluedOnlyTo
    <3>1. Init => executed = <<>> /\ glued = {}
      BY DEF Init
    <3> QED BY <3>1 DEF ExecutedBefore, GluedOnlyTo
  <2> QED BY <2>1, InvInit, TypeInit, NumberInit
<1>2. All /\ [Next]_vars => All'
  <2> SUFFICES ASSUME All, [Next]_vars PROVE All'
    OBVIOUS
  <2>1. Inv' /\ ExecutedBefore'
    BY InvNext, ExecutedBeforeNext
  <2>2. OpenLine' /\ GluedOnlyTo'
    BY OpenNext DEF Inv
  <2>3. NumberInv'
    BY NumberNext
  <2> QED BY <2>1, <2>2, <2>3
<1>3. All => NumbersUnique
  BY DEF NumberInv
<1> QED BY <1>1, <1>2, <1>3, PTL DEF Spec
===============================================================================
