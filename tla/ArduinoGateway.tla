----------------------------- MODULE ArduinoGateway -----------------------------
(***************************************************************************)
(* ArduinoGateway/ArduinoGateway.ino: a board between the daemon, at a     *)
(* serial line, and the radio.  The loop collects the characters of the    *)
(* daemon to commands and executes them, and prints what its own sensors   *)
(* measure.  The callbacks of the receivers print what they have decoded,  *)
(* in the interrupt of the receiver pin.  The lines for the daemon carry   *)
(* the number msgCnt.                                                      *)
(*                                                                         *)
(* The characters that the daemon sends are numbered from 1, and a command *)
(* is known by the number of its newline.  What a command does is          *)
(* abstracted to what it prints and counts.  Left out: the codec bits and  *)
(* the debug level, which decide only what is printed, and the codes that  *)
(* a command sends.                                                        *)
(***************************************************************************)
EXTENDS Integers, Sequences, FiniteSets

CONSTANTS
  Scripts,        \* what the daemon may send: sequences of commands
  Sensors,        \* the wired sensors in the order they are read
  RxSize,         \* 63: what the receive buffer of the serial line holds
  UartFifo,       \* 2: the characters the UART keeps while interrupts are off
  MaxBurst,       \* the characters that can come in during a callback
  LineSize,       \* 32: the size of readLine
  ByteMod,        \* 2^8: msgCnt is two bytes
  MaxCallbacks,   \* bound: on the callbacks
  MaxRounds       \* bound: on the readings of the sensors

\* What parseCmd can do: print a line with the number (answers), increment it so
\* many times (counts), end its last line (ends).
Refused == [answers |-> FALSE, counts |-> 0, ends |-> TRUE]
List == [answers |-> TRUE, counts |-> 2, ends |-> TRUE]      \* admin 0, admin 3
Set == [answers |-> FALSE, counts |-> 1, ends |-> TRUE]      \* the other admin commands
Transmit == [answers |-> FALSE, counts |-> 2, ends |-> TRUE]
NotFound == [answers |-> FALSE, counts |-> 1, ends |-> FALSE] \* command 2
Outcomes == {Refused, List, Set, Transmit, NotFound}

GatewayAssumption ==
  /\ \A s \in Scripts :
       /\ s \in Seq([last : Nat \ {0}, does : Outcomes])
       /\ \A j, k \in DOMAIN s : j < k => s[j].last < s[k].last
  /\ Sensors \in Seq({"dallas", "other"})
  /\ RxSize \in Nat \ {0} /\ UartFifo \in Nat /\ MaxBurst \in Nat
  /\ LineSize \in Nat \ {0} /\ ByteMod \in Nat \ {0, 1}
  /\ MaxCallbacks \in Nat /\ MaxRounds \in Nat
ASSUME GatewayAssumption

VARIABLES
  script,         \* what the daemon sends
  next,           \* its next character
  rx,             \* the receive buffer
  lost,           \* history: the characters that were lost
  readLine,       \* readLine up to readCnt
  attached,       \* the pin interrupt is attached
  pc,             \* where the loop is
  command,        \* the command in hand: its newline and what it does
  msgCnt,         \* msgCnt by bytes
  reg,            \* the bytes of msgCnt the loop has loaded, or -1
  stored,         \* the bytes of msgCnt the loop has stored
  sensor,         \* the sensor the loop is at
  open,           \* who has begun the output line that is not ended, or "nobody"
  glued,          \* {} or who has begun a line in this step, and in whose line
  executed,       \* history: the commands executed
  said,           \* history: the numbers printed
  hit,            \* history: a callback came while the loop was at its number
  callbacks,      \* history: how many callbacks
  rounds          \* history: how many readings of the sensors

serialVars == <<script, next, rx, lost>>
counterVars == <<msgCnt, reg, stored, said, hit>>
boundVars == <<callbacks, rounds>>
vars == <<serialVars, readLine, attached, pc, command, counterVars, sensor, open, glued,
          executed, boundVars>>

--------------------------------------------------------------------------------
(* What the daemon sends.                                                  *)

Last(k) == IF k = 0 THEN 0 ELSE script[k].last
Newlines == {script[k].last : k \in DOMAIN script}
CommandOf(c) == CHOOSE k \in DOMAIN script : Last(k - 1) < c /\ c <= Last(k)
Firsts == {Last(k - 1) + 1 : k \in DOMAIN script}
Text(k) == [i \in 1 .. Last(k) - 1 - Last(k - 1) |-> Last(k - 1) + i]

\* parseCmd on the characters before newline c.  Only the first character of a
\* command is '>'; a line that is damaged behind it may say anything.
Parsed(text, c) ==
  IF text = Text(CommandOf(c)) THEN {script[CommandOf(c)].does}
  ELSE IF text = <<>> \/ text[1] \notin Firsts THEN {Refused}
  ELSE Outcomes

Least(a, b) == IF a <= b THEN a ELSE b

\* m characters come in, of which the board can take most before the rest is
\* there, if the buffer has room.
Receive(m, most) ==
  LET kept == Least(Least(m, most), RxSize - Len(rx))
  IN  /\ next' = next + m
      /\ rx' = rx \o [i \in 1 .. kept |-> next - 1 + i]
      /\ lost' = lost \cup (next + kept .. next + m - 1)
      /\ UNCHANGED script

ToCome == Last(Len(script)) + 1 - next

--------------------------------------------------------------------------------
Unloaded == [lo |-> -1, hi |-> -1]
Count(bytes) == bytes.hi * ByteMod + bytes.lo
Bytes(n) == [lo |-> n % ByteMod, hi |-> (n \div ByteMod) % ByteMod]
Plus(n) == Bytes(Count(msgCnt) + n)

Idle == [newline |-> 0, does |-> Refused]

Init ==
  /\ script \in Scripts
  /\ next = 1 /\ rx = <<>> /\ lost = {}
  /\ readLine = <<>>
  /\ attached = TRUE
  /\ pc = "loop"
  /\ command = Idle
  /\ msgCnt = Bytes(0) /\ reg = Unloaded /\ stored = {}
  /\ sensor = 0
  /\ open = "nobody" /\ glued = {}
  /\ executed = <<>> /\ said = <<>> /\ hit = FALSE
  /\ callbacks = 0 /\ rounds = 0

\* Serial.print("< ")
Begins(who) == glued' = IF open = "nobody" THEN {} ELSE {<<who, open>>}

\* The interrupt of the serial line.
HostSends ==
  /\ ToCome > 0
  /\ Receive(1, 1)
  /\ glued' = {}
  /\ UNCHANGED <<readLine, attached, pc, command, counterVars, sensor, open, executed,
                 boundVars>>

--------------------------------------------------------------------------------
(* The characters of the daemon, with the pin interrupt off for each one.  *)

TakesFrom(buffer) == buffer /= <<>> /\ rx' = Tail(buffer) /\ UNCHANGED <<script, next, lost>>

ReadCharacter ==
  /\ pc = "loop" /\ TakesFrom(rx)
  /\ Head(rx) \notin Newlines
  /\ Len(readLine) + 1 < LineSize
  /\ readLine' = Append(readLine, Head(rx))
  /\ glued' = {}
  /\ UNCHANGED <<attached, pc, command, counterVars, sensor, open, executed, boundVars>>

\* readLine[readCnt] = '\0' is behind its end.  What happens then is not defined.
ReadBeyond ==
  /\ pc = "loop" /\ TakesFrom(rx)
  /\ Head(rx) \notin Newlines
  /\ Len(readLine) + 1 >= LineSize
  /\ pc' = "overrun"
  /\ glued' = {}
  /\ UNCHANGED <<readLine, attached, command, counterVars, sensor, open, executed, boundVars>>

\* Mutant: the pin interrupt stays attached while a command is executed.
ReadNewline_Attached ==
  /\ pc = "loop" /\ TakesFrom(rx)
  /\ Head(rx) \in Newlines
  /\ \E d \in Parsed(readLine, Head(rx)) : command' = [newline |-> Head(rx), does |-> d]
  /\ pc' = "command"
  /\ open' = "nobody" /\ glued' = {}
  /\ UNCHANGED <<readLine, attached, counterVars, sensor, executed, boundVars>>

\* Mutant: the newline stays in the buffer.
ReadNewline_Peeks ==
  /\ pc = "loop" /\ rx /= <<>>
  /\ Head(rx) \in Newlines
  /\ \E d \in Parsed(readLine, Head(rx)) : command' = [newline |-> Head(rx), does |-> d]
  /\ attached' = FALSE
  /\ pc' = "command"
  /\ open' = "nobody" /\ glued' = {}
  /\ UNCHANGED <<serialVars, readLine, counterVars, sensor, executed, boundVars>>

\* The echo of the command, or the error, ends the line.
ReadNewline ==
  /\ pc = "loop" /\ TakesFrom(rx)
  /\ Head(rx) \in Newlines
  /\ \E d \in Parsed(readLine, Head(rx)) : command' = [newline |-> Head(rx), does |-> d]
  /\ attached' = FALSE
  /\ pc' = "command"
  /\ open' = "nobody" /\ glued' = {}
  /\ UNCHANGED <<readLine, counterVars, sensor, executed, boundVars>>

\* "< ", the number, and the answer up to its end
Answer ==
  /\ pc = "command" /\ command.does.answers
  /\ Begins("answer")
  /\ open' = "answer"
  /\ said' = Append(said, Count(msgCnt))
  /\ pc' = "answered"
  /\ UNCHANGED <<serialVars, readLine, attached, command, msgCnt, reg, stored, hit, sensor,
                 executed, boundVars>>

\* The loop has left parseCmd.
Executes(counted) ==
  /\ executed' = Append(executed, command)
  /\ msgCnt' = Plus(counted)
  /\ open' = IF command.does.ends THEN "nobody" ELSE "comment"
  /\ attached' = TRUE
  /\ pc' = "loop" /\ command' = Idle
  /\ glued' = {}
  /\ UNCHANGED <<serialVars, reg, stored, said, hit, sensor, boundVars>>

AtEnd == pc = "answered" \/ (pc = "command" /\ ~command.does.answers)

\* Mutant: readCnt is not set to 0.
EndCommand_KeepsLine == AtEnd /\ Executes(command.does.counts) /\ UNCHANGED readLine

\* Mutant: the answers are not counted.
EndCommand_Uncounted ==
  AtEnd /\ Executes(IF pc = "answered" THEN 0 ELSE command.does.counts) /\ readLine' = <<>>

\* Mutant: the parameters of a command are waited for.
EndCommand_WaitsForMore ==
  AtEnd /\ rx /= <<>> /\ Executes(command.does.counts) /\ readLine' = <<>>

EndCommand == AtEnd /\ Executes(command.does.counts) /\ readLine' = <<>>

--------------------------------------------------------------------------------
(* readSensors: for each sensor a line.  A Dallas sensor has the number    *)
(* incremented where it is printed, the others after the line.             *)

Follows ==
  [dallas |-> [number |-> "store", store |-> "print", print |-> "rest", rest |-> "next"],
   other |-> [number |-> "print", print |-> "rest", rest |-> "plus", plus |-> "store",
              store |-> "next"]]

Kind == Sensors[sensor]

\* The loop goes on behind step at.
GoesOn(at) ==
  LET to == Follows[Kind][at]
  IN  IF to /= "next"
      THEN pc' = to /\ UNCHANGED sensor
      ELSE IF sensor < Len(Sensors)
      THEN pc' = "sensor" /\ sensor' = sensor + 1
      ELSE pc' = "loop" /\ sensor' = 0

\* 63 seconds have passed, and there is no character.
SensorsDue ==
  /\ pc = "loop" /\ rx = <<>>
  /\ Sensors /= <<>> /\ rounds < MaxRounds
  /\ rounds' = rounds + 1
  /\ pc' = "sensor" /\ sensor' = 1
  /\ glued' = {}
  /\ UNCHANGED <<serialVars, readLine, attached, command, counterVars, open, executed,
                 callbacks>>

\* There is none, or it does not answer.
SensorFails ==
  /\ pc = "sensor"
  /\ IF sensor < Len(Sensors)
     THEN pc' = "sensor" /\ sensor' = sensor + 1
     ELSE pc' = "loop" /\ sensor' = 0
  /\ glued' = {}
  /\ UNCHANGED <<serialVars, readLine, attached, command, counterVars, open, executed,
                 boundVars>>

SensorBegins ==
  /\ pc = "sensor"
  /\ Begins("sensor")
  /\ open' = "sensor"
  /\ pc' = "number" /\ reg' = Unloaded
  /\ UNCHANGED <<serialVars, readLine, attached, command, msgCnt, stored, said, hit, sensor,
                 executed, boundVars>>

\* The compiler decides which byte is loaded, and which is stored, first.
LoadByte(b) ==
  /\ pc \in {"number", "plus"} /\ reg[b] = -1
  /\ reg' = [reg EXCEPT ![b] = msgCnt[b]]
  /\ IF \E c \in {"lo", "hi"} \ {b} : reg[c] = -1
     THEN UNCHANGED <<pc, sensor>>
     ELSE GoesOn(pc)
  /\ glued' = {}
  /\ UNCHANGED <<serialVars, readLine, attached, command, msgCnt, stored, said, hit, open,
                 executed, boundVars>>

StoreByte(b) ==
  /\ pc = "store" /\ b \notin stored
  /\ msgCnt' = [msgCnt EXCEPT ![b] = Bytes(Count(reg) + 1)[b]]
  /\ IF stored = {}
     THEN stored' = {b} /\ UNCHANGED <<pc, sensor>>
     ELSE stored' = {} /\ GoesOn(pc)
  /\ glued' = {}
  /\ UNCHANGED <<serialVars, readLine, attached, command, reg, said, hit, open, executed,
                 boundVars>>

PrintNumber ==
  /\ pc = "print"
  /\ said' = Append(said, Count(reg))
  /\ open' = "sensor"
  /\ GoesOn(pc)
  /\ glued' = {}
  /\ UNCHANGED <<serialVars, readLine, attached, command, msgCnt, reg, stored, hit, executed,
                 boundVars>>

\* What was measured, and the end of the line.
PrintRest ==
  /\ pc = "rest"
  /\ open' = "nobody"
  /\ reg' = Unloaded
  /\ GoesOn(pc)
  /\ glued' = {}
  /\ UNCHANGED <<serialVars, readLine, attached, command, msgCnt, stored, said, hit, executed,
                 boundVars>>

--------------------------------------------------------------------------------
(* The callbacks of the receivers.                                         *)

\* The loop has begun to read the number of a line and not yet written the next.
AtNumber ==
  IF sensor = 0 THEN FALSE
  ELSE \/ pc = "number" /\ reg /= Unloaded
       \/ pc = "store"
       \/ Kind = "other" /\ pc \in {"print", "rest", "plus"}

\* No character can be taken while the callback prints.
Callback(m) ==
  /\ attached /\ pc /= "overrun" /\ callbacks < MaxCallbacks
  /\ Receive(m, UartFifo)
  /\ Begins("callback")
  /\ open' = "nobody"
  /\ said' = Append(said, Count(msgCnt))
  /\ msgCnt' = Plus(1)
  /\ hit' = (hit \/ AtNumber)
  /\ callbacks' = callbacks + 1
  /\ UNCHANGED <<readLine, attached, pc, command, reg, stored, sensor, executed, rounds>>

--------------------------------------------------------------------------------
LoopStep ==
  \/ ReadCharacter \/ ReadBeyond \/ ReadNewline \/ Answer \/ EndCommand
  \/ SensorFails \/ SensorBegins \/ PrintNumber \/ PrintRest
  \/ \E b \in {"lo", "hi"} : LoadByte(b) \/ StoreByte(b)

Next ==
  \/ HostSends \/ LoopStep \/ SensorsDue
  \/ \E m \in 0 .. Least(MaxBurst, ToCome) : Callback(m)

\* The processor goes on with the loop between the interrupts.
Fairness == WF_vars(LoopStep)

Spec == Init /\ [][Next]_vars /\ Fairness

--------------------------------------------------------------------------------
(* Properties                                                              *)

ByteOrNot == -1 .. ByteMod - 1

TypeOK ==
  /\ script \in Scripts
  /\ next \in 1 .. Last(Len(script)) + 1
  /\ rx \in Seq(Nat) /\ Len(rx) <= RxSize
  /\ lost \subseteq 1 .. Last(Len(script))
  /\ readLine \in Seq(Nat) /\ Len(readLine) < LineSize
  /\ attached \in BOOLEAN
  /\ pc \in {"loop", "command", "answered", "sensor", "number", "store", "print", "rest",
             "plus", "overrun"}
  /\ command \in [newline : Nat, does : Outcomes]
  /\ msgCnt \in [lo : 0 .. ByteMod - 1, hi : 0 .. ByteMod - 1]
  /\ reg \in [lo : ByteOrNot, hi : ByteOrNot]
  /\ stored \subseteq {"lo", "hi"}
  /\ sensor \in 0 .. Len(Sensors)
  /\ open \in {"nobody", "answer", "sensor", "comment"}
  /\ executed \in Seq([newline : Nat, does : Outcomes])
  /\ said \in Seq(Nat)
  /\ hit \in BOOLEAN
  /\ callbacks \in 0 .. MaxCallbacks /\ rounds \in 0 .. MaxRounds

\* A command is executed as it was sent, unless one of its own characters or the
\* newline before it was lost: whatever happened to the commands before, the loop
\* is in step with the daemon again at the next newline.
ExecutedAsSent ==
  \A i \in DOMAIN executed :
    LET k == CommandOf(executed[i].newline)
    IN  Last(k - 1) .. Last(k) \cap lost = {} => executed[i].does = script[k].does

\* readLine is written beyond its end only after a newline was lost, as long as
\* each command of the daemon fits.
LineFits == pc = "overrun" => Newlines \cap lost /= {}

\* ArduinoGateway.ino:98, "Not unique, as at some time number will wrap": until
\* then no two lines have the same number, unless a callback came between the
\* load of the number of a sensor's line and the store of the next.
NumbersUnique ==
  ~hit => \A i, j \in DOMAIN said : said[i] = said[j] => i = j

\* A line begins in the middle of another only if a callback interrupts the
\* line of a sensor, or behind the comment that does not end its line.
GluedOnlyTo ==
  glued \subseteq {<<"callback", "sensor">>, <<"callback", "comment">>, <<"sensor", "comment">>}

\* A command that has come in is executed in the end, whatever the callbacks do.
AllNewlines == UNION {{s[k].last : k \in DOMAIN s} : s \in Scripts}
EventuallyExecuted ==
  \A c \in AllNewlines :
    (\E i \in DOMAIN rx : rx[i] = c) /\ c \in Newlines
      ~> pc = "overrun" \/ \E i \in DOMAIN executed : executed[i].newline = c

\* The commands are executed in the order of the daemon, each at most once.
Relay == INSTANCE LossyRelay WITH
  count <- Cardinality({c \in Newlines : c < next}),
  underway <- {k \in 1 .. Cardinality({c \in Newlines : c < next}) :
                 \A i \in DOMAIN executed : CommandOf(executed[i].newline) < k},
  arrived <- [i \in DOMAIN executed |-> CommandOf(executed[i].newline)]
ImplementsRelay == Relay!RelaySpec

================================================================================
