-------------------------------- MODULE Repeater --------------------------------
(***************************************************************************)
(* ArduinoRepeater/ArduinoRepeater.ino: a board that sends the readings of *)
(* its own sensors in the loop, and sends on what its receivers hear in    *)
(* their callbacks, which run in the pin interrupt.  Both use the object   *)
(* wtransmitter, whose sendMsg keeps its counters in members of the        *)
(* object.                                                                 *)
(*                                                                         *)
(* The receiver hears what the loop sends.  It hears nothing of what a     *)
(* callback sends: interrupts are off until the callback returns, and one  *)
(* edge stays pending.  sendMsg is modelled write by write on the pin for  *)
(* the loop, and as a whole for a callback, which nothing interrupts.      *)
(***************************************************************************)
EXTENDS Wt440Receiver

CONSTANTS
  CounterMod,     \* 2^8: i and pulse are bytes
  OwnReadings,    \* the messages of the loop, each with some constant
  Neighbours,     \* the messages of the sensors around
  AuriolReadings, \* codes of Auriol sensors
  Junk,           \* what the constant of a message sent on may be: wcode is
                  \* not assigned
  Silences,       \* the silence before a message
  IsrPauses,      \* how long delay(50) takes in an interrupt, where the clock
                  \* of the board stands still after a while
  LateGaps,       \* the time since the edge before, for an edge that was pending
  MaxMessages     \* bound: on the messages of the loop and the sensors

\* Each width fits the byte i, which counts it down.
RepeaterAssumption ==
  /\ CounterMod \in Nat /\ CounterMod > 16 /\ MaxMessages \in Nat
  /\ {AddressBits, ChannelBits, ConstBits, HumidityBits, TemperatureBits}
       \subseteq 0 .. CounterMod - 1
  /\ OwnReadings \subseteq Messages /\ Neighbours \subseteq Messages
  /\ AuriolReadings \subseteq [address : 0 .. 255, channel : 0 .. 3, temperature : 0 .. 4095]
  /\ Junk \subseteq 0 .. 2 ^ ConstBits - 1
  /\ Silences \subseteq Nat /\ IsrPauses \subseteq Nat /\ LateGaps \subseteq Nat
ASSUME RepeaterAssumption

VARIABLES
  sensorAir,      \* the gaps before the edges of a sensor that are to come
  tx,             \* the members of wtransmitter: i, pulse, high
  pin,            \* the level of the transmitter pin
  since,          \* the time since its last edge
  send,           \* the sendMsg the loop is in
  pending,        \* an edge came while a callback was running
  messages,       \* the messages so far
  sent,           \* of the loop's latest message: its frames, those of them that
                  \* were sent in full, and the callbacks since it began
  cut,            \* the loop began to send in the middle of a sensor's message
  relayed         \* {} or what the callback of this step has sent on

sendVars == <<tx, pin, since, send, sent>>
repeaterVars == <<receiverVars, sensorAir, sendVars, pending, messages, cut, relayed>>

--------------------------------------------------------------------------------
(* sendMsg of the loop.  A bit is one or two calls of sendPulse, and each   *)
(* of these writes the pin twice: a level at once, the other one after the *)
(* pulse.                                                                  *)

Widths == <<AddressBits, ChannelBits, ConstBits, HumidityBits, TemperatureBits>>
Value(m, f) == <<m.address, m.channel, m.wconst, m.humidity, m.temperature>>[f]
Parity == Len(Widths) + 1
StartBits == <<1, 1, 0, 0>>

Idle == [phase |-> "idle"]

\* bitRead(v, i - 1): no bits above the field, which is as the board shifts
BitAt(v, i, f) == IF i \in 1 .. Widths[f] THEN RightShift(v, i - 1) % 2 ELSE 0

\* selectPulse reads the bit and the member high once, and begins.
BeginBit(s, t, f, n, b) ==
  [s EXCEPT !.field = f, !.n = n, !.bit = b, !.half = 0, !.first = ~t.high,
            !.phase = "begin"]

\* The first bit of a frame: par = 0, high = false.  bits is what the frame has to
\* be, good the number of bits sent that are as they have to be.
BeginFrame(m, bits) ==
  [phase |-> "begin", msg |-> m, bits |-> bits, field |-> 0, n |-> 1, bit |-> StartBits[1],
   half |-> 0, first |-> TRUE, par |-> 0, good |-> 0]

\* The loops over the bits of a field: i counts down to 0 in the member.
BeginField(s, t, f) ==
  IF f = Parity
  THEN <<BeginBit(s, t, f, 0, s.par), t>>
  ELSE <<BeginBit([s EXCEPT !.par = (@ + BitAt(Value(s.msg, f), Widths[f], f)) % 2], t, f, 0,
                  BitAt(Value(s.msg, f), Widths[f], f)),
         [t EXCEPT !.i = Widths[f]]>>

Decrement(i) == (i - 1) % CounterMod

\* Mutant: i >= 0 in place of i > 0, which a byte always is.
NextInField_ToZero(s, t) ==
  LET i == Decrement(t.i)
      b == BitAt(Value(s.msg, s.field), i, s.field)
  IN  <<BeginBit([s EXCEPT !.par = (@ + b) % 2], [t EXCEPT !.i = i], s.field, 0, b),
        [t EXCEPT !.i = i]>>

NextInField(s, t) ==
  LET i == Decrement(t.i)
      b == BitAt(Value(s.msg, s.field), i, s.field)
  IN  IF i = 0
      THEN BeginField(s, [t EXCEPT !.i = 0], s.field + 1)
      ELSE <<BeginBit([s EXCEPT !.par = (@ + b) % 2], [t EXCEPT !.i = i], s.field, 0, b),
             [t EXCEPT !.i = i]>>

\* The bit s.bit has been sent, and t are the members now.
NextBit(s, t) ==
  CASE s.field = 0 /\ s.n < Len(StartBits) ->
         <<BeginBit(s, t, 0, s.n + 1, StartBits[s.n + 1]), t>>
    [] s.field = 0 /\ s.n = Len(StartBits) -> BeginField(s, t, 1)
    [] s.field \in DOMAIN Widths -> NextInField(s, t)

\* good after the bit that has just been sent: -1 once a bit differs.
Agreeing(s) ==
  IF s.good \in 0 .. Len(s.bits) - 1 /\ s.bits[s.good + 1] = s.bit THEN s.good + 1 ELSE -1

\* sendPulse has returned in selectPulse: the other half of a 1, or high = !high
\* after a 0, and the next bit.
AfterPulse(s, t) ==
  IF s.bit = 1 /\ s.half = 0
  THEN <<[s EXCEPT !.half = 1, !.first = ~@, !.phase = "begin"], t>>
  ELSE LET u == IF s.bit = 0 THEN [t EXCEPT !.high = ~@] ELSE t
       IN  NextBit([s EXCEPT !.good = Agreeing(s)], u)

\* The parity has been sent: delay(50), and the next frame.
LastPulse(s) ==
  s.phase = "end" /\ s.field = Parity /\ (s.bit = 0 \/ s.half = 1)

Frames == 4
\* Mutant: pulse < 3 in place of pulse <= 3.
FrameSent_OneLess(s, t) ==
  LET pulse == (t.pulse + 1) % CounterMod
  IN  IF pulse < Frames - 1
      THEN <<BeginFrame(s.msg, s.bits), [t EXCEPT !.pulse = pulse, !.high = FALSE]>>
      ELSE <<[s EXCEPT !.phase = "last"], [t EXCEPT !.pulse = pulse]>>

FrameSent(s, t) ==
  LET pulse == (t.pulse + 1) % CounterMod
  IN  IF pulse < Frames
      THEN <<BeginFrame(s.msg, s.bits), [t EXCEPT !.pulse = pulse, !.high = FALSE]>>
      ELSE <<[s EXCEPT !.phase = "last"], [t EXCEPT !.pulse = pulse]>>

\* What is written to the pin next, and the time that passes before.
Level == CASE send.phase = "begin" -> send.first
           [] send.phase = "end" -> ~send.first
           [] send.phase = "last" -> FALSE
Usec == IF send.bit = 1 THEN PULSE1 ELSE PULSE0
Gap == since + (IF send.phase = "end" THEN Usec ELSE 0)

\* The loop goes on from here with the members t, elapsed after the last edge.
Continued(t) ==
  CASE send.phase = "last" -> <<Idle, t>>
    [] send.phase = "begin" -> <<[send EXCEPT !.phase = "end"], t>>
    [] LastPulse(send) -> FrameSent(send, t)
    [] OTHER -> AfterPulse(send, t)

GoesOn(t, elapsed, calls) ==
  /\ \E next \in {Continued(t)} : send' = next[1] /\ tx' = next[2]
  /\ since' = elapsed + (IF LastPulse(send) THEN Pause ELSE 0)
  /\ sent' = [msg |-> sent.msg, calls |-> sent.calls + calls,
              frames |-> sent.frames + (IF LastPulse(send) THEN 1 ELSE 0),
              whole |-> sent.whole
                + (IF LastPulse(send) /\ Agreeing(send) = Len(send.bits)
                   THEN 1 ELSE 0)]

--------------------------------------------------------------------------------
(* The callbacks.                                                          *)

\* Mutant: the humidity and the temperature change places.
Relay_Swapped(c, w) ==
  [address |-> c.address, channel |-> c.address, wconst |-> w,
   humidity |-> c.temperature, temperature |-> c.humidity]

\* showWt440Code: the address is sent as the channel too.
Relay(c, w) ==
  [address |-> c.address, channel |-> c.address, wconst |-> w,
   humidity |-> c.humidity, temperature |-> c.temperature]

\* showAuriolCode: the temperature comes in tenths of a degree.
RelayAuriol(c, w) ==
  [address |-> c.address % 10, channel |-> c.channel, wconst |-> w, humidity |-> 0,
   temperature |-> ((c.temperature * 128) \div 10 + 6400) % WordMod]

Ones(bits) == Len(SelectSeq(bits, LAMBDA b : b = 1))
Zeros(bits) == Len(bits) - Ones(bits)

\* Mutant: the frames are counted down to 0.
AfterSendMsg_CountsDown(m) ==
  [i |-> 0, pulse |-> CounterMod - 1, high |-> Zeros(FrameBits(m)) % 2 = 1]

\* What a whole sendMsg leaves in the members.
AfterSendMsg(m) == [i |-> 0, pulse |-> Frames, high |-> Zeros(FrameBits(m)) % 2 = 1]

CallbackUsec(m, pause) ==
  Frames * (2 * PULSE1 * Ones(FrameBits(m)) + PULSE0 * Zeros(FrameBits(m)) + pause)

\* The time of the first k gaps, for each k.
Elapsed(gaps) ==
  LET sum[k \in 0 .. Len(gaps)] == IF k = 0 THEN 0 ELSE sum[k - 1] + gaps[k]
  IN  sum

\* What is left of the gaps after the edges of time usec have been missed.
After(gaps, usec) ==
  LET elapsed == Elapsed(gaps)
      later == {k \in DOMAIN gaps : elapsed[k] > usec}
      next == CHOOSE k \in later : \A j \in later : k <= j
  IN  IF later = {} THEN <<>>
      ELSE <<elapsed[next] - usec>> \o SubSeq(gaps, next + 1, Len(gaps))

--------------------------------------------------------------------------------
NothingSent == [msg |-> {}, frames |-> 0, whole |-> 0, calls |-> 0]

RepeaterInit ==
  /\ Init
  /\ sensorAir = <<>>
  /\ tx = [i |-> 0, pulse |-> 0, high |-> FALSE]
  /\ pin = FALSE /\ since = 0
  /\ send = Idle /\ pending = FALSE
  /\ messages = 0
  /\ sent = NothingSent
  /\ cut = FALSE
  /\ relayed = {}

Quiet == UNCHANGED receiverVars

\* A sensor begins its message while the loop is in delay(62000).
Neighbour(m, idle) ==
  /\ send = Idle /\ ~pending /\ sensorAir = <<>> /\ messages < MaxMessages
  /\ sensorAir' = MessageUsec(m, idle)
  /\ messages' = messages + 1
  /\ relayed' = {}
  /\ cut' = FALSE
  /\ sent' = NothingSent
  /\ Quiet /\ UNCHANGED <<tx, pin, since, send, pending>>

\* The loop calls sendMsg.  Its signal drowns what a sensor is sending.
LoopSends(m, idle) ==
  /\ send = Idle /\ ~pending /\ messages < MaxMessages
  /\ send' = BeginFrame(m, FrameBits(m))
  /\ tx' = [tx EXCEPT !.pulse = 0, !.high = FALSE]
  /\ since' = IF sensorAir = <<>> THEN idle ELSE Head(sensorAir) \div 2
  /\ cut' = (sensorAir /= <<>>)
  /\ sensorAir' = <<>>
  /\ sent' = [NothingSent EXCEPT !.msg = {m}]
  /\ messages' = messages + 1
  /\ relayed' = {}
  /\ Quiet /\ UNCHANGED <<pin, pending>>

\* digitalWrite of the level the pin has
WriteSame ==
  /\ send /= Idle /\ ~pending
  /\ pin = Level
  /\ GoesOn(tx, Gap, 0)
  /\ relayed' = {}
  /\ Quiet /\ UNCHANGED <<sensorAir, pin, pending, messages, cut>>

\* digitalWrite makes an edge, and the receiver takes it.
WriteHeard ==
  /\ send /= Idle /\ ~pending
  /\ pin /= Level
  /\ Edge(Gap) /\ called' = {}
  /\ pin' = Level
  /\ GoesOn(tx, 0, 0)
  /\ relayed' = {}
  /\ UNCHANGED <<sensorAir, pending, messages, cut>>

\* digitalWrite makes an edge that completes a frame in the receiver: the callback
\* sends with the object the loop is using.
WriteInterrupted ==
  /\ send /= Idle /\ ~pending
  /\ pin /= Level
  /\ Edge(Gap) /\ called' /= {}
  /\ \E c \in called', w \in Junk :
       /\ relayed' = {Relay(c, w)}
       /\ GoesOn(AfterSendMsg(Relay(c, w)), 0, 1)
  /\ pin' = FALSE
  /\ pending' = TRUE
  /\ UNCHANGED <<sensorAir, messages, cut>>

\* An edge of a sensor.
SensorEdge ==
  /\ send = Idle /\ ~pending /\ sensorAir /= <<>>
  /\ Edge(Head(sensorAir)) /\ called' = {}
  /\ sensorAir' = Tail(sensorAir)
  /\ relayed' = {}
  /\ UNCHANGED <<sendVars, pending, messages, cut>>

\* An edge of a sensor that completes a frame: what it sends while the callback
\* is sending is missed.
SensorEdgeCalls ==
  /\ send = Idle /\ ~pending /\ sensorAir /= <<>>
  /\ Edge(Head(sensorAir)) /\ called' /= {}
  /\ \E c \in called', w \in Junk, pause \in IsrPauses :
       /\ relayed' = {Relay(c, w)}
       /\ tx' = AfterSendMsg(Relay(c, w))
       /\ \E usec \in {CallbackUsec(Relay(c, w), pause)} :
            sensorAir' = After(Tail(sensorAir), usec)
  /\ pin' = FALSE /\ since' = 0
  /\ pending' = TRUE
  /\ UNCHANGED <<send, sent, messages, cut>>

\* The callback of auriolReceiver, while the loop is not sending.  The 500 us
\* pulses of an Auriol sensor are too short for wt440Receiver and reset it.
AuriolCalls(c, w) ==
  /\ send = Idle /\ ~pending /\ sensorAir = <<>> /\ messages < MaxMessages
  /\ relayed' = {RelayAuriol(c, w)}
  /\ tx' = AfterSendMsg(RelayAuriol(c, w))
  /\ pin' = FALSE /\ since' = 0
  /\ pending' = TRUE
  /\ messages' = messages + 1
  /\ Reset /\ UNCHANGED <<sensorAir, send, sent, cut>>

\* The edge that was pending when the callback returned.
PendingEdge(g) ==
  /\ pending
  /\ Edge(g)
  /\ pending' = FALSE
  /\ relayed' = {}
  /\ UNCHANGED <<sensorAir, sendVars, messages, cut>>

RepeaterNext ==
  \/ \E m \in Neighbours, idle \in Silences : Neighbour(m, idle)
  \/ \E m \in OwnReadings, idle \in Silences : LoopSends(m, idle)
  \/ WriteSame \/ WriteHeard \/ WriteInterrupted
  \/ SensorEdge \/ SensorEdgeCalls
  \/ \E c \in AuriolReadings, w \in Junk : AuriolCalls(c, w)
  \/ \E g \in LateGaps : PendingEdge(g)

\* The processor goes on: with the loop, and with a pending interrupt.
Fairness ==
  WF_repeaterVars(WriteSame \/ WriteHeard \/ WriteInterrupted \/ \E g \in LateGaps : PendingEdge(g))

RepeaterSpec == RepeaterInit /\ [][RepeaterNext]_repeaterVars /\ Fairness

--------------------------------------------------------------------------------
(* Properties                                                              *)

\* wt440Transmitter.cpp:52, "Retransmit 4 times": a message of the loop is sent in
\* four whole frames, unless the receiver heard it: then the callback takes the
\* object and its counters away, and the message ends with the frame it is in.  But
\* even then it is on the air in full at least once, unless the loop began in the
\* middle of a sensor's message.
SentInFull ==
  send = Idle /\ sent.msg /= {} =>
    /\ sent.calls = 0 => sent.frames = 4 /\ sent.whole = 4
    /\ ~cut => sent.whole >= 1

\* The repeater hears itself, and sends its own message on: but only once, and
\* once more at most if its first bits completed the frame of a sensor.
EchoedOnce == sent.calls <= (IF cut THEN 2 ELSE 1)

\* What is sent on is a reading of somebody, unless the loop began to send in
\* the middle of a sensor's message.
Reading(m) == <<m.address, m.humidity, m.temperature>>
RelayedWasSent ==
  ~cut =>
    {Reading(m) : m \in relayed} \subseteq
      {Reading(m) : m \in Neighbours \cup OwnReadings}
        \cup {Reading(RelayAuriol(c, 0)) : c \in AuriolReadings}

\* sendMsg ends, whatever the callbacks do to the counters of its loops.
SendEnds == send /= Idle ~> send = Idle

================================================================================
