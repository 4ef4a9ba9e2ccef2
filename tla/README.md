# TLA+ models of the LamPI 433 MHz gateways

The repository holds the Arduino and ESP8266 side of LamPI: a library that decodes and
sends the on-off-keyed pulse trains of 433 MHz switches and sensors (`libraries/LamPI`),
two gateways that connect it to the LamPI daemon (over TCP, `ESP-Gateway`; over a serial
line, `ArduinoGateway`), and a few stand-alone nodes (`ArduinoRepeater`, `ArduinoSensor`,
`ArduinoPir`, `BatterySensor`, `ESP-sensor`). `ArduinoNode` has two sketches that talk over
an nRF24 radio with acknowledgements. Everything else under `libraries/` and `ArduinoNode/`
is third-party code or its examples.

## Inventory

| part | state | operations | interacts with |
|---|---|---|---|
| `InterruptChain` | per pin: a linked list of callbacks, a mode | `setMode`, `addInterruptCallback`, `enable`, `disable`, the pin's interrupt routine | called by the main program; the interrupt routine calls the receivers' handlers |
| receivers (`wt440`, `auriol`, `kaku`, `livolo`, `kopou`, `quhwa`, `Remote`) | a decoder state, the code being received, the previous code, a repeat counter, edge times | one handler per pin edge, `init`, `enable`, `disable`, `isReceiving` | run inside the interrupt; call the sketch's callback |
| transmitters (same families) | pin, address, period, loop counters in the object | `sendMsg`, `sendUnit`, `sendSignal`, `sendTelegram` ... | called by the main loop (by the interrupt in the repeater) |
| `wifiQueue` | a linked list of items | `addQueue` (interrupt), `processQueue`, `printQueue` (main loop) | callbacks of the ESP gateway, `handleQueue` |
| `ESP-Gateway` | WiFi and host connection, `retries`, `msgCnt`, debug level, sensor timer | `loop`: reconnect, `WifiReceive`, `WifiServer`, `handleQueue`, `readSensors`; seven callbacks | daemon over TCP, queue, receivers, transmitters |
| `ArduinoGateway` | line buffer, `msgCnt`, codec bits, sensor timer | `loop`: read a character, `parseCmd`, `readSensors`; callbacks | daemon over serial, receivers, transmitters |
| `ArduinoRepeater` | one shared wt440 transmitter | `loop` sends own sensors; the callbacks resend what they hear | other nodes over the air |
| nRF24 nodes (`ArduinoNode/nrf24_reliable_datagram_client`, `_server`) with `RHReliableDatagram` and `RH_NRF24` | last id, ids seen, the radio's buffer | `sendtoWait`, `recvfromAck`, `recvfromAckTimeout` | each other, over a radio that sends or listens |
| sensor nodes | timers, last values | read a sensor, send | transmitter |

What makes each part correct, and what is hard about it:

* The **interrupt routine** runs to its end between any two memory accesses of the main
  loop, and shares the queue, the callback chain, the message counter and the connection
  with it. Nothing in the code locks anything. The list must stay a list, items must come
  out in order and once, a chain that is being extended must stay walkable, message numbers
  must increase, and a text for the console that both write must not grow for ever.
* A **receiver** sees an endless sequence of intervals in which frames are cut, disturbed
  and mixed with noise. It must deliver what was sent, nothing else, only after the
  required repetitions, and must never get stuck. Its counters are bytes and shorts and
  its times 16-bit on the AVR.
* All receivers hang on **one pin**. Each hears the telegrams of all remotes and must leave
  those of the others alone; a remote must be understood although the gateway switches the
  interrupt off for every character on its serial line.
* The **ESP gateway loop** keeps a connection that comes and goes while the radio keeps
  delivering. What is lost must be lost for a reason, and the queue must be emptied again
  afterwards.
* The **Arduino gateway** reads commands from a serial line without flow control, while its
  callbacks print with interrupts off. Characters are lost; the loop must find the next
  command again, never run past its line buffer, and keep its lines apart.
* The **repeater** sends from the loop and from the interrupt with one object that keeps
  its loop counters in members. It also hears itself.
* A **reliable datagram** is delivered, or not, whatever is lost, repeated, late or
  restarted; the two boards can wait for each other's acknowledgement.

`PROJECT.json` lists these hazards at their lines, with the properties that watch each.

## Modules

| module | models | composed with |
|---|---|---|
| `LossyFifo` | abstract: what the queue promises | |
| `LossyRelay` | abstract: what a gateway promises about the messages it takes to the other side | |
| `WifiQueue` | `wifiQueue.cpp` | implements `LossyFifo` |
| `InterruptChain` | `InterruptChain.cpp` | |
| `KakuTransmitter`, `KakuReceiver`, `KakuLink` | `kakuTransmitter.cpp` as functions, `kakuReceiver.cpp`, and both with the air between them | each extends the one before |
| `Wt440Transmitter`, `Wt440Receiver`, `Wt440Link` | the same for the WT440H sensor protocol | |
| `LivoloReceiver`, `KopouReceiver`, `QuhwaReceiver`, `AuriolReceiver`, `RemoteReceiver` | the other interrupt handlers | |
| `LivoloTransmitter`, `QuhwaTransmitter`, `RemoteTransmitter` | the other transmitters, as functions (Kopou's is in Livolo's) | |
| `PinReceivers` | the pin of a gateway, and what is printed of a code | instances of the five receivers and of all transmitters |
| `Repeater` | `ArduinoRepeater.ino` | extends `Wt440Receiver` |
| `EspGateway` | `ESP-Gateway.ino` | uses `LossyFifo` as its queue, implements `LossyRelay` |
| `ArduinoGateway` | `ArduinoGateway.ino` | implements `LossyRelay` |
| `ReliableDatagram` | two nRF24 nodes with `RHReliableDatagram` | |
| `...Proofs` | the theorems about a module; those about `Repeater` are in `Wt440LinkProofs` | |
| `MC...` | instances for TLC | |

Two refinements stack: `WifiQueue` implements the queue that `EspGateway` is built on, and
`EspGateway` implements `LossyRelay`. The two gateways implement the same relay in opposite
directions: the ESP gateway takes what its receivers decode to the daemon, the Arduino
gateway takes the commands of the daemon to their execution.

### WifiQueue

A link is named by the arrival number of the item it holds. `head`, `next` and `freed`
are the list and the heap; `pc`, `ql`, `nxt`, `q` the main loop inside `processQueue` or
`printQueue`; `isr`, `walk` the interrupt inside `addQueue`. Every load and store of the
main loop is an action (`LoadHead`, `LoadNext`, `StoreHead`, `CopyItem`, `FreeLink`,
`PrintStart`, `PrintStep`), guarded by the interrupt being idle, because the board has one
core. `MallocFails` is the store through the null pointer that `malloc` returns on a full
heap, and `Reboot` what follows. `waiting`, `output`, `lost` and `mark` are history.
`delQueue` and `setMode` are called from nowhere and left out.

### InterruptChain

One pin (the pins share nothing). `PublishLink` is the first store of `addInterruptCallback`, then
`StoreCallback`, `StoreNext`, `EnableAfterAdd`; `SetMode`, `Enable` and `Disable` are the
other calls; a fresh link holds `Garbage` and
`Dangling`, and an interrupt that meets either ends in `isr = "wild"`, where the
model stops because the program can do anything.

### KakuReceiver and KakuLink

`Edge(g)` is one call of `interruptHandler`, `g` after the edge before it. The handler
looks at the interval *before* the one that just ended (`acc + gap`), so that it can drop
an edge that turns out to come too early (`EdgeTooEarly`) together with the next one
(`EdgeSkipped`). Otherwise exactly one of the disjuncts of `Interpret` applies, one for
each branch of the state machine. `Overrun` is what happens past the last state the code
knows (148 in the code), `NegativeState` what happens when the `short` has wrapped. The
receiver module takes any sequence of intervals; `KakuLink` feeds it what
`KakuTransmitter` makes of commands, splitting intervals by short glitches and adding
noise between presses. `heard`, `lastFrame` and `row` are history.

### Wt440Receiver and Wt440Link

The same composition for the sensor protocol. A 1 is two short intervals and a 0 a long
one, so the level of the pin after a frame depends on the data; `LaterFrameUsec` follows
it. Here the air can also move an edge (`Displace`), up to what the receiver's limits
allow.

### PinReceivers and its receivers

The five receivers have the shape of `KakuReceiver`, but each keeps all its statics in one
record, so that `PinReceivers` can hold five of them. `Edge(g)` of a receiver has one
disjunct for each way through its handler. What differs is what could go wrong: Livolo and
Kopou take the pulses of a bit from fixed limits, Quhwa and Auriol find the start by a long
pulse, and `RemoteReceiver` measures the period at the first sync and filters edges that
come within half of it. The counters of repetitions are bytes and wrap.

An edge goes to all five handlers in one step (`Edge`), as `processInterrupt` calls them.
`Press` puts a telegram on the air, `Glitch` splits an interval, and `Deaf` is what the
gateway misses while it has the interrupt off: some edges, of which the hardware may keep
the last one until the interrupt is on again. `ShowRemote` is the function of the same name
in the sketch, by what it makes of the twelve digits.

### Repeater

`sendMsg` of the loop is modelled by its writes to the pin. Between two of them the loop
only counts, so `GoesOn` takes it from one write to the next with whatever `i`, `pulse` and
`high` of the object are by then. A write that makes an edge runs the handler
(`WriteHeard`); if that completes a code, the callback runs `sendMsg` on the same object to
its end (`WriteInterrupted`), and the loop goes on with the counters it left
(`AfterSendMsg`). One edge stays pending meanwhile. `Neighbour` and `AuriolCalls` are what
other sensors send; a loop that begins to send in the middle of that drowns it (`cut`).
`SensorEdge` and `SensorEdgeCalls` are the edges of a sensor while the loop is waiting; what
comes while a callback sends is missed, and `After` tears the gap in which it returns. The
pulses of an Auriol sensor reset the WT440H decoder.

### ArduinoGateway

The characters of the daemon are numbers, and what a command does is abstracted to whether
it prints a line with the number, how often it counts, and whether it ends its line: the
classes named `List`, `Set`, `Transmit`, `NotFound` and `Refused`. A line that is damaged
behind its first character may be taken for any of them. `HostSends` fills the serial
buffer, which drops what does not fit; a callback (`Callback`) prints with interrupts off,
and of what arrives meanwhile the UART keeps only `UartFifo` characters. Callbacks come
only while the pin interrupt is attached, which the loop switches off around each character
it reads and each command. The number of a sensor line is read and written byte by byte
(`LoadByte`, `StoreByte`), as the AVR does, and `PrintRest` is everything after it on the
line. `ReadBeyond` is the write past the end of `readLine`, where the model stops, in
`pc = "overrun"`. `open` is the line under way on the output.

### ReliableDatagram

`pc` is where a sketch is in the library: `sending` and `repeating` in the loop of
`sendtoWait`, `waiting` in its wait for an acknowledgement, `acking` and `taking` in
`recvfromAck`. `Sent` is one transmission: the other radio hears it or not, and hears
nothing while it is itself sending, or full. A timeout can come whenever the radio's buffer has been looked
through. A restart begins with the ids at 0, with an empty radio. A message carries, as
history, its number among those of its sender and the number of the request it answers;
nothing in the protocol reads them.

### EspGateway

`pc` is the place in `loop`, and `plan` what the function called there has still to do,
one entry for each point at which an interrupt makes a difference (the start and end of a
write, the load and the store of `msgCnt++`, the clearing of `OutString`). Callbacks
(`Interrupt`) can come before any action; each queues what the code's callback queues, counts
as it counts, and calls `printConsole` where the code does with `debug` at its initial value 1
(`Says`). WiFi and host can be lost before any action too, and the board can restart.

Of `OutString` only the length is kept (`text`), for the guard at the head of `printConsole`:
a text that is too long is neither printed nor cleared. `left` says that a pass without WiFi
(`WifiDown`) or a Livolo callback has put something there that it did not print. `serve` is the
place of `WifiServer`: a request to the admin page prints a line or two (`Request`), and the
rest of it goes to the browser. `SensorPlans` is what `readSensors` does for each kind of wired
sensor that is connected, which differ in how often they count.

`hand` is the message `handleQueue` holds in `qi`. `broken` is history: the connection was lost
during this pass of the loop. So are `stamps`, the numbers of the latest two messages at the
daemon that are no debug lines; `behind`, those of the debug lines since then that are lower;
and `wrapped`, whether `msgCnt` has come round.

The queue is `LossyFifo`, with its atomic pop, instead of the linked list; `wifi_queue`
shows that the list implements it.

## Runs

| run | question | instance |
|---|---|---|
| `wifi_queue` | Does the list survive interrupts between any two accesses, a full heap and restarts; which items can be lost; is the list a `LossyFifo`; is every item served or lost in the end? | heap for 4 links, 6 arrivals |
| `wifi_queue_loss` | Violation: the comments of `processQueue` say there is no danger; a pop of the only item loses one appended at that moment. | 3 arrivals |
| `interrupt_chain` | Order of the callbacks; when unwritten memory can be met; does every interrupt end? | 2 callbacks, 4 adds |
| `kaku_receiver` | Any sequence of intervals: calls only after repetitions in a row, no wrap of the counter, what is delivered is what was heard. | 1 bit a field, `ShortMax` 24 |
| `kaku_link` | Presses with glitches and noise: delivered, not too often, and nothing else delivered. | 2 presses of five kinds, 1 glitch, 2 noise edges |
| `wt440_link` | Messages with moved edges, glitches and noise: delivered by the first frame, nothing else delivered. | 2 messages of three, 1 glitch, 1 moved edge, 3 noise edges |
| `wt440_link_repeat` | Violation: of the four frames of a message only the first can be decoded, so one glitch loses it. | 1 message |
| `pin_receivers` | Five receivers on one pin: does one claim what another remote sent, is each press reported as what it was, with a glitch or missed edges anywhere? | 13 telegrams of real width, 7 frames each; a press and one disturbance, or two presses |
| `repeater` | One object under a loop and an interrupt: how much of a message is sent, how often is it echoed, is what is sent on a reading of somebody, does `sendMsg` end? | real widths, 3 messages of one own, one neighbouring and one Auriol sensor |
| `esp_gateway` | Callbacks at every point, losses and restarts: order, uniqueness, reasons for losses, one `WiFi.begin`, increasing numbers, a console that goes on printing, emptying of the queue. | 2 items, 1 loss or restart, 1 command, request or sensor reading |
| `arduino_gateway` | Characters lost at any point: what is executed, when does the line buffer overflow, when do numbers repeat, what is glued to what, is every command that came in executed? | 2 or 3 commands, 2 callbacks, 2 sensors read once |
| `reliable_datagram` | Messages and acknowledgements lost, timeouts at any time, restarts: what an acknowledgement, a delivery and a reply are worth; does `sendtoWait` return? | 3 requests, ids modulo 3, 1 repetition, 1 restart of each board |

What each property says is stated above its definition. The larger ones are conditional,
and the condition is the finding of the model: `SentInFull` tells the messages that the
receiver interrupted from the others, `NumbersUnique` has the exception of a callback
inside the two bytes of a number, `AckedWasDelivered` and `ReplyAnswersRequest` list what a
restart and the wrap of the ids can do, `StampsIncrease` ends where the counter wraps, and
`StaysAudible` excepts the texts that are left unprinted. Each exception was met in a counterexample of the
property without it.

Why the bounds are enough to see the interesting cases:

* `WifiQueue`: the races are between one pop and what happens behind it; six arrivals fill
  the heap, free it and fill it again, around one restart and more.
* `InterruptChain`: four links are two more than the first add that races.
* `KakuReceiver`: with one bit a field every field still has its own states, and every
  bit pattern, stop position and kind of frame occurs. `Gaps` has one interval of each
  class the handler tells apart but a glitch. `ShortMax` 24 lets the state wrap after a
  few edges past the last state (23), which takes 32 thousand in the code. `KakuLink` has
  the real value, the eight frames the sketches send, and real times. There no noise
  follows a dim command and no silence is longer than 30 ms: both cases are among the
  observations below.
* `Wt440Link`: widths of 1 or 2 bits with an odd sum, as the code's 31. That makes the
  number of bits of a frame even and, with the parity bit, every frame end at the same
  level; an even sum would not. The glitches are below, in and just under the limit of a
  half bit; 345 us is nearly the whole margin of a short interval.
* `PinReceivers`: real widths, times, limits and 16-bit arithmetic; seven frames are
  enough for a receiver that needs an untouched run of frames and loses one or two. The addresses and
  units mix zeros and ones, and there is one telegram of each kind and of each branch of
  `ShowRemote`. A second press finds the receivers in every state that a first can leave.
  The glitches are below and above half a period. Five missed edges are more than a bit;
  one missed edge swaps high and low.
* `Repeater`: the callback comes where the first frame of a message is complete, which does
  not depend on the values; the two values of the unassigned constant make frames that end
  at different levels. 67 ms of silence is beyond the 16-bit clock, where the receiver takes
  it for half a bit, and the pauses are `delay(50)` as it is and as it is where the clock
  stands still.
* `EspGateway`: two messages give order and a pair to drop; one loss covers a break at
  every point, and what comes after it is again the initial situation with a different
  queue. `RetryWrap` 2 instead of 50 only shortens the wait. `CountMod` 9 lets the counter
  run through most of what two messages and a task can count, and still wrap in some runs. With all lines of length 1 and room
  below 4, a failed reconnection, a line of the loop and a line of a callback just fit
  together, as they do in the code, and the next one does not. Only the light sensor is connected;
  the others differ from it in what they print and how often they count, which the proofs cover
  for any set of sensors and any number of Dallas sensors.
* `ArduinoGateway`: the receive buffer holds the longest command with its newline and
  overflows in one callback; `readLine` holds any two commands that a lost newline has
  joined, but not all three. Bytes of 2 bits carry from one to the other within a run. With
  three commands there is one before, one hit by and one after a loss.
* `ReliableDatagram`: three requests with ids modulo 3 use every id, and the number 0 that
  a restarted board has seen; one repetition gives late acknowledgements and repeated
  messages; one restart of each board covers both orders.

Deadlock is checked in `esp_gateway` and `kaku_receiver`, which never stop. Elsewhere
`CHECK_DEADLOCK FALSE` stands because the model ends when its bounds are used up or, in
`InterruptChain` and `ArduinoGateway`, after a call or a write through wild memory. That
nothing waits for ever is there a liveness property, where the code loops on its own.

## Fairness

* `WifiQueue`: an interrupt that began ends (it runs to completion on the hardware), a
  board that trapped restarts, and the main loop finishes the call it is in (weak
  fairness). That the loop comes back to `processQueue` is strong fairness of `LoadHead`,
  as interrupts and printing can disable it for a while but `loop` calls it in every pass.
* `InterruptChain`: only that a started interrupt goes on.
* `EspGateway`: `loop` runs on; WiFi returns after a loss, because the SDK associates
  again by itself; a host that is tried again and again is reached at some time (strong
  fairness of `Reconnect`); and `handleQueue`, which runs until the queue is empty, does
  not lose the race of `WifiQueue` for ever (strong fairness of `Pop`). Callbacks, losses,
  commands and restarts are never assumed to happen.
* `ArduinoGateway`: the processor goes on with the loop between interrupts (weak fairness
  of `LoopStep`). Neither characters nor callbacks are assumed to come.
* `Repeater`: the loop goes on with its writes, and an edge that is pending is taken (weak
  fairness of both together).
* `ReliableDatagram`: each board goes on and its clock runs (weak fairness of `Step(n)` for
  each). That a message is ever heard is not assumed: `SendReturns` holds because attempts
  are counted.

The receivers and links are checked for safety only: nothing makes edges come.

## Proofs

All theorems hold for every value of the constants allowed by the named assumptions.

* `WifiQueueProofs` — any heap size and number of arrivals. The inductive invariant says
  that the list from `head` holds exactly the waiting items, each pointing to the next
  younger one, and that every pointer a procedure holds in a local leads to a link of the
  list or to one it has itself unlinked; ages order list, hand and output. The properties
  the run checks do not mention the shape of the list, but no step can be shown to keep
  them without it. `Refinement` shows that every step is a step of `LossyFifo` or stutters.
* `InterruptChainProofs` — any callbacks and number of adds. The chain from a link is the
  registered callbacks in reverse, apart from a head that is not finished yet; a walk has
  called what lies before its current link.
* `KakuLinkProofs` — the receiver first, for any field widths, repeat limit and intervals. The byte that the
  code resets at each sync and for each new code equals the history counter over the
  naturals, because outside state -1 it stays below `MinRepeats` and one more fits.
  `DecodedIsHeard` adds `HeardSoFar`: in every state of a frame the parts heard are the
  transmitter's for the fields filled so far, of the field being filled as many bits as its
  states have passed; `OneMoreBit` shows for each field that the bit just heard is the last
  that the transmitter would have sent of the new value. This rests on lemmas about the two
  recursive functions the transmitter uses, `RightShift` and `FlattenSeq` (`ShiftIs`,
  `FlattenIs`, `NumberPartsNext`). Where they need induction over the naturals, they take
  the least counterexample instead (`Least`), which the library gives without an operator
  parameter.
  The second half is about `KakuLink`, for any sequence of commands and number of frames,
  without glitches and noise (`CleanAir`). That also asks that the times of a frame fit the
  clock and only its last interval is long enough for a sync (`SyncsApart`), and that each
  silence before a press is longer than 12 periods and gives no period for which the start
  of a frame would be filtered out (`Still`): with the sketches' 260 us and 16 bits,
  silences from 3.1 to 34.7 ms, and longer ones modulo 65.5 ms. The times and silences of
  the run are such; one of 40 ms is not, and loses the command (see the observations). The
  inductive invariant `LinkInv` says where the sender is: before the silence (`Before`), in
  it (`Between`), or at the i-th interval of a frame that n frames follow (`Within`). There
  the receiver waits for a sync, or it is exactly as far in that frame, whatever it has
  measured the period by, and has read the command so far (`InStep`, by the lemmas of the
  first half on one more bit). A press finds it waiting, or at the stop pulse of the command
  before. From its second frame on a command that is not delivered yet is in step
  (`Counting`); the end of that frame counts as one repetition at least, and each later one
  adds one, because by then the code before and the flag of a dim level, which nothing
  clears, are the command's own. With `MinRepeats` + 2 frames one delivery is certain
  (`DeliveredOnCleanAir`; the sketches send eight for a `MinRepeats` of 2), and as each
  delivery uses `MinRepeats` frames and a sync, `NotOften` bounds their number. What is
  delivered is always the command of the frame the receiver is in step with
  (`OnlySentOnCleanAir`).
* `PinReceiversProofs` — whatever edges the five handlers get. Here the bytes can wrap; the
  invariant says that a counter is never ahead of the true number of equal frames in a row,
  which is enough for `CallbacksFollowRepeats`.
* `EspGatewayProofs` — any number of messages, losses, restarts and commands. A message in
  hand is always about to be dispatched or at the end of its write (`HandIsHandled`), so
  no other step can touch it; it is older than everything queued (`HandIsOldest`); the
  pass had a connection or lost it (`OnlineOrBroken`); and `retries` is not 0 between
  `WiFi.begin` and the return of WiFi (`BeginsCounted`). From these: `OneBegin`,
  `DropsExplained`, and `GatewayIsRelay`, the refinement of `LossyRelay`.
  `NumbersIncrease` follows the accesses of the loop instead (`StampInv`): until the counter
  wraps, the number of the latest message that is no debug line is at most `msgCnt`, and equal
  to it only while the `msgCnt++` of that message is still to come; that increment loads at
  least the number sent, so its store stays above it although it undoes what callbacks have
  counted meanwhile. A debug line takes its number from `msgCnt`, and no other message is sent
  between that and its write, so it is not behind. `ConsoleAudible` rests on `AudibleInv`: as long as nothing was left
  there, whenever `OutString` is longer than one failed reconnection leaves it, the loop is in
  a `printConsole` that clears it. It asks of the constants that such a remainder, a line of
  the loop and a line of a callback fit together (part of `GatewayAssumption`; in the code
  some 140 of the 152 characters there is room for).
* `ArduinoGatewayProofs` — any commands, buffer sizes, sensors and callbacks. The invariant
  looks at the next character the loop will see, in the buffer or still with the daemon:
  what lies between two characters of the buffer is lost, and `readLine` is what was sent
  of the command so far unless something of it, or the newline before it, is lost. That
  gives `CommandsAsSent`. For `LineFitsCommands`, which assumes that each command of the
  daemon fits (`CommandsFit`), `readLine` begins where a command begins unless a newline is
  lost. `GatewayIsRelay` adds that what is executed lies before the command being read;
  how many commands have been sent is the number of newlines sent, a cardinality that is
  shown to be the place in the script. `LinesKeptWhole` rests on who can have a line open
  at each place of the loop. `NumbersFit` assumes that the counter does not wrap
  (`CountsFit`, which `ArduinoGateway.ino:98` concedes in words): `NumberInv` bounds the
  counter by two per executed command and one per callback and per sensor read, says that
  every number used lies below it, and what of the counter the loop holds in registers
  while it increments it byte by byte.
* `Wt440LinkProofs` — any widths of the fields, messages, noise and glitches, with edges moved
  within the tolerance of the receiver. `InTolerance` is what is asked of the constants (the
  sketches' `MinRepeats` 1; shifts that add up to 349 us at most, which is all that the
  limits leave; a silence before the message that the receiver takes for one); the instance
  of the run meets it, which TLC evaluates. `FirstFrameHeard` says of a message that no
  glitch has hit and that is not delivered yet: what is on the air is the rest of it, and the
  receiver has heard `b` bits and `h` halves of the next one of its first frame (`Heard`), so
  that each field of the code is the top of the field that was sent (`Read`). From it and
  `TypeCorrect` follows `FirstFrame`. It needs one more assumption, about the behaviour: that
  `repeats` stays below 255, for the next equal code makes that byte 0, and is dropped.
  `OnlyThisMessage` is the other half, for glitches anywhere in a message. What is on the air
  is the rest of the message with some intervals in pieces, of which at most one is not too
  short for the receiver (`Pieces`). A piece that is too short, or the edge after a long one,
  sends the receiver back to its start state. It may begin anew at any interval (`Stands`):
  half a bit ahead of the sender's frame, which the two 0s after the first two bits stop; in
  step with it, and then it completes the message; or behind, by five half bits or more once
  it has passed the start bits itself, and then the pause after the frame comes before its
  last bit (`Behind`). That is why an unchecked parity does no harm here. This needs glitches that stay too short with their
  edges moved (`GlitchesShort`: up to 350 us; the run also has one of 699 us, for which the
  property is only model-checked) and that, when nothing is on the air, the receiver is not at
  its last two half bits (`FarFromEnd`): a message would complete what noise has begun. The
  lemmas about `RightShift` and `FlattenSeq` are those of `KakuLinkProofs` over again,
  as the two transmitters have no module in common.
  The second half of the module is about `Repeater`, which is the same transmitter and
  receiver around one object: any widths that fit a byte, messages, repeat limit and times
  of the callbacks. It assumes that each silence before a message resets the receiver
  (`SilencesAreStill`: in 16 bits it is over 2.4 ms, as the 62 s of `loop` are, or it is
  under 0.7 ms); the run has also the 67 ms above, for which the properties are only
  model-checked. The inductive invariant `RepeaterInv` says where a `sendMsg` of the loop is.
  As long as nothing was heard of it (`Unheard`) it is at some bit of a frame, as its
  counters say (`At`), that bit, the parity and all the bits before are right (`Agrees`),
  and the receiver stands where it may (`Follows`, by `Stands` above), so that it can
  complete a frame at the last bit only: there the callback leaves the loop its last frame,
  whole. A message that begins in the middle of a sensor's (`Intrudes`) can be heard at any
  bit. Before the first field or behind the last one the counter `i` does not matter, and
  the loop goes on as before (`HeardEarly`), but for an edge the callback may have swallowed
  (`Swallowed`). In a field it goes on from `i = 0`, wraps, and sends up to 255 bits that are 0
  until `i` is within the field again (`Astray`, `HeardLate`); the receiver, which was
  reset, then stays at least three bits behind the place of the loop, and the message ends
  without another call. That is `EchoAtMostOnce`. Of a sensor the invariant says what is left of
  its message (`Rest`), torn or not, and that the receiver is ready for it (`Ready`).
* `ReliableDatagramProofs` — any number of ids, repetitions, requests and restarts. What is
  on its way to a board, in its hand or in its radio, comes in the order of the numbers, and
  copies of a message have its id; a message that was delivered in this life and could
  still come again has the id last seen. That is `DatagramsInOrder`. While no board has been
  restarted, the id is the number modulo `IdMod`, so that two messages with the same id are
  the same or `IdMod` apart; with what is settled about the numbers between them this gives
  `AcknowledgedIsDelivered`, which excepts no message of the first round. `RepliesAreAnswers` needs only that the client has not been
  restarted.

Type invariants are proved for the queue, the ESP gateway, the KlikAanKlikUit receiver, the
WT440H link, the Arduino gateway and the datagrams. Together with `NoUseAfterFree`, `FirstInFirstOut`,
`Conservation`, `LossIsBounded`, `ReverseOrder`, `WildIsConfined`, `InARow` and
`NoLateRepetition` the theorems above are those listed in `PROJECT.json`.

Only model-checked:

* liveness (`EventuallyServed`, `EventuallyHandled`, `InterruptsEnd`, `EventuallyExecuted`,
  `SendEnds`, `SendReturns`), which is beyond the prover;
* what depends on the actual times of pulses, but for `FirstFrame`, `OnlyThisMessage` and the
  theorems about the repeater and `KakuLink`: `Delivered` and `OnlySent` in `KakuLink` with
  glitches and noise, `Delivered` in `Wt440Link` and `OnlySent` there for a glitch of more than 350 us, `NothingClaimed` and `Reported` in `PinReceivers`, and
  `Repeater` with a silence that the receiver takes for an interval.

## Findings

Each is a violation run; `PROJECT.json` quotes the lines.

1. `wifiQueue.cpp:78`: the pop can cut off an item that an interrupt appends at that moment.
2. `wt440Transmitter.cpp:56`: frames two to four of a message begin without an edge.

Seen while modelling, without a run of their own. Some show up as the exceptions in a
property or as the limits of an instance, which are named here.

* `InterruptChain.cpp:28`: a link is published before it is written, so that an interrupt
  during the second add calls through unwritten memory (`WildOnlyDuringAdd`).
  `InterruptChain.h:45`: `setMode` after the pin is attached has no effect until `enable`.
* `kakuReceiver.cpp:146`: a short interval at the place of the second part of the stop pulse
  of a dim frame leads past the last state; the receiver is deaf for tens of thousands of
  edges (`NoiseAfterDim` in `KakuLink`). `:121`: after a silence over 34 ms the limits are so
  long that a whole command is dropped as glitches (`Idles` in `KakuLink`). `:165`:
  `dimLevelPresent` is set by a dim frame and cleared nowhere, so later plain codes carry it;
  the gateways look at it for dim codes only.
* `kakuTransmitter.cpp:16`: `repeats` 8, which the header allows, sends no frame at all
  (a byte 255 in an `int8_t` counter). All sketches use 3. A group command of an old KaKu
  remote never sends the device.
* `wt440Receiver.cpp`: the parity is computed but never tested (each bit of the constant
  counts as 1, so it would not fit anyway); `wconst` is not part of the comparison of
  codes; the count of equal messages (`:319`) is a byte that is never reset and wraps, so
  that one of 256 is lost; silences (`:127`) are compared in 16 bits.
* `kopouTransmitter.cpp` is a copy of the Livolo transmitter: `livoloReceiver` takes what it
  sends for a Livolo code with half the unit, `kopouReceiver` for nothing.
  `livoloReceiver.cpp:207` and its like count repetitions in a byte that wraps while a key
  is held.
* `RemoteReceiver.cpp:71`: the period measured at a disturbed sync is kept for the telegram.
  `:90` with `ArduinoGateway.ino:153`: after a silence of some 50 ms the period filters out
  every edge of a remote (`FiltersAll`). `showRemoteCode` reports every remote but an Action
  remote as address 0, unit 0, off.
* `ESP-Gateway.ino`: a callback that prints (`:1248`) writes inside a write of the loop,
  though the comment at 882 has results queued to keep the interrupt short; `retries` (`:396`) is
  reset only by a pass that sees WiFi up; the queue (`:428`) has no bound; with debug 2 the
  division at 556 can be by 0; `showRemoteCode` (`:1597`) reports `on` in both branches.
  Debug lines repeat the number of the message they are about (`:831` before `:837`), and of
  each other when the store of a `msgCnt++` undoes what a callback has counted.
* `ESP-Gateway.ino`, the console: `OutString` is shared with the callbacks and kept from pass to
  pass. Each pass without WiFi adds a line to it (`:371-373`), a Livolo callback another
  (`:1496`), and neither is printed. `printConsole` returns from a text of 152 characters or
  more without clearing it (`:1238-1241`), so that after some seven passes without WiFi, about
  four seconds, nothing is printed any more and the text grows until the board restarts. One
  line of the loop that is as long, about a long command or request, has the same effect; that is
  excluded by `LoopLine`. It is the exception in `StaysAudible`; no comment or test says
  otherwise, so that it is no finding above.
* `ArduinoGateway.ino`: numbers repeat when a callback hits a line of the sensors
  (`NumbersUnique`; the comment at 98 names the wrap only); command 2 (`:522`) prints no
  newline, so that the next line is glued to its comment (`GluedOnlyTo`); the wait for the
  serial line in a callback (`:817`) loses characters of the daemon (`ExecutedAsSent`);
  switching a codec off has no effect on what is reported.
* `ArduinoRepeater.ino`: its own message is heard and sent on, with the address as channel,
  and the message it interrupts ends early (`SentInFull`, `EchoedOnce`); `wcode` of a message
  sent on (`:237-243`) is never assigned; a negative Auriol temperature becomes a large one;
  the line for the HTU21D shows the
  message before its values are assigned.
* `RHReliableDatagram.cpp`: a message is acknowledged before it is looked at. After a restart
  of the client its first request can have the id the server has seen: it is acknowledged
  and dropped, and an old reply taken for its own. After a restart of the server a repeated
  message is delivered twice. After 255 lost messages in a row an id comes round again, from
  message 256 on (`AckedWasDelivered`, `ReplyAnswersRequest`, `DeliveredInOrder`).
* `BatterySensor.ino`: the previous value is never stored (`:256`), and the channel (`:249`)
  is not initialised when no sensor has answered. In the sensor sketches more than two
  Dallas sensors share channels, which are cut to 2 bits, and a pressure below 930 hPa wraps.

## Not modelled

* `ArduinoSensor`, `ArduinoPir`, `BatterySensor`, `ESP-sensor`: each is a loop that reads
  sensors and sends, in a straight line and with nothing at the same time. What the first
  three send is in `Wt440Link`; the last makes one HTTP request a value.
* Third-party libraries (ArduinoJson, most of RadioHead, jeelib, lib_RF24, rc-switch,
  OneWire, DallasTemperature and others). They are most of the lines of the repository, are
  developed elsewhere, and the sketches do not use most of them. Of RadioHead the reliable
  datagrams with the nRF24 driver are modelled, as the two sketches use them; broadcasts and
  more than two nodes are not.
* The pages the admin server answers with, and that it can change the debug level, which is 1
  throughout; what it prints on the console is in `EspGateway`. Of log messages there only
  the length.
* `malloc` that returns NULL in `addInterruptCallback` (`InterruptChain.cpp:28`): the sketches
  add their few callbacks in `setup`, when the heap is empty. That of the queue is modelled.
* The guard against a callback that calls the handler again (`_inCallback`,
  `kakuReceiver.cpp:184-188` and its like): no callback of a sketch does.
* In `ReliableDatagram` the time runs out only when the radio's buffer has been looked through,
  and so for a reply. In the code it can run out with a message just arrived
  (`RHReliableDatagram.cpp:72-74`), which then stays in the buffer for the next call.
* Functions without a caller: `delQueue` and `setMode` of the queue, `delInterruptCallback`,
  and `deinit` of the receivers. `isReceiving` is only waited for.

## Plan

What is left, in this order: `Delivered` and `OnlySent` of `KakuLink` with a glitch, along the
lines of `OnlyThisMessage`; that `livoloReceiver`
and `kopouReceiver` claim nothing of each other for every address and unit, by the intervals
alone; the sensor nodes with the repeater between them and the gateway.
