------------------------------- MODULE EspGateway -------------------------------
(***************************************************************************)
(* The main loop of ESP-Gateway/ESP-Gateway.ino and the interrupt          *)
(* callbacks it shares the queue, the message counter and the connection   *)
(* with.  The callbacks decode messages from 433 MHz and put them into the *)
(* sensor queue; the loop keeps up the connection to the daemon, takes the *)
(* messages from the queue and sends them, and sends the values of wired   *)
(* sensors.  The queue is the one LossyFifo describes, which WifiQueue     *)
(* implements.                                                             *)
(*                                                                         *)
(* A pass of the loop goes through the values of pc; what a function it    *)
(* calls has still to do is in plan, one entry for each point where an     *)
(* interrupt matters.  debug has its initial value 1; of the text that is  *)
(* collected for the console the length is kept, because a text that has   *)
(* grown too long is never printed and never cleared.                      *)
(***************************************************************************)
EXTENDS Integers, Sequences

CONSTANTS
  RetryWrap,      \* the value of retries that wraps to 1: 50 in the code
  CountMod,       \* the value at which msgCnt wraps to 0: 2^32 in the code
  TextRoom,       \* the length from which on printConsole prints nothing:
                  \* A_MAXBUFSIZE - 40, which is 152, in the code
  LoopLine,       \* the longest line the loop prints, the longest line a
  CallbackLine,   \* callback prints, and the longest text that one of them
  LeftLine,       \* leaves unprinted: about 65, 40 and 35 in the code
  Sensors,        \* the kinds of wired sensors connected, and how many of the
  MaxDallas,      \* kind that may be several: numberOfDevices in the code
  MaxItems,       \* bound: on the messages decoded, one that is not queued
                  \* counts too
  MaxBreaks,      \* bound: on the losses of WiFi or host and the restarts
  MaxTasks        \* bound: on the commands from the daemon, the requests to
                  \* the admin page and the times readSensors reads

GatewayAssumption ==
  /\ RetryWrap \in 2 .. 254
  /\ CountMod \in Nat /\ CountMod > 3
  /\ {TextRoom, LoopLine, CallbackLine, LeftLine} \subseteq Nat \ {0}
  /\ LeftLine + LoopLine + CallbackLine < TextRoom
  /\ {MaxDallas, MaxItems, MaxBreaks, MaxTasks} \subseteq Nat
ASSUME GatewayAssumption

VARIABLES
  wifi,           \* WiFi.status() == WL_CONNECTED
  host,           \* client.connected()
  retries,        \* retries
  pc,             \* where the loop is
  plan,           \* what is left of the function the loop is in
  hand,           \* {} or the message handleQueue has in qi
  tcnt,           \* the number formatted into the message being sent, or 0
  loaded,         \* msgCnt as read by a msgCnt++ of the loop, or 0
  msgCnt,         \* msgCnt
  wrapped,        \* whether it has wrapped since the board started
  text,           \* the length of OutString, up to TextRoom
  left,           \* whether a pass without WiFi or a Livolo callback left
                  \* some of it there
  items,          \* the messages decoded, by arrival number
  pending,        \* those in the queue
  popped,         \* those taken from the queue, oldest first
  delivered,      \* those at the daemon, oldest first
  stamps,         \* the tcnt of the latest two messages at the daemon that
                  \* are no debug lines
  behind,         \* the tcnt of the debug lines since then that are lower
  begins,         \* calls of WiFi.begin since the loop saw WiFi up
  broken,         \* whether WiFi or host was lost during this pass
  used            \* how much of each bound has been used

connection == <<wifi, host, retries, begins, broken>>
queue == <<items, pending, popped>>
daemon == <<delivered, stamps, behind>>
sending == <<plan, hand, tcnt, loaded>>
counter == <<msgCnt, wrapped>>
console == <<text, left>>
vars == <<connection, pc, sending, counter, console, queue, daemon, used>>

Fifo == INSTANCE LossyFifo WITH count <- Len(items), sent <- popped

\* sensor messages and handset messages, the latter with or without an
\* address up to A_RESERVED_ADDRESS, which LamPI itself sends to
Kinds == {"sensor", "handset", "reserved"}

Bounds == [items : 0 .. MaxItems, breaks : 0 .. MaxBreaks, tasks : 0 .. MaxTasks]

\* The end of setup: WiFi is up, HostConnect has failed or not.  What setup
\* prints is left out.
Init ==
  /\ wifi = TRUE /\ host \in BOOLEAN /\ retries = 0 /\ begins = 0 /\ broken = FALSE
  /\ pc = "wifi" /\ plan = <<>> /\ hand = {} /\ tcnt = 0 /\ loaded = 0
  /\ msgCnt = 1 /\ wrapped = FALSE /\ text = 0 /\ left = FALSE
  /\ items = <<>> /\ pending = {} /\ popped = <<>>
  /\ delivered = <<>> /\ stamps = <<-2, -1>> /\ behind = {}
  /\ used = [items |-> 0, breaks |-> 0, tasks |-> 0]

Spend(bound, max) ==
  /\ used[bound] < max
  /\ used' = [used EXCEPT ![bound] = @ + 1]

Online == wifi /\ host

--------------------------------------------------------------------------------
(* msgCnt and OutString                                                    *)

Wrap(n) == IF n < CountMod THEN n ELSE n - CountMod

CountTo(n) ==
  /\ msgCnt' = Wrap(n)
  /\ wrapped' = (wrapped \/ n >= CountMod)

\* Debug lines with these numbers reach the daemon.
Log(numbers) == behind' = behind \cup {n \in numbers : n < stamps[2]}

\* printConsole with a line added to the text there is: it prints and clears
\* the text, unless that is too long; then it returns and changes nothing.
Fits(length, line) == length + line < TextRoom
Printed(length, line) == IF Fits(length, line) THEN 0 ELSE TextRoom

\* Mutant of Cleared: printConsole does not clear the text.
ClearedNot == UNCHANGED <<text, left>>

Cleared == text' = 0 /\ left' = FALSE

\* Some text is added and not printed.
Add(line) == text' = IF Fits(text, line) THEN text + line ELSE TextRoom
Leave == \E line \in 1 .. LeftLine : Add(line) /\ left' = TRUE

--------------------------------------------------------------------------------
(* The network                                                             *)

WifiLost ==
  /\ wifi
  /\ Spend("breaks", MaxBreaks)
  /\ wifi' = FALSE /\ broken' = TRUE
  /\ UNCHANGED <<host, retries, begins, pc, sending, counter, console, queue, daemon>>

\* The SDK associates again by itself.
WifiFound ==
  /\ ~wifi
  /\ wifi' = TRUE
  /\ UNCHANGED <<host, retries, begins, broken, pc, sending, counter, console,
                 queue, daemon, used>>

HostLost ==
  /\ host
  /\ Spend("breaks", MaxBreaks)
  /\ host' = FALSE /\ broken' = TRUE
  /\ UNCHANGED <<wifi, retries, begins, pc, sending, counter, console, queue, daemon>>

--------------------------------------------------------------------------------
(* The callbacks, called from the interrupt handlers of the receivers      *)

\* addQueue for each of the messages.
Enqueue(new) ==
  /\ items' = items \o new
  /\ pending' = pending \cup {Len(items) + k : k \in DOMAIN new}
  /\ UNCHANGED popped

\* The end of a code: what it adds to the queue.
Decoded(new) ==
  /\ LET some == IF new = <<>> THEN 1 ELSE Len(new)
     IN  /\ used.items + some <= MaxItems
         /\ used' = [used EXCEPT !.items = @ + some]
  /\ Enqueue(new)

\* A callback is counted or not and may print a line before that and one after,
\* which are written to the connection, if there is one, and then counted too.
Says(before, counted, after, l, m) ==
  LET prints1 == before /\ Fits(text, l)
      text1 == IF before THEN Printed(text, l) ELSE text
      prints2 == after /\ Fits(text1, m)
      count1 == msgCnt + (IF prints1 /\ host THEN 1 ELSE 0)
      count2 == count1 + (IF counted THEN 1 ELSE 0)
      count3 == count2 + (IF prints2 /\ host THEN 1 ELSE 0)
      numbers == (IF prints1 THEN {msgCnt} ELSE {}) \cup (IF prints2 THEN {Wrap(count2)} ELSE {})
  IN  /\ text' = IF after THEN Printed(text1, m) ELSE text1
      /\ left' = (left /\ ~prints1 /\ ~prints2)
      /\ CountTo(count3)
      /\ IF Online THEN Log(numbers) ELSE UNCHANGED behind

Callback(new, before, counted, after) ==
  /\ Decoded(new)
  /\ \E l \in 1 .. CallbackLine, m \in 1 .. CallbackLine :
       Says(before, counted, after, l, m)
  /\ UNCHANGED <<connection, pc, sending, delivered, stamps>>

\* showWt440Code: one message or two, or an unknown opcode; showAuriolCode
SensorCallback ==
  \/ Callback(<<"sensor">>, FALSE, TRUE, FALSE)
  \/ Callback(<<"sensor", "sensor">>, FALSE, TRUE, FALSE)
  \/ Callback(<<>>, TRUE, TRUE, FALSE)

\* showKakuCode, which prints when a dim code has no level and, when it has
\* counted, when the group bit is set, and showRemoteCode, which prints when
\* the period is not that of an Action remote
HandsetCallback ==
  \/ \E kind \in {"handset", "reserved"}, nolevel \in BOOLEAN, group \in BOOLEAN :
       Callback(<<kind>>, nolevel, TRUE, group)
  \/ Callback(<<>>, TRUE, TRUE, FALSE)

\* showLivoloCode does not count and leaves its text unprinted.
LivoloCallback ==
  /\ \E kind \in {"handset", "reserved"} : Decoded(<<kind>>)
  /\ Leave
  /\ UNCHANGED <<connection, pc, sending, counter, daemon>>

\* showQuhwaCode does not queue.
QuhwaCallback == Callback(<<>>, FALSE, TRUE, FALSE)

Interrupt == SensorCallback \/ HandsetCallback \/ LivoloCallback \/ QuhwaCallback

--------------------------------------------------------------------------------
(* What the functions called from the loop do, one entry of plan a step    *)

Doing(op) == plan /= <<>> /\ Head(plan) = op
Rest == Tail(plan)
InHand == CHOOSE m \in hand : TRUE

\* client.write ends.  Its return value is not looked at.
WriteEnds ==
  /\ Doing("writing")
  /\ plan' = Rest
  /\ hand' = {}
  /\ IF Online
     THEN /\ delivered' = IF hand = {} THEN delivered ELSE Append(delivered, InHand)
          /\ stamps' = <<stamps[2], tcnt>> /\ behind' = {}
     ELSE UNCHANGED daemon
  /\ tcnt' = 0
  /\ UNCHANGED <<connection, pc, loaded, counter, console, queue, used>>

\* printConsole: a text that is too long stays as it is; another is sent as a
\* message of action debug, when there is a connection, ...
PrintStarts ==
  /\ Doing("print")
  /\ \E line \in 1 .. LoopLine :
       /\ Add(line)
       /\ LET sends == Fits(text, line) /\ host
          IN  /\ plan' = CASE sends -> <<"printing", "count", "clear">> \o Rest
                           [] Fits(text, line) /\ ~host -> <<"clear">> \o Rest
                           [] ~Fits(text, line) -> Rest
              /\ tcnt' = IF sends THEN msgCnt ELSE 0
  /\ UNCHANGED <<connection, pc, hand, loaded, counter, left, queue, daemon, used>>

\* ... written, if its level is 1 and the connection still there ...
PrintEnds ==
  /\ Doing("printing")
  /\ plan' = Rest
  /\ \/ Online /\ Log({tcnt})
     \/ UNCHANGED behind
  /\ tcnt' = 0
  /\ UNCHANGED <<connection, pc, hand, loaded, counter, console, queue, delivered,
                 stamps, used>>

\* ... counted, and cleared.
PrintClears ==
  /\ Doing("clear")
  /\ plan' = Rest
  /\ Cleared
  /\ UNCHANGED <<connection, pc, hand, tcnt, loaded, counter, queue, daemon, used>>

\* msgCnt++, which is a load and a store
CountLoad ==
  /\ Doing("count")
  /\ loaded' = msgCnt
  /\ plan' = <<"store">> \o Rest
  /\ UNCHANGED <<connection, pc, hand, tcnt, counter, console, queue, daemon, used>>

CountStore ==
  /\ Doing("store")
  /\ CountTo(loaded + 1)
  /\ loaded' = 0
  /\ plan' = Rest
  /\ UNCHANGED <<connection, pc, hand, tcnt, console, queue, daemon, used>>

\* SensorTransmit for one value of a wired sensor
Reading ==
  /\ Doing("reading")
  /\ tcnt' = IF host THEN msgCnt ELSE 0
  /\ plan' = (IF host THEN <<"writing", "print", "count">> ELSE <<"print">>) \o Rest
  /\ UNCHANGED <<connection, pc, hand, loaded, counter, console, queue, daemon, used>>

\* Mutant of Dispatch: deviceQueue sends without msgCnt++.
DispatchUncounted ==
  /\ Doing("dispatch")
  /\ LET kind == items[InHand]
         sends == host /\ kind /= "reserved"
     IN  /\ hand' = IF sends THEN hand ELSE {}
         /\ tcnt' = IF sends THEN msgCnt ELSE 0
         /\ plan' = (IF sends THEN <<"writing">> ELSE <<>>) \o Rest
  /\ UNCHANGED <<connection, pc, loaded, counter, console, queue, daemon, used>>

\* sensorQueue and deviceQueue: without a connection the message is dropped,
\* and deviceQueue sends none with a reserved address.
Dispatch ==
  /\ Doing("dispatch")
  /\ LET kind == items[InHand]
         sends == host /\ kind /= "reserved"
     IN  /\ hand' = IF sends THEN hand ELSE {}
         /\ tcnt' = IF sends THEN msgCnt ELSE 0
         /\ plan' = CASE ~sends -> Rest
                      [] sends /\ kind = "sensor" -> <<"writing", "print", "count">> \o Rest
                      [] sends /\ kind /= "sensor" -> <<"writing", "count">> \o Rest
  /\ UNCHANGED <<connection, pc, loaded, counter, console, queue, daemon, used>>

Work ==
  \/ WriteEnds \/ PrintStarts \/ PrintEnds \/ PrintClears
  \/ CountLoad \/ CountStore
  \/ Reading \/ Dispatch

--------------------------------------------------------------------------------
(* loop                                                                    *)

At(place) == pc = place /\ plan = <<>>

\* Mutant of WifiDown: retries does not wrap.
WifiDownNeverWraps ==
  /\ At("wifi") /\ ~wifi
  /\ retries <= RetryWrap
  /\ retries' = retries + 1
  /\ begins' = IF retries = 0 THEN begins + 1 ELSE begins
  /\ broken' = FALSE
  /\ Leave
  /\ UNCHANGED <<wifi, host, pc, sending, counter, queue, daemon, used>>

\* Mutant of WifiDown: retries wraps to 0, and WiFi.begin is called again.
WifiDownWrapsToZero ==
  /\ At("wifi") /\ ~wifi
  /\ IF retries = 0
     THEN retries' = 1 /\ begins' = begins + 1
     ELSE /\ retries' = IF retries = RetryWrap THEN 0 ELSE retries + 1
          /\ UNCHANGED begins
  /\ broken' = FALSE
  /\ Leave
  /\ UNCHANGED <<wifi, host, pc, sending, counter, queue, daemon, used>>

\* WiFi is not connected: the first time, WiFi.begin; then only
\* wait.  Each time, a line is added to the text.
WifiDown ==
  /\ At("wifi") /\ ~wifi
  /\ IF retries = 0
     THEN retries' = 1 /\ begins' = begins + 1
     ELSE /\ retries' = (IF retries = RetryWrap THEN 1 ELSE retries) + 1
          /\ UNCHANGED begins
  /\ broken' = FALSE
  /\ Leave
  /\ UNCHANGED <<wifi, host, pc, sending, counter, queue, daemon, used>>

WifiUp ==
  /\ At("wifi") /\ wifi
  /\ retries' = 0 /\ begins' = 0
  /\ broken' = FALSE
  /\ pc' = "host"
  /\ UNCHANGED <<wifi, host, sending, counter, console, queue, daemon, used>>

HostUp ==
  /\ At("host") /\ host
  /\ pc' = "receive"
  /\ UNCHANGED <<connection, sending, counter, console, queue, daemon, used>>

\* HostReconnect is called after a line is printed.
HostDown ==
  /\ At("host") /\ ~host
  /\ plan' = <<"print">>
  /\ pc' = "connect"
  /\ UNCHANGED <<connection, hand, tcnt, loaded, counter, console, queue, daemon, used>>

\* Mutant of ReconnectFails: the pass goes on without a host.
ReconnectGoesOn ==
  /\ At("connect")
  /\ IF wifi THEN (\E line \in 1 .. LeftLine : Add(line)) ELSE UNCHANGED text
  /\ pc' = "receive"
  /\ UNCHANGED <<connection, sending, counter, left, queue, daemon, used>>

\* HostReconnect succeeds, and a line is printed, or it fails, and leaves a
\* text unprinted if it tried; either way the pass ends.
Reconnect ==
  /\ At("connect")
  /\ wifi
  /\ host' = TRUE
  /\ plan' = <<"print">>
  /\ pc' = "wifi"
  /\ UNCHANGED <<wifi, retries, begins, broken, hand, tcnt, loaded, counter, console,
                 queue, daemon, used>>

ReconnectFails ==
  /\ At("connect")
  /\ IF wifi THEN (\E line \in 1 .. LeftLine : Add(line)) ELSE UNCHANGED text
  /\ pc' = "wifi"
  /\ UNCHANGED <<connection, sending, counter, left, queue, daemon, used>>

\* WifiReceive prints a line or two for a command, which it sends to 433 MHz,
\* or a line when the host is gone meanwhile.
NoCommand ==
  /\ At("receive")
  /\ plan' = IF host THEN <<>> ELSE <<"print">>
  /\ pc' = "serve"
  /\ UNCHANGED <<connection, hand, tcnt, loaded, counter, console, queue, daemon, used>>

Command ==
  /\ At("receive") /\ host
  /\ Spend("tasks", MaxTasks)
  /\ plan' \in {<<"print">>, <<"print", "print">>}
  /\ pc' = "serve"
  /\ UNCHANGED <<connection, hand, tcnt, loaded, counter, console, queue, daemon>>

\* Mutant of NoRequest: the queue is only handled after a request.
NoRequestNoQueue ==
  /\ At("serve")
  /\ pc' = "sensors"
  /\ UNCHANGED <<connection, sending, counter, console, queue, daemon, used>>

\* WifiServer prints a line or two for a request to the admin page.
NoRequest ==
  /\ At("serve")
  /\ pc' = "handle"
  /\ UNCHANGED <<connection, sending, counter, console, queue, daemon, used>>

Request ==
  /\ At("serve")
  /\ Spend("tasks", MaxTasks)
  /\ plan' \in {<<"print">>, <<"print", "print">>}
  /\ pc' = "handle"
  /\ UNCHANGED <<connection, hand, tcnt, loaded, counter, console, queue, daemon>>

\* Mutant of Pop: the message is handled but stays in the queue.
PopKeeps ==
  /\ At("handle")
  /\ \E m \in pending : Fifo!IsOldest(m) /\ hand' = {m} /\ popped' = Append(popped, m)
  /\ plan' = <<"dispatch">>
  /\ UNCHANGED <<connection, pc, tcnt, loaded, counter, console, items, pending,
                 daemon, used>>

\* handleQueue: processQueue as LossyFifo has it, and the message in qi
Pop ==
  /\ At("handle")
  /\ UNCHANGED items
  /\ Fifo!Deliver
  /\ hand' = pending \ pending'
  /\ plan' = <<"dispatch">>
  /\ UNCHANGED <<connection, pc, tcnt, loaded, counter, console, daemon, used>>

PopForgets ==
  /\ At("handle")
  /\ UNCHANGED items
  /\ Fifo!ForgetYounger
  /\ UNCHANGED <<connection, pc, sending, counter, console, daemon, used>>

QueueEmpty ==
  /\ At("handle") /\ pending = {}
  /\ pc' = "sensors"
  /\ UNCHANGED <<connection, sending, counter, console, queue, daemon, used>>

\* readSensors before and after its time has elapsed.  The kinds of sensors
\* are read one after the other, as many as are connected; after the values of
\* one that is not a Dallas sensor the counter is incremented once more.
Values(kind, plans) == IF kind \in Sensors THEN plans ELSE {<<>>}

SensorPlans ==
  { d \o h \o b \o l :
      d \in Values("dallas", {[k \in 1 .. n |-> "reading"] : n \in 0 .. MaxDallas}),
      h \in Values("htu21", {<<"print">>, <<"reading", "reading", "count">>}),
      b \in Values("bmp085", {<<>>, <<"reading", "reading", "count">>}),
      l \in Values("bh1750", {<<>>, <<"reading", "count">>}) }

SensorsWait ==
  /\ At("sensors")
  /\ pc' = "wifi"
  /\ UNCHANGED <<connection, sending, counter, console, queue, daemon, used>>

SensorsRead ==
  /\ At("sensors")
  /\ Spend("tasks", MaxTasks)
  /\ plan' \in SensorPlans
  /\ pc' = "wifi"
  /\ UNCHANGED <<connection, hand, tcnt, loaded, counter, console, queue, daemon>>

Loop ==
  \/ WifiDown \/ WifiUp \/ HostUp \/ HostDown \/ Reconnect \/ ReconnectFails
  \/ NoCommand \/ Command \/ NoRequest \/ Request
  \/ Pop \/ PopForgets \/ QueueEmpty \/ SensorsWait \/ SensorsRead

\* A reset by the watchdog: everything in memory is gone; setup waits for WiFi
\* and tries the host once.
Restart ==
  /\ Spend("breaks", MaxBreaks)
  /\ wifi' = TRUE /\ host' \in BOOLEAN /\ retries' = 0 /\ begins' = 0 /\ broken' = TRUE
  /\ pc' = "wifi" /\ plan' = <<>> /\ hand' = {} /\ tcnt' = 0 /\ loaded' = 0
  /\ msgCnt' = 1 /\ wrapped' = FALSE /\ text' = 0 /\ left' = FALSE
  /\ stamps' = <<-2, -1>> /\ behind' = {}
  /\ UNCHANGED <<items, delivered>>
  /\ Fifo!Restart

Next ==
  \/ WifiLost \/ WifiFound \/ HostLost
  \/ Interrupt \/ Work \/ Loop \/ Restart

Spec == Init /\ [][Next]_vars

\* The loop runs on; WiFi comes back; a host that is tried again and again is
\* reached; processQueue does not lose its race for ever.
Fairness ==
  /\ WF_vars(Work \/ Loop)
  /\ WF_vars(WifiFound)
  /\ SF_vars(Reconnect)
  /\ SF_vars(Pop)

FairSpec == Spec /\ Fairness

--------------------------------------------------------------------------------
(* Properties                                                              *)

Ops == {"writing", "print", "printing", "clear", "count", "store", "reading", "dispatch"}

TypeOK ==
  /\ wifi \in BOOLEAN /\ host \in BOOLEAN /\ broken \in BOOLEAN
  /\ retries \in 0 .. RetryWrap /\ begins \in Nat
  /\ pc \in {"wifi", "host", "connect", "receive", "serve", "handle", "sensors"}
  /\ plan \in Seq(Ops)
  /\ items \in Seq(Kinds) /\ pending \subseteq DOMAIN items /\ hand \subseteq DOMAIN items
  /\ \A m, n \in hand : m = n
  /\ popped \in Seq(Nat) /\ delivered \in Seq(Nat)
  /\ \A k \in DOMAIN delivered : delivered[k] \in DOMAIN items
  /\ msgCnt \in Nat /\ tcnt \in Nat /\ loaded \in Nat
  /\ wrapped \in BOOLEAN /\ text \in 0 .. TextRoom /\ left \in BOOLEAN
  /\ stamps \in Int \X Int /\ behind \subseteq Nat
  /\ used \in Bounds

\* ESP-Gateway.ino:375: WiFi.begin is called once, and then the loop waits,
\* however long it takes.
BeginsOnce == begins <= 1

\* The number of a message at the daemon that is no debug line is above that of
\* the one before, and a debug line has the number of the latest such message
\* or a higher one, although the callbacks increment the counter between any
\* two accesses of the loop.  Debug lines repeat numbers among themselves.  All
\* this lasts until the counter wraps.
StampsIncrease ==
  wrapped \/ (stamps[1] < stamps[2] /\ behind = {})

\* However often the host cannot be reached and whatever callbacks and loop
\* print into each other's lines, no line is ever refused by printConsole and
\* left in OutString: that takes a text that passes without WiFi or Livolo
\* callbacks left unprinted.
StaysAudible ==
  \/ left
  \/ /\ \A line \in 1 .. CallbackLine : Fits(text, line)
     /\ Doing("print") => \A line \in 1 .. LoopLine : Fits(text, line)

\* A message taken from the queue reaches the daemon unless its address is
\* reserved, the board restarts, or the connection broke after this pass of
\* the loop found it up.
DroppedOnlyWhenBroken ==
  [][\A m \in hand \ hand' :
       \/ delivered' = Append(delivered, m)
       \/ items[m] = "reserved"
       \/ broken \/ broken']_vars

\* The daemon gets the messages in the order of decoding and at most once.
Relay == INSTANCE LossyRelay
  WITH count <- Len(items), underway <- pending \cup hand, arrived <- delivered

ImplementsRelay == Relay!RelaySpec

\* The queue is emptied again and again, whatever happened to the network, so
\* that no message stays in it for ever.
EventuallyHandled ==
  []<>(pending = {})

================================================================================
