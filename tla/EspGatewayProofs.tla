---------------------------- MODULE EspGatewayProofs ----------------------------
(***************************************************************************)
(* Proofs about EspGateway: which messages the loop can lose, that the     *)
(* message numbers increase until they wrap, what can silence the console, *)
(* and that the gateway is a LossyRelay, for any number of messages,       *)
(* losses of the connection and commands.                                  *)
(*                                                                         *)
(* The argument turns on the message in hand: whenever there is one, the   *)
(* loop is in handleQueue and about to dispatch it or to end its write, so *)
(* that no other step can touch it, and everything in the queue is         *)
(* younger.  The pass tested the connection before, so that it is there or *)
(* broke later.  The numbers increase because a msgCnt++ follows every     *)
(* message before another takes its number, and what its store forgets     *)
(* was counted by callbacks after it loaded at least the number sent.  The *)
(* console goes on because what is planned clears the text whenever it is  *)
(* longer than what one failed reconnection leaves.                        *)
(***************************************************************************)
EXTENDS EspGateway, TLAPS

\* Between the call of WiFi.begin and the pass that sees WiFi up, retries is
\* not 0 ...
BeginsCounted == begins \in {0, 1} /\ (retries = 0 => begins = 0)

\* ... a message in hand is being dispatched or sent ...
HandIsHandled ==
  hand /= {} =>
    /\ pc = "handle" /\ plan /= <<>>
    /\ Head(plan) \in {"dispatch", "writing"}

\* ... past the tests at its beginning a pass is online, or was when it tested ...
OnlineOrBroken ==
  /\ pc = "host" => wifi \/ broken
  /\ pc \in {"receive", "serve", "handle"} => (wifi /\ host) \/ broken

\* ... and the message in hand is older than those in the queue.
HandIsOldest == \A m \in hand, n \in pending : m < n

--------------------------------------------------------------------------------
(* The parts of the type invariant                                         *)

ConnectionOK ==
  /\ wifi \in BOOLEAN /\ host \in BOOLEAN /\ broken \in BOOLEAN
  /\ retries \in 0 .. RetryWrap /\ begins \in Nat

ControlOK ==
  /\ pc \in {"wifi", "host", "connect", "receive", "serve", "handle", "sensors"}
  /\ plan \in Seq(Ops)
  /\ msgCnt \in Nat /\ tcnt \in Nat /\ loaded \in Nat
  /\ stamps \in Int \X Int
  /\ used \in Bounds

MessagesOK ==
  /\ items \in Seq(Kinds) /\ pending \subseteq DOMAIN items /\ hand \subseteq DOMAIN items
  /\ \A m, n \in hand : m = n
  /\ popped \in Seq(Nat) /\ delivered \in Seq(Nat)
  /\ \A k \in DOMAIN delivered : delivered[k] \in DOMAIN items

\* What the console and the wrap of the counter add to it says nothing of the rest.
ConsoleOK ==
  /\ wrapped \in BOOLEAN /\ text \in 0 .. TextRoom /\ left \in BOOLEAN
  /\ behind \subseteq Nat

CoreOK == ConnectionOK /\ ControlOK /\ MessagesOK

LEMMA TypeParts == TypeOK <=> CoreOK /\ ConsoleOK
  BY Zenon DEF TypeOK, CoreOK, ConnectionOK, ControlOK, MessagesOK, ConsoleOK

IInv ==
  /\ CoreOK
  /\ BeginsCounted /\ HandIsHandled /\ OnlineOrBroken /\ HandIsOldest


LEMMA InitInv == Init => IInv
  <1> SUFFICES ASSUME Init PROVE IInv
    OBVIOUS
  <1>1. ConnectionOK
    <2>1. wifi \in BOOLEAN /\ host \in BOOLEAN /\ broken \in BOOLEAN
      BY Zenon DEF Init
    <2>2. retries \in 0 .. RetryWrap /\ begins \in Nat
      BY GatewayAssumption DEF Init, GatewayAssumption
    <2>3. QED
      BY <2>1, <2>2, Zenon DEF ConnectionOK
  <1>2. ControlOK
    <2>1. plan \in Seq(Ops) /\ stamps \in Int \X Int
      BY DEF Init
    <2>2. used \in Bounds
      BY GatewayAssumption DEF Init, Bounds, GatewayAssumption
    <2>3. QED
      BY <2>1, <2>2 DEF Init, ControlOK
  <1>3. MessagesOK
    <2>1. items \in Seq(Kinds) /\ popped \in Seq(Nat) /\ delivered \in Seq(Nat)
      BY DEF Init
    <2>2. DOMAIN delivered = {}
      BY DEF Init
    <2>3. QED
      BY <2>1, <2>2 DEF Init, MessagesOK
  <1>4. BeginsCounted /\ HandIsHandled /\ OnlineOrBroken /\ HandIsOldest
    BY DEF Init, BeginsCounted, HandIsHandled, OnlineOrBroken, HandIsOldest
  <1>5. QED
    BY <1>1, <1>2, <1>3, <1>4 DEF CoreOK, IInv

--------------------------------------------------------------------------------
(* Facts for many actions                                                  *)

LEMMA SpendType ==
  ASSUME used \in Bounds,
         Spend("breaks", MaxBreaks) \/ Spend("tasks", MaxTasks)
  PROVE  used' \in Bounds
  BY GatewayAssumption DEF Spend, Bounds, GatewayAssumption

LEMMA RestType ==
  ASSUME plan \in Seq(Ops), plan /= <<>>
  PROVE  Rest \in Seq(Ops) /\ Head(plan) \in Ops
  BY DEF Rest

\* Between handleQueue and the end of a write nothing else is planned.
LEMMA HandEmpty ==
  ASSUME IInv, plan = <<>> \/ Head(plan) \notin {"dispatch", "writing"}
  PROVE  hand = {}
  BY Zenon DEF IInv, HandIsHandled

\* A step that leaves the messages alone and nothing in hand.
LEMMA MessagesKept ==
  ASSUME IInv, UNCHANGED queue, UNCHANGED delivered, hand' = {},
         ConnectionOK', ControlOK', BeginsCounted', OnlineOrBroken'
  PROVE  IInv'
  <1>1. MessagesOK'
    <2>1. MessagesOK
      BY DEF CoreOK, IInv
    <2>2. items' = items /\ pending' = pending /\ popped' = popped
      BY DEF queue
    <2>3. QED
      BY <2>1, <2>2 DEF MessagesOK
  <1>2. HandIsHandled' /\ HandIsOldest'
    BY DEF HandIsHandled, HandIsOldest
  <1>3. CoreOK'
    BY <1>1, Zenon DEF CoreOK
  <1>4. QED
    BY <1>2, <1>3 DEF IInv

\* A step that leaves messages and connection alone.
LEMMA ConnectionKept ==
  ASSUME IInv, UNCHANGED <<connection, queue, delivered>>, hand = {}, hand' = {},
         ControlOK', pc' = pc
  PROVE  IInv'
  <1>1. ConnectionOK' /\ BeginsCounted'
    BY DEF CoreOK, IInv, ConnectionOK, BeginsCounted, connection
  <1>2. OnlineOrBroken'
    BY DEF IInv, OnlineOrBroken, connection
  <1>3. QED
    BY <1>1, <1>2, MessagesKept

--------------------------------------------------------------------------------
(* Steps of the network and of the callbacks                               *)

LEMMA NetworkInv ==
  ASSUME IInv, WifiLost \/ WifiFound \/ HostLost
  PROVE  IInv'
  <1>0. ConnectionOK /\ ControlOK /\ MessagesOK
    BY DEF CoreOK, IInv
  <1>1. /\ UNCHANGED <<pc, plan, hand, tcnt, loaded, msgCnt, retries, begins>>
        /\ UNCHANGED <<items, pending, popped, delivered, stamps>>
    BY DEF WifiLost, WifiFound, HostLost, sending, queue, daemon, counter
  <1>2. used' \in Bounds
    BY <1>0, SpendType DEF WifiLost, WifiFound, HostLost, ControlOK
  <1>3. ControlOK' /\ MessagesOK'
    BY <1>0, <1>1, <1>2 DEF ControlOK, MessagesOK
  <1>4. ConnectionOK'
    <2>1. wifi' \in BOOLEAN /\ host' \in BOOLEAN /\ broken' \in BOOLEAN
      BY <1>0, Zenon DEF WifiLost, WifiFound, HostLost, ConnectionOK
    <2>2. QED
      BY <1>0, <1>1, <2>1 DEF ConnectionOK
  <1>5. OnlineOrBroken'
    BY <1>1, Zenon DEF WifiLost, WifiFound, HostLost, OnlineOrBroken, IInv
  <1>6. BeginsCounted' /\ HandIsHandled' /\ HandIsOldest'
    BY <1>1 DEF IInv, BeginsCounted, HandIsHandled, HandIsOldest
  <1>7. CoreOK'
    BY <1>3, <1>4, Zenon DEF CoreOK
  <1>8. QED
    BY <1>5, <1>6, <1>7 DEF IInv

LEMMA LineConstants ==
  /\ TextRoom \in Nat /\ LoopLine \in Nat /\ CallbackLine \in Nat /\ LeftLine \in Nat
  /\ LeftLine + LoopLine + CallbackLine < TextRoom
  BY GatewayAssumption DEF GatewayAssumption

LEMMA WrapType == ASSUME NEW n \in Nat PROVE Wrap(n) \in Nat
  BY GatewayAssumption DEF Wrap, GatewayAssumption

\* What a callback that may print and count does to the counter, which it only
\* moves up, and with which numbers its debug lines reach the daemon ...
LEMMA SaysNumbers ==
  ASSUME msgCnt \in Nat, NEW before \in BOOLEAN, NEW counted \in BOOLEAN,
         NEW after \in BOOLEAN, NEW l \in 1 .. CallbackLine, NEW m \in 1 .. CallbackLine,
         Says(before, counted, after, l, m)
  PROVE  \E n \in Nat :
           /\ n >= msgCnt /\ CountTo(n)
           /\ \A b \in behind' \ behind :
                b \in Nat /\ b < stamps[2] /\ (n < CountMod => b >= msgCnt)
  <1> DEFINE prints1 == before /\ Fits(text, l)
             text1 == IF before THEN Printed(text, l) ELSE text
             prints2 == after /\ Fits(text1, m)
             count1 == msgCnt + (IF prints1 /\ host THEN 1 ELSE 0)
             count2 == count1 + (IF counted THEN 1 ELSE 0)
             count3 == count2 + (IF prints2 /\ host THEN 1 ELSE 0)
             numbers == (IF prints1 THEN {msgCnt} ELSE {})
                          \cup (IF prints2 THEN {Wrap(count2)} ELSE {})
  <1>1. CountTo(count3) /\ (Log(numbers) \/ UNCHANGED behind)
    BY DEF Says
  <1>2. count3 \in Nat /\ count2 \in Nat /\ count3 >= count2 /\ count2 >= msgCnt
    <2> HIDE DEF prints1, prints2
    <2>1. QED
      OBVIOUS
  <1>3. numbers \subseteq {msgCnt, Wrap(count2)}
    OBVIOUS
  <1> HIDE DEF count2, count3, numbers
  <1>4. Wrap(count2) \in Nat /\ (count3 < CountMod => Wrap(count2) = count2)
    BY <1>2, GatewayAssumption, WrapType DEF Wrap, GatewayAssumption
  <1>5. \A b \in behind' \ behind : b \in numbers /\ b < stamps[2]
    BY <1>1 DEF Log
  <1>6. count3 >= msgCnt
    BY <1>2
  <1>7. \A b \in numbers : b \in Nat /\ (count3 < CountMod => b >= msgCnt)
    BY <1>2, <1>3, <1>4
  <1>8. QED
    BY <1>1, <1>2, <1>5, <1>6, <1>7

\* ... and what it does to the text: nothing, or it prints or is refused.
LEMMA SaysText ==
  ASSUME text \in 0 .. TextRoom, left \in BOOLEAN,
         NEW before \in BOOLEAN, NEW counted \in BOOLEAN,
         NEW after \in BOOLEAN, NEW l \in 1 .. CallbackLine, NEW m \in 1 .. CallbackLine,
         Says(before, counted, after, l, m)
  PROVE  /\ text' \in 0 .. TextRoom /\ left' \in BOOLEAN
         /\ left => left' \/ text' = 0
         /\ (\A c \in 1 .. CallbackLine : Fits(text, c) /\ Fits(0, c)) =>
              text' = 0 \/ (text' = text /\ left' = left)
  <1>1. TextRoom \in Nat
    BY GatewayAssumption DEF GatewayAssumption
  <1>2. \A t, c : Printed(t, c) \in {0, TextRoom} /\ (Fits(t, c) => Printed(t, c) = 0)
    BY DEF Printed
  <1> DEFINE prints1 == before /\ Fits(text, l)
             text1 == IF before THEN Printed(text, l) ELSE text
             prints2 == after /\ Fits(text1, m)
  <1>3. /\ text' = IF after THEN Printed(text1, m) ELSE text1
        /\ left' = (left /\ ~prints1 /\ ~prints2)
    BY DEF Says
  <1>4. text' \in 0 .. TextRoom
    BY <1>1, <1>2, <1>3
  <1>5. left' \in BOOLEAN
    BY <1>3, Zenon
  <1>6. ASSUME \A c \in 1 .. CallbackLine : Fits(text, c) /\ Fits(0, c)
        PROVE  text' = 0 \/ (text' = text /\ left' = left)
    <2>1. before => text1 = 0
      BY <1>2, <1>6
    <2>2. after => text' = 0
      <3>1. text1 \in {text, 0}
        BY <1>2, <1>6
      <3>2. Fits(text1, m)
        BY <1>6, <3>1
      <3>3. QED
        BY <1>2, <1>3, <3>2
    <2>3. ~before /\ ~after => text' = text /\ left' = left
      BY <1>3
    <2>4. ~after => text' = text1
      BY <1>3
    <2>5. QED
      BY <2>1, <2>2, <2>3, <2>4
  <1>7. left => left' \/ text' = 0
    <2>1. \A c \in 1 .. CallbackLine : Fits(0, c)
      BY LineConstants DEF Fits
    <2>2. prints1 => text1 = 0
      BY <1>2
    <2>3. prints2 => text' = 0
      BY <1>2, <1>3
    <2>4. prints1 => text' = 0
      BY <1>2, <1>3, <2>1, <2>2
    <2>5. QED
      BY <1>3, <2>3, <2>4
  <1>8. QED
    BY <1>4, <1>5, <1>6, <1>7

\* Every interrupt queues none, one or two messages, and says something or leaves
\* a text.
LEMMA InterruptEffect ==
  ASSUME Interrupt
  PROVE  /\ \E new \in Seq(Kinds) : Decoded(new)
         /\ UNCHANGED <<connection, pc, sending, delivered, stamps>>
         /\ \/ \E before, counted, after \in BOOLEAN,
                  l, m \in 1 .. CallbackLine : Says(before, counted, after, l, m)
            \/ Leave /\ UNCHANGED <<counter, behind>>
  <1>1. <<>> \in Seq(Kinds)
    OBVIOUS
  <1>2. \A kind \in Kinds : <<kind>> \in Seq(Kinds) /\ <<kind, kind>> \in Seq(Kinds)
    OBVIOUS
  <1>3. "sensor" \in Kinds /\ {"handset", "reserved"} \subseteq Kinds
    BY DEF Kinds
  <1>4. CASE LivoloCallback
    BY <1>2, <1>3, <1>4 DEF LivoloCallback, daemon
  <1>5. CASE ~LivoloCallback
    <2>1. \E new \in Seq(Kinds), before, counted, after \in BOOLEAN :
            Callback(new, before, counted, after)
      <3>0. TRUE \in BOOLEAN /\ FALSE \in BOOLEAN
        OBVIOUS
      <3>1. CASE SensorCallback
        BY <1>1, <1>2, <1>3, <3>0, <3>1, Zenon DEF SensorCallback
      <3>2. CASE HandsetCallback
        BY <1>1, <1>2, <1>3, <3>0, <3>2, Zenon DEF HandsetCallback
      <3>3. CASE QuhwaCallback
        BY <1>1, <3>0, <3>3, Zenon DEF QuhwaCallback
      <3>4. QED
        BY <1>5, <3>1, <3>2, <3>3, Zenon DEF Interrupt
    <2>2. QED
      BY <2>1, Zenon DEF Callback
  <1>6. QED
    BY <1>4, <1>5

\* It counts up, or leaves the counter alone.
LEMMA InterruptCounts ==
  ASSUME Interrupt, msgCnt \in Nat
  PROVE  /\ msgCnt' \in Nat
         /\ \/ UNCHANGED <<counter, behind>>
            \/ \E n \in Nat :
                 /\ n >= msgCnt /\ CountTo(n)
                 /\ \A b \in behind' \ behind :
                      b \in Nat /\ b < stamps[2] /\ (n < CountMod => b >= msgCnt)
  <1>1. CASE UNCHANGED <<counter, behind>>
    BY <1>1 DEF counter
  <1>2. CASE \E before, counted, after \in BOOLEAN, l, m \in 1 .. CallbackLine :
               Says(before, counted, after, l, m)
    <2>1. PICK n \in Nat :
            /\ n >= msgCnt /\ CountTo(n)
            /\ \A b \in behind' \ behind :
                 b \in Nat /\ b < stamps[2] /\ (n < CountMod => b >= msgCnt)
      BY <1>2, SaysNumbers, Zenon
    <2>2. msgCnt' \in Nat
      BY <2>1, WrapType DEF CountTo
    <2>3. QED
      BY <2>1, <2>2
  <1>3. QED
    BY <1>1, <1>2, InterruptEffect

\* What a callback queues comes after everything decoded before.
LEMMA EnqueueMessages ==
  ASSUME MessagesOK, NEW new \in Seq(Kinds), Enqueue(new)
  PROVE  /\ items' \in Seq(Kinds) /\ Len(items') = Len(items) + Len(new)
         /\ \A k \in DOMAIN items : k \in DOMAIN items' /\ items'[k] = items[k]
         /\ pending' = pending \cup (Len(items) + 1 .. Len(items'))
         /\ pending' \subseteq DOMAIN items'
  <1>1. items' = items \o new /\ items \in Seq(Kinds)
    BY DEF Enqueue, MessagesOK
  <1>2. /\ items' \in Seq(Kinds) /\ Len(items') = Len(items) + Len(new)
        /\ \A k \in DOMAIN items : k \in DOMAIN items' /\ items'[k] = items[k]
    BY <1>1
  <1>3. {Len(items) + k : k \in DOMAIN new} = Len(items) + 1 .. Len(items')
    <2>1. Len(items) \in Nat /\ Len(new) \in Nat /\ DOMAIN new = 1 .. Len(new)
      BY <1>1
    <2>2. ASSUME NEW n \in Len(items) + 1 .. Len(items')
          PROVE  \E k \in DOMAIN new : n = Len(items) + k
      <3>1. n - Len(items) \in 1 .. Len(new) /\ n = Len(items) + (n - Len(items))
        BY <2>1, <1>2
      <3>2. QED
        BY <3>1, <2>1
    <2>3. ASSUME NEW k \in DOMAIN new
          PROVE  Len(items) + k \in Len(items) + 1 .. Len(items')
      BY <2>1, <1>2
    <2>4. QED
      BY <2>2, <2>3
  <1>4. pending' = pending \cup (Len(items) + 1 .. Len(items'))
    BY <1>3 DEF Enqueue
  <1>5. pending' \subseteq DOMAIN items'
    BY <1>1, <1>2, <1>4 DEF MessagesOK
  <1>6. QED
    BY <1>2, <1>4, <1>5

LEMMA InterruptInv ==
  ASSUME IInv, Interrupt
  PROVE  IInv'
  <1>0. ConnectionOK /\ ControlOK /\ MessagesOK
    BY DEF CoreOK, IInv
  <1>00. PICK new \in Seq(Kinds) : Decoded(new)
    BY InterruptEffect
  <1>1. /\ UNCHANGED <<pc, plan, hand, tcnt, loaded, popped, delivered, stamps>>
        /\ UNCHANGED connection /\ Enqueue(new) /\ msgCnt' \in Nat
    BY <1>0, <1>00, InterruptEffect, InterruptCounts DEF ControlOK, Decoded, Enqueue, sending
  <1>2. /\ items' \in Seq(Kinds)
        /\ \A k \in DOMAIN items : k \in DOMAIN items' /\ items'[k] = items[k]
        /\ pending' = pending \cup (Len(items) + 1 .. Len(items'))
        /\ pending' \subseteq DOMAIN items'
    BY <1>0, <1>1, EnqueueMessages
  <1>3. used' \in Bounds
    <2>1. PICK some \in Nat : /\ used.items + some <= MaxItems
                             /\ used' = [used EXCEPT !.items = used.items + some]
      BY <1>00 DEF Decoded
    <2>2. used \in Bounds /\ MaxItems \in Nat
      BY <1>0, GatewayAssumption DEF ControlOK, GatewayAssumption
    <2>3. used.items + some \in 0 .. MaxItems
      BY <2>1, <2>2 DEF Bounds
    <2>4. QED
      BY <2>1, <2>2, <2>3 DEF Bounds
  <1>4. ControlOK' /\ ConnectionOK'
    BY <1>0, <1>1, <1>3 DEF ControlOK, ConnectionOK, connection
  <1>5. MessagesOK'
    BY <1>0, <1>1, <1>2 DEF MessagesOK
  <1>6. BeginsCounted' /\ OnlineOrBroken'
    BY <1>1 DEF IInv, BeginsCounted, OnlineOrBroken, connection
  <1>7. HandIsHandled'
    BY <1>1 DEF IInv, HandIsHandled
  <1>8. HandIsOldest'
    <2>1. \A m \in hand, n \in Len(items) + 1 .. Len(items') : m < n
      BY <1>0 DEF MessagesOK
    <2>2. QED
      BY <1>1, <1>2, <2>1 DEF IInv, HandIsOldest
  <1>9. CoreOK'
    BY <1>4, <1>5, Zenon DEF CoreOK
  <1>10. QED
    BY <1>6, <1>7, <1>8, <1>9 DEF IInv

--------------------------------------------------------------------------------
(* Steps of the functions the loop calls                                   *)

\* Printing, counting and reading a sensor leave hand empty.
LEMMA OtherWorkInv ==
  ASSUME IInv,
         PrintStarts \/ PrintEnds \/ PrintClears \/ CountLoad \/ CountStore \/ Reading
  PROVE  IInv'
  <1>0. ControlOK
    BY DEF CoreOK, IInv
  <1>1. /\ UNCHANGED <<pc, hand, connection, queue, delivered, stamps, used>>
        /\ plan /= <<>> /\ Head(plan) \notin {"dispatch", "writing"}
    BY DEF PrintStarts, PrintEnds, PrintClears, CountLoad, CountStore, Reading, Doing, daemon
  <1>2. hand = {} /\ hand' = {}
    BY <1>1, HandEmpty
  <1>3. Rest \in Seq(Ops)
    BY <1>0, <1>1, RestType DEF ControlOK
  <1>4. \A op \in Ops : <<op>> \o Rest \in Seq(Ops)
    BY <1>3
  <1>5. /\ <<"printing", "count", "clear">> \in Seq(Ops) /\ <<"clear">> \in Seq(Ops)
        /\ <<"writing", "print", "count">> \in Seq(Ops) /\ <<"print">> \in Seq(Ops)
        /\ "store" \in Ops
    BY DEF Ops
  <1>6. \A s \in Seq(Ops) : s \o Rest \in Seq(Ops)
    BY <1>3
  <1>7. plan' \in Seq(Ops)
    <2>1. CASE PrintStarts
      BY <1>3, <1>5, <1>6, <2>1 DEF PrintStarts
    <2>2. CASE PrintEnds \/ PrintClears \/ CountLoad \/ CountStore \/ Reading
      BY <1>3, <1>4, <1>5, <1>6, <2>2, Zenon
         DEF PrintEnds, PrintClears, CountLoad, CountStore, Reading
    <2>3. QED
      BY <2>1, <2>2
  <1>8. msgCnt' \in Nat /\ tcnt' \in Nat /\ loaded' \in Nat
    <2>1. loaded + 1 \in Nat
      BY <1>0 DEF ControlOK
    <2>2. msgCnt' \in Nat
      BY <1>0, <2>1, WrapType
         DEF PrintStarts, PrintEnds, PrintClears, CountLoad, CountStore, Reading, ControlOK,
             counter, CountTo
    <2>3. tcnt' \in Nat /\ loaded' \in Nat
      BY <1>0
         DEF PrintStarts, PrintEnds, PrintClears, CountLoad, CountStore, Reading, ControlOK
    <2>4. QED
      BY <2>2, <2>3
  <1>9. ControlOK'
    BY <1>0, <1>1, <1>7, <1>8 DEF ControlOK
  <1>10. QED
    BY <1>1, <1>2, <1>9, ConnectionKept

\* The end of a write, with or without a message from the queue.
LEMMA WriteEndsInv ==
  ASSUME IInv, WriteEnds
  PROVE  IInv'
  <1>0. ConnectionOK /\ ControlOK /\ MessagesOK
    BY DEF CoreOK, IInv
  <1>1. /\ UNCHANGED <<pc, connection, loaded, msgCnt, items, pending, popped, used>>
        /\ hand' = {} /\ plan' = Rest /\ tcnt' = 0
        /\ plan /= <<>> /\ Head(plan) = "writing"
    BY DEF WriteEnds, Doing, queue, counter
  <1>2. plan' \in Seq(Ops)
    BY <1>0, <1>1, RestType DEF ControlOK
  <1>3. stamps' \in Int \X Int
    BY <1>0 DEF WriteEnds, daemon, ControlOK
  <1>4. ControlOK' /\ ConnectionOK'
    BY <1>0, <1>1, <1>2, <1>3 DEF ControlOK, ConnectionOK, connection
  <1>5. BeginsCounted' /\ OnlineOrBroken'
    BY <1>1 DEF IInv, BeginsCounted, OnlineOrBroken, connection
  <1>6. HandIsHandled' /\ HandIsOldest'
    BY <1>1 DEF HandIsHandled, HandIsOldest
  <1>7. \/ delivered' = delivered
        \/ InHand \in hand /\ delivered' = Append(delivered, InHand)
    BY DEF WriteEnds, daemon, InHand
  <1>8. /\ delivered' \in Seq(Nat)
        /\ \A k \in DOMAIN delivered' : delivered'[k] \in DOMAIN items
    <2>1. CASE delivered' = delivered
      BY <1>0, <2>1 DEF MessagesOK
    <2>2. CASE InHand \in hand /\ delivered' = Append(delivered, InHand)
      <3>1. InHand \in DOMAIN items /\ InHand \in Nat
        BY <1>0, <2>2 DEF MessagesOK
      <3>2. /\ delivered' \in Seq(Nat) /\ Len(delivered') = Len(delivered) + 1
            /\ \A k \in 1 .. Len(delivered) : delivered'[k] = delivered[k]
            /\ delivered'[Len(delivered) + 1] = InHand
        BY <1>0, <2>2, <3>1 DEF MessagesOK
      <3>3. ASSUME NEW k \in DOMAIN delivered'
            PROVE  \/ k \in DOMAIN delivered /\ delivered'[k] = delivered[k]
                   \/ delivered'[k] = InHand
        <4>1. /\ Len(delivered) \in Nat /\ DOMAIN delivered = 1 .. Len(delivered)
              /\ DOMAIN delivered' = 1 .. Len(delivered')
          BY <1>0, <3>2 DEF MessagesOK
        <4>2. k \in 1 .. Len(delivered) \/ k = Len(delivered) + 1
          BY <3>2, <4>1
        <4>3. QED
          BY <3>2, <4>1, <4>2
      <3>4. QED
        BY <1>0, <3>1, <3>2, <3>3 DEF MessagesOK
    <2>3. QED
      BY <1>7, <2>1, <2>2
  <1>9. MessagesOK'
    BY <1>0, <1>1, <1>8 DEF MessagesOK
  <1>10. CoreOK'
    BY <1>4, <1>9, Zenon DEF CoreOK
  <1>11. QED
    BY <1>5, <1>6, <1>9, <1>10 DEF IInv

\* sensorQueue and deviceQueue keep the message, to write it, or drop it.
LEMMA DispatchInv ==
  ASSUME IInv, Dispatch
  PROVE  IInv'
  <1> DEFINE kind == items[InHand]
             sends == host /\ kind /= "reserved"
  <1>0. ConnectionOK /\ ControlOK /\ MessagesOK
    BY DEF CoreOK, IInv
  <1>1. /\ UNCHANGED <<pc, connection, loaded, msgCnt, items, pending, popped>>
        /\ UNCHANGED <<delivered, stamps, used>>
        /\ tcnt' \in {msgCnt, 0}
        /\ plan /= <<>> /\ Head(plan) = "dispatch"
    BY DEF Dispatch, Doing, queue, daemon, counter
  <1>2. Rest \in Seq(Ops)
    BY <1>0, <1>1, RestType DEF ControlOK
  <1>3. /\ hand' = IF sends THEN hand ELSE {}
        /\ ~sends => plan' = Rest
        /\ sends => \/ plan' = <<"writing", "print", "count">> \o Rest
                    \/ plan' = <<"writing", "count">> \o Rest
    BY DEF Dispatch
  <1>4. plan' \in Seq(Ops) /\ (sends => plan' /= <<>> /\ Head(plan') = "writing")
    <2>1. {"writing", "print", "count"} \subseteq Ops
      BY DEF Ops
    <2>2. <<"writing", "print", "count">> \in Seq(Ops) /\ <<"writing", "count">> \in Seq(Ops)
      BY <2>1
    <2>3. ASSUME NEW s \in Seq(Ops), s /= <<>>, Head(s) = "writing"
          PROVE  s \o Rest \in Seq(Ops) /\ s \o Rest /= <<>> /\ Head(s \o Rest) = "writing"
      BY <1>2, <2>3
    <2>4. /\ <<"writing", "print", "count">> /= <<>> /\ <<"writing", "count">> /= <<>>
          /\ Head(<<"writing", "print", "count">>) = "writing"
          /\ Head(<<"writing", "count">>) = "writing"
      OBVIOUS
    <2>5. QED
      BY <1>2, <1>3, <2>2, <2>3, <2>4
  <1>5. ControlOK' /\ ConnectionOK'
    BY <1>0, <1>1, <1>4 DEF ControlOK, ConnectionOK, connection
  <1>6. (hand' = hand /\ sends) \/ hand' = {}
    BY <1>3
  <1>7. MessagesOK' /\ HandIsOldest'
    BY <1>0, <1>1, <1>6 DEF IInv, MessagesOK, HandIsOldest
  <1>8. BeginsCounted' /\ OnlineOrBroken'
    BY <1>1 DEF IInv, BeginsCounted, OnlineOrBroken, connection
  <1>9. HandIsHandled'
    <2>1. CASE hand' = {}
      BY <2>1 DEF HandIsHandled
    <2>2. CASE hand' = hand /\ sends /\ hand /= {}
      <3>1. pc' = "handle" /\ plan' /= <<>> /\ Head(plan') = "writing"
        BY <1>1, <1>4, <2>2 DEF IInv, HandIsHandled
      <3>2. QED
        BY <3>1 DEF HandIsHandled
    <2>3. QED
      BY <1>6, <2>1, <2>2
  <1>10. CoreOK'
    BY <1>5, <1>7, Zenon DEF CoreOK
  <1>11. QED
    BY <1>7, <1>8, <1>9, <1>10 DEF IInv

--------------------------------------------------------------------------------
(* Steps of the loop                                                       *)

\* A step of the loop starts with nothing planned, hence nothing in hand.
LEMMA LoopIdle == ASSUME IInv, Loop PROVE plan = <<>> /\ hand = {}
  <1>1. plan = <<>>
    BY DEF Loop, At, WifiDown, WifiUp, HostUp, HostDown, Reconnect, ReconnectFails,
       NoCommand, Command, NoRequest, Request, Pop, PopForgets, QueueEmpty, SensorsWait,
       SensorsRead
  <1>2. QED
    BY <1>1, HandEmpty

\* A round of the sensors only reads, prints and counts.
LEMMA SensorPlansType == SensorPlans \subseteq Seq({"print", "reading", "count"})
  <1> DEFINE S == Seq({"print", "reading", "count"})
  <1>1. /\ <<"print">> \in S /\ <<>> \in S
        /\ <<"reading", "count">> \in S /\ <<"reading", "reading", "count">> \in S
    OBVIOUS
  <1>2. ASSUME NEW p \in {[k \in 1 .. n |-> "reading"] : n \in 0 .. MaxDallas} PROVE p \in S
    BY GatewayAssumption DEF GatewayAssumption
  <1>3. \A s, t \in S : s \o t \in S
    OBVIOUS
  <1> HIDE DEF S
  <1>4. SUFFICES ASSUME NEW p \in SensorPlans PROVE p \in S
    BY DEF S
  <1> DEFINE D == {[k \in 1 .. n |-> "reading"] : n \in 0 .. MaxDallas}
             VD == Values("dallas", D)
             VH == Values("htu21", {<<"print">>, <<"reading", "reading", "count">>})
             VB == Values("bmp085", {<<>>, <<"reading", "reading", "count">>})
             VL == Values("bh1750", {<<>>, <<"reading", "count">>})
  <1>5. SensorPlans = {d \o h \o b \o l : d \in VD, h \in VH, b \in VB, l \in VL}
    BY DEF SensorPlans
  <1>6. \A d \in VD : d \in S
    <2>1. \A p1 \in D : p1 \in S
      BY <1>2
    <2> HIDE DEF D
    <2>2. QED
      BY <1>1, <2>1 DEF Values
  <1>7. /\ \A h \in VH : h \in S
        /\ \A b \in VB : b \in S
        /\ \A l \in VL : l \in S
    BY <1>1 DEF Values
  <1> HIDE DEF VD, VH, VB, VL
  <1>8. PICK d \in VD, h \in VH, b \in VB, l \in VL : p = d \o h \o b \o l
    BY <1>5
  <1>9. QED
    BY <1>3, <1>6, <1>7, <1>8

\* The tests at the beginning of a pass.
LEMMA TestsInv ==
  ASSUME IInv, WifiDown \/ WifiUp \/ HostUp \/ HostDown \/ Reconnect \/ ReconnectFails
  PROVE  IInv'
  <1>0. ConnectionOK /\ ControlOK
    BY DEF CoreOK, IInv
  <1>1. hand = {}
    BY LoopIdle DEF Loop
  <1>2. UNCHANGED <<hand, queue, delivered, tcnt, loaded, msgCnt, stamps, used>>
    BY DEF WifiDown, WifiUp, HostUp, HostDown, Reconnect, ReconnectFails, sending, daemon, counter
  <1>3. ControlOK'
    <2>1. <<"print">> \in Seq(Ops)
      BY DEF Ops
    <2>2. plan' \in Seq(Ops)
      BY <1>0, <2>1
         DEF WifiDown, WifiUp, HostUp, HostDown, Reconnect, ReconnectFails, sending, ControlOK
    <2>3. pc' \in {"wifi", "host", "connect", "receive", "serve", "handle", "sensors"}
      BY <1>0 DEF WifiDown, WifiUp, HostUp, HostDown, Reconnect, ReconnectFails, ControlOK
    <2>4. QED
      BY <1>0, <1>2, <2>2, <2>3 DEF ControlOK
  <1>4. retries' \in 0 .. RetryWrap /\ begins' \in Nat /\ BeginsCounted'
    <2>1. CASE WifiDown
      BY <1>0, <2>1, GatewayAssumption
         DEF WifiDown, IInv, BeginsCounted, ConnectionOK, GatewayAssumption
    <2>2. CASE ~WifiDown
      BY <1>0, <2>2, GatewayAssumption
         DEF WifiUp, HostUp, HostDown, Reconnect, ReconnectFails, connection, IInv, BeginsCounted,
             ConnectionOK, GatewayAssumption
    <2>3. QED
      BY <2>1, <2>2
  <1>5. ConnectionOK'
    <2>1. wifi' \in BOOLEAN /\ host' \in BOOLEAN /\ broken' \in BOOLEAN
      BY <1>0, Zenon
         DEF WifiDown, WifiUp, HostUp, HostDown, Reconnect, ReconnectFails, connection, ConnectionOK
    <2>2. QED
      BY <1>4, <2>1 DEF ConnectionOK
  <1>6. OnlineOrBroken'
    BY DEF WifiDown, WifiUp, HostUp, HostDown, Reconnect, ReconnectFails, At, connection, IInv,
       OnlineOrBroken
  <1>7. QED
    BY <1>1, <1>2, <1>3, <1>4, <1>5, <1>6, MessagesKept

\* The rest of the pass, except for the queue.
LEMMA PassInv ==
  ASSUME IInv, \/ NoCommand \/ Command \/ NoRequest \/ Request
               \/ QueueEmpty \/ SensorsWait \/ SensorsRead
  PROVE  IInv'
  <1> USE DEF NoCommand, Command, NoRequest, Request, QueueEmpty, SensorsWait, SensorsRead
  <1>0. ConnectionOK /\ ControlOK
    BY DEF CoreOK, IInv
  <1>1. hand = {}
    BY LoopIdle DEF Loop
  <1>2. UNCHANGED <<connection, hand, queue, delivered, tcnt, loaded, msgCnt, stamps>>
    BY DEF sending, daemon, counter
  <1>3. used' \in Bounds
    BY <1>0, SpendType DEF ControlOK
  <1>4. plan' \in Seq(Ops)
    <2>1. <<"print">> \in Seq(Ops) /\ <<"print", "print">> \in Seq(Ops) /\ <<>> \in Seq(Ops)
      BY DEF Ops
    <2>2. \/ plan' = plan \/ plan' = <<>>
          \/ plan' \in {<<"print">>, <<"print", "print">>}
          \/ plan' \in SensorPlans
      BY DEF sending
    <2>3. Seq({"print", "reading", "count"}) \subseteq Seq(Ops)
      BY DEF Ops
    <2>4. QED
      BY <1>0, <2>1, <2>2, <2>3, SensorPlansType DEF ControlOK
  <1>5. /\ pc' \in {"serve", "handle", "sensors", "wifi"}
        /\ pc' \in {"serve", "handle"} => pc \in {"receive", "serve"}
    BY DEF At
  <1>6. ControlOK'
    BY <1>0, <1>2, <1>3, <1>4, <1>5 DEF ControlOK
  <1>7. ConnectionOK' /\ BeginsCounted'
    BY <1>0, <1>2 DEF ConnectionOK, IInv, BeginsCounted, connection
  <1>8. OnlineOrBroken'
    BY <1>2, <1>5 DEF IInv, OnlineOrBroken, connection
  <1>9. QED
    BY <1>1, <1>2, <1>6, <1>7, <1>8, MessagesKept

\* What the two outcomes of processQueue do to the queue.
LEMMA PopEffect ==
  ASSUME IInv, Pop
  PROVE  \E m \in pending :
           /\ \A n \in pending : m <= n
           /\ hand' = {m} /\ pending' = pending \ {m} /\ popped' = Append(popped, m)
  <1>1. PICK m \in pending :
          /\ \A n \in pending : m <= n
          /\ popped' = Append(popped, m)
          /\ pending' = pending \ {m}
    BY DEF Pop, Fifo!Deliver, Fifo!IsOldest
  <1>2. hand' = {m}
    BY <1>1 DEF Pop
  <1>3. QED
    BY <1>1, <1>2

LEMMA PopInv ==
  ASSUME IInv, Pop \/ PopForgets
  PROVE  IInv'
  <1>0. ConnectionOK /\ ControlOK /\ MessagesOK
    BY DEF CoreOK, IInv
  <1>1. /\ hand = {} /\ pc = "handle"
        /\ UNCHANGED <<connection, pc, tcnt, loaded, msgCnt, items, delivered, stamps, used>>
    BY LoopIdle DEF Loop, Pop, PopForgets, At, sending, daemon, counter
  <1>2. BeginsCounted' /\ OnlineOrBroken' /\ ConnectionOK'
    BY <1>0, <1>1 DEF IInv, BeginsCounted, OnlineOrBroken, ConnectionOK, connection
  <1>3. CASE Pop
    <2>1. PICK m \in pending :
            /\ \A n \in pending : m <= n
            /\ hand' = {m} /\ pending' = pending \ {m} /\ popped' = Append(popped, m)
      BY <1>3, PopEffect
    <2>2. plan' = <<"dispatch">>
      BY <1>3 DEF Pop
    <2>3. plan' \in Seq(Ops) /\ plan' /= <<>> /\ Head(plan') = "dispatch"
      BY <2>2 DEF Ops
    <2>4. ControlOK'
      BY <1>0, <1>1, <2>3 DEF ControlOK
    <2>5. pending \subseteq Nat /\ m \in Nat /\ popped' \in Seq(Nat)
      BY <1>0, <2>1 DEF MessagesOK
    <2>6. MessagesOK'
      BY <1>0, <1>1, <2>1, <2>5 DEF MessagesOK
    <2>7. HandIsHandled'
      BY <1>1, <2>3 DEF HandIsHandled
    <2>8. HandIsOldest'
      BY <2>1, <2>5 DEF HandIsOldest
    <2>9. CoreOK'
      BY <1>2, <2>4, <2>6, Zenon DEF CoreOK
    <2>10. QED
      BY <1>2, <2>7, <2>8, <2>9 DEF IInv
  <1>4. CASE PopForgets
    <2>1. /\ UNCHANGED <<plan, hand, popped>>
          /\ pending' \subseteq pending
      BY <1>4 DEF PopForgets, Fifo!ForgetYounger, Fifo!IsOldest, sending
    <2>2. ControlOK' /\ MessagesOK'
      BY <1>0, <1>1, <2>1 DEF ControlOK, MessagesOK
    <2>3. HandIsHandled' /\ HandIsOldest'
      BY <1>1, <2>1 DEF HandIsHandled, HandIsOldest
    <2>4. CoreOK'
      BY <1>2, <2>2, Zenon DEF CoreOK
    <2>5. QED
      BY <1>2, <2>3, <2>4 DEF IInv
  <1>5. QED
    BY <1>3, <1>4

LEMMA RestartInv ==
  ASSUME IInv, Restart
  PROVE  IInv'
  <1>0. ConnectionOK /\ ControlOK /\ MessagesOK
    BY DEF CoreOK, IInv
  <1>1. /\ retries' = 0 /\ begins' = 0 /\ pc' = "wifi"
        /\ plan' = <<>> /\ hand' = {} /\ pending' = {}
        /\ tcnt' = 0 /\ loaded' = 0 /\ msgCnt' = 1 /\ stamps' = <<-2, -1>>
        /\ UNCHANGED <<items, popped, delivered>>
    BY DEF Restart, Fifo!Restart
  <1>2. used' \in Bounds
    BY <1>0, SpendType DEF Restart, ControlOK
  <1>3. plan' \in Seq(Ops) /\ stamps' \in Int \X Int
    BY <1>1
  <1>4. ControlOK' /\ MessagesOK'
    BY <1>0, <1>1, <1>2, <1>3 DEF ControlOK, MessagesOK
  <1>5. wifi' \in BOOLEAN /\ host' \in BOOLEAN /\ broken' \in BOOLEAN
    BY Zenon DEF Restart
  <1>6. ConnectionOK' /\ BeginsCounted' /\ OnlineOrBroken'
    BY <1>1, <1>5, GatewayAssumption
       DEF ConnectionOK, BeginsCounted, OnlineOrBroken, GatewayAssumption
  <1>7. HandIsHandled' /\ HandIsOldest'
    BY <1>1 DEF IInv, HandIsHandled, HandIsOldest
  <1>8. CoreOK'
    BY <1>4, <1>6, Zenon DEF CoreOK
  <1>9. QED
    BY <1>6, <1>7, <1>8 DEF IInv

LEMMA NextInv == ASSUME IInv, [Next]_vars PROVE IInv'
  <1>1. CASE WifiLost \/ WifiFound \/ HostLost
    BY <1>1, NetworkInv
  <1>2. CASE Interrupt
    BY <1>2, InterruptInv
  <1>3. CASE Work
    BY <1>3, WriteEndsInv, DispatchInv, OtherWorkInv DEF Work
  <1>4. CASE Loop
    BY <1>4, TestsInv, PassInv, PopInv DEF Loop
  <1>5. CASE Restart
    BY <1>5, RestartInv
  <1>6. CASE UNCHANGED vars
    BY <1>6 DEF vars, connection, sending, counter, queue, daemon, IInv, CoreOK,
       ConnectionOK, ControlOK, MessagesOK, BeginsCounted, HandIsHandled, OnlineOrBroken,
       HandIsOldest
  <1>7. QED
    BY <1>1, <1>2, <1>3, <1>4, <1>5, <1>6 DEF Next

LEMMA GatewayInvariant == Spec => []IInv
  BY InitInv, NextInv, PTL DEF Spec

--------------------------------------------------------------------------------
(* The numbers of the messages                                             *)

Output == {"print", "printing", "clear"}

\* Nothing but output comes before the next msgCnt++.
CountsFirst(s) ==
  \E k \in DOMAIN s : /\ s[k] \in {"count", "store"}
                      /\ \A j \in 1 .. k - 1 : s[j] \in Output

\* A write and the store of a msgCnt++ are only ever the next thing to do.
Started == {"writing", "printing", "store"}
StartedFirst == \A k \in DOMAIN plan : plan[k] \in Started => k = 1

\* Until the counter wraps, the daemon has seen no number above msgCnt, and msgCnt
\* itself only while the msgCnt++ that belongs to that message is still to come ...
StampBelow == stamps[2] <= msgCnt /\ (stamps[2] = msgCnt => CountsFirst(plan))

\* ... that msgCnt++ loads at least the number sent, so that its store, which
\* undoes what callbacks have counted meanwhile, stays above it ...
StampLoaded == plan /= <<>> /\ Head(plan) = "store" => stamps[2] <= loaded

\* ... the number being sent is new, and its msgCnt++ comes next ...
StampInHand ==
  plan /= <<>> /\ Head(plan) = "writing" =>
    CountsFirst(Rest) /\ stamps[2] < tcnt /\ tcnt <= msgCnt

\* ... and that of a debug line is no lower than the latest one sent.
StampPrinted == plan /= <<>> /\ Head(plan) = "printing" => stamps[2] <= tcnt

StampOrder ==
  /\ StampBelow /\ StampLoaded /\ StampInHand /\ StampPrinted
  /\ stamps[1] < stamps[2] /\ behind = {}

StampInv == StartedFirst /\ (wrapped \/ StampOrder)

LEMMA InitStamps == Init => StampInv
  <1> SUFFICES ASSUME Init PROVE StampInv
    OBVIOUS
  <1>1. plan = <<>> /\ stamps = <<-2, -1>> /\ msgCnt = 1 /\ behind = {}
    BY DEF Init
  <1>2. QED
    BY <1>1 DEF StampInv, StampOrder, StartedFirst, StampBelow, StampLoaded, StampInHand,
       StampPrinted

\* A counter that has not wrapped has just been counted up.
LEMMA CountedUp ==
  ASSUME NEW n \in Nat, CountTo(n), ~wrapped'
  PROVE  ~wrapped /\ n < CountMod /\ msgCnt' = n
  <1>1. ~wrapped /\ ~(n >= CountMod) /\ msgCnt' = Wrap(n)
    BY Zenon DEF CountTo
  <1>2. n < CountMod
    BY <1>1, GatewayAssumption DEF GatewayAssumption
  <1>3. QED
    BY <1>1, <1>2 DEF Wrap

\* What precedes the next msgCnt++, when something is put in front of a plan.
LEMMA CountsFirstHead ==
  ASSUME NEW s \in Seq(Ops), s /= <<>>, Head(s) \in {"count", "store"}
  PROVE  CountsFirst(s)
  <1>1. 1 \in DOMAIN s /\ s[1] \in {"count", "store"}
    OBVIOUS
  <1>2. \A j \in 1 .. 1 - 1 : s[j] \in Output
    OBVIOUS
  <1>3. QED
    BY <1>1, <1>2 DEF CountsFirst

LEMMA CountsFirstTail ==
  ASSUME NEW s \in Seq(Ops), s /= <<>>, CountsFirst(s),
         Head(s) \notin {"count", "store"}
  PROVE  Head(s) \in Output /\ CountsFirst(Tail(s))
  <1>1. PICK k \in DOMAIN s : /\ s[k] \in {"count", "store"}
                              /\ \A j \in 1 .. k - 1 : s[j] \in Output
    BY DEF CountsFirst
  <1>2. k \in 2 .. Len(s) /\ 1 \in 1 .. k - 1
    BY <1>1
  <1>3. /\ k - 1 \in DOMAIN Tail(s)
        /\ \A j \in DOMAIN Tail(s) : Tail(s)[j] = s[j + 1]
    BY <1>2
  <1>4. Tail(s)[k - 1] \in {"count", "store"}
    BY <1>1, <1>2, <1>3
  <1>5. ASSUME NEW j \in 1 .. (k - 1) - 1
        PROVE  Tail(s)[j] \in Output
    <2>1. j \in DOMAIN Tail(s) /\ j + 1 \in 1 .. k - 1
      BY <1>2, <1>3
    <2>2. QED
      BY <1>1, <1>3, <2>1
  <1>6. QED
    BY <1>1, <1>2, <1>3, <1>4, <1>5 DEF CountsFirst

LEMMA CountsFirstPrint ==
  ASSUME NEW r \in Seq(Ops), CountsFirst(r), NEW op \in Output
  PROVE  CountsFirst(<<op>> \o r)
  <1> DEFINE s == <<op>> \o r
  <1>1. PICK k \in DOMAIN r : /\ r[k] \in {"count", "store"}
                              /\ \A j \in 1 .. k - 1 : r[j] \in Output
    BY DEF CountsFirst
  <1>2. /\ s[1] = op /\ Len(s) = Len(r) + 1
        /\ \A j \in DOMAIN r : s[j + 1] = r[j]
        /\ s \in Seq(Ops \cup {op})
    OBVIOUS
  <1>3. k + 1 \in DOMAIN s /\ s[k + 1] \in {"count", "store"}
    BY <1>1, <1>2
  <1>4. ASSUME NEW j \in 1 .. (k + 1) - 1
        PROVE  s[j] \in Output
    <2>1. CASE j = 1
      BY <1>2, <2>1
    <2>2. CASE j /= 1
      <3>1. j - 1 \in 1 .. k - 1 /\ j - 1 \in DOMAIN r /\ j = (j - 1) + 1
        BY <1>1, <2>2
      <3>2. QED
        BY <1>1, <1>2, <3>1
    <2>3. QED
      BY <2>1, <2>2
  <1>5. QED
    BY <1>3, <1>4 DEF CountsFirst

\* The rest of a plan holds no write and no store.
LEMMA RestNotStarted ==
  ASSUME StartedFirst, plan \in Seq(Ops), plan /= <<>>
  PROVE  \A k \in DOMAIN Rest : Rest[k] \notin Started
  <1>1. ASSUME NEW k \in DOMAIN Rest PROVE Rest[k] \notin Started
    <2>1. k + 1 \in DOMAIN plan /\ Rest[k] = plan[k + 1] /\ k + 1 /= 1
      BY DEF Rest
    <2>2. QED
      BY <2>1 DEF StartedFirst
  <1>2. QED
    BY <1>1

\* Callbacks and the network leave the plan alone, and the callbacks only count up.
LEMMA OthersStamps ==
  ASSUME IInv, StampInv, WifiLost \/ WifiFound \/ HostLost \/ Interrupt
  PROVE  StampInv'
  <1>0. ControlOK
    BY DEF IInv, CoreOK
  <1>1. UNCHANGED <<plan, tcnt, loaded, stamps>>
    <2>1. CASE WifiLost \/ WifiFound \/ HostLost
      BY <2>1 DEF WifiLost, WifiFound, HostLost, sending, daemon
    <2>2. CASE Interrupt
      BY <2>2, InterruptEffect DEF sending
    <2>3. QED
      BY <2>1, <2>2
  <1>2. StartedFirst'
    BY <1>1 DEF StampInv, StartedFirst
  <1>3. SUFFICES ASSUME ~wrapped' PROVE StampOrder'
    BY <1>2 DEF StampInv
  <1>4. ~wrapped /\ msgCnt <= msgCnt' /\ msgCnt' \in Nat
        /\ \A b \in behind' \ behind : b \in Nat /\ b < stamps[2] /\ b >= msgCnt
    <2>1. CASE WifiLost \/ WifiFound \/ HostLost
      BY <1>0, <1>3, <2>1 DEF WifiLost, WifiFound, HostLost, ControlOK, counter, daemon
    <2>2. CASE Interrupt
      <3>1. CASE UNCHANGED <<counter, behind>>
        BY <1>0, <1>3, <3>1 DEF counter, ControlOK
      <3>2. ASSUME NEW n \in Nat, n >= msgCnt, CountTo(n),
                   \A b \in behind' \ behind :
                     b \in Nat /\ b < stamps[2] /\ (n < CountMod => b >= msgCnt)
            PROVE  /\ ~wrapped /\ msgCnt <= msgCnt' /\ msgCnt' \in Nat
                   /\ \A b \in behind' \ behind : b \in Nat /\ b < stamps[2] /\ b >= msgCnt
        BY <1>3, <3>2, CountedUp
      <3>3. QED
        BY <1>0, <2>2, <3>1, <3>2, InterruptCounts DEF ControlOK
    <2>3. QED
      BY <2>1, <2>2
  <1>5. StampOrder
    BY <1>4 DEF StampInv
  <1>6. CountsFirst(plan)' <=> CountsFirst(plan)
    BY <1>1 DEF CountsFirst
  <1>7. CountsFirst(Rest)' <=> CountsFirst(Rest)
    BY <1>1 DEF CountsFirst, Rest
  <1>8. StampBelow'
    BY <1>0, <1>1, <1>4, <1>5, <1>6 DEF StampOrder, StampBelow, ControlOK
  <1>9. StampInHand'
    BY <1>0, <1>1, <1>4, <1>5, <1>7 DEF StampOrder, StampInHand, ControlOK
  <1>10. StampLoaded' /\ StampPrinted' /\ (stamps[1] < stamps[2])'
    BY <1>1, <1>5 DEF StampOrder, StampLoaded, StampPrinted
  <1>11. behind' = {}
    BY <1>0, <1>4, <1>5 DEF StampOrder, StampBelow, ControlOK
  <1>12. QED
    BY <1>8, <1>9, <1>10, <1>11 DEF StampOrder

\* A step of the loop finds every number counted, and starts neither write nor store.
LEMMA LoopStamps ==
  ASSUME IInv, StampInv, Loop
  PROVE  StampInv'
  <1>0. ControlOK
    BY DEF IInv, CoreOK
  <1>1. plan = <<>>
    BY LoopIdle
  <1>2. UNCHANGED <<tcnt, loaded, counter, stamps, behind>>
    BY DEF Loop, WifiDown, WifiUp, HostUp, HostDown, Reconnect, ReconnectFails, NoCommand,
       Command, NoRequest, Request, Pop, PopForgets, QueueEmpty, SensorsWait, SensorsRead,
       sending, daemon
  <1>3. \/ plan' \in {<<>>, <<"print">>, <<"print", "print">>, <<"dispatch">>}
        \/ plan' \in SensorPlans
    BY <1>1
       DEF Loop, WifiDown, WifiUp, HostUp, HostDown, Reconnect, ReconnectFails, NoCommand,
           Command, NoRequest, Request, Pop, PopForgets, QueueEmpty, SensorsWait,
           SensorsRead, sending
  <1>4. plan' \in Seq({"print", "dispatch", "reading", "count"})
    <2> DEFINE S == Seq({"print", "dispatch", "reading", "count"})
    <2>1. \A s \in Seq({"print", "reading", "count"}) : s \in S
      OBVIOUS
    <2>2. <<>> \in S /\ <<"print">> \in S /\ <<"print", "print">> \in S /\ <<"dispatch">> \in S
      OBVIOUS
    <2> HIDE DEF S
    <2>3. plan' \in S
      BY <1>3, <2>1, <2>2, SensorPlansType
    <2>4. QED
      BY <2>3 DEF S
  <1>5. StartedFirst'
    BY <1>4 DEF StartedFirst, Started
  <1>6. plan' /= <<>> => Head(plan') \notin Started
    BY <1>4 DEF Started
  <1>7. SUFFICES ASSUME ~wrapped' PROVE StampOrder'
    BY <1>5 DEF StampInv
  <1>8. StampOrder
    BY <1>2, <1>7 DEF StampInv, counter
  <1>9. stamps[2] < msgCnt
    <2>1. ~CountsFirst(plan)
      BY <1>1 DEF CountsFirst
    <2>2. QED
      BY <1>0, <1>8, <2>1 DEF StampOrder, StampBelow, ControlOK
  <1>10. StampBelow'
    BY <1>0, <1>2, <1>9 DEF StampBelow, ControlOK, counter
  <1>11. StampLoaded' /\ StampInHand' /\ StampPrinted'
    BY <1>6 DEF StampLoaded, StampInHand, StampPrinted, Started
  <1>12. QED
    BY <1>2, <1>8, <1>10, <1>11 DEF StampOrder

\* The end of a write, at which the daemon may see the number.
LEMMA WriteEndsStamps ==
  ASSUME IInv, StampInv, WriteEnds
  PROVE  StampInv'
  <1>0. ControlOK
    BY DEF IInv, CoreOK
  <1>1. /\ plan /= <<>> /\ Head(plan) = "writing" /\ plan' = Rest
        /\ UNCHANGED <<loaded, counter>>
        /\ \/ UNCHANGED <<stamps, behind>>
           \/ stamps' = <<stamps[2], tcnt>> /\ behind' = {}
    BY DEF WriteEnds, Doing, daemon
  <1>2. \A k \in DOMAIN Rest : Rest[k] \notin Started
    BY <1>0, <1>1, RestNotStarted DEF ControlOK, StampInv
  <1>3. StartedFirst'
    BY <1>1, <1>2 DEF StartedFirst
  <1>4. plan' /= <<>> => Head(plan') \notin Started
    <2>1. plan' \in Seq(Ops)
      BY <1>0, <1>1, RestType DEF ControlOK
    <2>2. QED
      BY <1>1, <1>2, <2>1
  <1>5. SUFFICES ASSUME ~wrapped' PROVE StampOrder'
    BY <1>3 DEF StampInv
  <1>6. StampOrder
    BY <1>1, <1>5 DEF StampInv, counter
  <1>7. CountsFirst(Rest) /\ stamps[2] < tcnt /\ tcnt <= msgCnt
    BY <1>1, <1>6 DEF StampOrder, StampInHand
  <1>8. StampBelow'
    BY <1>0, <1>1, <1>7 DEF StampBelow, ControlOK, counter
  <1>9. (stamps[1] < stamps[2])' /\ behind' = {}
    BY <1>0, <1>1, <1>6, <1>7 DEF StampOrder, ControlOK
  <1>10. StampLoaded' /\ StampInHand' /\ StampPrinted'
    BY <1>4 DEF StampLoaded, StampInHand, StampPrinted, Started
  <1>11. QED
    BY <1>8, <1>9, <1>10 DEF StampOrder

\* What is put in front of a plan in which nothing has started.
LEMMA QuietHead ==
  ASSUME NEW r \in Seq(Ops), \A k \in DOMAIN r : r[k] \notin Started, NEW op \in Ops
  PROVE  LET s == <<op>> \o r
         IN  /\ s \in Seq(Ops) /\ s /= <<>> /\ Head(s) = op /\ Tail(s) = r
             /\ \A k \in DOMAIN s : s[k] \in Started => k = 1
             /\ op \notin Started => \A k \in DOMAIN s : s[k] \notin Started
  <1> DEFINE s == <<op>> \o r
  <1>1. /\ s \in Seq(Ops) /\ s /= <<>> /\ Head(s) = op /\ s[1] = op /\ Tail(s) = r
        /\ \A k \in DOMAIN s \ {1} : k - 1 \in DOMAIN r /\ s[k] = r[k - 1]
    OBVIOUS
  <1>2. QED
    BY <1>1

\* A step after which nothing has started and the numbers are as before.
LEMMA QuietStamps ==
  ASSUME StampInv, plan' \in Seq(Ops), \A k \in DOMAIN plan' : plan'[k] \notin Started,
         UNCHANGED <<stamps, behind, counter>>,
         ~wrapped /\ stamps[2] = msgCnt => CountsFirst(plan')
  PROVE  StampInv'
  <1>1. StartedFirst'
    BY DEF StartedFirst
  <1>2. plan' /= <<>> => Head(plan') \notin Started
    OBVIOUS
  <1>3. SUFFICES ASSUME ~wrapped' PROVE StampOrder'
    BY <1>1 DEF StampInv
  <1>4. StampOrder /\ ~wrapped
    BY <1>3 DEF StampInv, counter
  <1>5. CountsFirst(plan)' <=> CountsFirst(plan')
    BY DEF CountsFirst
  <1>6. StampBelow'
    BY <1>4, <1>5 DEF StampOrder, StampBelow, counter
  <1>7. StampLoaded' /\ StampInHand' /\ StampPrinted'
    BY <1>2 DEF StampLoaded, StampInHand, StampPrinted, Started
  <1>8. QED
    BY <1>4, <1>6, <1>7 DEF StampOrder

\* Output.
LEMMA PrintStamps ==
  ASSUME IInv, StampInv, PrintStarts \/ PrintEnds \/ PrintClears
  PROVE  StampInv'
  <1> USE DEF PrintStarts, PrintEnds, PrintClears
  <1>0. ControlOK /\ Rest \in Seq(Ops) /\ Head(plan) \in Output /\ plan /= <<>>
    BY RestType DEF IInv, CoreOK, ControlOK, Doing, Output
  <1>1. UNCHANGED <<stamps, loaded, counter>>
    BY DEF daemon
  <1>2. \A k \in DOMAIN Rest : Rest[k] \notin Started
    BY <1>0, RestNotStarted DEF ControlOK, StampInv
  <1>3. ~wrapped /\ stamps[2] = msgCnt => CountsFirst(Rest)
    <2>1. ASSUME CountsFirst(plan) PROVE CountsFirst(Rest)
      <3>1. Head(plan) \notin {"count", "store"}
        BY <1>0 DEF Output
      <3>2. QED
        BY <1>0, <2>1, <3>1, CountsFirstTail DEF ControlOK, Rest
    <2>2. QED
      BY <2>1 DEF StampInv, StampOrder, StampBelow
  <1>4. CASE plan' = Rest /\ UNCHANGED behind
    BY <1>0, <1>1, <1>2, <1>3, <1>4, QuietStamps
  <1>5. CASE PrintEnds /\ Log({tcnt})
    <2>1. plan' = Rest /\ Head(plan) = "printing"
      BY <1>5 DEF Doing
    <2>2. ASSUME ~wrapped PROVE behind' = behind
      <3>1. stamps[2] <= tcnt
        BY <1>0, <2>1, <2>2 DEF StampInv, StampOrder, StampPrinted
      <3>2. {n \in {tcnt} : n < stamps[2]} = {}
        BY <1>0, <3>1 DEF ControlOK
      <3>3. QED
        BY <1>5, <3>2 DEF Log
    <2>3. CASE ~wrapped
      BY <1>4, <2>1, <2>2, <2>3
    <2>4. CASE wrapped
      BY <1>1, <1>2, <2>1, <2>4 DEF StampInv, StartedFirst, counter
    <2>5. QED
      BY <2>3, <2>4
  <1>6. CASE PrintStarts /\ plan' = <<"clear">> \o Rest
    <2>1. /\ plan' \in Seq(Ops) /\ \A k \in DOMAIN plan' : plan'[k] \notin Started
      BY <1>0, <1>2, <1>6, QuietHead DEF Ops, Started
    <2>2. CountsFirst(Rest) => CountsFirst(plan')
      BY <1>0, <1>6, CountsFirstPrint DEF Output
    <2>3. UNCHANGED behind
      BY <1>6 DEF daemon
    <2>4. QED
      BY <1>1, <1>3, <2>1, <2>2, <2>3, QuietStamps
  <1>7. CASE PrintStarts /\ plan' = <<"printing", "count", "clear">> \o Rest /\ tcnt' = msgCnt
    <2> DEFINE r == <<"clear">> \o Rest
               s == <<"count">> \o r
    <2>1. r \in Seq(Ops) /\ \A k \in DOMAIN r : r[k] \notin Started
      BY <1>0, <1>2, QuietHead DEF Ops, Started
    <2>2. /\ s \in Seq(Ops) /\ s /= <<>> /\ Head(s) = "count"
          /\ \A k \in DOMAIN s : s[k] \notin Started
      BY <2>1, QuietHead DEF Ops, Started
    <2>3. plan' = <<"printing">> \o s
      BY <1>0, <1>7
    <2>4. CountsFirst(s)
      BY <2>2, CountsFirstHead
    <2> HIDE DEF s
    <2>5. CountsFirst(plan')
      BY <2>2, <2>3, <2>4, CountsFirstPrint DEF Output
    <2>6. /\ plan' /= <<>> /\ Head(plan') = "printing"
          /\ \A k \in DOMAIN plan' : plan'[k] \in Started => k = 1
      BY <2>2, <2>3, QuietHead DEF Ops
    <2>7. StartedFirst'
      BY <2>6 DEF StartedFirst
    <2>8. SUFFICES ASSUME ~wrapped' PROVE StampOrder'
      BY <2>7 DEF StampInv
    <2>9. StampOrder
      BY <1>1, <2>8 DEF StampInv, counter
    <2>10. StampBelow'
      <3>1. CountsFirst(plan)' <=> CountsFirst(plan')
        BY DEF CountsFirst
      <3>2. QED
        BY <1>1, <2>5, <2>9, <3>1 DEF StampOrder, StampBelow, counter
    <2>11. StampPrinted'
      BY <1>1, <1>7, <2>9 DEF StampPrinted, StampOrder, StampBelow
    <2>12. StampLoaded' /\ StampInHand'
      BY <2>6 DEF StampLoaded, StampInHand
    <2>13. behind' = behind
      BY <1>7 DEF daemon
    <2>14. QED
      BY <1>1, <2>9, <2>10, <2>11, <2>12, <2>13 DEF StampOrder
  <1>8. QED
    <2>1. CASE PrintStarts
      BY <1>4, <1>6, <1>7, <2>1 DEF daemon
    <2>2. CASE PrintEnds \/ PrintClears
      BY <1>4, <1>5, <2>2 DEF daemon
    <2>3. QED
      BY <2>1, <2>2

\* Counting.
LEMMA CountStamps ==
  ASSUME IInv, StampInv, CountLoad \/ CountStore
  PROVE  StampInv'
  <1>0. ControlOK /\ Rest \in Seq(Ops) /\ plan /= <<>>
    BY RestType DEF IInv, CoreOK, ControlOK, CountLoad, CountStore, Doing
  <1>1. UNCHANGED <<stamps, behind>>
    BY DEF CountLoad, CountStore, daemon
  <1>2. \A k \in DOMAIN Rest : Rest[k] \notin Started
    BY <1>0, RestNotStarted DEF ControlOK, StampInv
  <1>3. CASE CountLoad
    <2>1. plan' = <<"store">> \o Rest /\ loaded' = msgCnt /\ UNCHANGED counter
      BY <1>3 DEF CountLoad
    <2>2. /\ plan' \in Seq(Ops) /\ plan' /= <<>> /\ Head(plan') = "store"
          /\ \A k \in DOMAIN plan' : plan'[k] \in Started => k = 1
      BY <1>0, <1>2, <2>1, QuietHead DEF Ops
    <2>3. StartedFirst'
      BY <2>2 DEF StartedFirst
    <2>4. SUFFICES ASSUME ~wrapped' PROVE StampOrder'
      BY <2>3 DEF StampInv
    <2>5. StampOrder
      BY <2>1, <2>4 DEF StampInv, counter
    <2>6. CountsFirst(plan)'
      <3>1. CountsFirst(plan')
        BY <2>2, CountsFirstHead
      <3>2. QED
        BY <3>1 DEF CountsFirst
    <2>7. StampBelow' /\ StampLoaded'
      BY <1>1, <2>1, <2>5, <2>6 DEF StampOrder, StampBelow, StampLoaded, counter
    <2>8. StampInHand' /\ StampPrinted'
      BY <2>2 DEF StampInHand, StampPrinted
    <2>9. QED
      BY <1>1, <2>5, <2>7, <2>8 DEF StampOrder
  <1>4. CASE CountStore
    <2>1. Head(plan) = "store" /\ plan' = Rest /\ CountTo(loaded + 1)
      BY <1>4 DEF CountStore, Doing
    <2>2. StartedFirst'
      BY <1>2, <2>1 DEF StartedFirst
    <2>3. plan' /= <<>> => Head(plan') \notin Started
      BY <1>0, <1>2, <2>1
    <2>4. SUFFICES ASSUME ~wrapped' PROVE StampOrder'
      BY <2>2 DEF StampInv
    <2>5. loaded + 1 \in Nat
      BY <1>0 DEF ControlOK
    <2>6. ~wrapped /\ msgCnt' = loaded + 1
      BY <2>1, <2>4, <2>5, CountedUp
    <2>7. StampOrder
      BY <2>6 DEF StampInv
    <2>8. stamps[2] < msgCnt'
      BY <1>0, <2>1, <2>6, <2>7 DEF StampOrder, StampLoaded, ControlOK
    <2>9. StampBelow'
      BY <1>0, <1>1, <2>5, <2>6, <2>8 DEF StampBelow, ControlOK
    <2>10. StampLoaded' /\ StampInHand' /\ StampPrinted'
      BY <2>3 DEF StampLoaded, StampInHand, StampPrinted, Started
    <2>11. QED
      BY <1>1, <2>7, <2>9, <2>10 DEF StampOrder
  <1>5. QED
    BY <1>3, <1>4

\* SensorTransmit, sensorQueue and deviceQueue take the number for the message.
LEMMA NumberStamps ==
  ASSUME IInv, StampInv, Reading \/ Dispatch
  PROVE  StampInv'
  <1>0. ControlOK /\ Rest \in Seq(Ops) /\ Head(plan) \in Ops
    BY RestType DEF IInv, CoreOK, ControlOK, Reading, Dispatch, Doing
  <1>1. /\ plan /= <<>> /\ Head(plan) \in {"reading", "dispatch"}
        /\ UNCHANGED <<stamps, behind, loaded, counter>>
    BY DEF Reading, Dispatch, Doing, daemon
  <1>2. \A k \in DOMAIN Rest : Rest[k] \notin Started
    BY <1>0, <1>1, RestNotStarted DEF ControlOK, StampInv
  <1>3. ~wrapped => stamps[2] < msgCnt
    <2>1. ~CountsFirst(plan)
      <3>1. Head(plan) \notin {"count", "store"} /\ Head(plan) \notin Output
        BY <1>1 DEF Output
      <3>2. QED
        BY <1>0, <1>1, <3>1, CountsFirstTail DEF ControlOK
    <2>2. QED
      BY <1>0, <2>1 DEF StampInv, StampOrder, StampBelow, ControlOK
  <1>4. \/ plan' = Rest
        \/ plan' = <<"print">> \o Rest
        \/ tcnt' = msgCnt /\ \/ plan' = <<"writing", "print", "count">> \o Rest
                             \/ plan' = <<"writing", "count">> \o Rest
    BY DEF Reading, Dispatch
  <1>5. CASE plan' = Rest \/ plan' = <<"print">> \o Rest
    <2>1. plan' \in Seq(Ops) /\ \A k \in DOMAIN plan' : plan'[k] \notin Started
      <3>1. CASE plan' = Rest
        BY <1>0, <1>2, <3>1
      <3>2. CASE plan' = <<"print">> \o Rest
        BY <1>0, <1>2, <3>2, QuietHead DEF Ops, Started
      <3>3. QED
        BY <1>5, <3>1, <3>2
    <2>2. ~wrapped => stamps[2] /= msgCnt
      BY <1>0, <1>3 DEF ControlOK
    <2>3. QED
      BY <1>1, <2>1, <2>2, QuietStamps
  <1>6. ASSUME NEW s \in Seq(Ops), CountsFirst(s), tcnt' = msgCnt,
               plan' = <<"writing">> \o s,
               \A k \in DOMAIN s : s[k] \notin Started
        PROVE  StampInv'
    <2>1. /\ plan' /= <<>> /\ Head(plan') = "writing" /\ Tail(plan') = s
          /\ \A k \in DOMAIN plan' : plan'[k] \in Started => k = 1
      BY <1>6, QuietHead DEF Ops
    <2>2. StartedFirst'
      BY <2>1 DEF StartedFirst
    <2>3. SUFFICES ASSUME ~wrapped' PROVE StampOrder'
      BY <2>2 DEF StampInv
    <2>4. StampOrder /\ stamps[2] < msgCnt
      BY <1>1, <1>3, <2>3 DEF StampInv, counter
    <2>5. CountsFirst(Rest)' <=> CountsFirst(s)
      BY <2>1 DEF Rest, CountsFirst
    <2>6. StampInHand' /\ StampBelow'
      BY <1>0, <1>1, <1>6, <2>4, <2>5 DEF StampInHand, StampBelow, ControlOK, counter
    <2>7. StampLoaded' /\ StampPrinted'
      BY <2>1 DEF StampLoaded, StampPrinted
    <2>8. QED
      BY <1>1, <2>4, <2>6, <2>7 DEF StampOrder
  <1> DEFINE r == <<"count">> \o Rest
             s == <<"print">> \o r
  <1>7. /\ r \in Seq(Ops) /\ r /= <<>> /\ Head(r) = "count"
        /\ \A k \in DOMAIN r : r[k] \notin Started
    BY <1>0, <1>2, QuietHead DEF Ops, Started
  <1>8. CountsFirst(r)
    BY <1>7, CountsFirstHead
  <1>9. s \in Seq(Ops) /\ \A k \in DOMAIN s : s[k] \notin Started
    BY <1>7, QuietHead DEF Ops, Started
  <1>10. CountsFirst(s)
    <2> HIDE DEF r
    <2>1. QED
      BY <1>7, <1>8, CountsFirstPrint DEF Output
  <1>11. CASE tcnt' = msgCnt /\ plan' = <<"writing", "print", "count">> \o Rest
    <2>1. plan' = <<"writing">> \o s
      BY <1>0, <1>11
    <2> HIDE DEF s
    <2>2. QED
      BY <1>6, <1>9, <1>10, <1>11, <2>1
  <1>12. CASE tcnt' = msgCnt /\ plan' = <<"writing", "count">> \o Rest
    <2>1. plan' = <<"writing">> \o r
      BY <1>0, <1>12
    <2> HIDE DEF r
    <2>2. QED
      BY <1>6, <1>7, <1>8, <1>12, <2>1
  <1>13. QED
    BY <1>4, <1>5, <1>11, <1>12

LEMMA NextStamps == ASSUME IInv, StampInv, [Next]_vars PROVE StampInv'
  <1>1. CASE WifiLost \/ WifiFound \/ HostLost \/ Interrupt
    BY <1>1, OthersStamps
  <1>2. CASE Work
    BY <1>2, WriteEndsStamps, PrintStamps, CountStamps, NumberStamps DEF Work
  <1>3. CASE Loop
    BY <1>3, LoopStamps
  <1>4. CASE Restart
    <2>1. plan' = <<>> /\ stamps' = <<-2, -1>> /\ msgCnt' = 1 /\ behind' = {}
      BY <1>4 DEF Restart
    <2>2. QED
      BY <2>1
         DEF StampInv, StampOrder, StartedFirst, StampBelow, StampLoaded, StampInHand,
             StampPrinted
  <1>5. CASE UNCHANGED vars
    BY <1>5 DEF vars, sending, daemon, counter, StampInv, StampOrder, StartedFirst, StampBelow,
       StampLoaded, StampInHand, StampPrinted, CountsFirst, Rest
  <1>6. QED
    BY <1>1, <1>2, <1>3, <1>4, <1>5 DEF Next

--------------------------------------------------------------------------------
(* The text for the console                                                *)

\* The steps that leave the text alone.
LEMMA ConsoleKept ==
  ASSUME [Next]_vars,
         ~ (\/ Interrupt \/ PrintStarts \/ PrintEnds \/ PrintClears
            \/ WifiDown \/ ReconnectFails \/ Restart)
  PROVE  UNCHANGED console
  BY DEF Next, Work, Loop, WifiLost, WifiFound, HostLost, WriteEnds, CountLoad, CountStore,
     Reading, Dispatch, WifiUp, HostUp, HostDown, Reconnect, NoCommand, Command, NoRequest,
     Request, Pop, PopForgets, QueueEmpty, SensorsWait, SensorsRead, vars

\* The steps that count, and those by which the daemon gets debug lines.
LEMMA CounterSteps ==
  ASSUME IInv, [Next]_vars
  PROVE  UNCHANGED counter \/ wrapped' = FALSE \/ \E n \in Nat : CountTo(n)
  <1>1. CASE Interrupt
    BY <1>1, InterruptCounts DEF IInv, CoreOK, ControlOK, counter
  <1>2. CASE CountStore
    <2>1. loaded + 1 \in Nat
      BY DEF IInv, CoreOK, ControlOK
    <2>2. QED
      BY <1>2, <2>1 DEF CountStore
  <1>3. CASE ~Interrupt /\ ~CountStore
    BY <1>3
       DEF Next, Work, Loop, WifiLost, WifiFound, HostLost, WriteEnds, PrintStarts,
           PrintEnds, PrintClears, CountLoad, Reading, Dispatch, WifiDown, WifiUp, HostUp,
           HostDown, Reconnect, ReconnectFails, NoCommand, Command, NoRequest, Request, Pop,
           PopForgets, QueueEmpty, SensorsWait, SensorsRead, Restart, vars
  <1>4. QED
    BY <1>1, <1>2, <1>3

LEMMA BehindSteps ==
  ASSUME [Next]_vars
  PROVE  UNCHANGED behind \/ behind' = {} \/ Interrupt \/ PrintEnds
  BY DEF Next, Work, Loop, WifiLost, WifiFound, HostLost, WriteEnds, PrintStarts,
     PrintClears, CountLoad, CountStore, Reading, Dispatch, WifiDown, WifiUp, HostUp,
     HostDown, Reconnect, ReconnectFails, NoCommand, Command, NoRequest, Request, Pop,
     PopForgets, QueueEmpty, SensorsWait, SensorsRead, Restart, vars, daemon

LEMMA InitConsole == Init => ConsoleOK
  <1> SUFFICES ASSUME Init PROVE ConsoleOK
    OBVIOUS
  <1>1. wrapped \in BOOLEAN /\ left \in BOOLEAN
    BY Zenon DEF Init
  <1>2. text = 0 /\ behind = {}
    BY DEF Init
  <1>3. QED
    BY <1>1, <1>2, LineConstants DEF ConsoleOK

LEMMA AddType ==
  ASSUME text \in 0 .. TextRoom, NEW line \in Nat, Add(line)
  PROVE  text' \in 0 .. TextRoom
  BY LineConstants DEF Add, Fits

LEMMA NextConsole == ASSUME IInv, ConsoleOK, [Next]_vars PROVE ConsoleOK'
  <1>1. text' \in 0 .. TextRoom /\ left' \in BOOLEAN
    <2>1. CASE UNCHANGED console
      BY <2>1 DEF ConsoleOK, console
    <2>2. CASE Interrupt
      <3>1. CASE Leave
        BY <3>1, AddType, LineConstants DEF Leave, ConsoleOK
      <3>2. QED
        BY <2>2, <3>1, InterruptEffect, SaysText, Zenon DEF ConsoleOK
    <2>3. CASE PrintStarts \/ PrintEnds
      BY <2>3, AddType, LineConstants DEF PrintStarts, PrintEnds, console, ConsoleOK
    <2>4. CASE PrintClears \/ Restart
      <3>1. text' = 0
        BY <2>4 DEF PrintClears, Cleared, Restart
      <3>2. left' \in BOOLEAN
        BY <2>4, Zenon DEF PrintClears, Cleared, Restart
      <3>3. QED
        BY <3>1, <3>2, LineConstants
    <2>5. CASE WifiDown
      BY <2>5, AddType, LineConstants DEF WifiDown, Leave, ConsoleOK
    <2>6. CASE ReconnectFails
      BY <2>6, AddType, LineConstants DEF ReconnectFails, ConsoleOK
    <2>7. QED
      BY <2>1, <2>2, <2>3, <2>4, <2>5, <2>6, ConsoleKept
  <1>2. wrapped' \in BOOLEAN
    <2>1. CASE UNCHANGED counter
      BY <2>1 DEF ConsoleOK, counter
    <2>2. ASSUME NEW n \in Nat, CountTo(n) PROVE wrapped' \in BOOLEAN
      BY <2>2, Zenon DEF CountTo
    <2>3. QED
      BY <2>1, <2>2, CounterSteps, Zenon
  <1>3. behind' \subseteq Nat
    <2>1. CASE UNCHANGED behind \/ behind' = {}
      BY <2>1 DEF ConsoleOK
    <2>2. CASE Interrupt
      BY <2>2, InterruptCounts DEF ConsoleOK, IInv, CoreOK, ControlOK
    <2>3. CASE PrintEnds
      BY <2>3 DEF PrintEnds, Log, ConsoleOK, IInv, CoreOK, ControlOK
    <2>4. QED
      BY <2>1, <2>2, <2>3, BehindSteps
  <1>4. QED
    BY <1>1, <1>2, <1>3 DEF ConsoleOK

\* A text in OutString is cleared by what is planned, or short: printConsole
\* starts on what one failed reconnection leaves.
Has(s, op) == \E k \in DOMAIN s : s[k] = op

BeforeClear == {"printing", "count", "store"}

ClearSoon(s) ==
  \A k \in DOMAIN s : s[k] = "clear" => \A j \in 1 .. k - 1 : s[j] \in BeforeClear

AudibleText ==
  /\ text <= LeftLine + LoopLine
  /\ ~Has(plan, "clear") => text <= LeftLine
  /\ (pc = "connect" /\ ~Has(plan, "print") /\ ~Has(plan, "clear")) => text = 0

AudibleInv == ClearSoon(plan) /\ (left \/ AudibleText)

\* What is put in front of a plan ...
LEMMA PlanHead ==
  ASSUME NEW s \in Seq(Ops), NEW op \in Ops
  PROVE  LET p == <<op>> \o s
         IN  /\ p \in Seq(Ops)
             /\ \A o : Has(p, o) <=> (o = op \/ Has(s, o))
             /\ ((op \in BeforeClear /\ ClearSoon(s)) \/ ~Has(s, "clear")) => ClearSoon(p)
  <1> DEFINE p == <<op>> \o s
  <1>1. /\ p \in Seq(Ops) /\ Len(p) = Len(s) + 1 /\ p[1] = op
        /\ \A k \in DOMAIN s : k + 1 \in DOMAIN p /\ p[k + 1] = s[k]
        /\ \A k \in DOMAIN p \ {1} : k - 1 \in DOMAIN s /\ p[k] = s[k - 1]
        /\ 1 \in DOMAIN p
    OBVIOUS
  <1> HIDE DEF p
  <1>2. \A o : Has(p, o) <=> (o = op \/ Has(s, o))
    BY <1>1 DEF Has
  <1>3. ASSUME op \in BeforeClear, ClearSoon(s)
        PROVE  ClearSoon(p)
    <2>1. SUFFICES ASSUME NEW k \in DOMAIN p, p[k] = "clear", NEW j \in 1 .. k - 1
                   PROVE  p[j] \in BeforeClear
      BY DEF ClearSoon
    <2>2. CASE j = 1
      BY <1>1, <1>3, <2>2
    <2>3. CASE j /= 1
      <3>1. k \in DOMAIN p \ {1} /\ j \in DOMAIN p \ {1} /\ j - 1 \in 1 .. (k - 1) - 1
        BY <1>1, <2>3
      <3>2. s[k - 1] = "clear" /\ k - 1 \in DOMAIN s /\ p[j] = s[j - 1]
        BY <1>1, <2>1, <3>1
      <3>3. QED
        BY <1>3, <3>1, <3>2 DEF ClearSoon
    <2>4. QED
      BY <2>2, <2>3
  <1>4. ASSUME ~Has(s, "clear")
        PROVE  ClearSoon(p)
    <2>1. SUFFICES ASSUME NEW k \in DOMAIN p, p[k] = "clear", NEW j \in 1 .. k - 1
                   PROVE  p[j] \in BeforeClear
      BY DEF ClearSoon
    <2>2. k /= 1
      BY <1>1
    <2>3. k - 1 \in DOMAIN s /\ s[k - 1] = "clear"
      BY <1>1, <2>1, <2>2
    <2>4. QED
      BY <1>4, <2>3 DEF Has
  <1>5. QED
    BY <1>1, <1>2, <1>3, <1>4 DEF p

\* ... and what is taken from it.
LEMMA PlanTail ==
  ASSUME NEW s \in Seq(Ops), s /= <<>>, ClearSoon(s)
  PROVE  /\ ClearSoon(Tail(s))
         /\ \A o : o /= Head(s) => (Has(Tail(s), o) <=> Has(s, o))
         /\ Head(s) \notin BeforeClear => ~Has(Tail(s), "clear")
  <1> DEFINE t == Tail(s)
  <1>1. /\ Head(s) = s[1] /\ 1 \in DOMAIN s
        /\ \A k \in DOMAIN t : k + 1 \in DOMAIN s /\ t[k] = s[k + 1] /\ k \in Nat \ {0}
        /\ \A k \in DOMAIN s \ {1} : k - 1 \in DOMAIN t /\ s[k] = t[k - 1]
    OBVIOUS
  <1> HIDE DEF t
  <1>2. ASSUME NEW k \in DOMAIN t, t[k] = "clear", NEW j \in 1 .. k - 1
        PROVE  t[j] \in BeforeClear
    <2>1. s[k + 1] = "clear" /\ k + 1 \in DOMAIN s
      BY <1>1, <1>2
    <2>2. j + 1 \in 1 .. (k + 1) - 1 /\ j + 1 \in DOMAIN s \ {1} /\ (j + 1) - 1 = j
      BY <1>1, <2>1
    <2>3. s[j + 1] = t[j]
      BY <1>1, <2>2
    <2>4. QED
      BY <2>1, <2>2, <2>3 DEF ClearSoon
  <1>3. ASSUME NEW o, o /= Head(s)
        PROVE  Has(t, o) <=> Has(s, o)
    BY <1>1, <1>3 DEF Has
  <1>4. ASSUME Has(t, "clear")
        PROVE  Head(s) \in BeforeClear
    <2>1. PICK k \in DOMAIN t : t[k] = "clear"
      BY <1>4 DEF Has
    <2>2. s[k + 1] = "clear" /\ k + 1 \in DOMAIN s /\ 1 \in 1 .. (k + 1) - 1
      BY <1>1, <2>1
    <2>3. QED
      BY <1>1, <2>2 DEF ClearSoon
  <1>5. QED
    BY <1>2, <1>3, <1>4 DEF t, ClearSoon

\* A step that leaves the text alone and takes neither the print nor the clearing
\* for it from the plan.
LEMMA AudibleKept ==
  ASSUME AudibleInv, UNCHANGED console, ClearSoon(plan'),
         Has(plan, "clear") => Has(plan', "clear"),
         \/ pc' /= "connect"
         \/ Has(plan', "print") \/ Has(plan', "clear")
         \/ pc = "connect" /\ ~Has(plan, "print")
  PROVE  AudibleInv'
  <1>1. /\ ClearSoon(plan)' <=> ClearSoon(plan')
        /\ \A o : Has(plan, o)' <=> Has(plan', o)
    BY DEF ClearSoon, Has
  <1>2. (left \/ AudibleText)'
    BY <1>1 DEF AudibleInv, AudibleText, console
  <1>3. QED
    BY <1>1, <1>2 DEF AudibleInv

\* A step that clears the text, or leaves it where a pass without WiFi or a
\* Livolo callback leaves some too.
LEMMA AudibleReset ==
  ASSUME ClearSoon(plan'), text' = 0 \/ left'
  PROVE  AudibleInv'
  <1>1. ClearSoon(plan)' <=> ClearSoon(plan')
    BY DEF ClearSoon
  <1>2. text' = 0 => AudibleText'
    BY LineConstants DEF AudibleText
  <1>3. QED
    BY <1>1, <1>2 DEF AudibleInv

\* What the invariant says of the steps of the loop: they start with nothing
\* planned, and none of them plans to clear.
LEMMA LoopPlans ==
  ASSUME IInv, Loop
  PROVE  /\ plan = <<>> /\ ~Has(plan, "clear") /\ ~Has(plan, "print")
         /\ ClearSoon(plan') /\ ~Has(plan', "clear")
         /\ pc' = "connect" => Has(plan', "print") \/ pc = "connect"
  <1>1. plan = <<>>
    BY LoopIdle
  <1>2. ~Has(plan, "clear") /\ ~Has(plan, "print")
    BY <1>1 DEF Has
  <1>3. \/ plan' \in {<<>>, <<"print">>, <<"print", "print">>, <<"dispatch">>}
        \/ plan' \in SensorPlans
    BY <1>1
       DEF Loop, WifiDown, WifiUp, HostUp, HostDown, Reconnect, ReconnectFails, NoCommand,
           Command, NoRequest, Request, Pop, PopForgets, QueueEmpty, SensorsWait,
           SensorsRead, sending
  <1>4. plan' \in Seq({"print", "dispatch", "reading", "count"})
    <2> DEFINE S == Seq({"print", "dispatch", "reading", "count"})
    <2>1. \A s \in Seq({"print", "reading", "count"}) : s \in S
      OBVIOUS
    <2>2. <<>> \in S /\ <<"print">> \in S /\ <<"print", "print">> \in S /\ <<"dispatch">> \in S
      OBVIOUS
    <2> HIDE DEF S
    <2>3. plan' \in S
      BY <1>3, <2>1, <2>2, SensorPlansType
    <2>4. QED
      BY <2>3 DEF S
  <1>5. \A k \in DOMAIN plan' : plan'[k] /= "clear"
    BY <1>4
  <1>6. pc' = "connect" => HostDown
    BY DEF Loop, WifiDown, WifiUp, HostUp, HostDown, Reconnect, ReconnectFails, NoCommand,
       Command, NoRequest, Request, Pop, PopForgets, QueueEmpty, SensorsWait, SensorsRead, At
  <1>7. HostDown => Has(plan', "print")
    BY DEF HostDown, Has
  <1>8. QED
    BY <1>1, <1>2, <1>5, <1>6, <1>7 DEF ClearSoon, Has

LEMMA LoopAudible ==
  ASSUME IInv, ConsoleOK, AudibleInv, Loop
  PROVE  AudibleInv'
  <1>1. CASE WifiDown
    BY <1>1, LoopPlans, AudibleReset DEF WifiDown, Leave
  <1>2. CASE ReconnectFails /\ left
    BY <1>2, LoopPlans, AudibleReset DEF ReconnectFails
  <1>3. CASE ReconnectFails /\ ~left
    <2>1. text = 0
      BY <1>3, LoopPlans DEF ReconnectFails, At, AudibleInv, AudibleText
    <2>2. text' <= LeftLine
      <3>1. CASE UNCHANGED text
        BY <2>1, <3>1, LineConstants
      <3>2. ASSUME NEW line \in 1 .. LeftLine, Add(line) PROVE text' <= LeftLine
        BY <2>1, <3>2, LineConstants DEF Add, Fits
      <3>3. QED
        BY <1>3, <3>1, <3>2 DEF ReconnectFails
    <2>3. text' \in Int
      BY <1>3, AddType, LineConstants DEF ReconnectFails, ConsoleOK
    <2>4. pc' /= "connect"
      BY <1>3 DEF ReconnectFails
    <2>5. AudibleText'
      BY <2>2, <2>3, <2>4, LineConstants DEF AudibleText
    <2>6. ClearSoon(plan)' <=> ClearSoon(plan')
      BY DEF ClearSoon
    <2>7. QED
      BY <2>5, <2>6, LoopPlans DEF AudibleInv
  <1>4. CASE ~WifiDown /\ ~ReconnectFails
    <2>1. UNCHANGED console
      BY <1>4
         DEF Loop, WifiUp, HostUp, HostDown, Reconnect, NoCommand, Command, NoRequest,
             Request, Pop, PopForgets, QueueEmpty, SensorsWait, SensorsRead
    <2>2. QED
      BY <2>1, LoopPlans, AudibleKept
  <1>5. QED
    BY <1>1, <1>2, <1>3, <1>4

\* printConsole.
LEMMA PrintAudible ==
  ASSUME IInv, ConsoleOK, AudibleInv, PrintStarts
  PROVE  AudibleInv'
  <1>1. plan \in Seq(Ops) /\ plan /= <<>> /\ Head(plan) = "print"
    BY DEF IInv, CoreOK, ControlOK, PrintStarts, Doing
  <1>2. Rest \in Seq(Ops) /\ ClearSoon(Rest) /\ ~Has(Rest, "clear") /\ ~Has(plan, "clear")
    BY <1>1, RestType, PlanTail DEF AudibleInv, BeforeClear, Rest
  <1>3. PICK line \in 1 .. LoopLine :
          /\ Add(line)
          /\ plan' = CASE Fits(text, line) /\ host -> <<"printing", "count", "clear">> \o Rest
                       [] Fits(text, line) /\ ~host -> <<"clear">> \o Rest
                       [] ~Fits(text, line) -> Rest
    BY Zenon DEF PrintStarts
  <1>4. left' = left
    BY DEF PrintStarts
  <1> DEFINE c1 == <<"clear">> \o Rest
             c2 == <<"count">> \o c1
             c3 == <<"printing">> \o c2
  <1>5. c1 \in Seq(Ops) /\ Has(c1, "clear") /\ ClearSoon(c1)
    BY <1>2, PlanHead DEF Ops
  <1>6. c2 \in Seq(Ops) /\ Has(c2, "clear") /\ ClearSoon(c2)
    <2> HIDE DEF c1
    <2>1. QED
      BY <1>5, PlanHead DEF Ops, BeforeClear
  <1>7. Has(c3, "clear") /\ ClearSoon(c3)
    <2> HIDE DEF c2
    <2>1. QED
      BY <1>6, PlanHead DEF Ops, BeforeClear
  <1>8. <<"printing", "count", "clear">> \o Rest = c3
    BY <1>2
  <1> HIDE DEF c1, c3
  <1>9. ClearSoon(plan') /\ (Fits(text, line) => Has(plan', "clear"))
    BY <1>2, <1>3, <1>5, <1>7, <1>8 DEF c1
  <1>10. CASE left
    BY <1>4, <1>9, <1>10, AudibleReset
  <1>11. CASE ~left
    <2>1. text <= LeftLine /\ text \in Nat
      BY <1>2, <1>11, LineConstants DEF AudibleInv, AudibleText, ConsoleOK
    <2>2. Fits(text, line)
      BY <2>1, LineConstants DEF Fits
    <2>3. text' = text + line
      BY <1>3, <2>2 DEF Add
    <2>4. text + line <= LeftLine + LoopLine
      BY <2>1, LineConstants
    <2>5. Has(plan, "clear")' /\ (ClearSoon(plan)' <=> ClearSoon(plan'))
      BY <1>9, <2>2 DEF Has, ClearSoon
    <2>6. AudibleText'
      BY <2>3, <2>4, <2>5 DEF AudibleText
    <2>7. QED
      BY <1>9, <2>5, <2>6 DEF AudibleInv
  <1>12. QED
    BY <1>10, <1>11

\* The other work of the loop.
LEMMA WorkAudible ==
  ASSUME IInv, ConsoleOK, AudibleInv, Work, ~PrintStarts
  PROVE  AudibleInv'
  <1>1. plan \in Seq(Ops) /\ plan /= <<>> /\ pc' = pc /\ Head(plan) /= "print"
    BY DEF IInv, CoreOK, ControlOK, Work, WriteEnds, PrintStarts, PrintEnds, PrintClears,
       CountLoad, CountStore, Reading, Dispatch, Doing
  <1>2. /\ Rest \in Seq(Ops) /\ ClearSoon(Rest)
        /\ \A o : o /= Head(plan) => (Has(Rest, o) <=> Has(plan, o))
        /\ Head(plan) \notin BeforeClear => ~Has(Rest, "clear")
    BY <1>1, RestType, PlanTail DEF AudibleInv, Rest
  <1>4. CASE PrintClears
    BY <1>2, <1>4, AudibleReset DEF PrintClears, Cleared
  <1>5. CASE ~PrintClears
    <2>1. UNCHANGED console /\ Head(plan) /= "clear"
      BY <1>5
         DEF Work, WriteEnds, PrintEnds, CountLoad, CountStore, Reading, Dispatch, Doing
    <2>2. /\ ClearSoon(plan') /\ (Has(plan, "clear") => Has(plan', "clear"))
          /\ Has(plan, "print") => Has(plan', "print")
      <3>1. CASE plan' = Rest
        BY <1>1, <1>2, <2>1, <3>1
      <3>2. CASE plan' = <<"store">> \o Rest
        BY <1>1, <1>2, <2>1, <3>2, PlanHead DEF Ops, BeforeClear
      <3>3. CASE /\ Head(plan) \in {"reading", "dispatch"}
                 /\ \/ plan' = <<"writing", "print", "count">> \o Rest
                    \/ plan' = <<"writing", "count">> \o Rest
                    \/ plan' = <<"print">> \o Rest
        <4>1. ~Has(Rest, "clear") /\ ~Has(plan, "clear")
          BY <1>2, <2>1, <3>3 DEF BeforeClear
        <4> DEFINE r == <<"count">> \o Rest
                   s == <<"print">> \o r
        <4>2. r \in Seq(Ops) /\ ~Has(r, "clear") /\ (Has(Rest, "print") => Has(r, "print"))
          BY <1>2, <4>1, PlanHead DEF Ops
        <4>3. s \in Seq(Ops) /\ ~Has(s, "clear") /\ Has(s, "print")
          <5> HIDE DEF r
          <5>1. QED
            BY <4>2, PlanHead DEF Ops
        <4>4. CASE plan' = <<"writing", "print", "count">> \o Rest
          <5>1. plan' = <<"writing">> \o s
            BY <1>2, <4>4
          <5> HIDE DEF s
          <5>2. QED
            BY <4>1, <4>3, <5>1, PlanHead DEF Ops
        <4>5. CASE plan' = <<"writing", "count">> \o Rest
          <5>1. plan' = <<"writing">> \o r
            BY <1>2, <4>5
          <5> HIDE DEF r
          <5>2. QED
            BY <1>1, <1>2, <4>1, <4>2, <5>1, PlanHead DEF Ops
        <4>6. CASE plan' = <<"print">> \o Rest
          BY <1>2, <4>1, <4>6, PlanHead DEF Ops
        <4>7. QED
          BY <3>3, <4>4, <4>5, <4>6
      <3>4. QED
        BY <1>5, <3>1, <3>2, <3>3
           DEF Work, WriteEnds, PrintEnds, PrintStarts, CountLoad, CountStore, Reading,
               Dispatch, Doing
    <2>3. QED
      BY <1>1, <2>1, <2>2, AudibleKept, Zenon
  <1>6. QED
    BY <1>4, <1>5

\* A callback prints what there is, and all of it, or leaves some as a Livolo
\* callback does.
LEMMA InterruptAudible ==
  ASSUME IInv, ConsoleOK, AudibleInv, Interrupt
  PROVE  AudibleInv'
  <1>1. plan' = plan /\ pc' = pc
    BY InterruptEffect DEF sending
  <1>2. ClearSoon(plan')
    BY <1>1 DEF AudibleInv
  <1>3. CASE Leave
    BY <1>2, <1>3, AudibleReset DEF Leave
  <1>4. ASSUME text' = 0 \/ left' \/ UNCHANGED console PROVE AudibleInv'
    <2>1. CASE text' = 0 \/ left'
      BY <1>2, <2>1, AudibleReset
    <2>2. CASE UNCHANGED console
      BY <1>1, <2>2 DEF AudibleInv, AudibleText, console, ClearSoon, Has
    <2>3. QED
      BY <1>4, <2>1, <2>2
  <1>5. ASSUME NEW before \in BOOLEAN, NEW counted \in BOOLEAN, NEW after \in BOOLEAN,
               NEW l \in 1 .. CallbackLine, NEW m \in 1 .. CallbackLine,
               Says(before, counted, after, l, m)
        PROVE  text' = 0 \/ left' \/ UNCHANGED console
    <2>1. left => left' \/ text' = 0
      BY <1>5, SaysText DEF ConsoleOK
    <2>2. CASE ~left
      <3>1. text <= LeftLine + LoopLine /\ text \in Nat
        BY <2>2, LineConstants DEF AudibleInv, AudibleText, ConsoleOK
      <3>2. \A c \in 1 .. CallbackLine : Fits(text, c) /\ Fits(0, c)
        BY <3>1, LineConstants DEF Fits
      <3>3. QED
        BY <1>5, <3>2, SaysText DEF ConsoleOK, console
    <2>3. QED
      BY <2>1, <2>2
  <1>6. QED
    BY <1>3, <1>4, <1>5, InterruptEffect

LEMMA NextAudible ==
  ASSUME IInv, ConsoleOK, AudibleInv, [Next]_vars
  PROVE  AudibleInv'
  <1>1. CASE Interrupt
    BY <1>1, InterruptAudible
  <1>2. CASE Work
    BY <1>2, PrintAudible, WorkAudible
  <1>3. CASE Loop
    BY <1>3, LoopAudible
  <1>4. CASE Restart
    BY <1>4, AudibleReset DEF Restart, ClearSoon
  <1>5. CASE WifiLost \/ WifiFound \/ HostLost \/ UNCHANGED vars
    BY <1>5
       DEF WifiLost, WifiFound, HostLost, vars, sending, console, AudibleInv, AudibleText,
           ClearSoon, Has
  <1>6. QED
    BY <1>1, <1>2, <1>3, <1>4, <1>5 DEF Next

\* A short text has room for a line, and where printConsole is called for one
\* there is no more than a failed reconnection left.
LEMMA AudibleEnough ==
  ASSUME IInv, ConsoleOK, AudibleInv
  PROVE  StaysAudible
  <1>1. SUFFICES ASSUME ~left
                 PROVE  /\ \A line \in 1 .. CallbackLine : Fits(text, line)
                        /\ Doing("print") => \A line \in 1 .. LoopLine : Fits(text, line)
    BY DEF StaysAudible
  <1>2. AudibleText /\ text \in Nat
    BY <1>1, LineConstants DEF AudibleInv, ConsoleOK
  <1>3. \A line \in 1 .. CallbackLine : Fits(text, line)
    BY <1>2, LineConstants DEF AudibleText, Fits
  <1>4. ASSUME Doing("print") PROVE \A line \in 1 .. LoopLine : Fits(text, line)
    <2>1. plan \in Seq(Ops) /\ plan /= <<>> /\ Head(plan) = "print" /\ ClearSoon(plan)
      BY <1>4 DEF IInv, CoreOK, ControlOK, Doing, AudibleInv
    <2>2. ~Has(plan, "clear")
      BY <2>1, PlanTail DEF BeforeClear
    <2>3. text <= LeftLine
      BY <1>2, <2>2 DEF AudibleText
    <2>4. QED
      BY <1>2, <2>3, LineConstants DEF Fits
  <1>5. QED
    BY <1>3, <1>4

--------------------------------------------------------------------------------
(* The theorems                                                            *)

\* Every variable keeps its type; the retry counter of loop stays at or below
\* the value at which it wraps.
THEOREM GatewayTypeCorrect == Spec => []TypeOK
  <1>1. Init => ConsoleOK
    BY InitConsole
  <1>2. IInv /\ ConsoleOK /\ [Next]_vars => ConsoleOK'
    BY NextConsole
  <1>3. IInv /\ ConsoleOK => TypeOK
    BY TypeParts DEF IInv
  <1>4. QED
    BY <1>1, <1>2, <1>3, GatewayInvariant, PTL DEF Spec

\* WiFi.begin is called at most once while the loop waits for WiFi, wherever
\* the counter wraps.
THEOREM OneBegin == Spec => []BeginsOnce
  <1>1. IInv => BeginsOnce
    BY DEF IInv, BeginsCounted, BeginsOnce
  <1>2. QED
    BY <1>1, GatewayInvariant, PTL

\* Until the counter wraps, the numbers of the messages at the daemon increase, and
\* a debug line has the number of the message before it or a higher one: the
\* callbacks that count between any two accesses of the loop, and the loop's
\* msgCnt++ that undoes their counting, never lead back to a number that a message
\* had.
THEOREM NumbersIncrease == Spec => []StampsIncrease
  <1>1. Init => IInv /\ StampInv
    BY InitInv, InitStamps
  <1>2. IInv /\ StampInv /\ [Next]_vars => IInv' /\ StampInv'
    BY NextInv, NextStamps
  <1>3. StampInv => StampsIncrease
    BY DEF StampInv, StampOrder, StampsIncrease
  <1>4. QED
    BY <1>1, <1>2, <1>3, PTL DEF Spec

\* No line is refused by printConsole unless the text of a pass without WiFi or of
\* a Livolo callback stands before it: a failed reconnection's text is printed by
\* the next pass, and callbacks print at most one line more into it.
THEOREM ConsoleAudible == Spec => []StaysAudible
  <1>1. Init => IInv /\ ConsoleOK /\ AudibleInv
    <2> SUFFICES ASSUME Init PROVE AudibleInv
      BY InitInv, InitConsole
    <2>1. plan = <<>> /\ text = 0
      BY DEF Init
    <2>2. ClearSoon(plan) /\ AudibleText
      BY <2>1, LineConstants DEF ClearSoon, AudibleText
    <2>3. QED
      BY <2>2 DEF AudibleInv
  <1>2. IInv /\ ConsoleOK /\ AudibleInv /\ [Next]_vars => IInv' /\ ConsoleOK' /\ AudibleInv'
    BY NextInv, NextConsole, NextAudible
  <1>3. IInv /\ ConsoleOK /\ AudibleInv => StaysAudible
    BY AudibleEnough
  <1>4. QED
    BY <1>1, <1>2, <1>3, PTL DEF Spec

\* A message leaves the hands of handleQueue for the daemon, or because of its
\* reserved address, or because the connection broke during this pass.
THEOREM DropsExplained == Spec => DroppedOnlyWhenBroken
  <1> DEFINE Explained ==
        \A m \in hand \ hand' :
          \/ delivered' = Append(delivered, m)
          \/ items[m] = "reserved"
          \/ broken \/ broken'
  <1>1. ASSUME IInv, Next PROVE Explained
    <2> SUFFICES ASSUME NEW m \in hand, m \notin hand'
                 PROVE  \/ delivered' = Append(delivered, m)
                        \/ items[m] = "reserved"
                        \/ broken \/ broken'
      OBVIOUS
    <2>0. /\ m = InHand
          /\ pc = "handle" /\ plan /= <<>> /\ Head(plan) \in {"dispatch", "writing"}
          /\ Online \/ broken
      BY <1>1 DEF IInv, CoreOK, MessagesOK, InHand, HandIsHandled, OnlineOrBroken, Online
    <2>1. CASE WriteEnds
      BY <2>0, <2>1 DEF WriteEnds
    <2>2. CASE Dispatch
      BY <2>0, <2>2 DEF Dispatch, Online
    <2>3. CASE Restart
      BY <2>3 DEF Restart
    <2>4. CASE WifiLost \/ WifiFound \/ HostLost
      BY <2>4 DEF WifiLost, WifiFound, HostLost, sending
    <2>5. CASE Interrupt
      BY <2>5, InterruptEffect DEF sending
    <2>6. CASE \/ PrintStarts \/ PrintEnds \/ PrintClears
               \/ CountLoad \/ CountStore \/ Reading
      BY <2>6 DEF PrintStarts, PrintEnds, PrintClears, CountLoad, CountStore, Reading
    <2>7. CASE Loop
      BY <1>1, <2>7, LoopIdle
    <2>8. QED
      BY <1>1, <2>1, <2>2, <2>3, <2>4, <2>5, <2>6, <2>7 DEF Next, Work
  <1>2. IInv /\ [Next]_vars => [Explained]_vars
    BY <1>1
  <1>3. QED
    BY <1>2, GatewayInvariant, PTL DEF Spec, DroppedOnlyWhenBroken

\* The gateway, with its callbacks, its connection and its restarts,
\* implements the relay: the daemon gets messages in the order of decoding,
\* each at most once.
THEOREM GatewayIsRelay == Spec => ImplementsRelay
  <1> DEFINE underway == pending \cup hand
  <1>1. Init => Relay!RelayInit
    BY DEF Init, Relay!RelayInit
  <1>2. ASSUME IInv, [Next]_vars
        PROVE  Relay!RelayNext \/ UNCHANGED <<Len(items), underway, delivered>>
    <2>0. MessagesOK
      BY <1>2 DEF IInv, CoreOK
    <2>1. CASE Interrupt
      <3>1. PICK new \in Seq(Kinds) : Enqueue(new) /\ UNCHANGED <<hand, delivered>>
        BY <2>1, InterruptEffect DEF Decoded, sending
      <3>2. /\ Len(items') = Len(items) + Len(new)
            /\ underway' = underway \cup (Len(items) + 1 .. Len(items'))
        BY <2>0, <3>1, EnqueueMessages
      <3>3. Len(items) \in Nat /\ Len(new) \in Nat
        BY <2>0 DEF MessagesOK
      <3>4. CASE Len(new) > 0
        <4>1. Relay!Decode
          BY <3>1, <3>2, <3>3, <3>4 DEF Relay!Decode
        <4>2. QED
          BY <4>1 DEF Relay!RelayNext
      <3>5. CASE Len(new) = 0
        <4>1. Len(items') = Len(items) /\ Len(items) + 1 .. Len(items') = {}
          BY <3>2, <3>3, <3>5
        <4>2. QED
          BY <3>1, <3>2, <4>1
      <3>6. QED
        BY <3>3, <3>4, <3>5
    <2>2. CASE WriteEnds
      <3>1. /\ UNCHANGED <<items, pending>> /\ hand' = {}
            /\ hand = {} => delivered' = delivered
            /\ \/ delivered' = delivered
               \/ delivered' = Append(delivered, InHand)
        BY <2>2 DEF WriteEnds, queue, daemon
      <3>2. CASE delivered' = delivered
        BY <3>1, <3>2 DEF Relay!RelayNext, Relay!Lose
      <3>3. CASE hand /= {} /\ delivered' = Append(delivered, InHand)
        <4>1. /\ InHand \in underway
              /\ underway' \subseteq {n \in underway : n > InHand}
          <5>1. InHand \in hand /\ InHand \in Nat /\ pending \subseteq Nat
            BY <2>0, <3>3 DEF InHand, MessagesOK
          <5>2. \A n \in pending : InHand < n
            BY <1>2, <5>1 DEF IInv, HandIsOldest
          <5>3. QED
            BY <3>1, <5>1, <5>2
        <4>2. Relay!Deliver
          BY <3>1, <3>3, <4>1 DEF Relay!Deliver
        <4>3. QED
          BY <4>2 DEF Relay!RelayNext
      <3>4. QED
        BY <3>1, <3>2, <3>3
    <2>3. CASE Dispatch
      <3>1. UNCHANGED <<items, pending, delivered>> /\ hand' \subseteq hand
        BY <2>3 DEF Dispatch, queue, daemon
      <3>2. QED
        BY <3>1 DEF Relay!RelayNext, Relay!Lose
    <2>4. CASE Pop
      <3>1. /\ UNCHANGED <<items, delivered>> /\ hand = {}
            /\ \E m \in pending : hand' = {m} /\ pending' = pending \ {m}
        BY <1>2, <2>4, PopEffect, LoopIdle DEF Pop, Loop, daemon
      <3>2. QED
        BY <3>1
    <2>5. CASE PopForgets
      <3>1. UNCHANGED <<items, hand, delivered>> /\ pending' \subseteq pending
        BY <2>5 DEF PopForgets, Fifo!ForgetYounger, Fifo!IsOldest, sending, daemon
      <3>2. QED
        BY <3>1 DEF Relay!RelayNext, Relay!Lose
    <2>6. CASE Restart
      BY <2>6 DEF Restart, Fifo!Restart, Relay!RelayNext, Relay!Lose
    <2>7. CASE WifiLost \/ WifiFound \/ HostLost
      BY <2>7 DEF WifiLost, WifiFound, HostLost, sending, queue, daemon
    <2>8. CASE \/ PrintStarts \/ PrintEnds \/ PrintClears
               \/ CountLoad \/ CountStore \/ Reading
      BY <2>8 DEF PrintStarts, PrintEnds, PrintClears, CountLoad, CountStore, Reading, queue,
         daemon
    <2>9. CASE WifiDown \/ WifiUp \/ HostUp \/ HostDown \/ Reconnect \/ ReconnectFails
      BY <2>9 DEF WifiDown, WifiUp, HostUp, HostDown, Reconnect, ReconnectFails, sending,
         queue, daemon
    <2>10. CASE \/ NoCommand \/ Command \/ NoRequest \/ Request
                \/ QueueEmpty \/ SensorsWait \/ SensorsRead
      BY <2>10 DEF NoCommand, Command, NoRequest, Request, QueueEmpty, SensorsWait,
         SensorsRead, sending, queue, daemon
    <2>11. CASE UNCHANGED vars
      BY <2>11 DEF vars, sending, queue, daemon
    <2>12. QED
      BY <1>2, <2>1, <2>2, <2>3, <2>4, <2>5, <2>6, <2>7, <2>8, <2>9, <2>10, <2>11
         DEF Next, Work, Loop
  <1>3. IInv /\ [Next]_vars => [Relay!RelayNext]_(Relay!relayVars)
    BY <1>2 DEF Relay!relayVars
  <1>4. QED
    BY <1>1, <1>3, GatewayInvariant, PTL DEF Spec, ImplementsRelay, Relay!RelaySpec
=================================================================================
