------------------------ MODULE ReliableDatagramProofs ------------------------
(***************************************************************************)
(* That recvfromAck returns the messages of a board in their order, and    *)
(* one message a second time only after a restart, for any number of ids,  *)
(* repetitions, places in the radio, messages and restarts.                *)
(*                                                                         *)
(* The ids wrap, so that equal ids do not make equal messages.  The        *)
(* invariant looks at everything that is on its way to a board: it comes   *)
(* in the order of the numbers, copies have the id of their message, and   *)
(* what has been delivered in this life of the board and could come again  *)
(* has the id that the board has seen.                                     *)
(***************************************************************************)
EXTENDS ReliableDatagram, TLAPS

LEMMA Constants ==
  /\ Client /= Server
  /\ IdMod \in Nat /\ IdMod > 1 /\ Retries \in Nat /\ FifoSize \in Nat /\ FifoSize > 0
  /\ MaxMessages \in Nat /\ MaxRestarts \in Nat
BY DatagramAssumption DEF DatagramAssumption

LEMMA OtherNode == \A n \in Nodes : Other(n) \in Nodes /\ Other(n) /= n /\ Other(Other(n)) = n
BY Constants DEF Nodes, Other

LEMMA NextIdType == ASSUME TypeOK, NEW n \in Nodes PROVE NextId(n) \in 0 .. IdMod - 1
<1>1. lastId[n] + 1 \in Nat /\ IdMod \in Nat \ {0}
  BY Constants DEF TypeOK
<1>2. \A a \in Nat, b \in Nat \ {0} : a % b \in 0 .. b - 1
  OBVIOUS
<1> QED BY <1>1, <1>2 DEF NextId

LEMMA TakesType ==
  ASSUME TypeOK, NEW n \in Nodes, Takes(n)
  PROVE  /\ fifo' \in [Nodes -> Seq(Messages)] /\ \A m \in Nodes : Len(fifo'[m]) <= FifoSize
         /\ Head(fifo[n]) \in Messages
<1>1. fifo[n] \in Seq(Messages) /\ fifo[n] /= <<>>
  BY DEF TypeOK, Takes
<1>2. Tail(fifo[n]) \in Seq(Messages) /\ Len(Tail(fifo[n])) = Len(fifo[n]) - 1
      /\ Head(fifo[n]) \in Messages /\ Len(fifo[n]) \in Nat
  BY <1>1
<1>3. FifoSize \in Nat
  BY Constants
<1> DEFINE f == Tail(fifo[n])
<1>4. f \in Seq(Messages) /\ Len(f) <= FifoSize
  BY <1>2, <1>3 DEF TypeOK
<1>5. fifo' = [fifo EXCEPT ![n] = f]
  BY DEF Takes
<1> HIDE DEF f
<1> QED BY <1>2, <1>4, <1>5 DEF TypeOK

\* One new message.
LEMMA CallType ==
  ASSUME TypeOK, NEW n \in Nodes, NEW re \in Nat, Call(n, re)
  PROVE  /\ lastId' \in [Nodes -> 0 .. IdMod - 1]
         /\ out' \in [Nodes -> Messages]
         /\ sent' \in [Nodes -> Nat]
         /\ tries' \in [Nodes -> 0 .. Retries + 1]
<1>1. NextId(n) \in 0 .. IdMod - 1
  BY NextIdType
<1>2. sent[n] + 1 \in Nat
  BY DEF TypeOK
<1>3. [id |-> NextId(n), ack |-> FALSE, number |-> sent[n] + 1, re |-> re] \in Messages
  BY <1>1, <1>2 DEF Messages
<1>4. Retries \in Nat
  BY Constants
<1> QED BY <1>1, <1>2, <1>3, <1>4 DEF TypeOK, Call

LEMMA OnAirType == ASSUME TypeOK, NEW n \in Nodes PROVE OnAir(n) \in Messages
<1>1. out[n] \in Messages /\ inHand[n] \in Messages
  BY DEF TypeOK
<1>2. Acknowledgement(inHand[n]) \in Messages
  BY <1>1 DEF Acknowledgement, Messages
<1> QED BY <1>1, <1>2 DEF OnAir

LEMMA TypeInit == Init => TypeOK
<1>1. Nothing \in Messages
  BY Constants DEF Nothing, Messages
<1>2. <<>> \in Seq(Messages) /\ Len(<<>>) = 0 /\ 0 \in 0 .. IdMod - 1
      /\ 0 \in 0 .. Retries + 1 /\ 0 \in 0 .. MaxRestarts /\ 0 <= FifoSize
  BY Constants
<1>3. <<>> \in Seq([at : Nodes, message : Messages, life : Nat, latest : Nat])
  OBVIOUS
<1> QED BY <1>1, <1>2, <1>3 DEF Init, TypeOK, Start

LEMMA TypeNext == ASSUME TypeOK, [Next]_vars PROVE TypeOK'
<1> USE DEF TypeOK, histVars
<1>1. CASE UNCHANGED vars
  BY <1>1 DEF vars
<1>2. ASSUME NEW n \in Nodes, Request(n) PROVE TypeOK'
  BY <1>2, CallType DEF Request
<1>3. ASSUME NEW n \in Nodes, NEW heard \in BOOLEAN, Sent(n, heard) PROVE TypeOK'
  <2>1. OnAir(n) \in Messages /\ Other(n) \in Nodes
    BY OnAirType, OtherNode
  <2>2. CASE heard
    <3>1. fifo[Other(n)] \in Seq(Messages) /\ Len(fifo[Other(n)]) < FifoSize
      BY <1>3, <2>1, <2>2 DEF Sent, Hears
    <3>2. Append(fifo[Other(n)], OnAir(n)) \in Seq(Messages)
          /\ Len(Append(fifo[Other(n)], OnAir(n))) = Len(fifo[Other(n)]) + 1
          /\ Len(fifo[Other(n)]) \in Nat /\ FifoSize \in Nat
      BY <2>1, <3>1, Constants
    <3>3. fifo' \in [Nodes -> Seq(Messages)] /\ \A m \in Nodes : Len(fifo'[m]) <= FifoSize
      <4> DEFINE f == Append(fifo[Other(n)], OnAir(n))
      <4>1. f \in Seq(Messages) /\ Len(f) <= FifoSize
        BY <3>1, <3>2
      <4>2. fifo' = [fifo EXCEPT ![Other(n)] = f]
        BY <1>3, <2>2 DEF Sent
      <4> HIDE DEF f
      <4> QED BY <2>1, <4>1, <4>2
    <3> QED BY <1>3, <3>3 DEF Sent
  <2>3. CASE ~heard
    BY <1>3, <2>3 DEF Sent
  <2> QED BY <2>2, <2>3
<1>4. ASSUME NEW n \in Nodes, Timeout(n) PROVE TypeOK'
  <2>1. tries[n] <= Retries => Counted(n) \in 0 .. Retries + 1
    BY Constants DEF Counted
  <2>2. tries' \in [Nodes -> 0 .. Retries + 1]
    BY <1>4, <2>1 DEF Timeout
  <2>3. pc'[n] \in {"sending", "listening", "resting"} /\ pc' = [pc EXCEPT ![n] = pc'[n]]
    BY <1>4 DEF Timeout, AfterFailure
  <2> QED BY <1>4, <2>2, <2>3 DEF Timeout
<1>5. ASSUME NEW n \in Nodes, TakesAck(n) PROVE TypeOK'
  <2>1. Takes(n)
    BY <1>5 DEF TakesAck
  <2>2. out[n].number \in Nat /\ Head(fifo[n]).number \in Nat
    BY <2>1, TakesType DEF Messages
  <2>3. acked' \subseteq [at : Nodes, number : Nat, by : Nat]
    BY <1>5, <2>2 DEF TakesAck
  <2> QED BY <1>5, <2>1, <2>3, TakesType DEF TakesAck
<1>6. ASSUME NEW n \in Nodes, TakesSeen(n) PROVE TypeOK'
  BY <1>6, TakesType DEF TakesSeen
<1>7. ASSUME NEW n \in Nodes, Discards(n) PROVE TypeOK'
  BY <1>7, TakesType DEF Discards
<1>8. ASSUME NEW n \in Nodes, TakesMessage(n) PROVE TypeOK'
  BY <1>8, TakesType DEF TakesMessage
<1>9. ASSUME NEW n \in Nodes, TakesNothing(n) PROVE TypeOK'
  BY <1>9 DEF TakesNothing
<1>10. ASSUME NEW n \in Nodes, Delivers(n) PROVE TypeOK'
  <2>1. inHand[n] \in Messages /\ inHand[n].id \in 0 .. IdMod - 1 /\ inHand[n].number \in Nat
    BY DEF Messages
  <2>2. restarts[n] \in Nat /\ sent[n] \in Nat
    BY Constants
  <2>3. Delivery(n, inHand[n]) \in [at : Nodes, message : Messages, life : Nat, latest : Nat]
    BY <2>1, <2>2 DEF Delivery
  <2>4. delivered' \in Seq([at : Nodes, message : Messages, life : Nat, latest : Nat])
    BY <1>10, <2>3 DEF Delivers
  <2>5. CASE n = Server
    BY <1>10, <2>1, <2>4, <2>5, CallType DEF Delivers
  <2>6. CASE n /= Server
    BY <1>10, <2>1, <2>4, <2>6 DEF Delivers
  <2> QED BY <2>5, <2>6
<1>11. ASSUME NEW n \in Nodes, NoReply(n) PROVE TypeOK'
  BY <1>11 DEF NoReply
<1>12. ASSUME NEW n \in Nodes, Restart(n) PROVE TypeOK'
  <2>1. Nothing \in Messages
    BY Constants DEF Nothing, Messages
  <2>2. <<>> \in Seq(Messages) /\ Len(<<>>) = 0 /\ 0 \in 0 .. IdMod - 1
        /\ 0 \in 0 .. Retries + 1 /\ 0 <= FifoSize /\ restarts[n] + 1 \in 0 .. MaxRestarts
    BY <1>12, Constants DEF Restart
  <2> QED BY <1>12, <2>1, <2>2 DEF Restart, Start
<1> QED BY <1>1, <1>2, <1>3, <1>4, <1>5, <1>6, <1>7, <1>8, <1>9, <1>10, <1>11, <1>12
        DEF Next, Step

\* The types of the two boards, for any ids, retries and buffers: an id stays in its
\* byte, and a message is sent at most Retries + 1 times.
THEOREM TypeCorrect == Spec => []TypeOK
BY TypeInit, TypeNext, PTL DEF Spec

--------------------------------------------------------------------------------
(* The order of what is on its way.                                        *)

Calling(n) == pc[n] \in {"sending", "waiting", "repeating"}
Handling(n) == pc[n] \in {"acking", "taking"}

\* q is a later message than p, or a copy of it.
Before(p, q) == p.number < q.number \/ (p.number = q.number /\ p.id = q.id)

\* What n has been given before q is earlier, or the same: then it was given in an
\* earlier life of the board, or n has seen the id.
Fresh(n, q) ==
  \A i \in DOMAIN delivered :
    LET d == delivered[i]
    IN  d.at = n =>
          \/ d.message.number < q.number
          \/ d.message.number = q.number /\ (d.life < restarts[n] \/ q.id = seenId[n])

\* q comes to n, and no message comes after what the other board is sending.
Known(n, q) ==
  /\ q.number <= sent[Other(n)]
  /\ Fresh(n, q)
  /\ Calling(Other(n)) => Before(q, out[Other(n)])

OutIsLatest(n) == Calling(n) => ~out[n].ack /\ out[n].number = sent[n]

ComingKnown(n) ==
  /\ \A i \in DOMAIN fifo[n] : ~fifo[n][i].ack => Known(n, fifo[n][i])
  /\ Handling(n) => Known(n, inHand[n])
  /\ Calling(Other(n)) => Known(n, out[Other(n)])

FifoOrdered(n) ==
  \A i, j \in DOMAIN fifo[n] :
    i < j /\ ~fifo[n][i].ack /\ ~fifo[n][j].ack => Before(fifo[n][i], fifo[n][j])

InHandFirst(n) ==
  Handling(n) =>
    /\ ~inHand[n].ack
    /\ \A i \in DOMAIN fifo[n] : ~fifo[n][i].ack => Before(inHand[n], fifo[n][i])

GivenBefore(n) ==
  \A i \in DOMAIN delivered :
    delivered[i].at = n =>
      delivered[i].message.number <= sent[Other(n)] /\ delivered[i].life <= restarts[n]

Ordered(n) ==
  /\ OutIsLatest(n) /\ ComingKnown(n) /\ FifoOrdered(n) /\ InHandFirst(n) /\ GivenBefore(n)

Inv == TypeOK /\ (\A n \in Nodes : Ordered(n)) /\ DeliveredInOrder

LEMMA MessageTypes ==
  ASSUME TypeOK, NEW n \in Nodes
  PROVE  /\ \A i \in DOMAIN fifo[n] : fifo[n][i] \in Messages /\ fifo[n][i].number \in Nat
         /\ out[n].number \in Nat /\ inHand[n].number \in Nat
         /\ sent[n] \in Nat /\ restarts[n] \in Nat
         /\ DOMAIN fifo[n] = 1 .. Len(fifo[n]) /\ Len(fifo[n]) \in Nat
<1>1. fifo[n] \in Seq(Messages) /\ out[n] \in Messages /\ inHand[n] \in Messages
      /\ sent[n] \in Nat /\ restarts[n] \in 0 .. MaxRestarts
  BY DEF TypeOK
<1>2. \A p \in Messages : p.number \in Nat
  BY DEF Messages
<1>3. DOMAIN fifo[n] = 1 .. Len(fifo[n]) /\ Len(fifo[n]) \in Nat
      /\ \A i \in DOMAIN fifo[n] : fifo[n][i] \in Messages
  BY <1>1
<1> QED BY <1>1, <1>2, <1>3, Constants

LEMMA GivenTypes ==
  ASSUME TypeOK
  PROVE  \A i \in DOMAIN delivered : delivered[i].message.number \in Nat /\ delivered[i].life \in Nat
<1>1. \A i \in DOMAIN delivered :
        delivered[i] \in [at : Nodes, message : Messages, life : Nat, latest : Nat]
  <2>1. \A S : \A s \in Seq(S) : \A i \in DOMAIN s : s[i] \in S
    OBVIOUS
  <2> QED BY <2>1 DEF TypeOK
<1> QED BY <1>1 DEF Messages

\* What has been delivered before p has been delivered before what comes after p.
LEMMA FreshLater ==
  ASSUME TypeOK, NEW n, NEW p, NEW q, p.number \in Nat, q.number \in Nat,
         Fresh(n, p), Before(p, q)
  PROVE  Fresh(n, q)
BY GivenTypes DEF Fresh, Before

\* What a step leaves alone for board m.
Untouched(m) ==
  /\ seenId'[m] = seenId[m] /\ restarts'[m] = restarts[m]
  /\ sent'[Other(m)] = sent[Other(m)]
  /\ \A i \in DOMAIN delivered' :
       delivered'[i].at = m => i \in DOMAIN delivered /\ delivered'[i] = delivered[i]

\* The other board does not begin to send a message.
NoCall(m) == Calling(m)' => Calling(m) /\ out'[m] = out[m] /\ sent'[m] = sent[m]

LEMMA KnownStays ==
  ASSUME NEW m, Untouched(m), NoCall(Other(m)), NEW q, Known(m, q)
  PROVE  Known(m, q)'
BY DEF Known, Fresh, Untouched, NoCall

\* A step after which the same is on its way to m, or a message less.
LEMMA OrderStays ==
  ASSUME TypeOK, NEW m \in Nodes, Ordered(m), Untouched(m), NoCall(m), NoCall(Other(m)),
         fifo'[m] = fifo[m] \/ (fifo[m] /= <<>> /\ fifo'[m] = Tail(fifo[m])),
         Handling(m)' => Handling(m) /\ inHand'[m] = inHand[m]
  PROVE  Ordered(m)'
<1>1. OutIsLatest(m)'
  BY DEF Ordered, OutIsLatest, NoCall
<1>2. GivenBefore(m)'
  BY DEF Ordered, GivenBefore, Untouched
<1>3. ASSUME NEW i \in DOMAIN fifo'[m]
      PROVE  \E k \in DOMAIN fifo[m] :
               /\ fifo'[m][i] = fifo[m][k] /\ k >= i
               /\ \A j \in DOMAIN fifo'[m] : i < j =>
                    \E l \in DOMAIN fifo[m] : k < l /\ fifo'[m][j] = fifo[m][l]
  <2>1. fifo[m] \in Seq(Messages)
    BY DEF TypeOK
  <2>2. CASE fifo'[m] = fifo[m]
    BY <2>1, <2>2, <1>3
  <2>3. CASE fifo[m] /= <<>> /\ fifo'[m] = Tail(fifo[m])
    <3>1. \A j \in DOMAIN fifo'[m] : j + 1 \in DOMAIN fifo[m] /\ fifo'[m][j] = fifo[m][j + 1]
      BY <2>1, <2>3
    <3>2. \A j \in DOMAIN fifo'[m] : j \in Nat
      BY <2>1, <2>3
    <3>3. /\ i + 1 \in DOMAIN fifo[m] /\ fifo'[m][i] = fifo[m][i + 1] /\ i + 1 >= i
          /\ \A j \in DOMAIN fifo'[m] : i < j => i + 1 < j + 1
      BY <3>1, <3>2, <1>3
    <3> QED BY <3>1, <3>3
  <2> QED BY <2>2, <2>3
<1>4. FifoOrdered(m)'
  <2>1. ASSUME NEW i \in DOMAIN fifo'[m], NEW j \in DOMAIN fifo'[m], i < j,
               ~fifo'[m][i].ack, ~fifo'[m][j].ack
        PROVE  Before(fifo'[m][i], fifo'[m][j])
    <3>1. PICK k \in DOMAIN fifo[m], l \in DOMAIN fifo[m] :
            k < l /\ fifo'[m][i] = fifo[m][k] /\ fifo'[m][j] = fifo[m][l]
      BY <1>3, <2>1
    <3> QED BY <2>1, <3>1 DEF Ordered, FifoOrdered
  <2> QED BY <2>1 DEF FifoOrdered, Before
<1>5. InHandFirst(m)'
  BY <1>3 DEF Ordered, InHandFirst, Before
<1>6. ComingKnown(m)'
  <2>1. ASSUME NEW i \in DOMAIN fifo'[m], ~fifo'[m][i].ack PROVE Known(m, fifo[m][i])'
    BY <2>1, <1>3, KnownStays DEF Ordered, ComingKnown
  <2>2. Handling(m)' => Known(m, inHand[m])'
    BY KnownStays DEF Ordered, ComingKnown
  <2>3. Calling(Other(m))' => Known(m, out[Other(m)])'
    BY KnownStays DEF Ordered, ComingKnown, NoCall
  <2> QED BY <2>1, <2>2, <2>3 DEF ComingKnown
<1> QED BY <1>1, <1>2, <1>4, <1>5, <1>6 DEF Ordered

\* n begins to send a message to m.
LEMMA CallOrdered ==
  ASSUME TypeOK, NEW n \in Nodes, NEW m \in Nodes, m = Other(n), Ordered(m),
         NEW re, Call(n, re), NoCall(m),
         seenId'[m] = seenId[m], restarts'[m] = restarts[m],
         fifo'[m] = fifo[m], pc'[m] = pc[m], inHand'[m] = inHand[m],
         \A i \in DOMAIN delivered' :
           delivered'[i].at = m => i \in DOMAIN delivered /\ delivered'[i] = delivered[i]
  PROVE  Ordered(m)'
<1>1. n = Other(m)
  BY OtherNode
<1>2. out'[n].number = sent[n] + 1 /\ sent'[n] = sent[n] + 1 /\ sent[n] \in Nat
  BY DEF TypeOK, Call
<1>3. ASSUME NEW q, Known(m, q), q.number \in Nat PROVE Known(m, q)'
  BY <1>1, <1>2, <1>3 DEF Known, Fresh, Before
<1>4. OutIsLatest(m)'
  BY DEF Ordered, OutIsLatest, NoCall
<1>5. FifoOrdered(m)' /\ InHandFirst(m)'
  BY DEF Ordered, FifoOrdered, InHandFirst, Before, Handling
<1>6. GivenBefore(m)'
  BY <1>1, <1>2, GivenTypes DEF Ordered, GivenBefore
<1>7. Known(m, out[n])'
  <2>1. \A i \in DOMAIN delivered :
          delivered[i].at = m => delivered[i].message.number < sent[n] + 1
    BY <1>1, <1>2, GivenTypes DEF Ordered, GivenBefore
  <2> QED BY <1>1, <1>2, <2>1 DEF Known, Fresh, Before
<1>8. ComingKnown(m)'
  BY <1>1, <1>3, <1>7, MessageTypes DEF Ordered, ComingKnown, Handling
<1> QED BY <1>4, <1>5, <1>6, <1>8 DEF Ordered

\* A message that n sends is received by m.
LEMMA HeardOrdered ==
  ASSUME TypeOK, NEW n \in Nodes, NEW m \in Nodes, m = Other(n), Ordered(n), Ordered(m),
         Sent(n, TRUE)
  PROVE  Ordered(m)'
<1> DEFINE p == OnAir(n)
<1>1. n = Other(m) /\ n /= m
  BY OtherNode
<1>2. fifo[m] \in Seq(Messages) /\ p \in Messages /\ fifo'[m] = Append(fifo[m], p)
  BY OnAirType DEF TypeOK, Sent
<1>3. Untouched(m) /\ NoCall(n) /\ pc'[m] = pc[m] /\ out'[m] = out[m] /\ inHand'[m] = inHand[m]
  BY <1>1 DEF Sent, Untouched, NoCall, Calling, TypeOK, histVars
<1>4. p.ack \/ (Calling(n) /\ p = out[n])
  BY DEF Sent, OnAir, Acknowledgement, Calling
<1>5. ~p.ack => Known(m, p)
  BY <1>1, <1>4 DEF Ordered, ComingKnown
<1>6. /\ DOMAIN fifo'[m] = 1 .. Len(fifo[m]) + 1 /\ Len(fifo[m]) \in Nat
      /\ \A i \in DOMAIN fifo'[m] :
           \/ i \in DOMAIN fifo[m] /\ fifo'[m][i] = fifo[m][i]
           \/ i = Len(fifo[m]) + 1 /\ fifo'[m][i] = p
  BY <1>2
<1> HIDE DEF p
<1>7. ComingKnown(m)'
  <2>1. \A q : Known(m, q) => Known(m, q)'
    BY <1>1, <1>3, KnownStays
  <2>2. Calling(n)' => Calling(n) /\ out'[n] = out[n]
    BY <1>3 DEF NoCall
  <2>3. Handling(m)' => Handling(m)
    BY <1>3 DEF Handling
  <2> QED BY <1>1, <1>3, <1>5, <1>6, <2>1, <2>2, <2>3 DEF Ordered, ComingKnown
<1>8. FifoOrdered(m)'
  <2>1. ASSUME NEW i \in DOMAIN fifo[m], ~fifo[m][i].ack, ~p.ack PROVE Before(fifo[m][i], p)
    BY <1>1, <1>4, <2>1 DEF Ordered, ComingKnown, Known
  <2>2. \A i \in DOMAIN fifo[m] : i <= Len(fifo[m])
    BY <1>2
  <2>3. ASSUME NEW i \in DOMAIN fifo'[m], NEW j \in DOMAIN fifo'[m], i < j,
               ~fifo'[m][i].ack, ~fifo'[m][j].ack
        PROVE  Before(fifo'[m][i], fifo'[m][j])
    <3>1. i \in DOMAIN fifo[m] /\ fifo'[m][i] = fifo[m][i]
      BY <1>6, <2>3
    <3>2. CASE j = Len(fifo[m]) + 1 /\ fifo'[m][j] = p
      BY <2>1, <2>3, <3>1, <3>2
    <3>3. CASE j \in DOMAIN fifo[m] /\ fifo'[m][j] = fifo[m][j]
      BY <2>3, <3>1, <3>3 DEF Ordered, FifoOrdered
    <3> QED BY <1>6, <3>2, <3>3
  <2> QED BY <2>3 DEF FifoOrdered, Before
<1>9. InHandFirst(m)'
  <2>1. ASSUME Handling(m), ~p.ack PROVE Before(inHand[m], p)
    BY <1>1, <1>4, <2>1 DEF Ordered, ComingKnown, Known
  <2> QED BY <1>3, <1>6, <2>1 DEF Ordered, InHandFirst, Handling, Before
<1>10. OutIsLatest(m)' /\ GivenBefore(m)'
  BY <1>1, <1>3 DEF Ordered, OutIsLatest, GivenBefore, Untouched, Calling, Sent, histVars
<1> QED BY <1>7, <1>8, <1>9, <1>10 DEF Ordered

\* n takes a message from the radio to acknowledge it.
LEMMA TakenOrdered ==
  ASSUME TypeOK, NEW n \in Nodes, Ordered(n), TakesMessage(n)
  PROVE  Ordered(n)'
<1> DEFINE o == Other(n)
           p == Head(fifo[n])
<1>1. o \in Nodes /\ o /= n
  BY OtherNode
<1>2. /\ Untouched(n) /\ NoCall(o) /\ ~Calling(n)' /\ out'[n] = out[n]
      /\ inHand'[n] = p /\ fifo'[n] = Tail(fifo[n]) /\ ~p.ack
  BY <1>1 DEF TakesMessage, Takes, Untouched, NoCall, Calling, TypeOK, histVars
<1>3. /\ fifo[n] \in Seq(Messages) /\ fifo[n] /= <<>>
      /\ 1 \in DOMAIN fifo[n] /\ p = fifo[n][1]
      /\ \A i \in DOMAIN fifo'[n] : i + 1 \in DOMAIN fifo[n] /\ 1 < i + 1
                                    /\ fifo'[n][i] = fifo[n][i + 1]
      /\ \A i, j \in DOMAIN fifo'[n] : i < j => i + 1 < j + 1
  BY <1>2 DEF TakesMessage, Takes, TypeOK
<1> HIDE DEF o, p
<1>4. \A q : Known(n, q) => Known(n, q)'
  BY <1>2, KnownStays DEF o
<1>5. ComingKnown(n)'
  <2>1. Calling(o)' => Calling(o) /\ out'[o] = out[o]
    BY <1>2 DEF NoCall
  <2>2. Known(n, p)
    BY <1>2, <1>3 DEF Ordered, ComingKnown
  <2> QED BY <1>2, <1>3, <1>4, <2>1, <2>2 DEF Ordered, ComingKnown, o
<1>6. FifoOrdered(n)'
  BY <1>3 DEF Ordered, FifoOrdered, Before
<1>7. InHandFirst(n)'
  BY <1>2, <1>3 DEF Ordered, FifoOrdered, InHandFirst, Before
<1>8. OutIsLatest(n)' /\ GivenBefore(n)'
  BY <1>2 DEF Ordered, OutIsLatest, GivenBefore, Untouched
<1> QED BY <1>5, <1>6, <1>7, <1>8 DEF Ordered

\* The message in hand, as it is delivered: it has not been seen.
LEMMA DeliversFacts ==
  ASSUME TypeOK, NEW n \in Nodes, Ordered(n), Delivers(n)
  PROVE  LET p == inHand[n]
         IN  /\ Known(n, p) /\ ~p.ack /\ p.id /= seenId[n] /\ p.number \in Nat
             /\ seenId' = [seenId EXCEPT ![n] = p.id]
             /\ DOMAIN delivered' = 1 .. Len(delivered) + 1 /\ Len(delivered) \in Nat
             /\ DOMAIN delivered = 1 .. Len(delivered)
             /\ \A i \in DOMAIN delivered' :
                  \/ i \in DOMAIN delivered /\ delivered'[i] = delivered[i]
                  \/ i = Len(delivered) + 1 /\ delivered'[i] = Delivery(n, p)
             /\ restarts' = restarts /\ fifo' = fifo /\ inHand' = inHand
             /\ ~Handling(n)' /\ \A m \in Nodes : m /= n => pc'[m] = pc[m]
<1>1. Handling(n)
  BY DEF Delivers, Handling
<1>2. Known(n, inHand[n]) /\ ~inHand[n].ack
  BY <1>1 DEF Ordered, ComingKnown, InHandFirst
<1>3. /\ DOMAIN delivered' = 1 .. Len(delivered) + 1 /\ Len(delivered) \in Nat
      /\ DOMAIN delivered = 1 .. Len(delivered)
      /\ \A i \in DOMAIN delivered' :
           \/ i \in DOMAIN delivered /\ delivered'[i] = delivered[i]
           \/ i = Len(delivered) + 1 /\ delivered'[i] = Delivery(n, inHand[n])
  <2> DEFINE S == [at : Nodes, message : Messages, life : Nat, latest : Nat]
             d == Delivery(n, inHand[n])
  <2>1. delivered \in Seq(S) /\ delivered' = Append(delivered, d)
    BY DEF TypeOK, Delivers
  <2> HIDE DEF S, d
  <2>2. /\ DOMAIN delivered' = 1 .. Len(delivered) + 1 /\ Len(delivered) \in Nat
        /\ DOMAIN delivered = 1 .. Len(delivered)
        /\ \A i \in DOMAIN delivered' :
             \/ i \in DOMAIN delivered /\ delivered'[i] = delivered[i]
             \/ i = Len(delivered) + 1 /\ delivered'[i] = d
    BY <2>1
  <2> QED BY <2>2 DEF d
<1>4. inHand[n].number \in Nat
  BY MessageTypes
<1> QED BY <1>2, <1>3, <1>4 DEF Delivers, IsSeen, Handling, TypeOK, Messages

LEMMA DeliversOrdered ==
  ASSUME TypeOK, NEW n \in Nodes, Ordered(n), Delivers(n)
  PROVE  Ordered(n)'
<1> DEFINE o == Other(n)
           p == inHand[n]
<1>1. o \in Nodes /\ o /= n
  BY OtherNode
<1>2. /\ Known(n, p) /\ p.number \in Nat
      /\ seenId'[n] = p.id /\ restarts' = restarts /\ fifo' = fifo
      /\ ~Handling(n)' /\ pc'[o] = pc[o]
  BY <1>1, DeliversFacts DEF TypeOK
<1>3. /\ out'[o] = out[o] /\ sent'[o] = sent[o]
      /\ Calling(n)' => ~out'[n].ack /\ out'[n].number = sent'[n]
  <2>1. out \in [Nodes -> Messages] /\ sent \in [Nodes -> Nat] /\ n \in DOMAIN pc
    BY DEF TypeOK
  <2>2. CASE n = Server
    BY <1>1, <2>1, <2>2 DEF Delivers, Call
  <2>3. CASE n /= Server
    BY <1>1, <2>1, <2>3 DEF Delivers, Calling
  <2> QED BY <2>2, <2>3
<1>4. \A i \in DOMAIN delivered' :
        \/ i \in DOMAIN delivered /\ delivered'[i] = delivered[i]
        \/ delivered'[i].message = p /\ delivered'[i].life = restarts[n]
  BY DeliversFacts DEF Delivery
<1>5. ASSUME NEW q, Known(n, q), Before(p, q), q.number \in Nat PROVE Known(n, q)'
  <2>1. Fresh(n, q)'
    <3>1. ASSUME NEW i \in DOMAIN delivered, delivered[i].at = n
          PROVE  \/ delivered[i].message.number < q.number
                 \/ delivered[i].message.number = q.number /\ q.id = p.id
      <4>1. delivered[i].message.number <= p.number /\ delivered[i].message.number \in Nat
        BY <1>2, <3>1, GivenTypes DEF Known, Fresh
      <4> QED BY <1>2, <1>5, <4>1 DEF Before
    <3> QED BY <1>2, <1>4, <1>5, <3>1 DEF Fresh, Before
  <2> QED BY <1>2, <1>3, <1>5, <2>1 DEF Known, Calling
<1> HIDE DEF p
<1>6. ComingKnown(n)'
  <2>1. ASSUME NEW i \in DOMAIN fifo[n], ~fifo[n][i].ack PROVE Known(n, fifo[n][i])'
    <3>1. Handling(n)
      BY DEF Delivers, Handling
    <3>2. Known(n, fifo[n][i]) /\ Before(p, fifo[n][i]) /\ fifo[n][i].number \in Nat
      BY <2>1, <3>1, MessageTypes DEF Ordered, ComingKnown, InHandFirst, p
    <3>3. \A q : Known(n, q) /\ Before(p, q) /\ q.number \in Nat => Known(n, q)'
      BY <1>5
    <3> QED BY <1>2, <3>2, <3>3
  <2>2. Calling(o)' => Known(n, out[o])'
    <3>1. ASSUME Calling(o)
          PROVE  Known(n, out[o]) /\ Before(p, out[o]) /\ out[o].number \in Nat
      BY <1>1, <1>2, <3>1, MessageTypes DEF Ordered, ComingKnown, Known
    <3>2. \A q : Known(n, q) /\ Before(p, q) /\ q.number \in Nat => Known(n, q)'
      BY <1>5
    <3>3. Calling(o)' => Calling(o)
      BY <1>2 DEF Calling
    <3> QED BY <1>3, <3>1, <3>2, <3>3
  <2> QED BY <1>2, <2>1, <2>2 DEF ComingKnown
<1>7. FifoOrdered(n)' /\ InHandFirst(n)' /\ OutIsLatest(n)'
  BY <1>2, <1>3 DEF Ordered, FifoOrdered, InHandFirst, OutIsLatest, Before
<1>8. GivenBefore(n)'
  <2>1. restarts[n] <= restarts[n] /\ p.number <= sent[o]
    BY <1>2, MessageTypes DEF Known
  <2> QED BY <1>2, <1>3, <1>4, <2>1 DEF Ordered, GivenBefore
<1> QED BY <1>6, <1>7, <1>8 DEF Ordered

LEMMA DeliversInOrder ==
  ASSUME TypeOK, NEW n \in Nodes, Ordered(n), DeliveredInOrder, Delivers(n)
  PROVE  DeliveredInOrder'
<1> DEFINE p == inHand[n]
<1>1. /\ Known(n, p) /\ p.id /= seenId[n]
      /\ DOMAIN delivered' = 1 .. Len(delivered) + 1 /\ Len(delivered) \in Nat
      /\ DOMAIN delivered = 1 .. Len(delivered)
      /\ \A i \in DOMAIN delivered' :
           \/ i \in DOMAIN delivered /\ delivered'[i] = delivered[i]
           \/ i = Len(delivered) + 1 /\ delivered'[i] = Delivery(n, p)
  BY DeliversFacts
<1> HIDE DEF p
<1>2. ASSUME NEW i \in DOMAIN delivered', NEW j \in DOMAIN delivered', i < j,
             delivered'[i].at = delivered'[j].at
      PROVE  \/ delivered'[i].message.number < delivered'[j].message.number
             \/ /\ delivered'[i].message.number = delivered'[j].message.number
                /\ delivered'[i].life < delivered'[j].life
  <2>1. i \in DOMAIN delivered /\ delivered'[i] = delivered[i]
    BY <1>1, <1>2
  <2>2. CASE j \in DOMAIN delivered /\ delivered'[j] = delivered[j]
    BY <1>2, <2>1, <2>2 DEF DeliveredInOrder
  <2>3. CASE j = Len(delivered) + 1 /\ delivered'[j] = Delivery(n, p)
    BY <1>1, <1>2, <2>1, <2>3 DEF Delivery, Known, Fresh
  <2> QED BY <1>1, <2>2, <2>3
<1> QED BY <1>2 DEF DeliveredInOrder

LEMMA RestartOrdered ==
  ASSUME TypeOK, NEW n \in Nodes, Ordered(n), OutIsLatest(Other(n)), Restart(n)
  PROVE  Ordered(n)'
<1> DEFINE o == Other(n)
<1>1. o \in Nodes /\ o /= n
  BY OtherNode
<1>2. /\ fifo'[n] = <<>> /\ pc'[n] = Start(n) /\ restarts'[n] = restarts[n] + 1
      /\ pc'[o] = pc[o] /\ out'[o] = out[o] /\ sent' = sent /\ delivered' = delivered
      /\ restarts[n] \in Nat /\ sent[o] \in Nat
  BY <1>1, MessageTypes DEF Restart, TypeOK
<1>3. ~Calling(n)' /\ ~Handling(n)' /\ DOMAIN fifo'[n] = {}
  BY <1>2 DEF Calling, Handling, Start
<1>4. OutIsLatest(n)' /\ FifoOrdered(n)' /\ InHandFirst(n)'
  BY <1>3 DEF OutIsLatest, FifoOrdered, InHandFirst
<1>5. \A i \in DOMAIN delivered :
        delivered[i].at = n =>
          /\ delivered[i].message.number <= sent[o] /\ delivered[i].message.number \in Nat
          /\ delivered[i].life < restarts'[n]
  BY <1>2, GivenTypes DEF Ordered, GivenBefore
<1>6. GivenBefore(n)'
  BY <1>2, <1>5, GivenTypes DEF GivenBefore
<1>7. Calling(o)' => Known(n, out[o])'
  <2>1. Calling(o)' => out'[o].number = sent[o]
    BY <1>2 DEF OutIsLatest, Calling
  <2> QED BY <1>2, <1>5, <2>1 DEF Known, Fresh, Before
<1>8. ComingKnown(n)'
  BY <1>3, <1>7 DEF ComingKnown
<1> QED BY <1>4, <1>6, <1>8 DEF Ordered

LEMMA OrderInit == Init => Inv
<1> SUFFICES ASSUME Init PROVE Inv
  OBVIOUS
<1>1. DOMAIN delivered = {} /\ \A n \in Nodes : DOMAIN fifo[n] = {}
  BY DEF Init
<1>2. \A n \in Nodes : ~Calling(n) /\ ~Handling(n)
  BY DEF Init, Calling, Handling, Start
<1>3. \A n \in Nodes : Ordered(n)
  BY <1>1, <1>2, OtherNode
     DEF Ordered, OutIsLatest, ComingKnown, FifoOrdered, InHandFirst, GivenBefore
<1>4. DeliveredInOrder
  BY <1>1 DEF DeliveredInOrder
<1> QED BY <1>3, <1>4, TypeInit DEF Inv

LEMMA OrderNext == ASSUME Inv, [Next]_vars PROVE Inv'
<1> USE OtherNode DEF histVars
<1>1. TypeOK /\ TypeOK' /\ DeliveredInOrder
  BY TypeNext DEF Inv
<1>2. \A n \in Nodes : Ordered(n) /\ OutIsLatest(n)
  BY DEF Inv, Ordered
<1>3. \A n \in Nodes : fifo[n] \in Seq(Messages)
  BY <1>1 DEF TypeOK
<1>4. ASSUME NEW n \in Nodes, Ordered(n)', Ordered(Other(n))' PROVE \A m \in Nodes : Ordered(m)'
  BY <1>4 DEF Nodes, Other
<1>5. (delivered' = delivered) => DeliveredInOrder'
  BY <1>1 DEF DeliveredInOrder
<1>6. CASE UNCHANGED vars
  <2>1. ASSUME NEW m \in Nodes PROVE Ordered(m)'
    BY <1>1, <1>2, <1>6, OrderStays DEF vars, Untouched, NoCall, Calling, Handling
  <2> QED BY <1>1, <1>5, <1>6, <2>1 DEF Inv, vars
<1>7. ASSUME NEW n \in Nodes, Request(n) PROVE Inv'
  <2>1. Ordered(n)'
    <3>1. Untouched(n) /\ NoCall(Other(n)) /\ fifo'[n] = fifo[n]
      BY <1>1, <1>7 DEF Request, Call, Untouched, NoCall, Calling, TypeOK
    <3>2. ~Handling(n)' /\ ~out'[n].ack /\ out'[n].number = sent'[n]
      BY <1>1, <1>7 DEF Request, Call, Handling, TypeOK
    <3>3. \A q : Known(n, q) => Known(n, q)'
      BY <3>1, KnownStays
    <3> QED BY <1>2, <3>1, <3>2, <3>3
            DEF Ordered, OutIsLatest, ComingKnown, FifoOrdered, InHandFirst, GivenBefore,
                Untouched, NoCall, Before
  <2>2. Ordered(Other(n))'
    BY <1>1, <1>2, <1>7, CallOrdered DEF Request, NoCall, Calling, Call, TypeOK
  <2> QED BY <1>1, <1>4, <1>5, <1>7, <2>1, <2>2 DEF Inv, Request
<1>8. ASSUME NEW n \in Nodes, NEW heard \in BOOLEAN, Sent(n, heard) PROVE Inv'
  <2>1. \A m \in Nodes : Untouched(m) /\ NoCall(m)
    BY <1>1, <1>8 DEF Sent, Untouched, NoCall, Calling, TypeOK
  <2>2. \A m \in Nodes : Handling(m)' => Handling(m) /\ inHand'[m] = inHand[m]
    BY <1>1, <1>8 DEF Sent, Handling, TypeOK
  <2>3. ASSUME NEW m \in Nodes, fifo'[m] = fifo[m] PROVE Ordered(m)'
    BY <1>1, <1>2, <2>1, <2>2, <2>3, OrderStays
  <2>4. fifo'[n] = fifo[n] /\ (~heard => fifo'[Other(n)] = fifo[Other(n)])
    BY <1>1, <1>8 DEF Sent, TypeOK
  <2>5. Ordered(n)' /\ Ordered(Other(n))'
    BY <1>1, <1>2, <1>8, <2>3, <2>4, HeardOrdered
  <2> QED BY <1>1, <1>4, <1>5, <1>8, <2>5 DEF Inv, Sent
<1>9. ASSUME NEW n \in Nodes,
             \/ Timeout(n) \/ TakesAck(n) \/ TakesSeen(n) \/ Discards(n)
             \/ TakesNothing(n) \/ NoReply(n)
      PROVE  Inv'
  <2> USE DEF Timeout, TakesAck, TakesSeen, Discards, TakesNothing, NoReply
  <2>1. delivered' = delivered
    BY <1>9
  <2>2. \A m \in Nodes : Untouched(m)
    BY <1>9 DEF Untouched
  <2>3. \A m \in Nodes : m /= n => pc'[m] = pc[m] /\ inHand'[m] = inHand[m]
    BY <1>1, <1>9 DEF TypeOK
  <2>4. /\ pc'[n] \in {"sending", "waiting", "repeating", "listening", "resting"}
        /\ pc'[n] \in {"sending", "waiting", "repeating"} => pc[n] = "waiting"
        /\ out' = out /\ sent' = sent
    BY <1>1, <1>9 DEF TypeOK, AfterFailure
  <2>5. \A m \in Nodes : NoCall(m)
    BY <2>3, <2>4 DEF NoCall, Calling
  <2>6. \A m \in Nodes : Handling(m)' => Handling(m) /\ inHand'[m] = inHand[m]
    BY <2>3, <2>4 DEF Handling
  <2>7. \A m \in Nodes :
          fifo'[m] = fifo[m] \/ (fifo[m] /= <<>> /\ fifo'[m] = Tail(fifo[m]))
    <3>1. fifo' = fifo \/ (fifo[n] /= <<>> /\ fifo' = [fifo EXCEPT ![n] = Tail(@)])
      BY <1>9 DEF Takes
    <3> QED BY <1>1, <3>1 DEF TypeOK
  <2> QED BY <1>1, <1>2, <1>5, <2>1, <2>2, <2>5, <2>6, <2>7, OrderStays DEF Inv
<1>10. ASSUME NEW n \in Nodes, TakesMessage(n) PROVE Inv'
  <2>1. LET m == Other(n)
        IN  /\ Untouched(m) /\ NoCall(m) /\ NoCall(n)
            /\ fifo'[m] = fifo[m] /\ inHand'[m] = inHand[m] /\ (Handling(m)' => Handling(m))
    BY <1>1, <1>10 DEF TakesMessage, Takes, Untouched, NoCall, Calling, Handling, TypeOK
  <2>2. Ordered(Other(n))'
    BY <1>1, <1>2, <2>1, OrderStays
  <2> QED BY <1>1, <1>2, <1>4, <1>5, <1>10, <2>2, TakenOrdered DEF Inv, TakesMessage
<1>11. ASSUME NEW n \in Nodes, Delivers(n) PROVE Inv'
  <2> DEFINE m == Other(n)
  <2>1. /\ pc'[m] = pc[m] /\ seenId'[m] = seenId[m] /\ restarts' = restarts /\ fifo' = fifo
        /\ inHand' = inHand
        /\ \A i \in DOMAIN delivered' :
             delivered'[i].at = m => i \in DOMAIN delivered /\ delivered'[i] = delivered[i]
    <3>1. /\ seenId' = [seenId EXCEPT ![n] = inHand[n].id] /\ restarts' = restarts
          /\ fifo' = fifo /\ inHand' = inHand /\ \A k \in Nodes : k /= n => pc'[k] = pc[k]
          /\ \A i \in DOMAIN delivered' :
               \/ i \in DOMAIN delivered /\ delivered'[i] = delivered[i]
               \/ delivered'[i] = Delivery(n, inHand[n])
      BY <1>1, <1>2, <1>11, DeliversFacts
    <3>2. Delivery(n, inHand[n]).at = n /\ m /= n /\ m \in Nodes
      BY DEF Delivery
    <3> QED BY <1>1, <3>1, <3>2 DEF TypeOK
  <2>2. NoCall(m)
    <3>1. m /= n /\ out'[m] = out[m] /\ sent'[m] = sent[m]
      <4>1. \/ out' = out /\ sent' = sent
            \/ Call(n, inHand[n].number)
        BY <1>11 DEF Delivers
      <4>2. m /= n /\ m \in Nodes /\ out \in [Nodes -> Messages] /\ sent \in [Nodes -> Nat]
        BY <1>1 DEF TypeOK
      <4> QED BY <4>1, <4>2 DEF Call
    <3> QED BY <2>1, <3>1 DEF NoCall, Calling
  <2>3. ASSUME n = Server PROVE Ordered(m)'
    <3>1. Call(n, inHand[n].number)
      BY <1>11, <2>3 DEF Delivers
    <3> QED BY <1>1, <1>2, <2>1, <2>2, <3>1, CallOrdered
  <2>4. ASSUME n /= Server PROVE Ordered(m)'
    <3>1. NoCall(n) /\ sent' = sent
      BY <1>1, <1>11, <2>4 DEF Delivers, NoCall, Calling, TypeOK
    <3>2. Untouched(m)
      BY <2>1, <3>1 DEF Untouched
    <3>3. Handling(m)' => Handling(m)
      BY <2>1 DEF Handling
    <3> QED BY <1>1, <1>2, <2>1, <2>2, <3>1, <3>2, <3>3, OrderStays
  <2>5. Ordered(m)'
    BY <2>3, <2>4
  <2>6. Ordered(n)' /\ DeliveredInOrder'
    BY <1>1, <1>2, <1>11, DeliversOrdered, DeliversInOrder
  <2> QED BY <1>1, <1>4, <2>5, <2>6 DEF Inv
<1>12. ASSUME NEW n \in Nodes, Restart(n) PROVE Inv'
  <2>1. LET m == Other(n)
        IN  /\ Untouched(m) /\ NoCall(m) /\ NoCall(n)
            /\ fifo'[m] = fifo[m] /\ inHand'[m] = inHand[m] /\ (Handling(m)' => Handling(m))
    BY <1>1, <1>12 DEF Restart, Start, Untouched, NoCall, Calling, Handling, TypeOK
  <2>2. Ordered(Other(n))'
    BY <1>1, <1>2, <2>1, OrderStays
  <2> QED BY <1>1, <1>2, <1>4, <1>5, <1>12, <2>2, RestartOrdered DEF Inv, Restart
<1> QED BY <1>6, <1>7, <1>8, <1>9, <1>10, <1>11, <1>12 DEF Next, Step

\* The messages of a board are delivered in the order in which it began to send them,
\* and one is delivered a second time only after the receiver was restarted: for any
\* number of ids, although they wrap, and any losses, repetitions and restarts.
THEOREM DatagramsInOrder == Spec => []DeliveredInOrder
<1>1. Inv => DeliveredInOrder
  BY DEF Inv
<1> QED BY <1>1, OrderInit, OrderNext, PTL DEF Spec

--------------------------------------------------------------------------------
(* Arithmetic of ids.                                                      *)

LEMMA Division ==
  ASSUME NEW M \in Nat, M > 0, NEW a \in Nat
  PROVE  a \div M \in Nat /\ a % M \in 0 .. M - 1 /\ a = M * (a \div M) + (a % M)
OBVIOUS

LEMMA Monotone ==
  ASSUME NEW M \in Nat, NEW x \in Int, NEW y \in Int, x < y
  PROVE  M * x + M <= M * y
<1>1. PICK d \in Nat : y = x + 1 + d
  <2>1. y - x - 1 \in Nat
    OBVIOUS
  <2> QED BY <2>1
<1>2. M * y = M * x + M + M * d
  BY <1>1
<1>3. M * d \in Nat /\ M * x \in Int
  BY <1>1
<1> QED BY <1>2, <1>3

\* Two numbers with one id are apart by at least the number of ids.
LEMMA SameIdApart ==
  ASSUME NEW M \in Nat, M > 0, NEW a \in Nat, NEW b \in Nat, a < b, a % M = b % M
  PROVE  b - a >= M
<1> DEFINE x == a \div M
           y == b \div M
<1>1. /\ x \in Nat /\ y \in Nat /\ M * x \in Int /\ M * y \in Int
      /\ b - a = M * y - M * x
  BY Division
<1> HIDE DEF x, y
<1>2. CASE x < y
  BY <1>1, <1>2, Monotone
<1>3. CASE y < x
  BY <1>1, <1>3, Monotone
<1>4. CASE x = y
  BY <1>1, <1>4
<1> QED BY <1>1, <1>2, <1>3, <1>4

LEMMA NextIdFits ==
  ASSUME NEW M \in Nat, M > 1, NEW a \in Nat
  PROVE  ((a % M) + 1) % M = (a + 1) % M
<1> DEFINE r == a % M
           s == (a + 1) % M
           x == a \div M
           y == (a + 1) \div M
<1>1. /\ x \in Nat /\ y \in Nat /\ M * x \in Int /\ M * y \in Int
      /\ r \in 0 .. M - 1 /\ s \in 0 .. M - 1
      /\ a = M * x + r /\ a + 1 = M * y + s
  BY Division
<1>2. CASE r + 1 < M
  <2>1. (r + 1) % M = r + 1
    BY <1>1, <1>2
  <2>2. M * y + s = M * x + r + 1
    BY <1>1
  <2> HIDE DEF r, s, x, y
  <2>3. ~(x < y) /\ ~(y < x)
    BY <1>1, <1>2, <2>2, Monotone
  <2>4. s = r + 1
    BY <1>1, <2>2, <2>3
  <2> QED BY <2>1, <2>4 DEF r, s
<1>3. CASE r + 1 = M
  <2>1. (r + 1) % M = 0
    BY <1>1, <1>3
  <2>2. M * y + s = M * x + M
    BY <1>1, <1>3
  <2> HIDE DEF r, s, x, y
  <2>3. M * (x + 1) = M * x + M
    BY <1>1
  <2>4. ~(x + 1 < y) /\ ~(y < x + 1)
    BY <1>1, <1>3, <2>2, <2>3, Monotone
  <2>5. s = 0
    BY <1>1, <2>2, <2>3, <2>4
  <2> QED BY <2>1, <2>5 DEF r, s
<1> QED BY <1>1, <1>2, <1>3

--------------------------------------------------------------------------------
(* Acknowledgements, as long as no board is restarted.                     *)

Together == restarts[Client] = 0 /\ restarts[Server] = 0

Numbered(p) == p.number > 0 /\ p.id = p.number % IdMod

\* The ids of the messages of n and of their acknowledgements are their numbers.
IdsFit(n) ==
  LET o == Other(n)
  IN  /\ lastId[n] = sent[n] % IdMod
      /\ Calling(n) => out[n].id = lastId[n] /\ sent[n] > 0
      /\ \A i \in DOMAIN fifo[o] : ~fifo[o][i].ack => Numbered(fifo[o][i])
      /\ pc[o] \in {"acking", "taking", "repeating"} => Numbered(inHand[o])
      /\ \A i \in DOMAIN fifo[n] : fifo[n][i].ack => Numbered(fifo[n][i])

\* The id a board has seen is that of its latest delivery.
SeenLatest(m) ==
  \E l \in Nat :
    /\ seenId[m] = l % IdMod
    /\ l = 0 \/ Reached(m, l)
    /\ \A i \in DOMAIN delivered : delivered[i].at = m => delivered[i].message.number <= l

\* Message k of n needs nothing more: it has been delivered, or is about to, or will
\* never be, as nothing was delivered of the IdMod - 1 messages there were before.
Got(n, k) ==
  LET o == Other(n)
  IN  \/ Reached(o, k)
      \/ pc[o] = "taking" /\ inHand[o].number = k
      \/ k >= IdMod /\ \A j \in k - IdMod + 1 .. k - 1 : ~Reached(o, j)

\* Nothing earlier than message k is on its way from n.
Onwards(n, k) ==
  LET o == Other(n)
  IN  /\ k <= sent[n]
      /\ \A i \in DOMAIN fifo[o] : ~fifo[o][i].ack => k <= fifo[o][i].number
      /\ Handling(o) => k <= inHand[o].number

Settled(n, k) == k \in Nat /\ Got(n, k) /\ Onwards(n, k)

AcksSettled(n) ==
  /\ \A i \in DOMAIN fifo[n] : fifo[n][i].ack => Settled(n, fifo[n][i].number)
  /\ pc[Other(n)] = "repeating" => Settled(n, inHand[Other(n)].number)
  /\ \A a \in acked : a.at = n => a.by <= a.number - IdMod \/ Settled(n, a.number)

AckInv == Together => \A n \in Nodes : IdsFit(n) /\ SeenLatest(n) /\ AcksSettled(n)

\* What a step, other than a restart, does for board m.
NextCall(m) ==
  \/ NoCall(m) /\ lastId'[m] = lastId[m] /\ sent'[m] = sent[m]
  \/ /\ lastId'[m] = NextId(m) /\ sent'[m] = sent[m] + 1
     /\ Calling(m)' => out'[m].id = NextId(m)

NextFifo(m) ==
  LET o == Other(m)
  IN  \A i \in DOMAIN fifo'[m] :
        \/ \E k \in DOMAIN fifo[m] : fifo'[m][i] = fifo[m][k]
        \/ Calling(o) /\ fifo'[m][i] = out[o]
        \/ /\ fifo'[m][i] = Acknowledgement(inHand[o])
           /\ \/ pc[o] = "repeating"
              \/ pc[o] = "acking" /\ pc'[o] = "taking" /\ inHand'[o] = inHand[o]

NextHand(m) ==
  \/ pc'[m] \notin {"acking", "taking", "repeating"}
  \/ pc'[m] = pc[m] /\ inHand'[m] = inHand[m]
  \/ pc[m] = "acking" /\ pc'[m] = "taking" /\ inHand'[m] = inHand[m]
  \/ /\ pc'[m] = "acking" /\ fifo[m] /= <<>>
     /\ inHand'[m] = Head(fifo[m]) /\ ~Head(fifo[m]).ack
  \/ /\ pc'[m] = "repeating" /\ fifo[m] /= <<>> /\ ~Handling(m)
     /\ inHand'[m] = Head(fifo[m]) /\ IsSeen(m, Head(fifo[m]))

NextGiven(m) ==
  /\ \/ Delivers(m)
     \/ /\ seenId'[m] = seenId[m]
        /\ \A i \in DOMAIN delivered' :
             delivered'[i].at = m => i \in DOMAIN delivered /\ delivered'[i] = delivered[i]
  /\ pc[m] = "taking" =>
       \/ Delivers(m)
       \/ IsSeen(m, inHand[m])
       \/ pc'[m] = "taking" /\ inHand'[m] = inHand[m]
  /\ \A i \in DOMAIN delivered : i \in DOMAIN delivered' /\ delivered'[i] = delivered[i]

NextAcked ==
  \A a \in acked' :
    \/ a \in acked
    \/ \E m \in Nodes :
         /\ Calling(m) /\ fifo[m] /= <<>> /\ IsMyAck(m, Head(fifo[m]))
         /\ a = [at |-> m, number |-> out[m].number, by |-> Head(fifo[m]).number]

Shape == NextAcked /\ \A m \in Nodes : NextCall(m) /\ NextFifo(m) /\ NextHand(m) /\ NextGiven(m)

LEMMA ShapeOfTakes ==
  ASSUME TypeOK, NEW n \in Nodes, Takes(n)
  PROVE  \A m \in Nodes : NextFifo(m)
<1>1. \A S : \A q \in Seq(S) :
        q /= <<>> => \A i \in DOMAIN Tail(q) : i + 1 \in DOMAIN q /\ Tail(q)[i] = q[i + 1]
  OBVIOUS
<1>2. fifo \in [Nodes -> Seq(Messages)] /\ fifo[n] /= <<>>
      /\ fifo' = [fifo EXCEPT ![n] = Tail(fifo[n])]
  BY DEF TypeOK, Takes
<1>3. \A i \in DOMAIN fifo'[n] : i + 1 \in DOMAIN fifo[n] /\ fifo'[n][i] = fifo[n][i + 1]
  BY <1>1, <1>2
<1>4. \A m \in Nodes : m /= n => fifo'[m] = fifo[m]
  BY <1>2
<1> QED BY <1>3, <1>4 DEF NextFifo

LEMMA ShapeOfStep ==
  ASSUME TypeOK, \A n \in Nodes : Ordered(n), Next, \A n \in Nodes : ~Restart(n)
  PROVE  Shape
<1> USE DEF histVars
<1>1. /\ pc \in [Nodes -> {"off", "resting", "sending", "waiting", "repeating", "listening",
                           "acking", "taking"}]
      /\ DOMAIN lastId = Nodes /\ DOMAIN out = Nodes /\ DOMAIN sent = Nodes
      /\ DOMAIN inHand = Nodes /\ DOMAIN seenId = Nodes /\ DOMAIN fifo = Nodes
  BY DEF TypeOK
<1>2. (acked' = acked) => NextAcked
  BY DEF NextAcked
<1>3. (fifo' = fifo) => \A m \in Nodes : NextFifo(m)
  BY DEF NextFifo
<1>4. ASSUME lastId' = lastId, out' = out, sent' = sent,
             \A m \in Nodes : Calling(m)' => Calling(m)
      PROVE  \A m \in Nodes : NextCall(m)
  BY <1>4 DEF NextCall, NoCall
<1>5. ASSUME NEW n \in Nodes, ~Delivers(n), seenId' = seenId, delivered' = delivered,
             \A m \in Nodes : m /= n => pc'[m] = pc[m] /\ inHand'[m] = inHand[m],
             pc[n] /= "taking" \/ IsSeen(n, inHand[n])
      PROVE  \A m \in Nodes : NextGiven(m)
  BY <1>5 DEF NextGiven
<1>6. ASSUME NEW n \in Nodes, NEW re, Call(n, re),
             \A m \in Nodes : m /= n => pc'[m] = pc[m]
      PROVE  \A m \in Nodes : NextCall(m)
  <2>1. ASSUME NEW m \in Nodes, m /= n PROVE NextCall(m)
    BY <1>1, <1>6, <2>1 DEF Call, NextCall, NoCall, Calling
  <2>2. NextCall(n)
    BY <1>1, <1>6 DEF Call, NextCall
  <2> QED BY <2>1, <2>2
<1>7. ASSUME NEW n \in Nodes, Request(n) PROVE Shape
  <2>1. \A m \in Nodes : m /= n => pc'[m] = pc[m]
    BY <1>1, <1>7 DEF Request
  <2>2. pc[n] \in {"off", "resting"} /\ pc'[n] = "sending" /\ ~Delivers(n)
    BY <1>1, <1>7 DEF Request, Delivers
  <2>3. \A m \in Nodes : NextHand(m)
    BY <1>7, <2>1, <2>2 DEF Request, NextHand
  <2>4. \A m \in Nodes : NextGiven(m)
    BY <1>5, <1>7, <2>1, <2>2 DEF Request
  <2>5. \A m \in Nodes : NextCall(m)
    BY <1>6, <1>7, <2>1 DEF Request
  <2> QED BY <1>2, <1>3, <1>7, <2>3, <2>4, <2>5 DEF Shape, Request
<1>8. ASSUME NEW n \in Nodes, NEW heard \in BOOLEAN, Sent(n, heard) PROVE Shape
  <2>1. \A m \in Nodes : m /= n => pc'[m] = pc[m]
    BY <1>1, <1>8 DEF Sent
  <2>2. \/ pc[n] \in {"sending", "repeating"} /\ pc'[n] = "waiting"
        \/ pc[n] = "acking" /\ pc'[n] = "taking"
    BY <1>1, <1>8 DEF Sent
  <2>3. \A m \in Nodes : NextHand(m)
    BY <1>8, <2>1, <2>2 DEF Sent, NextHand
  <2>4. \A m \in Nodes : NextGiven(m)
    BY <1>8, <2>1, <2>2 DEF Sent, NextGiven
  <2>5. \A m \in Nodes : NextCall(m)
    BY <1>4, <1>8, <2>1, <2>2 DEF Sent, Calling
  <2>6. ASSUME NEW m \in Nodes PROVE NextFifo(m)
    <3>1. CASE fifo'[m] = fifo[m]
      BY <3>1 DEF NextFifo
    <3>2. CASE fifo'[m] /= fifo[m]
      <4>1. m = Other(n) /\ n = Other(m) /\ fifo'[m] = Append(fifo[m], OnAir(n))
        BY <1>1, <1>8, <3>2, OtherNode DEF Sent
      <4>2. \A S : \A q \in Seq(S) : \A e : \A i \in DOMAIN Append(q, e) :
              (i \in DOMAIN q /\ Append(q, e)[i] = q[i]) \/ Append(q, e)[i] = e
        OBVIOUS
      <4>3. \A i \in DOMAIN fifo'[m] :
              (i \in DOMAIN fifo[m] /\ fifo'[m][i] = fifo[m][i]) \/ fifo'[m][i] = OnAir(n)
        <5> DEFINE e == OnAir(n)
                   q == fifo[m]
        <5>1. q \in Seq(Messages) /\ fifo'[m] = Append(q, e)
          BY <4>1 DEF TypeOK
        <5> HIDE DEF e, q
        <5>2. \A i \in DOMAIN fifo'[m] :
                (i \in DOMAIN q /\ fifo'[m][i] = q[i]) \/ fifo'[m][i] = e
          BY <4>2, <5>1
        <5> QED BY <5>2 DEF e, q
      <4>4. \/ Calling(n) /\ OnAir(n) = out[n]
            \/ /\ OnAir(n) = Acknowledgement(inHand[n])
               /\ \/ pc[n] = "repeating"
                  \/ pc[n] = "acking" /\ pc'[n] = "taking" /\ inHand'[n] = inHand[n]
        BY <1>8, <2>2 DEF Sent, OnAir, Calling
      <4> QED BY <4>1, <4>3, <4>4 DEF NextFifo
    <3> QED BY <3>1, <3>2
  <2> QED BY <1>2, <1>8, <2>3, <2>4, <2>5, <2>6 DEF Shape, Sent
<1>9. ASSUME NEW n \in Nodes, Timeout(n) \/ NoReply(n) \/ TakesNothing(n) PROVE Shape
  <2> USE DEF Timeout, NoReply, TakesNothing
  <2>1. \A m \in Nodes : m /= n => pc'[m] = pc[m]
    BY <1>1, <1>9
  <2>2. /\ pc'[n] \in {"sending", "listening", "resting"}
        /\ pc'[n] = "sending" => pc[n] = "waiting"
        /\ pc[n] /= "taking" \/ IsSeen(n, inHand[n])
    BY <1>1, <1>9 DEF AfterFailure
  <2>3. \A m \in Nodes : NextHand(m)
    BY <1>9, <2>1, <2>2 DEF NextHand
  <2>4. \A m \in Nodes : NextGiven(m)
    BY <1>9, <2>1, <2>2 DEF NextGiven
  <2>5. \A m \in Nodes : NextCall(m)
    BY <1>4, <1>9, <2>1, <2>2 DEF Calling
  <2> QED BY <1>2, <1>3, <1>9, <2>3, <2>4, <2>5 DEF Shape
<1>10. ASSUME NEW n \in Nodes,
              TakesAck(n) \/ TakesSeen(n) \/ Discards(n) \/ TakesMessage(n)
       PROVE  Shape
  <2> USE DEF TakesAck, TakesSeen, Discards, TakesMessage
  <2>1. \A m \in Nodes : m /= n => pc'[m] = pc[m] /\ inHand'[m] = inHand[m]
    BY <1>1, <1>10
  <2>2. Takes(n) /\ fifo[n] /= <<>>
    BY <1>10 DEF Takes
  <2>3. \A m \in Nodes : NextFifo(m)
    BY <2>2, ShapeOfTakes
  <2>4. pc[n] \in {"waiting", "listening"} /\ NextHand(n)
    BY <1>1, <1>10, <2>2 DEF NextHand, Handling
  <2>5. \A m \in Nodes : NextHand(m)
    BY <2>1, <2>4 DEF NextHand
  <2>6. \A m \in Nodes : NextGiven(m)
    BY <1>10, <2>1, <2>4 DEF NextGiven
  <2>7. \A m \in Nodes : Calling(m)' => Calling(m)
    BY <1>1, <1>10, <2>1 DEF Calling
  <2>8. \A m \in Nodes : NextCall(m)
    BY <1>4, <1>10, <2>7
  <2>9. NextAcked
    <3>1. CASE TakesAck(n)
      <4>1. Calling(n) /\ IsMyAck(n, Head(fifo[n]))
        BY <3>1 DEF Calling
      <4>2. acked' = acked \cup
              {[at |-> n, number |-> out[n].number, by |-> Head(fifo[n]).number]}
        BY <3>1
      <4> QED BY <2>2, <4>1, <4>2 DEF NextAcked
    <3>2. CASE TakesSeen(n) \/ Discards(n) \/ TakesMessage(n)
      BY <1>2, <3>2
    <3> QED BY <1>10, <3>1, <3>2
  <2> QED BY <2>3, <2>5, <2>6, <2>8, <2>9 DEF Shape
<1>11. ASSUME NEW n \in Nodes, Delivers(n) PROVE Shape
  <2>1. \A m \in Nodes : m /= n => pc'[m] = pc[m]
    BY <1>1, <1>11 DEF Delivers
  <2>2. pc'[n] \in {"sending", "off"} /\ inHand' = inHand /\ acked' = acked /\ fifo' = fifo
    BY <1>1, <1>11 DEF Delivers
  <2>3. \A m \in Nodes : NextHand(m)
    BY <2>1, <2>2 DEF NextHand
  <2>4. \A m \in Nodes : NextGiven(m)
    <3>1. /\ \A i \in DOMAIN delivered : i \in DOMAIN delivered' /\ delivered'[i] = delivered[i]
          /\ \A i \in DOMAIN delivered' :
               \/ i \in DOMAIN delivered /\ delivered'[i] = delivered[i]
               \/ delivered'[i].at = n
      <4>1. \A S : \A q \in Seq(S) : \A e :
              /\ \A i \in DOMAIN q : i \in DOMAIN Append(q, e) /\ Append(q, e)[i] = q[i]
              /\ \A i \in DOMAIN Append(q, e) :
                   (i \in DOMAIN q /\ Append(q, e)[i] = q[i]) \/ Append(q, e)[i] = e
        OBVIOUS
      <4>2. delivered' = Append(delivered, Delivery(n, inHand[n]))
            /\ Delivery(n, inHand[n]).at = n
        BY <1>11 DEF Delivers, Delivery
      <4>3. \E S : delivered \in Seq(S)
        BY DEF TypeOK
      <4> HIDE DEF Delivery
      <4> QED BY <4>1, <4>2, <4>3
    <3>2. seenId' = [seenId EXCEPT ![n] = inHand[n].id]
      BY <1>11 DEF Delivers
    <3> QED BY <1>1, <1>11, <2>1, <2>2, <3>1, <3>2 DEF NextGiven
  <2>5. \A m \in Nodes : NextCall(m)
    <3>1. CASE n = Server
      BY <1>6, <1>11, <2>1, <3>1 DEF Delivers
    <3>2. CASE n /= Server
      <4>1. pc'[n] = "off"
        BY <1>1, <1>11, <3>2 DEF Delivers
      <4> QED BY <1>4, <1>11, <2>1, <3>2, <4>1 DEF Delivers, Calling
    <3> QED BY <3>1, <3>2
  <2> QED BY <1>2, <1>3, <2>2, <2>3, <2>4, <2>5 DEF Shape
<1> QED BY <1>7, <1>8, <1>9, <1>10, <1>11 DEF Next, Step

\* What has the id that o has seen has been delivered, or never will be.
LEMMA SeenIsGot ==
  ASSUME TypeOK, NEW n \in Nodes, NEW q, q.number \in Nat, Numbered(q),
         SeenLatest(Other(n)), Fresh(Other(n), q), q.id = seenId[Other(n)]
  PROVE  \/ Reached(Other(n), q.number)
         \/ /\ q.number >= IdMod
            /\ \A j \in q.number - IdMod + 1 .. q.number - 1 : ~Reached(Other(n), j)
<1> DEFINE o == Other(n)
<1>1. PICK l \in Nat :
        /\ seenId[o] = l % IdMod
        /\ l = 0 \/ Reached(o, l)
        /\ \A i \in DOMAIN delivered : delivered[i].at = o => delivered[i].message.number <= l
  BY DEF SeenLatest
<1> HIDE DEF o
<1>2. l <= q.number
  BY <1>1 DEF Reached, Fresh, o
<1>3. \A j \in Int : l < j => ~Reached(o, j)
  BY <1>1, GivenTypes DEF Reached
<1>4. CASE l < q.number
  <2>1. l % IdMod = q.number % IdMod
    BY <1>1 DEF Numbered, o
  <2>2. \A a, b \in Nat : a < b /\ a % IdMod = b % IdMod => b - a >= IdMod
    BY Constants, SameIdApart
  <2>3. q.number - l >= IdMod
    BY <1>4, <2>1, <2>2
  <2> QED BY <1>1, <1>3, <2>3, Constants DEF o
<1>5. CASE l = q.number /\ l /= 0
  BY <1>1, <1>5 DEF o
<1>6. q.number > 0
  BY DEF Numbered
<1> QED BY <1>1, <1>2, <1>4, <1>5, <1>6

LEMMA IdsFitNext ==
  ASSUME Inv, Inv', NEW n \in Nodes, IdsFit(n), Shape
  PROVE  IdsFit(n)'
<1> DEFINE o == Other(n)
<1>1. o \in Nodes /\ Other(o) = n /\ IdMod \in Nat /\ IdMod > 1
  BY OtherNode, Constants
<1>2. sent[n] \in Nat /\ lastId[n] = sent[n] % IdMod
  BY MessageTypes DEF Inv, IdsFit
<1>3. Calling(n) =>
        ~out[n].ack /\ out[n].number = sent[n] /\ sent[n] > 0 /\ out[n].id = lastId[n]
  BY DEF Inv, Ordered, OutIsLatest, IdsFit
<1>4. NextCall(n) /\ NextFifo(o) /\ NextFifo(n) /\ NextHand(o)
  BY <1>1 DEF Shape
<1>5. lastId'[n] = sent'[n] % IdMod
  <2>1. CASE lastId'[n] = lastId[n] /\ sent'[n] = sent[n]
    BY <1>2, <2>1
  <2>2. CASE lastId'[n] = NextId(n) /\ sent'[n] = sent[n] + 1
    BY <1>1, <1>2, <2>2, NextIdFits DEF NextId
  <2> QED BY <1>4, <2>1, <2>2 DEF NextCall
<1>6. Calling(n)' => out'[n].id = lastId'[n] /\ sent'[n] > 0
  BY <1>2, <1>3, <1>4 DEF NextCall, NoCall
<1>7. \A i \in DOMAIN fifo'[o] : ~fifo'[o][i].ack => Numbered(fifo'[o][i])
  <2>1. Calling(n) => Numbered(out[n])
    BY <1>2, <1>3 DEF Numbered
  <2>2. \A i \in DOMAIN fifo[o] : ~fifo[o][i].ack => Numbered(fifo[o][i])
    BY DEF IdsFit
  <2>3. \A i \in DOMAIN fifo'[o] : fifo'[o][i] = Acknowledgement(inHand[n]) => fifo'[o][i].ack
    BY DEF Acknowledgement
  <2> QED BY <1>1, <1>4, <2>1, <2>2, <2>3 DEF NextFifo
<1>8. \A i \in DOMAIN fifo'[n] : fifo'[n][i].ack => Numbered(fifo'[n][i])
  <2>1. Calling(o) => ~out[o].ack
    BY <1>1 DEF Inv, Ordered, OutIsLatest
  <2>2. \A i \in DOMAIN fifo[n] : fifo[n][i].ack => Numbered(fifo[n][i])
    BY DEF IdsFit
  <2>3. pc[o] \in {"acking", "repeating"} => Numbered(Acknowledgement(inHand[o]))
    BY DEF IdsFit, Numbered, Acknowledgement
  <2> QED BY <1>1, <1>4, <2>1, <2>2, <2>3 DEF NextFifo
<1>9. pc'[o] \in {"acking", "taking", "repeating"} => Numbered(inHand'[o])
  <2>1. fifo[o] /= <<>> /\ ~Head(fifo[o]).ack => Numbered(Head(fifo[o]))
    <3>1. fifo[o] \in Seq(Messages)
      BY <1>1 DEF Inv, TypeOK
    <3>2. fifo[o] /= <<>> => 1 \in DOMAIN fifo[o] /\ Head(fifo[o]) = fifo[o][1]
      BY <3>1
    <3> QED BY <3>2 DEF IdsFit
  <2>2. pc[o] \in {"acking", "taking", "repeating"} => Numbered(inHand[o])
    BY DEF IdsFit
  <2> QED BY <1>4, <2>1, <2>2 DEF NextHand, IsSeen
<1> QED BY <1>5, <1>6, <1>7, <1>8, <1>9 DEF IdsFit, Numbered

LEMMA SeenLatestNext ==
  ASSUME Inv, NEW n \in Nodes, SeenLatest(n), IdsFit(Other(n)), Shape
  PROVE  SeenLatest(n)'
<1>1. TypeOK /\ Ordered(n) /\ NextGiven(n)
  BY DEF Inv, Shape
<1>2. CASE Delivers(n)
  <2> DEFINE p == inHand[n]
  <2>1. /\ Known(n, p) /\ p.number \in Nat /\ seenId'[n] = p.id
        /\ DOMAIN delivered' = 1 .. Len(delivered) + 1 /\ Len(delivered) \in Nat
        /\ \A i \in DOMAIN delivered' :
             \/ i \in DOMAIN delivered /\ delivered'[i] = delivered[i]
             \/ i = Len(delivered) + 1 /\ delivered'[i] = Delivery(n, p)
    BY <1>1, <1>2, DeliversFacts DEF TypeOK
  <2>2. p.id = p.number % IdMod
    <3>1. pc[n] = "taking" /\ Other(Other(n)) = n
      BY <1>2, OtherNode DEF Delivers
    <3> QED BY <3>1 DEF IdsFit, Numbered
  <2>3. Delivery(n, p).at = n /\ Delivery(n, p).message = p
    BY DEF Delivery
  <2> HIDE DEF p
  <2>4. DOMAIN delivered = 1 .. Len(delivered)
    BY <1>1, <1>2, DeliversFacts
  <2>5. PICK l \in Nat : l = p.number
    BY <2>1
  <2>6. Reached(n, l)'
    <3>1. Len(delivered) + 1 \in DOMAIN delivered' /\ Len(delivered) + 1 \notin DOMAIN delivered
      BY <2>1, <2>4
    <3>2. delivered'[Len(delivered) + 1] = Delivery(n, p)
      BY <2>1, <3>1
    <3> QED BY <2>3, <2>5, <3>1, <3>2 DEF Reached
  <2>7. \A i \in DOMAIN delivered' : delivered'[i].at = n => delivered'[i].message.number <= l
    BY <1>1, <2>1, <2>3, <2>5, GivenTypes DEF Known, Fresh
  <2> QED BY <2>1, <2>2, <2>5, <2>6, <2>7 DEF SeenLatest
<1>3. CASE ~Delivers(n)
  <2>1. PICK l \in Nat :
          /\ seenId[n] = l % IdMod
          /\ l = 0 \/ Reached(n, l)
          /\ \A i \in DOMAIN delivered : delivered[i].at = n => delivered[i].message.number <= l
    BY DEF SeenLatest
  <2>2. Reached(n, l) => Reached(n, l)'
    BY <1>1 DEF NextGiven, Reached
  <2>3. /\ seenId'[n] = l % IdMod
        /\ \A i \in DOMAIN delivered' : delivered'[i].at = n => delivered'[i].message.number <= l
    BY <1>1, <1>3, <2>1 DEF NextGiven
  <2> QED BY <2>1, <2>2, <2>3 DEF SeenLatest
<1> QED BY <1>2, <1>3

LEMMA OnwardsNext ==
  ASSUME Inv, NEW n \in Nodes, NEW k \in Nat, Onwards(n, k), Shape
  PROVE  Onwards(n, k)'
<1> DEFINE o == Other(n)
<1>1. o \in Nodes /\ Other(o) = n /\ sent[n] \in Nat
  BY OtherNode, MessageTypes DEF Inv
<1>2. NextCall(n) /\ NextFifo(o) /\ NextHand(o)
  BY <1>1 DEF Shape
<1>3. k <= sent'[n]
  BY <1>1, <1>2 DEF Onwards, NextCall
<1>4. Calling(n) => out[n].number = sent[n]
  BY DEF Inv, Ordered, OutIsLatest
<1>5. \A i \in DOMAIN fifo'[o] : ~fifo'[o][i].ack => k <= fifo'[o][i].number
  <2>1. Acknowledgement(inHand[n]).ack
    BY DEF Acknowledgement
  <2> QED BY <1>1, <1>2, <1>4, <2>1 DEF Onwards, NextFifo
<1>6. Handling(o)' => k <= inHand'[o].number
  <2>1. fifo[o] /= <<>> => 1 \in DOMAIN fifo[o] /\ Head(fifo[o]) = fifo[o][1]
    BY <1>1 DEF Inv, TypeOK
  <2> QED BY <1>2, <2>1 DEF Onwards, NextHand, Handling
<1> QED BY <1>3, <1>5, <1>6 DEF Onwards

LEMMA GotNext ==
  ASSUME Inv, NEW n \in Nodes, NEW k \in Nat, Got(n, k), Onwards(n, k),
         SeenLatest(Other(n)), IdsFit(n), Shape
  PROVE  Got(n, k)'
<1> DEFINE o == Other(n)
           Never == k >= IdMod /\ \A j \in k - IdMod + 1 .. k - 1 : ~Reached(o, j)
<1>1. o \in Nodes /\ Other(o) = n /\ IdMod \in Nat
  BY OtherNode, Constants
<1>2. TypeOK /\ Ordered(o) /\ NextGiven(o)
  BY <1>1 DEF Inv, Shape
<1>3. Reached(o, k) => Reached(o, k)'
  BY <1>2 DEF NextGiven, Reached
<1>4. Never => Never'
  <2>1. CASE Delivers(o)
    <3>1. Handling(o) /\ k <= inHand[o].number /\ inHand[o].number \in Nat
      BY <1>1, <1>2, <2>1, MessageTypes DEF Delivers, Handling, Onwards
    <3>2. \A i \in DOMAIN delivered' :
            \/ i \in DOMAIN delivered /\ delivered'[i] = delivered[i]
            \/ delivered'[i].message = inHand[o]
      BY <1>1, <1>2, <2>1, DeliversFacts DEF Delivery
    <3> QED BY <1>1, <3>1, <3>2 DEF Reached
  <2>2. CASE ~Delivers(o)
    BY <1>2, <2>2 DEF NextGiven, Reached
  <2> QED BY <2>1, <2>2
<1>5. CASE pc[o] = "taking" /\ inHand[o].number = k
  <2>1. CASE Delivers(o)
    <3>1. \E i \in DOMAIN delivered' : delivered'[i] = Delivery(o, inHand[o])
      <4>1. /\ DOMAIN delivered' = 1 .. Len(delivered) + 1 /\ Len(delivered) \in Nat
            /\ DOMAIN delivered = 1 .. Len(delivered)
            /\ \A i \in DOMAIN delivered' :
                 \/ i \in DOMAIN delivered /\ delivered'[i] = delivered[i]
                 \/ i = Len(delivered) + 1 /\ delivered'[i] = Delivery(o, inHand[o])
        BY <1>1, <1>2, <2>1, DeliversFacts
      <4>2. Len(delivered) + 1 \in DOMAIN delivered' /\ Len(delivered) + 1 \notin DOMAIN delivered
        BY <4>1
      <4> QED BY <4>1, <4>2
    <3> QED BY <1>5, <3>1 DEF Got, Reached, Delivery
  <2>2. CASE IsSeen(o, inHand[o])
    <3>1. Numbered(inHand[o]) /\ inHand[o].id = seenId[o]
      BY <1>5, <2>2 DEF IdsFit, IsSeen
    <3>2. Fresh(o, inHand[o])
      BY <1>2, <1>5 DEF Ordered, ComingKnown, Known, Handling
    <3>3. Reached(o, k) \/ Never
      BY <1>2, <1>5, <3>1, <3>2, SeenIsGot
    <3> QED BY <1>3, <1>4, <3>3 DEF Got
  <2>3. CASE pc'[o] = "taking" /\ inHand'[o] = inHand[o]
    BY <1>5, <2>3 DEF Got
  <2> QED BY <1>2, <1>5, <2>1, <2>2, <2>3 DEF NextGiven
<1> QED BY <1>3, <1>4, <1>5 DEF Got

LEMMA SettledNext ==
  ASSUME Inv, NEW n \in Nodes, NEW k, Settled(n, k), SeenLatest(Other(n)), IdsFit(n), Shape
  PROVE  Settled(n, k)'
BY OnwardsNext, GotNext DEF Settled

\* Nothing earlier than the message that is being handled is on its way, nor, if none
\* is, anything earlier than the first message in the radio.
LEMMA InHandOnwards ==
  ASSUME TypeOK, NEW n \in Nodes, Ordered(Other(n)), Handling(Other(n))
  PROVE  Onwards(n, inHand[Other(n)].number)
<1> DEFINE o == Other(n)
<1>1. o \in Nodes /\ Other(o) = n /\ inHand[o].number \in Nat
      /\ \A i \in DOMAIN fifo[o] : fifo[o][i].number \in Nat
  BY OtherNode, MessageTypes
<1>2. inHand[o].number <= sent[n]
  BY <1>1 DEF Ordered, ComingKnown, Known
<1>3. \A i \in DOMAIN fifo[o] : ~fifo[o][i].ack => inHand[o].number <= fifo[o][i].number
  BY <1>1 DEF Ordered, InHandFirst, Before
<1> QED BY <1>1, <1>2, <1>3 DEF Onwards

LEMMA FirstOnwards ==
  ASSUME TypeOK, NEW n \in Nodes, Ordered(Other(n)), ~Handling(Other(n)),
         fifo[Other(n)] /= <<>>, ~Head(fifo[Other(n)]).ack
  PROVE  Onwards(n, Head(fifo[Other(n)]).number)
<1> DEFINE o == Other(n)
           p == Head(fifo[o])
<1>1. /\ o \in Nodes /\ Other(o) = n /\ fifo[o] \in Seq(Messages)
      /\ \A i \in DOMAIN fifo[o] : fifo[o][i].number \in Nat
  BY OtherNode, MessageTypes DEF TypeOK
<1>2. 1 \in DOMAIN fifo[o] /\ p = fifo[o][1] /\ \A i \in DOMAIN fifo[o] : i = 1 \/ 1 < i
  BY <1>1
<1> HIDE DEF p
<1>3. p.number <= sent[n]
  BY <1>1, <1>2 DEF p, Ordered, ComingKnown, Known
<1>4. \A i \in DOMAIN fifo[o] : ~fifo[o][i].ack => p.number <= fifo[o][i].number
  BY <1>1, <1>2 DEF p, Ordered, FifoOrdered, Before
<1> QED BY <1>3, <1>4 DEF p, Onwards

LEMMA AcksSettledNext ==
  ASSUME Inv, Inv', NEW n \in Nodes, IdsFit(n), SeenLatest(Other(n)), AcksSettled(n), Shape
  PROVE  AcksSettled(n)'
<1> DEFINE o == Other(n)
<1>1. /\ o \in Nodes /\ Other(o) = n /\ IdMod \in Nat /\ IdMod > 0
      /\ TypeOK /\ Ordered(o) /\ Ordered(n) /\ fifo[o] \in Seq(Messages)
      /\ inHand[o].number \in Nat /\ fifo[n] \in Seq(Messages)
  <2>1. o \in Nodes /\ Other(o) = n
    BY OtherNode
  <2>2. TypeOK /\ Ordered(o) /\ Ordered(n)
    BY <2>1 DEF Inv
  <2>3. fifo[o] \in Seq(Messages) /\ fifo[n] \in Seq(Messages)
    BY <2>1, <2>2 DEF TypeOK
  <2> QED BY <2>1, <2>2, <2>3, Constants, MessageTypes
<1>2. \A k : Settled(n, k) => Settled(n, k)'
  BY SettledNext
<1>3. NextFifo(n) /\ NextHand(o)
  BY <1>1 DEF Shape
<1>4. ASSUME NEW i \in DOMAIN fifo'[n], fifo'[n][i].ack PROVE Settled(n, fifo[n][i].number)'
  <2>1. CASE \E k \in DOMAIN fifo[n] : fifo'[n][i] = fifo[n][k]
    BY <1>2, <1>4, <2>1 DEF AcksSettled
  <2>2. CASE Calling(o) /\ fifo'[n][i] = out[o]
    BY <1>1, <1>4, <2>2 DEF Ordered, OutIsLatest
  <2>3. CASE fifo'[n][i] = Acknowledgement(inHand[o]) /\ pc[o] = "repeating"
    BY <1>2, <2>3 DEF AcksSettled, Acknowledgement
  <2>4. CASE /\ fifo'[n][i] = Acknowledgement(inHand[o])
             /\ pc[o] = "acking" /\ pc'[o] = "taking" /\ inHand'[o] = inHand[o]
    <3>1. PICK k \in Nat : k = inHand[o].number
      BY <1>1
    <3>2. Onwards(n, k)
      BY <1>1, <2>4, <3>1, InHandOnwards DEF Handling
    <3>3. Onwards(n, k)'
      BY <3>2, OnwardsNext
    <3>4. Got(n, k)'
      BY <2>4, <3>1 DEF Got
    <3>5. fifo'[n][i].number = k
      BY <2>4, <3>1 DEF Acknowledgement
    <3> QED BY <3>3, <3>4, <3>5 DEF Settled
  <2> QED BY <1>1, <1>3, <2>1, <2>2, <2>3, <2>4 DEF NextFifo
<1>5. ASSUME pc'[o] = "repeating" PROVE Settled(n, inHand[o].number)'
  <2>1. CASE pc[o] = "repeating" /\ inHand'[o] = inHand[o]
    BY <1>2, <2>1 DEF AcksSettled
  <2>2. CASE /\ fifo[o] /= <<>> /\ ~Handling(o)
             /\ inHand'[o] = Head(fifo[o]) /\ IsSeen(o, Head(fifo[o]))
    <3> DEFINE p == Head(fifo[o])
    <3>1. 1 \in DOMAIN fifo[o] /\ p = fifo[o][1] /\ ~p.ack /\ p.id = seenId[o] /\ p.number \in Nat
      BY <1>1, <2>2, MessageTypes DEF IsSeen
    <3>2. Known(o, p) /\ Numbered(p)
      BY <1>1, <3>1 DEF Ordered, ComingKnown, IdsFit
    <3>3. Got(n, p.number)
      BY <1>1, <3>1, <3>2, SeenIsGot DEF Got, Known
    <3>4. Onwards(n, p.number)
      BY <1>1, <2>2, <3>1, FirstOnwards
    <3> QED BY <1>2, <2>2, <3>1, <3>3, <3>4 DEF Settled
  <2> QED BY <1>3, <1>5, <2>1, <2>2 DEF NextHand
<1>6. ASSUME NEW a \in acked', a.at = n
      PROVE  a.by <= a.number - IdMod \/ Settled(n, a.number)'
  <2>1. CASE a \in acked
    BY <1>2, <1>6, <2>1 DEF AcksSettled
  <2>2. CASE /\ Calling(n) /\ fifo[n] /= <<>> /\ IsMyAck(n, Head(fifo[n]))
             /\ a.number = out[n].number /\ a.by = Head(fifo[n]).number
    <3> DEFINE p == Head(fifo[n])
    <3>1. 1 \in DOMAIN fifo[n] /\ p = fifo[n][1] /\ p.ack /\ p.id = out[n].id
      BY <1>1, <2>2 DEF IsMyAck
    <3>2. Settled(n, p.number) /\ Numbered(p)
      BY <3>1 DEF AcksSettled, IdsFit
    <3>3. /\ a.number = sent[n] /\ sent[n] \in Nat /\ a.by = p.number
          /\ a.by \in Nat /\ a.by <= a.number
      BY <1>1, <2>2, <3>2, MessageTypes DEF Ordered, OutIsLatest, Settled, Onwards
    <3>4. a.by % IdMod = a.number % IdMod
      BY <2>2, <3>1, <3>2, <3>3 DEF IdsFit, Numbered
    <3>5. a.by = a.number \/ a.by <= a.number - IdMod
      <4>1. a.by < a.number => a.number - a.by >= IdMod
        BY <1>1, <3>3, <3>4, SameIdApart
      <4> QED BY <1>1, <3>3, <4>1
    <3> QED BY <1>2, <3>2, <3>3, <3>5
  <2> QED BY <1>6, <2>1, <2>2 DEF Shape, NextAcked
<1> QED BY <1>4, <1>5, <1>6 DEF AcksSettled

LEMMA AckInit == Init => AckInv
<1> SUFFICES ASSUME Init, NEW n \in Nodes PROVE IdsFit(n) /\ SeenLatest(n) /\ AcksSettled(n)
  BY DEF AckInv
<1>1. Other(n) \in Nodes /\ DOMAIN delivered = {} /\ \A m \in Nodes : DOMAIN fifo[m] = {}
  BY OtherNode DEF Init
<1>2. \A m \in Nodes : pc[m] \in {"off", "listening"} /\ lastId[m] = 0 /\ sent[m] = 0 /\ seenId[m] = 0
  BY DEF Init, Start
<1>3. 0 % IdMod = 0
  BY Constants
<1>4. IdsFit(n)
  BY <1>1, <1>2, <1>3 DEF IdsFit, Calling
<1>5. SeenLatest(n)
  BY <1>1, <1>2, <1>3 DEF SeenLatest
<1>6. AcksSettled(n)
  BY <1>1, <1>2 DEF AcksSettled, Init
<1> QED BY <1>4, <1>5, <1>6

LEMMA AckNext == ASSUME Inv, AckInv, [Next]_vars PROVE AckInv'
<1>1. TypeOK /\ Inv'
  BY OrderNext DEF Inv
<1>2. CASE UNCHANGED vars
  BY <1>2 DEF vars, histVars, AckInv, Together, IdsFit, SeenLatest, AcksSettled, Settled, Got,
              Onwards, Reached, Calling, Handling
<1>3. CASE \E n \in Nodes : Restart(n)
  <2>1. PICK n \in Nodes : Restart(n)
    BY <1>3
  <2>2. restarts'[n] = restarts[n] + 1 /\ restarts[n] \in Nat
    BY <1>1, <2>1, MessageTypes DEF Restart, TypeOK
  <2> QED BY <2>2 DEF AckInv, Together, Nodes
<1>4. CASE Next /\ \A n \in Nodes : ~Restart(n)
  <2>1. Shape
    BY <1>1, <1>4, ShapeOfStep DEF Inv
  <2>2. restarts' = restarts
    BY <1>4 DEF Next, Step, Request, Sent, Timeout, TakesAck, TakesSeen, Discards, TakesMessage,
                TakesNothing, Delivers, NoReply, histVars
  <2>3. ASSUME Together', NEW n \in Nodes
        PROVE  IdsFit(n)' /\ SeenLatest(n)' /\ AcksSettled(n)'
    <3>1. \A m \in Nodes : IdsFit(m) /\ SeenLatest(m) /\ AcksSettled(m)
      BY <2>2, <2>3 DEF AckInv, Together
    <3> QED BY <1>1, <2>1, <3>1, OtherNode, IdsFitNext, SeenLatestNext, AcksSettledNext
  <2> QED BY <2>3 DEF AckInv
<1> QED BY <1>2, <1>3, <1>4

\* What sendtoWait reports as acknowledged has been given to the sketch of the other
\* board, or is about to be: for any number of ids, repetitions and buffers, with the
\* exceptions that AckedWasDelivered names.
THEOREM AcknowledgedIsDelivered == Spec => []AckedWasDelivered
<1>1. Inv /\ AckInv => AckedWasDelivered
  <2> SUFFICES ASSUME Inv, AckInv, NEW a \in acked
               PROVE  LET to == Other(a.at)
                      IN  \/ Reached(to, a.number)
                          \/ pc[to] = "taking" /\ inHand[to].number = a.number
                          \/ restarts[Client] > 0 \/ restarts[Server] > 0
                          \/ /\ a.number >= IdMod
                             /\ \A k \in a.number - IdMod + 1 .. a.number - 1 : ~Reached(to, k)
                          \/ a.by <= a.number - IdMod
    BY DEF AckedWasDelivered
  <2>1. CASE Together
    <3>1. a.at \in Nodes
      BY DEF Inv, TypeOK
    <3>2. a.by <= a.number - IdMod \/ Settled(a.at, a.number)
      BY <2>1, <3>1 DEF AckInv, AcksSettled
    <3> QED BY <3>2 DEF Settled, Got
  <2>2. CASE ~Together
    <3>1. restarts[Client] \in Nat /\ restarts[Server] \in Nat
      BY MessageTypes DEF Inv, Nodes
    <3> QED BY <2>2, <3>1 DEF Together
  <2> QED BY <2>1, <2>2
<1>2. Init => Inv /\ AckInv
  BY OrderInit, AckInit
<1>3. Inv /\ AckInv /\ [Next]_vars => Inv' /\ AckInv'
  BY OrderNext, AckNext
<1> QED BY <1>1, <1>2, <1>3, PTL DEF Spec

--------------------------------------------------------------------------------
(* Replies, as long as the client is not restarted.                        *)

\* r is not earlier than request k, or earlier by so much that it can have its id.
Apart(r, k) == r >= k \/ r <= k - IdMod

\* The server has gone on to request k.
Reaches(k) ==
  /\ k \in Nat /\ Onwards(Client, k)
  /\ Calling(Server) => Apart(out[Server].re, k)

\* The id the server has seen is that of the request it is replying to.
RepliesToSeen ==
  Calling(Server) =>
    seenId[Server] = out[Server].re % IdMod /\ out[Server].re <= sent[Client]

RepliesKnown ==
  /\ \A i \in DOMAIN fifo[Client] : ~fifo[Client][i].ack => fifo[Client][i].re <= sent[Client]
  /\ Handling(Client) => inHand[Client].re <= sent[Client]

\* What comes behind an acknowledgement is no earlier reply.
RepliesAfterAcks ==
  \A i \in DOMAIN fifo[Client] : fifo[Client][i].ack =>
    /\ Reaches(fifo[Client][i].number)
    /\ \A j \in DOMAIN fifo[Client] :
         i < j /\ ~fifo[Client][j].ack => Apart(fifo[Client][j].re, fifo[Client][i].number)

RepeatsLater == pc[Server] = "repeating" => Reaches(inHand[Server].number)

\* The client waits for a reply after its request was acknowledged.
Awaits ==
  pc[Client] \in {"listening", "acking", "taking"} =>
    \E a \in acked :
      /\ a.at = Client /\ a.number = sent[Client]
      /\ \/ a.by <= sent[Client] - IdMod
         \/ /\ Reaches(sent[Client])
            /\ \A i \in DOMAIN fifo[Client] :
                 ~fifo[Client][i].ack => Apart(fifo[Client][i].re, sent[Client])
            /\ Handling(Client) => Apart(inHand[Client].re, sent[Client])

ReplyInv ==
  restarts[Client] = 0 =>
    /\ IdsFit(Client) /\ RepliesToSeen /\ RepliesKnown /\ RepliesAfterAcks /\ RepeatsLater
    /\ Awaits

\* What the server can send when its message is e.
Emits(e) ==
  \/ Calling(Server) /\ e = out[Server]
  \/ /\ e = Acknowledgement(inHand[Server])
     /\ \/ pc[Server] = "repeating"
        \/ pc[Server] = "acking" /\ pc'[Server] = "taking" /\ inHand'[Server] = inHand[Server]

\* What a step, other than a restart of the client, does.
ReplyShape ==
  /\ Calling(Server)' =>
       \/ Calling(Server) /\ out'[Server] = out[Server] /\ seenId'[Server] = seenId[Server]
       \/ /\ pc[Server] = "taking"
          /\ out'[Server].re = inHand[Server].number /\ seenId'[Server] = inHand[Server].id
  /\ \/ fifo'[Client] = fifo[Client]
     \/ fifo[Client] /= <<>> /\ fifo'[Client] = Tail(fifo[Client])
     \/ \E e : fifo'[Client] = Append(fifo[Client], e) /\ Emits(e)
  /\ sent'[Client] >= sent[Client]
  /\ acked \subseteq acked'
  /\ pc'[Client] \in {"listening", "acking", "taking"} =>
       /\ sent'[Client] = sent[Client]
       /\ \/ pc[Client] \in {"listening", "acking", "taking"}
          \/ /\ Calling(Client) /\ pc'[Client] = "listening"
             /\ fifo[Client] /= <<>> /\ fifo'[Client] = Tail(fifo[Client])
             /\ IsMyAck(Client, Head(fifo[Client]))
             /\ [at |-> Client, number |-> out[Client].number, by |-> Head(fifo[Client]).number]
                  \in acked'
  /\ Handling(Client)' =>
       \/ Handling(Client) /\ inHand'[Client] = inHand[Client]
       \/ /\ fifo[Client] /= <<>> /\ inHand'[Client] = Head(fifo[Client])
          /\ ~Head(fifo[Client]).ack
  /\ pc'[Server] = "repeating" =>
       \/ pc[Server] = "repeating" /\ inHand'[Server] = inHand[Server]
       \/ /\ Calling(Server) /\ ~Handling(Server) /\ fifo[Server] /= <<>>
          /\ inHand'[Server] = Head(fifo[Server]) /\ IsSeen(Server, Head(fifo[Server]))

LEMMA ReplyShapeOfStep ==
  ASSUME TypeOK, Next, ~Restart(Client)
  PROVE  ReplyShape
<1> USE DEF histVars
<1>1. /\ pc \in [Nodes -> {"off", "resting", "sending", "waiting", "repeating", "listening",
                           "acking", "taking"}]
      /\ DOMAIN out = Nodes /\ sent \in [Nodes -> Nat] /\ DOMAIN inHand = Nodes
      /\ DOMAIN seenId = Nodes /\ DOMAIN fifo = Nodes
      /\ Client \in Nodes /\ Server \in Nodes /\ Client /= Server
  BY Constants DEF TypeOK, Nodes
<1>2. \A n \in Nodes : n = Client \/ n = Server
  BY DEF Nodes
<1>3. sent[Client] \in Nat /\ sent[Client] >= sent[Client]
  BY <1>1
<1>4. ASSUME Request(Client) PROVE ReplyShape
  <2>1. pc' = [pc EXCEPT ![Client] = "sending"] /\ fifo' = fifo /\ acked' = acked
        /\ out'[Server] = out[Server] /\ seenId' = seenId /\ inHand' = inHand
        /\ sent'[Client] = sent[Client] + 1
    BY <1>1, <1>4 DEF Request, Call
  <2> QED BY <1>1, <1>3, <2>1 DEF ReplyShape, Calling, Handling
<1>5. ~Request(Server)
  BY <1>1 DEF Request
<1>6. ASSUME NEW n \in Nodes, NEW heard \in BOOLEAN, Sent(n, heard) PROVE ReplyShape
  <2>1. /\ \/ pc[n] \in {"sending", "repeating"} /\ pc' = [pc EXCEPT ![n] = "waiting"]
           \/ pc[n] = "acking" /\ pc' = [pc EXCEPT ![n] = "taking"]
        /\ UNCHANGED <<tries, lastId, seenId, out, inHand, sent, acked>>
    BY <1>6 DEF Sent
  <2>2. fifo'[Client] = fifo[Client] \/ \E e : fifo'[Client] = Append(fifo[Client], e) /\ Emits(e)
    <3>1. CASE n = Server /\ heard
      <4>1. fifo'[Client] = Append(fifo[Client], OnAir(Server))
        BY <1>1, <1>6, <3>1 DEF Sent, Other
      <4>2. Emits(OnAir(Server))
        BY <1>1, <2>1, <3>1 DEF Emits, OnAir, Calling
      <4> QED BY <4>1, <4>2
    <3>2. CASE n = Client \/ ~heard
      BY <1>1, <1>6, <3>2 DEF Sent, Other
    <3> QED BY <1>2, <3>1, <3>2
  <2> HIDE DEF Emits
  <2> QED BY <1>1, <1>2, <1>3, <2>1, <2>2 DEF ReplyShape, Calling, Handling
<1>7. ASSUME NEW n \in Nodes, Timeout(n) \/ TakesNothing(n) \/ NoReply(n) PROVE ReplyShape
  <2>1. /\ UNCHANGED <<fifo, lastId, seenId, out, inHand, sent, acked>>
        /\ \/ pc[n] = "waiting" /\ pc' = [pc EXCEPT ![n] = "sending"]
           \/ /\ pc[n] = "waiting" /\ n = Server
              /\ pc' = [pc EXCEPT ![n] = "listening"]
           \/ pc' = [pc EXCEPT ![n] = "resting"]
           \/ pc[n] = "taking" /\ pc' = [pc EXCEPT ![n] = "listening"]
    BY <1>1, <1>2, <1>7 DEF Timeout, TakesNothing, NoReply, AfterFailure
  <2> QED BY <1>1, <1>2, <1>3, <2>1 DEF ReplyShape, Calling, Handling
<1>8. ASSUME NEW n \in Nodes,
             TakesAck(n) \/ TakesSeen(n) \/ Discards(n) \/ TakesMessage(n)
      PROVE  ReplyShape
  <2> DEFINE p == Head(fifo[n])
             f == Tail(fifo[n])
             a == [at |-> n, number |-> out[n].number, by |-> p.number]
  <2>1. /\ UNCHANGED <<seenId, out, sent>> /\ fifo[n] /= <<>> /\ fifo' = [fifo EXCEPT ![n] = f]
        /\ \/ /\ pc[n] = "waiting" /\ IsMyAck(n, p) /\ acked' = acked \cup {a}
              /\ pc' = [pc EXCEPT ![n] = "listening"] /\ inHand' = inHand
           \/ /\ pc[n] = "waiting" /\ IsSeen(n, p) /\ acked' = acked
              /\ pc' = [pc EXCEPT ![n] = "repeating"] /\ inHand' = [inHand EXCEPT ![n] = p]
           \/ pc' = pc /\ pc[n] \in {"waiting", "listening"} /\ acked' = acked /\ inHand' = inHand
           \/ /\ pc[n] = "listening" /\ ~p.ack /\ acked' = acked
              /\ pc' = [pc EXCEPT ![n] = "acking"] /\ inHand' = [inHand EXCEPT ![n] = p]
    BY <1>8 DEF TakesAck, TakesSeen, Discards, TakesMessage, Takes
  <2>2. n = Client => a = [at |-> Client, number |-> out[Client].number, by |-> Head(fifo[Client]).number]
    OBVIOUS
  <2>3. n = Client => p = Head(fifo[Client]) /\ f = Tail(fifo[Client])
    OBVIOUS
  <2>4. n = Server => p = Head(fifo[Server]) /\ f = Tail(fifo[Server])
    OBVIOUS
  <2> HIDE DEF p, f, a
  <2>5. CASE n = Client
    BY <1>1, <1>3, <2>1, <2>2, <2>3, <2>5 DEF ReplyShape, Calling, Handling
  <2>6. CASE n = Server
    BY <1>1, <1>3, <2>1, <2>4, <2>6 DEF ReplyShape, Calling, Handling
  <2> QED BY <1>2, <2>5, <2>6
<1>9. ASSUME NEW n \in Nodes, Delivers(n) PROVE ReplyShape
  <2>1. CASE n = Server
    <3>1. /\ pc[Server] = "taking" /\ pc' = [pc EXCEPT ![Server] = "sending"]
          /\ seenId' = [seenId EXCEPT ![Server] = inHand[Server].id]
          /\ Call(Server, inHand[Server].number)
          /\ UNCHANGED <<fifo, inHand, acked>>
      BY <1>9, <2>1 DEF Delivers
    <3>2. out'[Server].re = inHand[Server].number /\ sent'[Client] = sent[Client]
      BY <1>1, <3>1 DEF Call
    <3> QED BY <1>1, <1>3, <3>1, <3>2 DEF ReplyShape, Calling, Handling
  <2>2. CASE n = Client
    <3>1. /\ pc' = [pc EXCEPT ![Client] = "off"]
          /\ seenId' = [seenId EXCEPT ![Client] = inHand[Client].id]
          /\ UNCHANGED <<lastId, out, sent, tries, fifo, inHand, acked>>
      BY <1>1, <1>9, <2>2 DEF Delivers
    <3> QED BY <1>1, <1>3, <3>1 DEF ReplyShape, Calling, Handling
  <2> QED BY <1>2, <2>1, <2>2
<1>10. CASE Restart(Server)
  <2>1. /\ pc' = [pc EXCEPT ![Server] = "listening"] /\ fifo'[Client] = fifo[Client]
        /\ sent' = sent /\ acked' = acked /\ inHand'[Client] = inHand[Client]
    BY <1>1, <1>10 DEF Restart, Start
  <2> QED BY <1>1, <1>3, <2>1 DEF ReplyShape, Calling, Handling
<1> QED BY <1>2, <1>4, <1>5, <1>6, <1>7, <1>8, <1>9, <1>10 DEF Next, Step

\* What the radio of the client holds after a step.
LEMMA ClientFifo ==
  ASSUME TypeOK, ReplyShape
  PROVE  /\ \A i \in DOMAIN fifo'[Client] :
              \/ \E k \in DOMAIN fifo[Client] : fifo'[Client][i] = fifo[Client][k]
              \/ Emits(fifo'[Client][i])
         /\ \A i, j \in DOMAIN fifo'[Client] :
              i < j => \E k \in DOMAIN fifo[Client] :
                         /\ fifo'[Client][i] = fifo[Client][k]
                         /\ \/ \E l \in DOMAIN fifo[Client] :
                                 k < l /\ fifo'[Client][j] = fifo[Client][l]
                            \/ Emits(fifo'[Client][j])
<1> DEFINE q == fifo[Client]
           r == fifo'[Client]
<1>1. q \in Seq(Messages)
  BY DEF TypeOK, Nodes
<1>2. r = q \/ (q /= <<>> /\ r = Tail(q)) \/ \E e : r = Append(q, e) /\ Emits(e)
  BY DEF ReplyShape
<1> HIDE DEF q, r
<1>3. CASE r = q
  BY <1>3 DEF q, r
<1>4. CASE q /= <<>> /\ r = Tail(q)
  <2>1. \A i \in DOMAIN r : i \in Nat /\ i + 1 \in DOMAIN q /\ r[i] = q[i + 1]
    BY <1>1, <1>4
  <2>2. \A i, j \in DOMAIN r : i < j => i + 1 < j + 1
    BY <2>1
  <2> QED BY <2>1, <2>2 DEF q, r
<1>5. ASSUME NEW e, r = Append(q, e), Emits(e)
      PROVE  /\ \A i \in DOMAIN r : (\E k \in DOMAIN q : r[i] = q[k]) \/ Emits(r[i])
             /\ \A i, j \in DOMAIN r :
                  i < j => \E k \in DOMAIN q :
                             r[i] = q[k] /\ ((\E l \in DOMAIN q : k < l /\ r[j] = q[l]) \/ Emits(r[j]))
  <2>1. \A i \in DOMAIN r : (i \in DOMAIN q /\ r[i] = q[i]) \/ (i = Len(q) + 1 /\ r[i] = e)
    BY <1>1, <1>5
  <2>2. \A i, j \in DOMAIN r : i < j => i \in DOMAIN q /\ r[i] = q[i]
    BY <1>1, <1>5
  <2> QED BY <1>5, <2>1, <2>2
<1> QED BY <1>2, <1>3, <1>4, <1>5 DEF q, r

LEMMA ReachesNext ==
  ASSUME Inv, Shape \/ Restart(Server), ReplyShape, NEW k, Reaches(k)
  PROVE  Reaches(k)'
<1>1. Client \in Nodes /\ Server \in Nodes /\ Other(Client) = Server /\ Client /= Server
  BY Constants DEF Nodes, Other
<1>2. k \in Nat /\ Onwards(Client, k)
  BY DEF Reaches
<1>3. Onwards(Client, k)'
  <2>1. CASE Shape
    BY <1>1, <1>2, <2>1, OnwardsNext
  <2>2. CASE Restart(Server)
    <3>1. sent' = sent /\ fifo'[Server] = <<>> /\ pc'[Server] = "listening"
      BY <1>1, <2>2 DEF Restart, Start, Inv, TypeOK
    <3> QED BY <1>1, <1>2, <3>1 DEF Onwards, Handling
  <2> QED BY <2>1, <2>2
<1>4. Calling(Server)' => Apart(out'[Server].re, k)
  <2>1. CASE Calling(Server) /\ out'[Server] = out[Server]
    BY <2>1 DEF Reaches
  <2>2. CASE pc[Server] = "taking" /\ out'[Server].re = inHand[Server].number
    BY <1>1, <1>2, <2>2, MessageTypes DEF Onwards, Handling, Apart, Inv
  <2> QED BY <2>1, <2>2 DEF ReplyShape
<1> QED BY <1>2, <1>3, <1>4 DEF Reaches, Apart

LEMMA RepliesNext ==
  ASSUME Inv, Inv', Shape \/ Restart(Server), ReplyShape,
         IdsFit(Client), RepliesToSeen, RepliesKnown, RepliesAfterAcks, RepeatsLater, Awaits
  PROVE  /\ IdsFit(Client)' /\ RepliesToSeen' /\ RepliesKnown' /\ RepliesAfterAcks'
         /\ RepeatsLater' /\ Awaits'
<1>1. /\ Client \in Nodes /\ Server \in Nodes /\ Client /= Server
      /\ Other(Client) = Server /\ Other(Server) = Client
      /\ TypeOK /\ Ordered(Client) /\ Ordered(Server) /\ IdMod \in Nat /\ IdMod > 0
  BY Constants DEF Nodes, Other, Inv
<1>2. /\ sent[Client] \in Nat /\ sent'[Client] \in Nat /\ sent'[Client] >= sent[Client]
      /\ fifo[Client] \in Seq(Messages) /\ fifo[Server] \in Seq(Messages)
      /\ \A i \in DOMAIN fifo[Client] :
           fifo[Client][i].number \in Nat /\ fifo[Client][i].re \in Nat
      /\ inHand[Client].re \in Nat /\ out[Server].re \in Nat /\ inHand[Server].number \in Nat
  <2>1. fifo[Client] \in Seq(Messages) /\ fifo[Server] \in Seq(Messages)
        /\ inHand[Client] \in Messages /\ out[Server] \in Messages /\ inHand[Server] \in Messages
        /\ sent[Client] \in Nat
    BY <1>1 DEF TypeOK
  <2>2. \A m \in Messages : m.number \in Nat /\ m.re \in Nat
    BY DEF Messages
  <2>3. \A i \in DOMAIN fifo[Client] : fifo[Client][i] \in Messages
    BY <2>1
  <2>4. sent'[Client] \in Nat
    BY <1>1 DEF Inv, TypeOK
  <2>5. sent'[Client] >= sent[Client]
    BY DEF ReplyShape
  <2> QED BY <2>1, <2>2, <2>3, <2>4, <2>5
<1>3. \A k : Reaches(k) => Reaches(k)'
  BY ReachesNext
<1>4. IdsFit(Client)'
  <2>1. CASE Shape
    BY <1>1, <2>1, IdsFitNext
  <2>2. CASE Restart(Server)
    <3>1. /\ lastId'[Client] = lastId[Client] /\ sent' = sent /\ pc'[Client] = pc[Client]
          /\ out'[Client] = out[Client] /\ fifo'[Server] = <<>> /\ fifo'[Client] = fifo[Client]
          /\ pc'[Server] = "listening"
      BY <1>1, <2>2 DEF Restart, Start, TypeOK
    <3> QED BY <1>1, <3>1 DEF IdsFit, Calling, Numbered
  <2> QED BY <2>1, <2>2
<1>5. RepliesToSeen'
  <2>1. CASE Calling(Server) /\ out'[Server] = out[Server] /\ seenId'[Server] = seenId[Server]
    BY <1>2, <2>1 DEF RepliesToSeen
  <2>2. CASE /\ pc[Server] = "taking"
             /\ out'[Server].re = inHand[Server].number /\ seenId'[Server] = inHand[Server].id
    <3>1. Numbered(inHand[Server])
      BY <1>1, <2>2 DEF IdsFit
    <3>2. inHand[Server].number <= sent[Client]
      BY <1>1, <2>2 DEF Ordered, ComingKnown, Known, Handling
    <3> QED BY <1>2, <2>2, <3>1, <3>2 DEF RepliesToSeen, Numbered
  <2> QED BY <2>1, <2>2 DEF ReplyShape, RepliesToSeen
<1>6. ASSUME NEW e, Emits(e)
      PROVE  /\ ~e.ack => Calling(Server) /\ e = out[Server]
             /\ e.ack => Reaches(e.number)'
  <2>1. CASE Calling(Server) /\ e = out[Server]
    BY <1>1, <2>1 DEF Ordered, OutIsLatest
  <2>2. CASE e = Acknowledgement(inHand[Server]) /\ pc[Server] = "repeating"
    BY <1>3, <2>2 DEF RepeatsLater, Acknowledgement
  <2>3. CASE /\ e = Acknowledgement(inHand[Server])
             /\ pc[Server] = "acking" /\ pc'[Server] = "taking"
    <3>1. PICK k \in Nat : k = inHand[Server].number
      BY <1>2
    <3>2. Onwards(Client, k)
      BY <1>1, <2>3, <3>1, InHandOnwards DEF Handling
    <3>3. Reaches(k)
      BY <2>3, <3>2 DEF Reaches, Calling
    <3> QED BY <1>3, <2>3, <3>1, <3>3 DEF Acknowledgement
  <2> QED BY <1>6, <2>1, <2>2, <2>3 DEF Emits
<1>7. RepliesKnown'
  <2>1. \A i \in DOMAIN fifo'[Client] :
          ~fifo'[Client][i].ack => fifo'[Client][i].re <= sent[Client]
    BY <1>1, <1>6, ClientFifo DEF RepliesKnown, RepliesToSeen
  <2>2. \A i \in DOMAIN fifo'[Client] : ~fifo'[Client][i].ack => fifo'[Client][i].re \in Nat
    BY <1>1, <1>2, <1>6, ClientFifo
  <2>3. Handling(Client)' => inHand'[Client].re <= sent[Client] /\ inHand'[Client].re \in Nat
    <3>1. fifo[Client] /= <<>> => 1 \in DOMAIN fifo[Client] /\ Head(fifo[Client]) = fifo[Client][1]
      BY <1>2
    <3> QED BY <1>2, <3>1 DEF ReplyShape, RepliesKnown
  <2> QED BY <1>2, <2>1, <2>2, <2>3 DEF RepliesKnown
<1>8. RepliesAfterAcks'
  <2>1. ASSUME NEW i \in DOMAIN fifo'[Client], fifo'[Client][i].ack
        PROVE  Reaches(fifo[Client][i].number)'
    <3>1. CASE \E k \in DOMAIN fifo[Client] : fifo'[Client][i] = fifo[Client][k]
      BY <1>3, <2>1, <3>1 DEF RepliesAfterAcks
    <3>2. CASE Emits(fifo'[Client][i])
      BY <1>6, <2>1, <3>2
    <3> QED BY <1>1, <3>1, <3>2, ClientFifo
  <2>2. ASSUME NEW i \in DOMAIN fifo'[Client], NEW j \in DOMAIN fifo'[Client], i < j,
               fifo'[Client][i].ack, ~fifo'[Client][j].ack
        PROVE  Apart(fifo'[Client][j].re, fifo'[Client][i].number)
    <3>1. PICK k \in DOMAIN fifo[Client] :
            /\ fifo'[Client][i] = fifo[Client][k]
            /\ \/ \E l \in DOMAIN fifo[Client] : k < l /\ fifo'[Client][j] = fifo[Client][l]
               \/ Emits(fifo'[Client][j])
      BY <1>1, <2>2, ClientFifo
    <3>2. CASE \E l \in DOMAIN fifo[Client] : k < l /\ fifo'[Client][j] = fifo[Client][l]
      BY <2>2, <3>1, <3>2 DEF RepliesAfterAcks
    <3>3. CASE Emits(fifo'[Client][j])
      BY <1>6, <2>2, <3>1, <3>3 DEF RepliesAfterAcks, Reaches
    <3> QED BY <3>1, <3>2, <3>3
  <2> QED BY <2>1, <2>2 DEF RepliesAfterAcks, Apart
<1>9. RepeatsLater'
  <2>1. CASE pc[Server] = "repeating" /\ inHand'[Server] = inHand[Server]
    BY <1>3, <2>1 DEF RepeatsLater
  <2>2. CASE /\ Calling(Server) /\ ~Handling(Server) /\ fifo[Server] /= <<>>
             /\ inHand'[Server] = Head(fifo[Server]) /\ IsSeen(Server, Head(fifo[Server]))
    <3> DEFINE p == Head(fifo[Server])
    <3>1. 1 \in DOMAIN fifo[Server] /\ p = fifo[Server][1] /\ ~p.ack /\ p.id = seenId[Server]
          /\ p.number \in Nat
      BY <1>1, <1>2, <2>2, MessageTypes DEF IsSeen
    <3>2. Known(Server, p) /\ Numbered(p)
      BY <1>1, <3>1 DEF Ordered, ComingKnown, IdsFit
    <3>3. Onwards(Client, p.number)
      BY <1>1, <2>2, <3>1, FirstOnwards
    <3>4. Apart(out[Server].re, p.number)
      <4>1. out[Server].re % IdMod = p.number % IdMod
        BY <2>2, <3>1, <3>2 DEF RepliesToSeen, Numbered
      <4>2. out[Server].re < p.number => p.number - out[Server].re >= IdMod
        BY <1>1, <1>2, <3>1, <4>1, SameIdApart
      <4> QED BY <1>1, <1>2, <3>1, <4>2 DEF Apart
    <3>5. PICK k \in Nat : k = p.number
      BY <3>1
    <3>6. Reaches(k)
      BY <3>3, <3>4, <3>5 DEF Reaches
    <3>7. Reaches(k)'
      BY <1>3, <3>6
    <3>8. inHand'[Server].number = k
      BY <2>2, <3>5
    <3> QED BY <3>7, <3>8 DEF RepeatsLater
  <2> QED BY <2>1, <2>2 DEF ReplyShape, RepeatsLater
<1>10. Awaits'
  <2> SUFFICES ASSUME pc'[Client] \in {"listening", "acking", "taking"} PROVE Awaits'
    BY DEF Awaits
  <2>1. sent'[Client] = sent[Client]
    BY DEF ReplyShape
  <2>2. CASE pc[Client] \in {"listening", "acking", "taking"}
    <3>1. PICK a \in acked :
            /\ a.at = Client /\ a.number = sent[Client]
            /\ \/ a.by <= sent[Client] - IdMod
               \/ /\ Reaches(sent[Client])
                  /\ \A i \in DOMAIN fifo[Client] :
                       ~fifo[Client][i].ack => Apart(fifo[Client][i].re, sent[Client])
                  /\ Handling(Client) => Apart(inHand[Client].re, sent[Client])
      BY <2>2 DEF Awaits
    <3>2. a \in acked'
      BY DEF ReplyShape
    <3>3. CASE a.by <= sent[Client] - IdMod
      BY <2>1, <3>1, <3>2, <3>3 DEF Awaits
    <3>4. CASE /\ Reaches(sent[Client])
               /\ \A i \in DOMAIN fifo[Client] :
                    ~fifo[Client][i].ack => Apart(fifo[Client][i].re, sent[Client])
               /\ Handling(Client) => Apart(inHand[Client].re, sent[Client])
      <4>1. Reaches(sent[Client])'
        BY <1>3, <2>1, <3>4
      <4>2. \A i \in DOMAIN fifo'[Client] :
              ~fifo'[Client][i].ack => Apart(fifo'[Client][i].re, sent[Client])
        BY <1>1, <1>6, <3>4, ClientFifo DEF Reaches
      <4>3. Handling(Client)' => Apart(inHand'[Client].re, sent[Client])
        <5>1. fifo[Client] /= <<>> =>
                1 \in DOMAIN fifo[Client] /\ Head(fifo[Client]) = fifo[Client][1]
          BY <1>2
        <5> QED BY <3>4, <5>1 DEF ReplyShape
      <4> QED BY <2>1, <3>1, <3>2, <4>1, <4>2, <4>3 DEF Awaits, Apart
    <3> QED BY <3>1, <3>3, <3>4
  <2>3. CASE /\ Calling(Client) /\ pc'[Client] = "listening"
             /\ fifo[Client] /= <<>> /\ fifo'[Client] = Tail(fifo[Client])
             /\ IsMyAck(Client, Head(fifo[Client]))
             /\ [at |-> Client, number |-> out[Client].number, by |-> Head(fifo[Client]).number]
                  \in acked'
    <3> DEFINE p == Head(fifo[Client])
    <3>1. 1 \in DOMAIN fifo[Client] /\ p = fifo[Client][1] /\ p.ack /\ p.id = out[Client].id
      BY <1>2, <2>3 DEF IsMyAck
    <3>2. Reaches(p.number) /\ Numbered(p) /\ p.number \in Nat /\ p.number <= sent[Client]
      BY <1>2, <3>1 DEF RepliesAfterAcks, IdsFit, Reaches, Onwards
    <3>3. out[Client].number = sent[Client] /\ p.number % IdMod = sent[Client] % IdMod
      BY <1>1, <2>3, <3>1, <3>2 DEF Ordered, OutIsLatest, IdsFit, Numbered
    <3>4. p.number < sent[Client] => sent[Client] - p.number >= IdMod
      BY <1>1, <1>2, <3>2, <3>3, SameIdApart
    <3>5. PICK a \in acked' : a.at = Client /\ a.number = sent[Client] /\ a.by = p.number
      BY <2>3, <3>3
    <3>6. CASE p.number <= sent[Client] - IdMod
      BY <2>1, <3>5, <3>6 DEF Awaits
    <3>7. CASE p.number = sent[Client]
      <4>1. Reaches(sent[Client])'
        BY <1>3, <2>1, <3>2, <3>7
      <4>2. \A i \in DOMAIN fifo'[Client] :
              i + 1 \in DOMAIN fifo[Client] /\ 1 < i + 1 /\ fifo'[Client][i] = fifo[Client][i + 1]
        BY <1>2, <2>3
      <4>3. \A i \in DOMAIN fifo'[Client] :
              ~fifo'[Client][i].ack => Apart(fifo'[Client][i].re, sent[Client])
        BY <3>1, <3>7, <4>2 DEF RepliesAfterAcks
      <4>4. ~Handling(Client)'
        BY <2>3 DEF Handling
      <4> QED BY <2>1, <3>5, <4>1, <4>3, <4>4 DEF Awaits, Apart
    <3> QED BY <1>1, <1>2, <3>2, <3>4, <3>6, <3>7
  <2> QED BY <2>2, <2>3 DEF ReplyShape
<1> QED BY <1>4, <1>5, <1>7, <1>8, <1>9, <1>10

LEMMA ReplyInit == Init => ReplyInv
<1> SUFFICES ASSUME Init PROVE ReplyInv
  OBVIOUS
<1>1. /\ Client \in Nodes /\ Server \in Nodes /\ DOMAIN fifo[Client] = {}
      /\ pc[Client] = "off" /\ pc[Server] = "listening"
  BY Constants DEF Init, Start, Nodes
<1>2. IdsFit(Client)
  <2>1. Init => AckInv /\ Together
    BY AckInit DEF Init, Together, Nodes
  <2> QED BY <1>1, <2>1 DEF AckInv
<1> QED BY <1>1, <1>2
        DEF ReplyInv, RepliesToSeen, RepliesKnown, RepliesAfterAcks, RepeatsLater, Awaits,
            Calling, Handling

LEMMA ReplyNext == ASSUME Inv, ReplyInv, [Next]_vars PROVE ReplyInv'
<1>1. TypeOK /\ Inv' /\ Client \in Nodes /\ Server \in Nodes
  BY OrderNext DEF Inv, Nodes
<1>2. CASE UNCHANGED vars
  BY <1>2 DEF vars, histVars, ReplyInv, IdsFit, RepliesToSeen, RepliesKnown, RepliesAfterAcks,
              RepeatsLater, Awaits, Reaches, Onwards, Calling, Handling
<1>3. CASE Restart(Client)
  <2>1. restarts'[Client] = restarts[Client] + 1 /\ restarts[Client] \in Nat
    BY <1>1, <1>3, MessageTypes DEF Restart, TypeOK
  <2> QED BY <2>1 DEF ReplyInv
<1>4. CASE Next /\ ~Restart(Client)
  <2>1. ReplyShape
    BY <1>1, <1>4, ReplyShapeOfStep
  <2>2. Shape \/ Restart(Server)
    <3>1. CASE \A n \in Nodes : ~Restart(n)
      BY <1>1, <1>4, <3>1, ShapeOfStep DEF Inv
    <3>2. CASE \E n \in Nodes : Restart(n)
      BY <1>4, <3>2 DEF Nodes
    <3> QED BY <3>1, <3>2
  <2>3. restarts'[Client] = restarts[Client]
    <3>1. CASE Restart(Server)
      BY <1>1, <3>1, Constants DEF Restart, TypeOK
    <3>2. CASE ~Restart(Server)
      BY <1>4, <3>2 DEF Next, Step, Request, Sent, Timeout, TakesAck, TakesSeen, Discards,
                        TakesMessage, TakesNothing, Delivers, NoReply, histVars, Nodes
    <3> QED BY <3>1, <3>2
  <2> QED BY <1>1, <2>1, <2>2, <2>3, RepliesNext DEF ReplyInv
<1> QED BY <1>2, <1>3, <1>4

LEMMA AnswersNext ==
  ASSUME Inv, ReplyInv, ReplyAnswersRequest, [Next]_vars
  PROVE  ReplyAnswersRequest'
<1>1. TypeOK /\ Client \in Nodes /\ Ordered(Client)
  BY DEF Inv, Nodes
<1>2. acked \subseteq acked'
  BY DEF Next, Step, Request, Sent, Timeout, TakesAck, TakesSeen, Discards, TakesMessage,
         TakesNothing, Delivers, NoReply, Restart, histVars, vars
<1>3. CASE delivered' = delivered
  BY <1>2, <1>3 DEF ReplyAnswersRequest
<1>4. ASSUME NEW n \in Nodes, Delivers(n) PROVE ReplyAnswersRequest'
  <2>1. Ordered(n)
    BY DEF Inv
  <2>2. \A i \in DOMAIN delivered' :
          \/ i \in DOMAIN delivered /\ delivered'[i] = delivered[i]
          \/ delivered'[i] = Delivery(n, inHand[n])
    BY <1>1, <1>4, <2>1, DeliversFacts
  <2>3. ASSUME n = Client, restarts[Client] = 0
        PROVE  \/ inHand[Client].re = sent[Client]
               \/ sent[Client] - inHand[Client].re >= IdMod
               \/ \E a \in acked' : /\ a.at = Client /\ a.number = sent[Client]
                                    /\ a.by <= sent[Client] - IdMod
    <3>1. pc[Client] = "taking" /\ Handling(Client)
      BY <1>4, <2>3 DEF Delivers, Handling
    <3>2. PICK a \in acked :
            /\ a.at = Client /\ a.number = sent[Client]
            /\ \/ a.by <= sent[Client] - IdMod
               \/ Apart(inHand[Client].re, sent[Client])
      BY <2>3, <3>1 DEF ReplyInv, Awaits
    <3>3. inHand[Client].re <= sent[Client]
      BY <2>3, <3>1 DEF ReplyInv, RepliesKnown
    <3>4. inHand[Client].re \in Nat /\ sent[Client] \in Nat /\ IdMod \in Nat
      BY <1>1, Constants DEF TypeOK, Messages
    <3> QED BY <1>2, <3>2, <3>3, <3>4 DEF Apart
  <2> QED BY <1>2, <2>2, <2>3 DEF ReplyAnswersRequest, Delivery
<1>5. delivered' = delivered \/ \E n \in Nodes : Delivers(n)
  BY DEF Next, Step, Request, Sent, Timeout, TakesAck, TakesSeen, Discards, TakesMessage,
         TakesNothing, NoReply, Restart, histVars, vars
<1> QED BY <1>3, <1>4, <1>5

\* The reply the client gets is the one to its latest request: for any number of ids,
\* losses, repetitions and restarts of the server, with the exceptions that
\* ReplyAnswersRequest names.
THEOREM RepliesAreAnswers == Spec => []ReplyAnswersRequest
<1>1. Init => Inv /\ ReplyInv /\ ReplyAnswersRequest
  BY OrderInit, ReplyInit DEF Init, ReplyAnswersRequest
<1>2. Inv /\ ReplyInv /\ ReplyAnswersRequest /\ [Next]_vars
        => Inv' /\ ReplyInv' /\ ReplyAnswersRequest'
  BY OrderNext, ReplyNext, AnswersNext
<1> QED BY <1>1, <1>2, PTL DEF Spec
===============================================================================
