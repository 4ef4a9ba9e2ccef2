---------------------------- MODULE ReliableDatagram ----------------------------
(***************************************************************************)
(* ArduinoNode: the sketches nrf24_reliable_datagram_client and ..._server, *)
(* with libraries/RadioHead: RHReliableDatagram, which acknowledges        *)
(* messages, sends them again and recognises repetitions, over the driver  *)
(* RH_NRF24 of a radio that either sends or listens.  The two boards are    *)
(* alone on the channel, as the sketches have them.                        *)
(*                                                                         *)
(* The client sends a request with sendtoWait and then waits for the reply   *)
(* with recvfromAckTimeout.  The server takes a request with recvfromAck   *)
(* and sends the reply with sendtoWait.  Clocks are abstracted: a timeout  *)
(* can come as soon as everything the radio holds has been looked at,      *)
(* which takes a small part of the time.  The driver's mode follows from    *)
(* where the sketch is: available() switches the receiver on at once, and  *)
(* what arrives before that may be lost as anything else.                  *)
(***************************************************************************)
EXTENDS Integers, Sequences, FiniteSets

CONSTANTS
  Client, Server,
  IdMod,          \* 2^8: the ids are bytes
  Retries,        \* _retries
  FifoSize,       \* 3: the messages the radio holds
  MaxMessages,    \* bound: on the requests of the client
  MaxRestarts     \* bound: on the restarts of each board

Nodes == {Client, Server}

DatagramAssumption ==
  /\ Client /= Server
  /\ IdMod \in Nat \ {0, 1} /\ Retries \in Nat /\ FifoSize \in Nat \ {0}
  /\ MaxMessages \in Nat /\ MaxRestarts \in Nat
ASSUME DatagramAssumption

VARIABLES
  fifo,           \* what the radio has received
  pc,             \* where the sketch is
  tries,          \* how often sendtoWait has sent its message
  lastId,         \* _lastSequenceNumber
  seenId,         \* _seenIds at the address of the other board
  out,            \* the message of sendtoWait
  inHand,         \* the message that is being acknowledged
  sent,           \* history: how many messages the node has begun to send
  acked,          \* history: the messages for which sendtoWait returned true, and the
                  \* numbers of the messages whose acknowledgements were taken for theirs
  delivered,      \* history: the messages that recvfromAck returned, in order
  restarts        \* history: the restarts of each board

histVars == <<sent, acked, delivered, restarts>>
vars == <<fifo, pc, tries, lastId, seenId, out, inHand, histVars>>

--------------------------------------------------------------------------------
(* A message carries its headers and, as history, its number among those of *)
(* its sender (for an acknowledgement, the number of the message), and the *)
(* number of the request it answers.                                       *)

Nothing == [id |-> 0, ack |-> FALSE, number |-> 0, re |-> 0]

Acknowledgement(p) == [id |-> p.id, ack |-> TRUE, number |-> p.number, re |-> 0]

\* What the node sends in the state it is in.
OnAir(n) == IF pc[n] = "sending" THEN out[n] ELSE Acknowledgement(inHand[n])

\* After setup() the server waits for messages; the receiver of a client is off.
Start(n) == IF n = Server THEN "listening" ELSE "off"

Init ==
  /\ fifo = [n \in Nodes |-> <<>>]
  /\ pc = [n \in Nodes |-> Start(n)]
  /\ tries = [n \in Nodes |-> 0]
  /\ lastId = [n \in Nodes |-> 0]
  /\ seenId = [n \in Nodes |-> 0]
  /\ out = [n \in Nodes |-> Nothing]
  /\ inHand = [n \in Nodes |-> Nothing]
  /\ sent = [n \in Nodes |-> 0]
  /\ acked = {} /\ delivered = <<>>
  /\ restarts = [n \in Nodes |-> 0]

--------------------------------------------------------------------------------
(* sendtoWait                                                              *)

NextId(n) == (lastId[n] + 1) % IdMod

\* Mutant of Call: the id is incremented after it has been used.
Call_PostIncrement(n, re) ==
  /\ lastId' = [lastId EXCEPT ![n] = NextId(n)]
  /\ out' = [out EXCEPT ![n] = [id |-> lastId[n], ack |-> FALSE, number |-> sent[n] + 1, re |-> re]]
  /\ sent' = [sent EXCEPT ![n] = @ + 1]
  /\ tries' = [tries EXCEPT ![n] = 1]

\* The call, up to waitPacketSent.
Call(n, re) ==
  /\ lastId' = [lastId EXCEPT ![n] = NextId(n)]
  /\ out' = [out EXCEPT ![n] = [id |-> NextId(n), ack |-> FALSE, number |-> sent[n] + 1, re |-> re]]
  /\ sent' = [sent EXCEPT ![n] = @ + 1]
  /\ tries' = [tries EXCEPT ![n] = 1]

\* The client sends its next request.
Request(n) ==
  /\ n = Client /\ pc[n] \in {"off", "resting"} /\ sent[n] < MaxMessages
  /\ Call(n, 0)
  /\ pc' = [pc EXCEPT ![n] = "sending"]
  /\ UNCHANGED <<fifo, seenId, inHand, acked, delivered, restarts>>

\* The receiver is on in the calls that wait, and it is left on when they give up.
Receiving == {"waiting", "listening", "resting"}

Other(n) == IF n = Client THEN Server ELSE Client

Hears(n) == pc[n] \in Receiving /\ Len(fifo[n]) < FifoSize

\* waitPacketSent returns.  The other board, if it listens, may have received it.
Sent(n, heard) ==
  /\ pc[n] \in {"sending", "repeating", "acking"}
  /\ heard => Hears(Other(n))
  /\ fifo' = IF heard THEN [fifo EXCEPT ![Other(n)] = Append(@, OnAir(n))] ELSE fifo
  /\ pc' = [pc EXCEPT ![n] = IF @ = "acking" THEN "taking" ELSE "waiting"]
  /\ UNCHANGED <<tries, lastId, seenId, out, inHand, histVars>>

\* The sketch after sendtoWait has failed.
AfterFailure(n) == IF n = Server THEN "listening" ELSE "resting"

\* Mutant: the times are not counted.
Counted_Not(n) == tries[n]

Counted(n) == tries[n] + 1

\* The timeout, after which the message is sent again or given up.
Timeout(n) ==
  /\ pc[n] = "waiting" /\ fifo[n] = <<>>
  /\ IF tries[n] <= Retries
     THEN /\ tries' = [tries EXCEPT ![n] = Counted(n)]
          /\ pc' = [pc EXCEPT ![n] = "sending"]
     ELSE /\ pc' = [pc EXCEPT ![n] = AfterFailure(n)]
          /\ UNCHANGED tries
  /\ UNCHANGED <<fifo, lastId, seenId, out, inHand, histVars>>

\* available() and recvfrom() take the first message from the radio.
Takes(n) == fifo[n] /= <<>> /\ fifo' = [fifo EXCEPT ![n] = Tail(@)]

\* Mutant: the id is not looked at.
IsMyAck_Any(n, p) == p.ack

IsMyAck(n, p) == p.ack /\ p.id = out[n].id

\* sendtoWait returns true.
TakesAck(n) ==
  /\ pc[n] = "waiting" /\ Takes(n)
  /\ IsMyAck(n, Head(fifo[n]))
  /\ acked' = acked \cup {[at |-> n, number |-> out[n].number, by |-> Head(fifo[n]).number]}
  /\ pc' = [pc EXCEPT ![n] = "listening"]
  /\ UNCHANGED <<tries, lastId, seenId, out, inHand, sent, delivered, restarts>>

\* Mutant: the id is compared with that of the node's own messages.
IsSeen_Own(n, p) == ~p.ack /\ p.id = lastId[n]

IsSeen(n, p) == ~p.ack /\ p.id = seenId[n]

\* In sendtoWait, a message that has been taken before is acknowledged again.
TakesSeen(n) ==
  /\ pc[n] = "waiting" /\ Takes(n)
  /\ ~IsMyAck(n, Head(fifo[n])) /\ IsSeen(n, Head(fifo[n]))
  /\ inHand' = [inHand EXCEPT ![n] = Head(fifo[n])]
  /\ pc' = [pc EXCEPT ![n] = "repeating"]
  /\ UNCHANGED <<tries, lastId, seenId, out, histVars>>

\* In sendtoWait any other message is discarded, and an acknowledgement in
\* recvfromAck.
Discards(n) ==
  /\ Takes(n)
  /\ \/ pc[n] = "waiting" /\ ~IsMyAck(n, Head(fifo[n])) /\ ~IsSeen(n, Head(fifo[n]))
     \/ pc[n] = "listening" /\ Head(fifo[n]).ack
  /\ UNCHANGED <<pc, tries, lastId, seenId, out, inHand, histVars>>

--------------------------------------------------------------------------------
(* recvfromAck                                                             *)

\* A message is acknowledged first, whether it is new or not.
TakesMessage(n) ==
  /\ pc[n] = "listening" /\ Takes(n)
  /\ ~Head(fifo[n]).ack
  /\ inHand' = [inHand EXCEPT ![n] = Head(fifo[n])]
  /\ pc' = [pc EXCEPT ![n] = "acking"]
  /\ UNCHANGED <<tries, lastId, seenId, out, histVars>>

\* It has been taken before.
TakesNothing(n) ==
  /\ pc[n] = "taking" /\ IsSeen(n, inHand[n])
  /\ pc' = [pc EXCEPT ![n] = "listening"]
  /\ UNCHANGED <<fifo, tries, lastId, seenId, out, inHand, histVars>>

\* The record of what recvfromAck returns, and the board's life and latest request.
Delivery(n, p) == [at |-> n, message |-> p, life |-> restarts[n], latest |-> sent[n]]

\* recvfromAck returns true.  The server replies, the client rests.
Delivers(n) ==
  /\ pc[n] = "taking" /\ ~IsSeen(n, inHand[n])
  /\ seenId' = [seenId EXCEPT ![n] = inHand[n].id]
  /\ delivered' = Append(delivered, Delivery(n, inHand[n]))
  /\ IF n = Server
     THEN /\ Call(n, inHand[n].number)
          /\ pc' = [pc EXCEPT ![n] = "sending"]
     ELSE /\ pc' = [pc EXCEPT ![n] = "off"]
          /\ UNCHANGED <<lastId, out, sent, tries>>
  /\ UNCHANGED <<fifo, inHand, acked, restarts>>

\* recvfromAckTimeout returns false.
NoReply(n) ==
  /\ n = Client /\ pc[n] = "listening" /\ fifo[n] = <<>>
  /\ pc' = [pc EXCEPT ![n] = "resting"]
  /\ UNCHANGED <<fifo, tries, lastId, seenId, out, inHand, histVars>>

\* setup(): the radio and all members begin anew.
Restart(n) ==
  /\ restarts[n] < MaxRestarts
  /\ fifo' = [fifo EXCEPT ![n] = <<>>]
  /\ pc' = [pc EXCEPT ![n] = Start(n)]
  /\ tries' = [tries EXCEPT ![n] = 0]
  /\ lastId' = [lastId EXCEPT ![n] = 0]
  /\ seenId' = [seenId EXCEPT ![n] = 0]
  /\ out' = [out EXCEPT ![n] = Nothing]
  /\ inHand' = [inHand EXCEPT ![n] = Nothing]
  /\ restarts' = [restarts EXCEPT ![n] = @ + 1]
  /\ UNCHANGED <<sent, acked, delivered>>

--------------------------------------------------------------------------------
Step(n) ==
  \/ \E heard \in BOOLEAN : Sent(n, heard)
  \/ Timeout(n) \/ TakesAck(n) \/ TakesSeen(n) \/ Discards(n)
  \/ TakesMessage(n) \/ TakesNothing(n) \/ Delivers(n) \/ NoReply(n)

Next == \E n \in Nodes : Request(n) \/ Step(n) \/ Restart(n)

\* Every board goes on, and its clock runs.
Fairness == \A n \in Nodes : WF_vars(Step(n))

Spec == Init /\ [][Next]_vars /\ Fairness

--------------------------------------------------------------------------------
(* Properties                                                              *)

Messages == [id : 0 .. IdMod - 1, ack : BOOLEAN, number : Nat, re : Nat]

TypeOK ==
  /\ fifo \in [Nodes -> Seq(Messages)] /\ \A n \in Nodes : Len(fifo[n]) <= FifoSize
  /\ pc \in [Nodes -> {"off", "resting", "sending", "waiting", "repeating", "listening",
                       "acking", "taking"}]
  /\ tries \in [Nodes -> 0 .. Retries + 1]
  /\ lastId \in [Nodes -> 0 .. IdMod - 1]
  /\ seenId \in [Nodes -> 0 .. IdMod - 1]
  /\ out \in [Nodes -> Messages] /\ inHand \in [Nodes -> Messages]
  /\ sent \in [Nodes -> Nat]
  /\ acked \subseteq [at : Nodes, number : Nat, by : Nat]
  /\ delivered \in Seq([at : Nodes, message : Messages, life : Nat, latest : Nat])
  /\ restarts \in [Nodes -> 0 .. MaxRestarts]

Reached(n, number) ==
  \E i \in DOMAIN delivered : delivered[i].at = n /\ delivered[i].message.number = number

\* RHReliableDatagram.h, sendtoWait, "true if the message was transmitted and an
\* acknowledgement was received": then recvfromAck has returned the message on the
\* other board, or is about to.  But not if a board was restarted; nor if there were
\* 255 messages before it and all have been lost, so that its id is taken for one that
\* has been seen; nor if the acknowledgement is that of the message 256 before.
AckedWasDelivered ==
  \A a \in acked :
    LET to == Other(a.at)
    IN  \/ Reached(to, a.number)
        \/ pc[to] = "taking" /\ inHand[to].number = a.number
        \/ restarts[Client] > 0 \/ restarts[Server] > 0
        \/ /\ a.number >= IdMod
           /\ \A k \in a.number - IdMod + 1 .. a.number - 1 : ~Reached(to, k)
        \/ a.by <= a.number - IdMod

\* The messages of a board are delivered in its order, and one is delivered a
\* second time only after the receiver was restarted.
DeliveredInOrder ==
  \A i, j \in DOMAIN delivered :
    LET d == delivered[i]
        e == delivered[j]
    IN  i < j /\ d.at = e.at =>
          \/ d.message.number < e.message.number
          \/ d.message.number = e.message.number /\ d.life < e.life

\* The reply that the client gets is the one to its latest request, whatever has been
\* lost, repeated or come too late before, as long as the client is not restarted:
\* then its first request can have the id of the one the server is replying to.  So
\* can the request 256 later, or one that the acknowledgement of the request 256
\* before is taken for, which the client does not get to while a message is in the radio.
ReplyAnswersRequest ==
  \A i \in DOMAIN delivered :
    LET d == delivered[i]
    IN  d.at = Client /\ d.life = 0 =>
          \/ d.message.re = d.latest
          \/ d.latest - d.message.re >= IdMod
          \/ \E a \in acked : /\ a.at = Client /\ a.number = d.latest
                              /\ a.by <= d.latest - IdMod

\* sendtoWait returns, although it may have to repeat acknowledgements.
SendReturns ==
  \A n \in Nodes :
    pc[n] \in {"sending", "waiting", "repeating"} ~> pc[n] \in {"listening", "resting", "off"}

================================================================================
