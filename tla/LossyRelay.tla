------------------------------- MODULE LossyRelay -------------------------------
(***************************************************************************)
(* What a part of the system promises that takes messages from one side to *)
(* another: each arrives at most once and in the order in which they were  *)
(* taken, and any of those under way can be lost.  The ESP gateway takes   *)
(* what its receivers decode to the daemon, the Arduino gateway takes the  *)
(* commands of the daemon to their execution.                              *)
(*                                                                         *)
(* A message is its number.                                                *)
(***************************************************************************)
EXTENDS Naturals, Sequences

VARIABLES
  count,      \* how many messages have been taken
  underway,   \* the set of messages that have not arrived and are not lost
  arrived     \* the messages on the other side, oldest first

relayVars == <<count, underway, arrived>>

RelayInit == count = 0 /\ underway = {} /\ arrived = <<>>

\* One step can take several messages.
Decode ==
  /\ count' \in Nat /\ count' > count
  /\ underway' = underway \cup (count + 1 .. count')
  /\ UNCHANGED arrived

Deliver ==
  \E m \in underway :
    /\ arrived' = Append(arrived, m)
    /\ underway' \subseteq {n \in underway : n > m}
    /\ UNCHANGED count

Lose ==
  /\ underway' \subseteq underway
  /\ UNCHANGED <<count, arrived>>

RelayNext == Decode \/ Deliver \/ Lose

RelaySpec == RelayInit /\ [][RelayNext]_relayVars

================================================================================
