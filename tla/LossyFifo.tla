------------------------------- MODULE LossyFifo -------------------------------
(***************************************************************************)
(* What the sensor queue of the ESP gateway (libraries/LamPI/wifiQueue)    *)
(* promises to its two users, the interrupt callbacks that call addQueue   *)
(* and the handleQueue loop that calls processQueue: items come out in the *)
(* order they went in and at most once.  Items can vanish in two ways: the *)
(* pop can forget everything behind the item it takes, and a restart of    *)
(* the board forgets everything that waits.                                *)
(*                                                                         *)
(* An item is its arrival number.                                          *)
(***************************************************************************)
EXTENDS Naturals, Sequences

VARIABLES
  count,      \* how many items have arrived
  pending,    \* the set of items that still wait
  sent        \* the items handed out, oldest first

fifoVars == <<count, pending, sent>>

IsOldest(i) == i \in pending /\ \A j \in pending : i <= j

FifoInit ==
  /\ count = 0
  /\ pending = {}
  /\ sent = <<>>

Arrive ==
  /\ count' = count + 1
  /\ pending' = pending \cup {count + 1}
  /\ UNCHANGED sent

Deliver ==
  \E i \in pending :
    /\ IsOldest(i)
    /\ sent' = Append(sent, i)
    /\ pending' = pending \ {i}
    /\ UNCHANGED count

\* The pop keeps the item it takes and drops the ones behind it.
ForgetYounger ==
  \E i \in pending :
    /\ IsOldest(i)
    /\ pending' = {i}
    /\ UNCHANGED <<count, sent>>

Restart ==
  /\ pending' = {}
  /\ UNCHANGED <<count, sent>>

FifoNext == Arrive \/ Deliver \/ ForgetYounger \/ Restart

FifoSpec == FifoInit /\ [][FifoNext]_fifoVars

================================================================================
