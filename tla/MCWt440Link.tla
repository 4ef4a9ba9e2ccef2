------------------------------- MODULE MCWt440Link -------------------------------
(* One bit per field, two for the constant and the temperature.  As in the  *)
(* code a frame then has an even number of bits, which makes all frames end *)
(* at the same level.                                                       *)
EXTENDS Wt440Link

Message(a, c, w, h, t) ==
  [address |-> a, channel |-> c, wconst |-> w, humidity |-> h, temperature |-> t]
BothWays == {-345, 345}
ThreeMessages == {Message(1, 0, 2, 1, 2), Message(0, 1, 3, 0, 1), Message(1, 1, 0, 0, 3)}

ASSUME InTolerance
================================================================================
