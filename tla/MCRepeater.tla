------------------------------- MODULE MCRepeater -------------------------------
(* One own sensor, a sensor nearby and an Auriol sensor. *)
EXTENDS Repeater

Own == {[address |-> 5, channel |-> 0, wconst |-> 3, humidity |-> 55, temperature |-> 9088]}
Nearby == {[address |-> 12, channel |-> 1, wconst |-> 6, humidity |-> 101, temperature |-> 8960]}
Auriols == {[address |-> 138, channel |-> 2, temperature |-> 213]}
================================================================================
