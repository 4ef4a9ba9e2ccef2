---------------------------- MODULE MCInterruptChain ----------------------------
(* Two callbacks, two modes and up to four adds: the same callback can be   *)
(* added twice, and interrupts come at every point of every add.            *)
EXTENDS InterruptChain
================================================================================
