------------------------------ MODULE MCWifiQueue ------------------------------
(* Six arrivals over a heap of four links: appends at every point of a pop, *)
(* a full heap, a restart and enough arrivals to go on after it.            *)
EXTENDS WifiQueue
================================================================================
