-------------------------- MODULE MCReliableDatagram --------------------------
(* The client and the server of ArduinoNode, with ids that wrap after two messages. *)
EXTENDS ReliableDatagram

CONSTANTS c, s
===============================================================================
