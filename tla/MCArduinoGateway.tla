--------------------------- MODULE MCArduinoGateway ---------------------------
(* Three commands, the second of one character less than the line holds, a   *)
(* Dallas sensor and another one.                                            *)
EXTENDS ArduinoGateway

MCScripts ==
  { <<[last |-> 2, does |-> List], [last |-> 5, does |-> Transmit], [last |-> 7, does |-> NotFound]>>,
    <<[last |-> 2, does |-> NotFound], [last |-> 5, does |-> List]>> }
MCSensors == <<"dallas", "other">>
===============================================================================
