------------------------------ MODULE MCEspGateway ------------------------------
(* Up to two messages, one loss of WiFi or host or one restart, and one task: *)
(* a command, a request to the admin page or a reading of the one wired       *)
(* sensor; callbacks at every point of it.                                    *)
EXTENDS EspGateway
================================================================================
