----------------------------- MODULE MCPinReceivers -----------------------------
(* A press of every kind, with addresses and units that mix zeros and ones. *)
EXTENDS PinReceivers

OneOfEach == {
  [kind |-> "livolo", address |-> 6400, unit |-> 96],
  [kind |-> "kopouTransmitter", address |-> 19303, unit |-> 25],
  [kind |-> "kopou", address |-> 23783, unit |-> 172],
  [kind |-> "quhwa", address |-> 76543210, unit |-> 52],
  [kind |-> "auriol", address |-> 138, temperature |-> 213],
  [kind |-> "action", address |-> 21, unit |-> 3, on |-> TRUE, period |-> 195],
  [kind |-> "action", address |-> 10, unit |-> 0, on |-> FALSE, period |-> 195],
  [kind |-> "action", address |-> 0, unit |-> 4, on |-> TRUE, period |-> 195],
  [kind |-> "elro", address |-> 13, unit |-> 2, on |-> TRUE, period |-> 320],
  [kind |-> "oldkaku", address |-> 2, unit |-> 5, on |-> FALSE, period |-> 375],
  [kind |-> "blokker", unit |-> 6, on |-> TRUE, period |-> 230],
  [kind |-> "kaku", code |-> KakuTx!DimCode(12345678, 5, 9)],
  [kind |-> "wt440", code |-> [address |-> 4, channel |-> 1, wconst |-> 6,
                               humidity |-> 55, temperature |-> 9000]]}
================================================================================
