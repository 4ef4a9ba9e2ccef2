---------------------------- MODULE MCKakuReceiver -----------------------------
(* One bit per field, so that frames of every kind fit in 18 or 22 states,  *)
(* and a gap from every class the handler tells apart: T, 5T, the low part  *)
(* of the start pulse and that of the stop pulse.  The glitches are in      *)
(* KakuLink.                                                                *)
EXTENDS KakuReceiver
================================================================================
