------------------------------- MODULE MCKakuLink -------------------------------
(* One bit per field and eight frames per press, as the sketches send.      *)
EXTENDS KakuLink

Commands == {UnitCode(1, 0, TRUE), UnitCode(0, 1, FALSE), GroupCode(1, TRUE),
             DimCode(1, 0, 1), GroupDimCode(0, 0)}
================================================================================
