--------------------------- MODULE MCDetectionQueue ---------------------------
(* Instances of DetectionQueue for TLC: a result of one byte, one of two    *)
(* bytes, and one larger than the byte limit, whose bytes do not parse.     *)
EXTENDS DetectionQueue, TLC

CONSTANTS small, large, oversized

MCItems == {small, large, oversized}
MCBytes == (small :> 1) @@ (large :> 2) @@ (oversized :> 5)
MCUnparsable == {large}
=============================================================================
