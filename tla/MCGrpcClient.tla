----------------------------- MODULE MCGrpcClient -----------------------------
(* Instances of GrpcClient for TLC: one streaming thread (as in the edge      *)
(* application), or two threads and callers of the control operations.        *)
EXTENDS GrpcClient, TLC

CONSTANTS t1, t2

OneThread == {t1}
TwoThreads == {t1, t2}
AllControls == {"Connect", "Disconnect", "FlushStream"}
SomeCorrupt == {2}
=============================================================================
