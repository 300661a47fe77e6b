------------------------------ MODULE MCTracking ------------------------------
(* Tracking for TLC: three places in a row, of which neighbours overlap.       *)
EXTENDS Tracking

MCIou == [p \in (1..3) \X (1..3) |-> CASE p[1] = p[2] -> 100
                                       [] p[1] - p[2] \in {-1, 1} -> 40
                                       [] OTHER -> 0]
===============================================================================
