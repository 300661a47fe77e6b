--------------------------- MODULE CircuitBreaker ---------------------------
(***************************************************************************)
(* The three-state circuit breaker of the central server                   *)
(* (mac-central/src/observability/circuit_breaker.py), as operators on its *)
(* state, a record.  The clock is reduced to the one question the code     *)
(* asks it: `cooled' is TRUE once recovery_timeout has passed since the    *)
(* last failure.                                                           *)
(***************************************************************************)
EXTENDS Naturals

CONSTANTS FailureThreshold,   \* failure_threshold
          HalfOpenMax         \* half_open_max

ASSUME BreakerConstants == FailureThreshold \in Nat \ {0} /\ HalfOpenMax \in Nat \ {0}

Breaker == [state : {"closed", "open", "half_open"},
            failures : Nat,       \* _failure_count
            trials : Nat,         \* _half_open_calls
            cooled : BOOLEAN]

NewBreaker == [state |-> "closed", failures |-> 0, trials |-> 0, cooled |-> FALSE]

\* allow_request: its answer, and the state it leaves.
Allows(b) == \/ b.state = "closed"
             \/ b.state = "open" /\ b.cooled
             \/ b.state = "half_open" /\ b.trials < HalfOpenMax

AfterAllow(b) ==
    CASE b.state = "open" /\ b.cooled -> [b EXCEPT !.state = "half_open", !.trials = 1]
      [] b.state = "half_open" /\ b.trials < HalfOpenMax -> [b EXCEPT !.trials = @ + 1]
      [] OTHER -> b

record_success(b) ==
    [b EXCEPT !.state = IF @ = "half_open" THEN "closed" ELSE @,
              !.failures = 0, !.trials = 0]

\* Fault: it opens one failure too late.
RecordFailureLate(b) ==
    [b EXCEPT !.failures = @ + 1, !.cooled = FALSE,
              !.state = IF @ = "half_open" \/ b.failures >= FailureThreshold
                        THEN "open" ELSE @]

record_failure(b) ==
    [b EXCEPT !.failures = @ + 1, !.cooled = FALSE,
              !.state = IF @ = "half_open" \/ b.failures + 1 >= FailureThreshold
                        THEN "open" ELSE @]

\* recovery_timeout passes.
Cool(b) == [b EXCEPT !.cooled = TRUE]
=============================================================================
