------------------------------ MODULE RateLimiter ------------------------------
(***************************************************************************)
(* TokenBucketRateLimiter (mac-central/src/communication/rate_limiter.py): *)
(* a token bucket for each device, refilled when it is used, and limits    *)
(* that a configuration reload changes while streams are running.          *)
(*                                                                         *)
(* Tokens are counted in fractions, Cost of which make the token that a    *)
(* message takes; rate is what a tick of time adds.                        *)
(***************************************************************************)
EXTENDS Integers

CONSTANTS Keys,     \* the devices; one stands for "__global__", messages without any
          LimitPairs,   \* the limits a configuration may have: <<rate, burst>>
          Cost, MaxElapsed   \* bound: ticks of a window, and of a bucket at rest

ASSUME LimiterConstants == /\ Cost \in Nat \ {0} /\ MaxElapsed \in Nat
                           /\ LimitPairs \subseteq Nat \X Nat

VARIABLES
    rate, burst,      \* max_per_sec and burst
    known,            \* the keys of _buckets
    tokens, idle,     \* of each bucket: tokens, and ticks since last_refill
    admitted, elapsed \* history, per key: messages and ticks since a window was begun

limiterVars == <<rate, burst, known, tokens, idle, admitted, elapsed>>

Least(m, n) == IF m <= n THEN m ELSE n

LimiterInit ==
    /\ \E l \in LimitPairs : rate = l[1] /\ burst = l[2]
    /\ known = {}
    /\ tokens = [k \in Keys |-> 0] /\ idle = [k \in Keys |-> 0]
    /\ admitted = [k \in Keys |-> 0] /\ elapsed = [k \in Keys |-> 0]

\* Fault: the refill is not capped.
RefilledUncapped(k) == IF k \in known THEN tokens[k] + idle[k] * rate ELSE burst

\* What the bucket holds when it is next used; a new one is full.
Refilled(k) == IF k \in known THEN Least(burst, tokens[k] + idle[k] * rate) ELSE burst

Allow(k) ==
    /\ Refilled(k) >= Cost
    /\ tokens' = [tokens EXCEPT ![k] = Refilled(k) - Cost]
    /\ admitted' = [admitted EXCEPT ![k] = @ + 1]
    /\ known' = known \cup {k} /\ idle' = [idle EXCEPT ![k] = 0]
    /\ UNCHANGED <<rate, burst, elapsed>>

Refuse(k) ==
    /\ Refilled(k) < Cost
    /\ tokens' = [tokens EXCEPT ![k] = Refilled(k)]
    /\ known' = known \cup {k} /\ idle' = [idle EXCEPT ![k] = 0]
    /\ UNCHANGED <<rate, burst, admitted, elapsed>>

\* New limits clear the buckets: every device gets a fresh burst, and no window
\* reaches over them.
update_limits(l) ==
    /\ rate' = l[1] /\ burst' = l[2] /\ known' = {}
    /\ tokens' = [k \in Keys |-> 0] /\ idle' = [k \in Keys |-> 0]
    /\ admitted' = [k \in Keys |-> 0] /\ elapsed' = [k \in Keys |-> 0]

LimiterTick ==
    /\ \A k \in Keys : elapsed[k] < MaxElapsed /\ idle[k] < MaxElapsed
    /\ idle' = [k \in Keys |-> IF k \in known THEN idle[k] + 1 ELSE 0]
    /\ elapsed' = [k \in Keys |-> elapsed[k] + 1]
    /\ UNCHANGED <<rate, burst, known, tokens, admitted>>

\* History only: a window may begin at any time.
BeginWindow(k) ==
    /\ admitted' = [admitted EXCEPT ![k] = 0] /\ elapsed' = [elapsed EXCEPT ![k] = 0]
    /\ UNCHANGED <<rate, burst, known, tokens, idle>>

LimiterNext == \/ \E k \in Keys : Allow(k) \/ Refuse(k) \/ BeginWindow(k)
               \/ \E l \in LimitPairs : update_limits(l)
               \/ LimiterTick
LimiterSpec == LimiterInit /\ [][LimiterNext]_limiterVars

-----------------------------------------------------------------------------
LimiterTypeOK ==
    /\ rate \in Nat /\ burst \in Nat /\ known \subseteq Keys
    /\ tokens \in [Keys -> Nat] /\ idle \in [Keys -> Nat]
    /\ admitted \in [Keys -> Nat] /\ elapsed \in [Keys -> Nat]

\* In any stretch of time without a change of the limits, wherever it begins,
\* each device gets no more messages through than a full bucket and the refill
\* of that time pay for.
WithinEnvelope == \A k \in Keys : admitted[k] * Cost <= burst + rate * elapsed[k]
=============================================================================
