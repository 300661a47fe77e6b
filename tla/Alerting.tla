------------------------------- MODULE Alerting -------------------------------
(***************************************************************************)
(* AlertManager (mac-central/src/observability/alerting.py).  Its callers  *)
(* start check_and_fire as tasks: a full VLM queue, an open circuit        *)
(* breaker, an error reported by an edge.  A task awaits only the webhook, *)
(* meanwhile others fire and a configuration reload replaces the rules.    *)
(***************************************************************************)
EXTENDS Integers

CONSTANTS AlertTypes, Cooldowns, NoRule,  \* a rule is its cooldown, in ticks
          MaxPosting                      \* bound: webhook calls under way

VARIABLES
    cooldown,  \* rules: per event type, or NoRule
    webhook,   \* there is a URL for the severity, which is always critical
    lastFired, \* _last_fired, as ticks since then, -1 for never
    posting,   \* per type: webhook calls under way
    quiet      \* history: ticks since an alert of the type was fired, or -1

alertVars == <<cooldown, webhook, lastFired, posting, quiet>>

LongEnough == CHOOSE n \in Cooldowns : \A m \in Cooldowns : m <= n
Older(n) == IF n \in {-1, LongEnough} THEN n ELSE n + 1   \* older makes no difference

AlertInit ==
    /\ cooldown \in [AlertTypes -> Cooldowns \cup {NoRule}] /\ webhook \in BOOLEAN
    /\ lastFired = [t \in AlertTypes |-> -1] /\ posting = [t \in AlertTypes |-> 0]
    /\ quiet = [t \in AlertTypes |-> -1]

MayFire(t) == /\ cooldown[t] # NoRule
              /\ lastFired[t] = -1 \/ lastFired[t] >= cooldown[t]

\* Fault: the time is noted when the webhook has answered.
FireUnmarked(t) ==
    /\ MayFire(t) /\ quiet' = [quiet EXCEPT ![t] = 0]
    /\ IF webhook
       THEN /\ posting[t] < MaxPosting
            /\ posting' = [posting EXCEPT ![t] = @ + 1] /\ UNCHANGED lastFired
       ELSE lastFired' = [lastFired EXCEPT ![t] = 0] /\ UNCHANGED posting
    /\ UNCHANGED <<cooldown, webhook>>

\* check_and_fire up to the webhook, which is tried once: its failure does not
\* take the firing back.
Fire(t) ==
    /\ MayFire(t) /\ lastFired' = [lastFired EXCEPT ![t] = 0]
    /\ quiet' = [quiet EXCEPT ![t] = 0]
    /\ IF webhook THEN /\ posting[t] < MaxPosting
                       /\ posting' = [posting EXCEPT ![t] = @ + 1]
                  ELSE UNCHANGED posting
    /\ UNCHANGED <<cooldown, webhook>>

Posted(t) ==
    /\ posting[t] > 0 /\ posting' = [posting EXCEPT ![t] = @ - 1]
    /\ UNCHANGED <<cooldown, webhook, lastFired, quiet>>

\* The times stay, so a rule that comes back is still on its cooldown; without
\* new routes the old ones stay.
update_rules ==
    /\ cooldown' \in [AlertTypes -> Cooldowns \cup {NoRule}] /\ webhook' \in BOOLEAN
    /\ UNCHANGED <<lastFired, posting, quiet>>

AlertTick ==
    /\ lastFired' = [t \in AlertTypes |-> Older(lastFired[t])]
    /\ quiet' = [t \in AlertTypes |-> Older(quiet[t])]
    /\ UNCHANGED <<cooldown, webhook, posting>>

AlertNext == \/ \E t \in AlertTypes : Fire(t) \/ Posted(t)
             \/ update_rules \/ AlertTick

AlertSpec == AlertInit /\ [][AlertNext]_alertVars

-----------------------------------------------------------------------------
\* Whatever number of tasks report the same event, whatever webhooks are slow or
\* fail and however the rules change, an alert is fired only when the previous
\* one of its type is as old as the cooldown then in force.
CooldownKept ==
    [][\A t \in AlertTypes :
          posting'[t] > posting[t] \/ quiet'[t] < quiet[t]
              => quiet[t] = -1 \/ quiet[t] >= cooldown[t]]_alertVars
=============================================================================
