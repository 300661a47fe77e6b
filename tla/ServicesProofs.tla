----------------------------- MODULE ServicesProofs -----------------------------
(***************************************************************************)
(* What the services of the central server keep, proved for any devices,   *)
(* models, limits, rules and times, one service after the other.           *)
(***************************************************************************)
EXTENDS RateLimiter, ModelRegistry, ABGroups, Alerting, ModelDownload, EventStore,
        Inference, ReID, Induction, FiniteSetTheorems, SequenceTheorems

-----------------------------------------------------------------------------
(* The rate limiter.  What a device has had in a window does not stay under  *)
(* the envelope by itself: a bucket that was left full could pay for more.   *)
(* The invariant therefore adds what the bucket would hold if used now.      *)

Paid(k) == admitted[k] * Cost + Refilled(k) <= burst + rate * elapsed[k]

LimiterInv == LimiterTypeOK /\ \A k \in Keys : Paid(k)

LEMMA Product == \A m, n \in Nat : m * n \in Nat
OBVIOUS

LEMMA OneMore == \A m, n \in Nat : /\ (m + 1) * n = m * n + n
                                   /\ n * (m + 1) = n * m + n
                                   /\ 0 * n = 0 /\ n * 0 = 0
OBVIOUS

LEMMA LeastOf ==
    \A m, n \in Int : Least(m, n) \in Int /\ Least(m, n) <= m /\ Least(m, n) <= n
                      /\ (Least(m, n) = m \/ Least(m, n) = n)
BY DEF Least

LEMMA CappedFits ==
    ASSUME NEW t \in Nat, NEW i \in Nat, NEW r \in Nat, NEW b \in Nat
    PROVE  Least(b, t + i * r) \in Nat /\ Least(b, t + i * r) <= b
<1>1. t + i * r \in Nat
  BY Product
<1>2. QED
  BY <1>1 DEF Least

\* The content of a bucket is a number of tokens that fits in it.
LEMMA RefilledFits ==
    ASSUME LimiterTypeOK, NEW k \in Keys
    PROVE  Refilled(k) \in Nat /\ Refilled(k) <= burst
<1>1. burst \in Nat /\ rate \in Nat /\ tokens[k] \in Nat /\ idle[k] \in Nat
  BY DEF LimiterTypeOK
<1>2. CASE k \in known
  BY <1>1, <1>2, CappedFits DEF Refilled
<1>3. CASE k \notin known
  BY <1>1, <1>3 DEF Refilled
<1>4. QED
  BY <1>2, <1>3

\* One more tick of rest adds what a tick brings, or nothing.
LEMMA RefilledLater ==
    ASSUME NEW t \in Nat, NEW i \in Nat, NEW r \in Nat, NEW b \in Nat
    PROVE  Least(b, t + (i + 1) * r) <= Least(b, t + i * r) + r
<1>1. i * r \in Nat /\ (i + 1) * r = i * r + r
  BY Product, OneMore
<1>2. \A x \in Nat : Least(b, x + r) <= Least(b, x) + r
  BY DEF Least
<1>3. t + (i + 1) * r = (t + i * r) + r /\ t + i * r \in Nat
  BY <1>1
<1>4. QED
  BY <1>2, <1>3

LEMMA InitTyped == LimiterInit => LimiterTypeOK
BY LimiterConstants DEF LimiterInit, LimiterTypeOK

LEMMA NextTyped == LimiterTypeOK /\ [LimiterNext]_limiterVars => LimiterTypeOK'
<1> SUFFICES ASSUME LimiterTypeOK, [LimiterNext]_limiterVars PROVE LimiterTypeOK'
  OBVIOUS
<1>1. ASSUME NEW k \in Keys, Allow(k) PROVE LimiterTypeOK'
  <2>1. Refilled(k) - Cost \in Nat
    BY <1>1, RefilledFits, LimiterConstants DEF Allow
  <2>2. QED
    BY <1>1, <2>1 DEF Allow, LimiterTypeOK
<1>2. ASSUME NEW k \in Keys, Refuse(k) PROVE LimiterTypeOK'
  BY <1>2, RefilledFits DEF Refuse, LimiterTypeOK
<1>3. ASSUME NEW k \in Keys, BeginWindow(k) PROVE LimiterTypeOK'
  BY <1>3 DEF BeginWindow, LimiterTypeOK
<1>4. ASSUME NEW l \in LimitPairs, update_limits(l) PROVE LimiterTypeOK'
  BY <1>4, LimiterConstants DEF update_limits, LimiterTypeOK
<1>5. CASE LimiterTick
  BY <1>5 DEF LimiterTick, LimiterTypeOK
<1>6. CASE UNCHANGED limiterVars
  BY <1>6 DEF limiterVars, LimiterTypeOK
<1>7. QED
  BY <1>1, <1>2, <1>3, <1>4, <1>5, <1>6 DEF LimiterNext

\* The buckets, limits and histories of the rate limiter keep their types.
THEOREM LimiterTypes == LimiterSpec => []LimiterTypeOK
BY InitTyped, NextTyped, PTL DEF LimiterSpec

LEMMA InitPaid == LimiterInit => LimiterInv
<1> SUFFICES ASSUME LimiterInit PROVE LimiterInv
  OBVIOUS
<1>1. LimiterTypeOK
  BY InitTyped
<1>2. ASSUME NEW k \in Keys PROVE Paid(k)
  <2>1. Refilled(k) = burst /\ admitted[k] = 0 /\ elapsed[k] = 0
    BY DEF LimiterInit, Refilled
  <2>2. 0 * Cost = 0 /\ rate * 0 = 0 /\ burst \in Nat
    BY <1>1, OneMore, LimiterConstants DEF LimiterTypeOK
  <2>3. QED
    BY <2>1, <2>2 DEF Paid
<1>3. QED
  BY <1>1, <1>2 DEF LimiterInv

\* The bucket of a key that an action does not touch.
LEMMA Untouched ==
    ASSUME NEW k \in Keys, Paid(k), UNCHANGED <<rate, burst>>,
           k \in known <=> k \in known',
           tokens'[k] = tokens[k], idle'[k] = idle[k],
           admitted'[k] = admitted[k], elapsed'[k] = elapsed[k]
    PROVE  Paid(k)'
BY DEF Paid, Refilled

\* A bucket that was used: nothing is left to refill.
LEMMA Used ==
    ASSUME NEW k \in Keys, LimiterTypeOK', k \in known', idle'[k] = 0, tokens'[k] <= burst'
    PROVE  Refilled(k)' = tokens'[k]
<1>1. tokens'[k] \in Nat /\ burst' \in Nat /\ idle'[k] * rate' = 0
  BY OneMore DEF LimiterTypeOK
<1>2. Refilled(k)' = Least(burst', tokens'[k] + idle'[k] * rate')
  BY DEF Refilled
<1>3. tokens'[k] + idle'[k] * rate' = tokens'[k]
  BY <1>1
<1>4. QED
  BY <1>1, <1>2, <1>3 DEF Least

LEMMA NextPaid == LimiterInv /\ [LimiterNext]_limiterVars => LimiterInv'
<1> SUFFICES ASSUME LimiterInv, [LimiterNext]_limiterVars PROVE LimiterInv'
  OBVIOUS
<1>0. LimiterTypeOK /\ LimiterTypeOK'
  BY NextTyped DEF LimiterInv
<1>1. ASSUME NEW k \in Keys, Allow(k), NEW j \in Keys PROVE Paid(j)'
  <2>1. CASE j # k
    BY <1>1, <2>1, <1>0, Untouched DEF Allow, LimiterTypeOK, LimiterInv
  <2>2. CASE j = k
    <3>1. Refilled(k) \in Nat /\ Refilled(k) <= burst /\ Refilled(k) >= Cost
      BY <1>0, <1>1, RefilledFits DEF Allow
    <3>2. /\ tokens'[k] = Refilled(k) - Cost /\ admitted'[k] = admitted[k] + 1
          /\ k \in known' /\ idle'[k] = 0
          /\ burst' = burst /\ rate' = rate /\ elapsed' = elapsed
      BY <1>0, <1>1 DEF Allow, LimiterTypeOK
    <3>3. Cost \in Nat /\ burst \in Nat /\ admitted[k] \in Nat
      BY <1>0, LimiterConstants DEF LimiterTypeOK
    <3>4. Refilled(k)' = Refilled(k) - Cost
      BY <3>1, <3>2, <3>3, <1>0, Used
    <3>5. /\ (admitted[k] + 1) * Cost = admitted[k] * Cost + Cost
          /\ admitted[k] * Cost \in Nat
      BY <3>3, OneMore, Product
    <3>6. admitted[k] * Cost + Refilled(k) <= burst + rate * elapsed[k]
      BY DEF LimiterInv, Paid
    <3>7. rate * elapsed[k] \in Nat
      BY <1>0, Product DEF LimiterTypeOK
    <3>8. (admitted[k] + 1) * Cost + (Refilled(k) - Cost) <= burst + rate * elapsed[k]
      BY <3>1, <3>3, <3>5, <3>6, <3>7
    <3>9. QED
      BY <2>2, <3>2, <3>4, <3>8 DEF Paid
  <2>3. QED
    BY <2>1, <2>2
<1>2. ASSUME NEW k \in Keys, Refuse(k), NEW j \in Keys PROVE Paid(j)'
  <2>1. CASE j # k
    BY <1>2, <2>1, <1>0, Untouched DEF Refuse, LimiterTypeOK, LimiterInv
  <2>2. CASE j = k
    <3>1. Refilled(k) <= burst
      BY <1>0, RefilledFits
    <3>2. /\ tokens'[k] = Refilled(k) /\ admitted' = admitted
          /\ k \in known' /\ idle'[k] = 0
          /\ burst' = burst /\ rate' = rate /\ elapsed' = elapsed
      BY <1>0, <1>2 DEF Refuse, LimiterTypeOK
    <3>3. Refilled(k)' = Refilled(k)
      BY <3>1, <3>2, <1>0, Used
    <3>4. QED
      BY <2>2, <3>2, <3>3 DEF Paid, LimiterInv
  <2>3. QED
    BY <2>1, <2>2
<1>3. ASSUME NEW k \in Keys, BeginWindow(k), NEW j \in Keys PROVE Paid(j)'
  <2>1. CASE j # k
    BY <1>3, <2>1, <1>0, Untouched DEF BeginWindow, LimiterTypeOK, LimiterInv
  <2>2. CASE j = k
    <3>1. Refilled(k)' = Refilled(k)
      BY <1>3 DEF BeginWindow, Refilled
    <3>2. /\ admitted'[k] = 0 /\ elapsed'[k] = 0 /\ burst' = burst /\ rate' = rate
      BY <1>0, <1>3 DEF BeginWindow, LimiterTypeOK
    <3>3. 0 * Cost = 0 /\ rate * 0 = 0 /\ burst \in Nat
      BY <1>0, OneMore, LimiterConstants DEF LimiterTypeOK
    <3>4. Refilled(k) \in Nat /\ Refilled(k) <= burst
      BY <1>0, RefilledFits
    <3>5. QED
      BY <2>2, <3>1, <3>2, <3>3, <3>4 DEF Paid
  <2>3. QED
    BY <2>1, <2>2
<1>4. ASSUME NEW l \in LimitPairs, update_limits(l), NEW j \in Keys PROVE Paid(j)'
  <2>1. Refilled(j)' = burst' /\ admitted'[j] = 0 /\ elapsed'[j] = 0
    BY <1>4 DEF update_limits, Refilled
  <2>2. 0 * Cost = 0 /\ rate' * 0 = 0 /\ burst' \in Nat
    BY <1>0, OneMore, LimiterConstants DEF LimiterTypeOK
  <2>3. QED
    BY <2>1, <2>2 DEF Paid
<1>5. ASSUME LimiterTick, NEW j \in Keys PROVE Paid(j)'
  <2>1. /\ rate' = rate /\ burst' = burst /\ known' = known
        /\ tokens' = tokens /\ admitted' = admitted /\ elapsed'[j] = elapsed[j] + 1
    BY <1>5 DEF LimiterTick
  <2>2. rate \in Nat /\ rate * elapsed[j] \in Nat /\ elapsed[j] \in Nat
    BY <1>0, Product DEF LimiterTypeOK
  <2>3. Refilled(j) \in Nat /\ Refilled(j)' \in Nat
    <3>1. /\ burst' \in Nat /\ rate' \in Nat /\ tokens'[j] \in Nat /\ idle'[j] \in Nat
      BY <1>0 DEF LimiterTypeOK
    <3>2. CASE j \in known'
      BY <1>0, <3>1, <3>2, RefilledFits, CappedFits DEF Refilled
    <3>3. CASE j \notin known'
      BY <1>0, <3>1, <3>3, RefilledFits DEF Refilled
    <3>4. QED
      BY <3>2, <3>3
  <2>4. Refilled(j)' <= Refilled(j) + rate
    <3>1. CASE j \in known
      <4>1. idle'[j] = idle[j] + 1
        BY <1>5, <3>1 DEF LimiterTick
      <4>2. /\ Refilled(j)' = Least(burst, tokens[j] + (idle[j] + 1) * rate)
            /\ Refilled(j) = Least(burst, tokens[j] + idle[j] * rate)
        BY <2>1, <3>1, <4>1 DEF Refilled
      <4>3. tokens[j] \in Nat /\ idle[j] \in Nat /\ burst \in Nat
        BY <1>0 DEF LimiterTypeOK
      <4>4. QED
        BY <2>2, <4>2, <4>3, RefilledLater
    <3>2. CASE j \notin known
      <4>1. Refilled(j)' = Refilled(j)
        BY <2>1, <3>2 DEF Refilled
      <4>2. QED
        BY <2>2, <2>3, <4>1
    <3>3. QED
      BY <3>1, <3>2
  <2>5. rate * (elapsed[j] + 1) = rate * elapsed[j] + rate
    BY <2>2, OneMore
  <2>6. /\ admitted[j] * Cost + Refilled(j) <= burst + rate * elapsed[j]
        /\ admitted[j] * Cost \in Nat /\ burst \in Nat
    BY <1>0, Product, LimiterConstants DEF LimiterInv, Paid, LimiterTypeOK
  <2>7. admitted[j] * Cost + Refilled(j)' <= burst + rate * (elapsed[j] + 1)
    BY <2>2, <2>3, <2>4, <2>5, <2>6
  <2>8. QED
    BY <2>1, <2>7 DEF Paid
<1>6. ASSUME UNCHANGED limiterVars, NEW j \in Keys PROVE Paid(j)'
  BY <1>6 DEF limiterVars, LimiterInv, Paid, Refilled
<1>7. \A j \in Keys : Paid(j)'
  BY <1>1, <1>2, <1>3, <1>4, <1>5, <1>6 DEF LimiterNext
<1>8. QED
  BY <1>0, <1>7 DEF LimiterInv

LEMMA PaidCovers == LimiterInv => WithinEnvelope
<1> SUFFICES ASSUME LimiterInv, NEW k \in Keys PROVE admitted[k] * Cost <= burst + rate * elapsed[k]
  BY DEF WithinEnvelope
<1>1. Refilled(k) \in Nat
  BY RefilledFits DEF LimiterInv
<1>2. admitted[k] * Cost \in Nat /\ rate * elapsed[k] \in Nat /\ burst \in Nat
  BY Product, LimiterConstants DEF LimiterInv, LimiterTypeOK
<1>3. QED
  BY <1>1, <1>2 DEF LimiterInv, Paid

\* In any window without a change of limits a device gets no more messages
\* through than its burst and the refill of that time pay for.
THEOREM EnvelopeHolds == LimiterSpec => []WithinEnvelope
<1>1. LimiterSpec => []LimiterInv
  BY InitPaid, NextPaid, PTL DEF LimiterSpec
<1>2. QED
  BY <1>1, PaidCovers, PTL

-----------------------------------------------------------------------------
(* The model registry.  A move of a model to another device, and a rollback  *)
(* on top of a deployment, may make the deployed ones of a device other      *)
(* models, but without those a rollback revived never more.                  *)

\* What counts for the limit of a device.
Counted(d) == DeployedOn(d) \ revived

RegistryInv == /\ RegistryTypeOK
               /\ IsFiniteSet(DOMAIN models)
               /\ \A d \in Targets : Cardinality(Counted(d)) <= MaxPerDevice

\* Where no model is added, the limit is kept.
LEMMA NothingAdded ==
    ASSUME RegistryInv, IsFiniteSet(DOMAIN models'), NEW d \in Targets,
           Counted(d)' \subseteq Counted(d)
    PROVE  Cardinality(Counted(d)') <= MaxPerDevice
<1>1. IsFiniteSet(Counted(d))
  BY FS_Subset DEF RegistryInv, Counted, DeployedOn
<1>2. /\ IsFiniteSet(Counted(d)')
      /\ Cardinality(Counted(d)') <= Cardinality(Counted(d))
  BY <1>1, FS_Subset
<1>3. Cardinality(Counted(d)) \in Nat /\ Cardinality(Counted(d)') \in Nat
  BY <1>1, <1>2, FS_CardinalityType
<1>4. QED
  BY <1>2, <1>3, RegistryConstants DEF RegistryInv

\* A deployment adds its model to those of its device, for which the limit
\* was asked, and may take it from another.
LEMMA Deployments ==
    ASSUME RegistryInv, NEW m \in Models, NEW v \in Versions, NEW d \in Targets, deploy(m, v, d)
    PROVE  RegistryInv'
<1>1. /\ DOMAIN models' = DOMAIN models \cup {m}
      /\ models'[m].target = d
      /\ \A n \in DOMAIN models : n # m => models'[n] = models[n]
  BY DEF deploy, Put
<1>2. IsFiniteSet(DOMAIN models')
  BY <1>1, FS_AddElement DEF RegistryInv
<1>3. RegistryTypeOK'
  <2>1. models'[m] \in Record
    BY DEF deploy, Put, Known, Record, RegistryInv, RegistryTypeOK
  <2>2. QED
    BY <1>1, <2>1 DEF deploy, RegistryInv, RegistryTypeOK
<1>4. ASSUME NEW e \in Targets PROVE Cardinality(Counted(e)') <= MaxPerDevice
  <2>1. CASE e = d
    <3>1. IsFiniteSet(DeployedOn(d))
      BY FS_Subset DEF RegistryInv, DeployedOn
    <3>2. /\ IsFiniteSet(DeployedOn(d) \cup {m})
          /\ Cardinality(DeployedOn(d) \cup {m}) <= Cardinality(DeployedOn(d)) + 1
      <4>1. Cardinality(DeployedOn(d)) \in Nat
        BY <3>1, FS_CardinalityType
      <4>2. QED
        BY <3>1, <4>1, FS_AddElement
    <3>3. Counted(d)' \subseteq DeployedOn(d) \cup {m}
      BY <1>1 DEF Counted, DeployedOn
    <3>4. Cardinality(Counted(d)') <= Cardinality(DeployedOn(d) \cup {m})
      BY <3>2, <3>3, FS_Subset
    <3>5. /\ Cardinality(DeployedOn(d)) \in Nat
          /\ Cardinality(DeployedOn(d) \cup {m}) \in Nat
          /\ Cardinality(Counted(d)') \in Nat
      BY <3>1, <3>2, <3>3, FS_Subset, FS_CardinalityType
    <3>6. Cardinality(DeployedOn(d)) < MaxPerDevice
      BY DEF deploy
    <3>7. QED
      BY <2>1, <3>2, <3>4, <3>5, <3>6, RegistryConstants
  <2>2. CASE e # d
    <3>1. Counted(e)' \subseteq Counted(e)
      BY <1>1, <2>2 DEF Counted, DeployedOn, deploy
    <3>2. QED
      BY <1>2, <3>1, NothingAdded
  <2>3. QED
    BY <2>1, <2>2
<1>5. QED
  BY <1>2, <1>3, <1>4 DEF RegistryInv

LEMMA Undeployments ==
    ASSUME RegistryInv, NEW m \in Models, undeploy(m)
    PROVE  RegistryInv'
<1>1. /\ DOMAIN models' = DOMAIN models
      /\ \A n \in DOMAIN models : n # m => models'[n] = models[n]
      /\ models'[m] = [models[m] EXCEPT !.status = "undeployed"]
  BY DEF undeploy, Known
<1>2. models'[m] \in Record /\ models'[m].status = "undeployed"
  BY <1>1 DEF undeploy, Known, Record, RegistryInv, RegistryTypeOK
<1>3. RegistryTypeOK' /\ IsFiniteSet(DOMAIN models')
  BY <1>1, <1>2 DEF undeploy, RegistryInv, RegistryTypeOK
<1>4. ASSUME NEW e \in Targets PROVE Counted(e)' \subseteq Counted(e)
  BY <1>1, <1>2 DEF Counted, DeployedOn, undeploy
<1>5. QED
  BY <1>3, <1>4, NothingAdded DEF RegistryInv

\* A rollback deploys a model again, which then counts as revived.
LEMMA Rollbacks ==
    ASSUME RegistryInv, NEW m \in Models, rollback(m)
    PROVE  RegistryInv'
<1>1. m \in DOMAIN models /\ models[m] \in Record
  BY DEF rollback, Known, RegistryInv, RegistryTypeOK
<1>2. /\ DOMAIN models' = DOMAIN models
      /\ \A n \in DOMAIN models : n # m => models'[n] = models[n]
  BY DEF rollback
<1>3. models'[m] = [target |-> models[m].target, version |-> models[m].previous,
                    status |-> "deployed", previous |-> models[m].version]
  BY <1>1 DEF rollback, Record
<1>4. models'[m] \in Record /\ models'[m].target = models[m].target
  BY <1>1, <1>3 DEF rollback, Record
<1>5. RegistryTypeOK' /\ IsFiniteSet(DOMAIN models')
  BY <1>1, <1>2, <1>4 DEF rollback, RegistryInv, RegistryTypeOK
<1>6. ASSUME NEW e \in Targets PROVE Counted(e)' \subseteq Counted(e)
  <2>1. CASE models[m].status = "undeployed"
    BY <1>1, <1>2, <1>4, <2>1 DEF Counted, DeployedOn, rollback
  <2>2. CASE models[m].status = "deployed"
    BY <1>1, <1>2, <1>4, <2>2 DEF Counted, DeployedOn, rollback
  <2>3. QED
    BY <1>1, <2>1, <2>2 DEF Record
<1>7. QED
  BY <1>5, <1>6, NothingAdded DEF RegistryInv

\* The limit of models per device (MAX_MODELS_PER_DEVICE) is passed by
\* rollbacks only.
THEOREM LimitKept == RegistrySpec => []LimitPassedByRollbackOnly
<1>1. RegistryInit => RegistryInv
  <2>1. ASSUME RegistryInit PROVE RegistryInv
    <3>1. DOMAIN models = {}
      BY <2>1 DEF RegistryInit
    <3>2. \A d \in Targets : Counted(d) = {}
      BY <3>1 DEF Counted, DeployedOn
    <3>3. RegistryTypeOK
      BY <2>1, <3>1 DEF RegistryInit, RegistryTypeOK
    <3>4. QED
      BY <3>1, <3>2, <3>3, FS_EmptySet, RegistryConstants DEF RegistryInv
  <2>2. QED
    BY <2>1
<1>2. RegistryInv /\ [RegistryNext]_registryVars => RegistryInv'
  <2>1. ASSUME RegistryInv, RegistryNext PROVE RegistryInv'
    BY <2>1, Deployments, Undeployments, Rollbacks DEF RegistryNext
  <2>2. ASSUME RegistryInv, UNCHANGED registryVars PROVE RegistryInv'
    BY <2>2 DEF registryVars, RegistryInv, RegistryTypeOK, Counted, DeployedOn
  <2>3. QED
    BY <2>1, <2>2
<1>3. RegistryInv => LimitPassedByRollbackOnly
  BY DEF RegistryInv, LimitPassedByRollbackOnly, Counted
<1>4. QED
  BY <1>1, <1>2, <1>3, PTL DEF RegistrySpec

-----------------------------------------------------------------------------
(* The A/B groups.  A session keeps showing the group of its device because  *)
(* a group is only given to a device that has none, and taken with a reset,  *)
(* which makes every labelled session outdated.                              *)

ABInv == /\ group \in [ABDevices -> Groups \cup {NoGroup}]
         /\ label \in [ABDevices -> Groups \cup {NoGroup, NoSession}]
         /\ \A d \in ABDevices : d \notin outdated /\ label[d] \in Groups => label[d] = group[d]

LEMMA ABStarts == ABInit => ABInv
BY ABConstants DEF ABInit, ABInv

\* A registration gives its session the group, old or new, of the device.
LEMMA RegistrationKept ==
    ASSUME ABInv, NEW d \in ABDevices, RegisterInGroup(d)
    PROVE  /\ ABInv'
           /\ \A e \in ABDevices : group[e] # NoGroup => group'[e] = group[e]
<1>1. PICK g \in assign_group(d) : /\ group' = [group EXCEPT ![d] = g]
                                   /\ label' = [label EXCEPT ![d] = g]
  BY DEF RegisterInGroup
<1>2. g \in Groups /\ (group[d] # NoGroup => g = group[d])
  BY DEF ABInv, assign_group
<1>3. outdated' = outdated \ {d}
  BY DEF RegisterInGroup
<1>4. /\ group'[d] = g /\ label'[d] = g
      /\ \A e \in ABDevices : e # d => group'[e] = group[e] /\ label'[e] = label[e]
      /\ group' \in [ABDevices -> Groups \cup {NoGroup}]
      /\ label' \in [ABDevices -> Groups \cup {NoGroup, NoSession}]
  BY <1>1, <1>2 DEF ABInv
<1>5. QED
  BY <1>2, <1>3, <1>4 DEF ABInv

LEMMA StreamKept ==
    ASSUME ABInv, NEW d \in ABDevices, StreamRegisters(d)
    PROVE  ABInv' /\ group' = group
BY ABConstants DEF StreamRegisters, ABInv

LEMMA EndKept ==
    ASSUME ABInv, NEW d \in ABDevices, SessionEnds(d)
    PROVE  ABInv' /\ group' = group
BY ABConstants DEF SessionEnds, ABInv

LEMMA ResetKept ==
    ASSUME ABInv, ResetTest
    PROVE  ABInv' /\ \A d \in ABDevices : group'[d] = NoGroup
BY DEF ResetTest, ABInv

LEMMA ABKeeps == ABInv /\ [ABNext]_abVars => ABInv'
<1>1. ABInv /\ UNCHANGED abVars => ABInv'
  BY DEF ABInv, abVars
<1>2. QED
  BY <1>1, RegistrationKept, StreamKept, EndKept, ResetKept DEF ABNext

\* Until a reset a device keeps its group, and its session shows it, for any
\* devices, streams and registrations.
THEOREM GroupsStick == ABSpec => GroupsSticky
<1> DEFINE Sticks == \A d \in ABDevices :
              /\ group[d] # NoGroup =>
                    group'[d] = group[d] \/ \A e \in ABDevices : group'[e] = NoGroup
              /\ d \notin outdated' /\ label'[d] \in Groups => label'[d] = group'[d]
<1>1. ABInv /\ [ABNext]_abVars => [Sticks]_abVars
  <2> SUFFICES ASSUME ABInv, ABNext PROVE Sticks
    OBVIOUS
  <2>1. ABInv'
    BY ABKeeps
  <2>2. \A d \in ABDevices : group[d] # NoGroup =>
            group'[d] = group[d] \/ \A e \in ABDevices : group'[e] = NoGroup
    BY RegistrationKept, StreamKept, EndKept, ResetKept DEF ABNext
  <2>3. QED
    BY <2>1, <2>2 DEF ABInv
<1>2. QED
  BY <1>1, ABStarts, ABKeeps, PTL DEF ABSpec, GroupsSticky

-----------------------------------------------------------------------------
(* The alerts.  The time the manager keeps is that of the last alert.        *)

AlertInv == /\ lastFired = quiet
            /\ lastFired \in [AlertTypes -> Int] /\ posting \in [AlertTypes -> Int]

LEMMA AlertStarts == AlertInit => AlertInv
BY DEF AlertInit, AlertInv

LEMMA OlderIsLater == \A n \in Int : Older(n) \in Int /\ Older(n) >= n
BY DEF Older

LEMMA FireKept ==
    ASSUME AlertInv, NEW t \in AlertTypes, Fire(t)
    PROVE  /\ AlertInv'
           /\ \A u \in AlertTypes : posting'[u] > posting[u] \/ quiet'[u] < quiet[u] => u = t
<1>1. /\ lastFired' = [lastFired EXCEPT ![t] = 0] /\ quiet' = [quiet EXCEPT ![t] = 0]
      /\ posting' = posting \/ posting' = [posting EXCEPT ![t] = @ + 1]
  BY DEF Fire
<1>2. QED
  BY <1>1 DEF AlertInv

LEMMA PostedKept ==
    ASSUME AlertInv, NEW t \in AlertTypes, Posted(t)
    PROVE  /\ AlertInv'
           /\ \A u \in AlertTypes : ~(posting'[u] > posting[u] \/ quiet'[u] < quiet[u])
BY DEF Posted, AlertInv

LEMMA RulesKept ==
    ASSUME AlertInv, UNCHANGED <<lastFired, posting, quiet>>
    PROVE  /\ AlertInv'
           /\ \A u \in AlertTypes : ~(posting'[u] > posting[u] \/ quiet'[u] < quiet[u])
BY DEF AlertInv

LEMMA AlertTickKept ==
    ASSUME AlertInv, AlertTick
    PROVE  /\ AlertInv'
           /\ \A u \in AlertTypes : ~(posting'[u] > posting[u] \/ quiet'[u] < quiet[u])
BY OlderIsLater DEF AlertTick, AlertInv

LEMMA AlertKeeps == AlertInv /\ [AlertNext]_alertVars => AlertInv'
BY FireKept, PostedKept, RulesKept, AlertTickKept DEF AlertNext, update_rules, alertVars

\* An alert is fired only when the one before it is as old as the cooldown in
\* force, for any types, rules and number of webhooks under way.
THEOREM CooldownHolds == AlertSpec => CooldownKept
<1> DEFINE Rested == \A t \in AlertTypes :
              posting'[t] > posting[t] \/ quiet'[t] < quiet[t]
                  => quiet[t] = -1 \/ quiet[t] >= cooldown[t]
<1>1. AlertInv /\ [AlertNext]_alertVars => [Rested]_alertVars
  <2> SUFFICES ASSUME AlertInv, AlertNext PROVE Rested
    OBVIOUS
  <2>1. ASSUME NEW t \in AlertTypes, Fire(t) PROVE Rested
    <3>1. quiet[t] = -1 \/ quiet[t] >= cooldown[t]
      BY <2>1 DEF Fire, MayFire, AlertInv
    <3>2. QED
      BY <2>1, <3>1, FireKept
  <2>2. QED
    BY <2>1, PostedKept, RulesKept, AlertTickKept DEF AlertNext, update_rules
<1>2. QED
  BY <1>1, AlertStarts, AlertKeeps, PTL DEF AlertSpec, CooldownKept

-----------------------------------------------------------------------------
(* The downloaded model. *)

LEMMA OneOfTheLayouts == DownloadSpec => [](layout \in Layouts)
<1>1. DownloadInit => layout \in Layouts
  BY DEF DownloadInit
<1>2. layout \in Layouts /\ [DownloadNext]_downloadVars => (layout \in Layouts)'
  <2>1. DownloadNext \/ UNCHANGED downloadVars => layout' = layout
    BY DEF DownloadNext, downloadVars, MissingDependencies, StartRun, WriteFile, Written,
           Verify, TestAfterwards, TestOnly, Interrupt
  <2>2. QED
    BY <2>1
<1>3. QED
  BY <1>1, <1>2, PTL DEF DownloadSpec

\* A whole model with its weights in one file stays whole, for any number of
\* runs: what a conversion would remove is not whole.
THEOREM WholeStays == DownloadSpec => WholeStaysWhole
<1> DEFINE Stays == Whole /\ "model" \in layout => Whole'
<1>1. layout \in Layouts /\ [DownloadNext]_downloadVars => [Stays]_downloadVars
  <2> SUFFICES ASSUME layout \in Layouts, DownloadNext, Whole, "model" \in layout PROVE Whole'
    OBVIOUS
  <2>1. layout' = layout
    BY DEF DownloadNext, MissingDependencies, StartRun, WriteFile, Written,
           Verify, TestAfterwards, TestOnly, Interrupt
  <2>2. Already
    BY DEF Layouts, Whole, Already
  <2>3. files \subseteq files'
    BY <2>2 DEF DownloadNext, MissingDependencies, StartRun, WriteFile, Written,
           Verify, TestAfterwards, TestOnly, Interrupt
  <2>4. QED
    BY <2>1, <2>3 DEF Whole
<1>2. QED
  BY <1>1, OneOfTheLayouts, PTL DEF DownloadSpec, WholeStaysWhole

-----------------------------------------------------------------------------
(* The inference engine. *)

EngineInv ==
    /\ ready /\ ~stub => text
    /\ vlmPath = wanted /\ vision \in {NoPath, wanted}

TurnsInv ==
    /\ turns \in [Talkers -> Nat]
    /\ \A d \in Talkers : turns[d] <= 2 * MaxTurns /\ turns[d] % 2 = 0

LEMMA EngineStarts == EngineInit => EngineInv /\ TurnsInv
<1>1. EngineInit => EngineInv
  BY DEF EngineInit, EngineInv
<1>2. EngineInit => turns = [d \in Talkers |-> 0]
  BY DEF EngineInit
<1>3. turns = [d \in Talkers |-> 0] => TurnsInv
  BY EngineConstants DEF TurnsInv
<1>4. QED
  BY <1>1, <1>2, <1>3

LEMMA EngineKeeps == EngineInv /\ [EngineNext]_engineVars => EngineInv'
<1> SUFFICES ASSUME EngineInv, [EngineNext]_engineVars PROVE EngineInv'
  OBVIOUS
<1> USE DEF EngineInv
<1>1. CASE load_model
  BY <1>1 DEF load_model, LoadVision
<1>2. CASE unload_model
  BY <1>2 DEF unload_model
<1>3. ASSUME NEW p \in VisionPaths, switch_vlm_model(p) PROVE EngineInv'
  BY <1>3 DEF switch_vlm_model
<1>4. ASSUME NEW d \in Talkers, Converse(d) \/ clear_conversation(d) PROVE EngineInv'
  BY <1>4 DEF Converse, clear_conversation
<1>5. CASE ChainStep \/ ChainDone \/ UNCHANGED engineVars
  BY <1>5 DEF ChainStep, ChainDone, engineVars
<1>6. QED
  BY <1>1, <1>2, <1>3, <1>4, <1>5 DEF EngineNext

\* A conversation grows by an exchange, up to its limit, or begins anew.
LEMMA TurnsAfter ==
    ASSUME TurnsInv, [EngineNext]_engineVars
    PROVE  \/ turns' = turns \/ turns' = [d \in Talkers |-> 0]
           \/ \E d \in Talkers :
                 \/ turns' = [turns EXCEPT ![d] = 0]
                 \/ turns' = [turns EXCEPT ![d] = IF @ + 2 > 2 * MaxTurns
                                                  THEN 2 * MaxTurns ELSE @ + 2]
BY DEF EngineNext, engineVars, load_model, unload_model, switch_vlm_model, Converse,
       clear_conversation, ChainStep, ChainDone

LEMMA TurnsKept == TurnsInv /\ [EngineNext]_engineVars => TurnsInv'
<1>1. \A n \in Nat : n % 2 = 0 => (n + 2) % 2 = 0
  OBVIOUS
<1>2. (2 * MaxTurns) % 2 = 0 /\ 2 * MaxTurns \in Nat /\ 0 % 2 = 0
  BY EngineConstants
<1>3. QED
  BY <1>1, <1>2, TurnsAfter DEF TurnsInv

\* A loaded engine has somebody to answer, its vision model is the one asked
\* for, and conversations hold whole exchanges, for any models and limits.
THEOREM EngineHasAnswers == EngineSpec => []EngineAnswers
<1>1. EngineInv /\ TurnsInv => EngineAnswers
  BY DEF EngineInv, TurnsInv, EngineAnswers, generate
<1>2. QED
  BY <1>1, EngineStarts, EngineKeeps, TurnsKept, PTL DEF EngineSpec

-----------------------------------------------------------------------------
(* The way of an event.  Table, buffer and queues only ever get the newest   *)
(* event; the invariant says that what they hold comes before the next one.  *)

Upto(s, n) == s \in Seq(Nat) /\ \A i \in 1..Len(s) : s[i] <= n

\* A queue since the event `first', when n events have been published.
Box(s, first, n) ==
    /\ Upto(s, n) /\ first \in Nat /\ first <= n + 1
    /\ \A i \in 1..Len(s) : first <= s[i]
    /\ \A i \in 1..Len(s), k \in 1..Len(s) : i < k => s[i] < s[k]

\* The last events of n.
Newest(s, n) == s \in Seq(Nat) /\ \A i \in 1..Len(s) : s[i] = n - Len(s) + i

RowsInv == /\ rows \in Seq(Nat) /\ opened \in Seq(Nat)
           /\ Upto(rows \o opened, published) /\ Ascending(rows \o opened)
RecentInv == Newest(recent, published)
InboxInv == /\ DOMAIN since = DOMAIN inbox
            /\ \A l \in DOMAIN inbox : Box(inbox[l], since[l], published)

StoreInv == /\ published \in Nat /\ RowsInv /\ RecentInv /\ InboxInv
            /\ stored \subseteq ToSet(rows) /\ points \subseteq stored

LEMMA CopiesAre ==
    ASSUME NEW e \in Nat, NEW n \in Nat
    PROVE  /\ Copies(e, n) \in Seq(Nat) /\ Len(Copies(e, n)) = n
           /\ \A i \in 1..n : Copies(e, n)[i] = e
<1>1. Copies(e, n) \in [1..n -> Nat] /\ \A i \in 1..n : Copies(e, n)[i] = e
  BY DEF Copies
<1>2. Copies(e, n) \in Seq(Nat)
  BY <1>1, SeqDef
<1>3. QED
  BY <1>1, <1>2, LenProperties

\* Copies of an event after those before it.
LEMMA CopiesFollow ==
    ASSUME NEW s, NEW e \in Nat, NEW n \in Nat, Upto(s, e), Ascending(s)
    PROVE  /\ Upto(s \o Copies(e, n), e) /\ Ascending(s \o Copies(e, n))
           /\ n > 0 => e \in ToSet(s \o Copies(e, n))
<1> DEFINE c == Copies(e, n)
           t == s \o c
<1>1. s \in Seq(Nat) /\ c \in Seq(Nat) /\ Len(c) = n /\ \A i \in 1..n : c[i] = e
  BY CopiesAre DEF Upto
<1> HIDE DEF c
<1>2. /\ t \in Seq(Nat) /\ Len(t) = Len(s) + Len(c)
      /\ \A i \in 1..(Len(s) + Len(c)) : t[i] = IF i <= Len(s) THEN s[i] ELSE c[i - Len(s)]
  BY <1>1, ConcatProperties
<1>3. Len(s) \in Nat /\ \A i \in 1..Len(s) : s[i] \in Nat /\ s[i] <= e
  BY <1>1, LenProperties, ElementOfSeq DEF Upto
<1> HIDE DEF t
<1>4. \A i \in 1..Len(t) : /\ i <= Len(s) => t[i] = s[i] /\ i \in 1..Len(s)
                           /\ i > Len(s) => t[i] = e
  BY <1>1, <1>2, <1>3
<1>9. \A i \in 1..Len(t) : t[i] \in Nat /\ t[i] <= e
  <2> SUFFICES ASSUME NEW i \in 1..Len(t) PROVE t[i] \in Nat /\ t[i] <= e
    OBVIOUS
  <2>1. CASE i <= Len(s)
    BY <1>3, <1>4, <2>1
  <2>2. CASE i > Len(s)
    BY <1>4, <2>2
  <2>3. i \in Nat
    OBVIOUS
  <2>4. QED
    BY <1>3, <2>1, <2>2, <2>3
<1>10. ASSUME NEW i \in 1..Len(t), NEW j \in 1..Len(t), i <= j PROVE t[i] <= t[j]
  <2>1. CASE j <= Len(s)
    BY <1>3, <1>4, <1>10, <2>1 DEF Ascending
  <2>2. CASE j > Len(s)
    BY <1>4, <1>9, <2>2
  <2>3. QED
    BY <1>3, <2>1, <2>2
<1>5. Upto(t, e)
  BY <1>2, <1>9 DEF Upto
<1>6. Ascending(t)
  BY <1>10 DEF Ascending
<1>7. ASSUME n > 0 PROVE e \in ToSet(t)
  <2>1. Len(t) \in 1..Len(t) /\ Len(t) > Len(s)
    BY <1>1, <1>2, <1>3, <1>7
  <2>2. t[Len(t)] = e /\ DOMAIN t = 1..Len(t)
    BY <1>2, <1>4, <2>1, LenProperties
  <2>3. QED
    BY <2>1, <2>2 DEF ToSet
<1>8. QED
  BY <1>5, <1>6, <1>7 DEF t, c

LEMMA PartOfConcat ==
    ASSUME NEW s \in Seq(Nat), NEW t \in Seq(Nat)
    PROVE  /\ ToSet(s) \subseteq ToSet(s \o t)
           /\ \A n : Upto(s \o t, n) => Upto(s, n)
           /\ Ascending(s \o t) => Ascending(s)
<1>1. /\ s \o t \in Seq(Nat) /\ Len(s \o t) = Len(s) + Len(t)
      /\ \A i \in 1..(Len(s) + Len(t)) : (s \o t)[i] = IF i <= Len(s) THEN s[i] ELSE t[i - Len(s)]
  BY ConcatProperties
<1>2. Len(s) \in Nat /\ Len(t) \in Nat /\ DOMAIN s = 1..Len(s) /\ DOMAIN (s \o t) = 1..Len(s \o t)
  BY <1>1, LenProperties
<1> DEFINE u == s \o t
<1> HIDE DEF u
<1>3. \A i \in 1..Len(s) : i \in 1..Len(u) /\ u[i] = s[i]
  BY <1>1, <1>2 DEF u
<1>4. DOMAIN u = 1..Len(u)
  BY <1>2 DEF u
<1>5. ToSet(s) \subseteq ToSet(u)
  BY <1>2, <1>3, <1>4 DEF ToSet
<1>6. \A n : Upto(u, n) => Upto(s, n)
  BY <1>3 DEF Upto
<1>7. Ascending(u) => Ascending(s)
  BY <1>3 DEF Ascending
<1>8. QED
  BY <1>5, <1>6, <1>7 DEF u

LEMMA UptoLater ==
    ASSUME NEW s, NEW n \in Nat, Upto(s, n)
    PROVE  Upto(s, n + 1)
BY ElementOfSeq DEF Upto

LEMMA AscendingEmpty == Ascending(<<>>) /\ \A n \in Nat : Upto(<<>>, n)
BY DEF Ascending, Upto

\* A committed attempt keeps the order, and the table has the event.
LEMMA RecordedDone ==
    ASSUME StoreInv, NEW blocked \in Nat, Recorded(published + 1, blocked, TRUE),
           published' = published + 1
    PROVE  RowsInv' /\ ToSet(rows) \subseteq ToSet(rows') /\ published + 1 \in ToSet(rows')
<1> DEFINE e == published + 1
           c == Copies(e, blocked + 1)
<1>1. e \in Nat /\ rows' = rows \o opened \o c /\ opened' = <<>>
  BY DEF StoreInv, Recorded
<1>2. rows \in Seq(Nat) /\ opened \in Seq(Nat) /\ rows \o opened \in Seq(Nat)
  BY ConcatProperties DEF StoreInv, RowsInv
<1>3. Upto(rows \o opened, e) /\ Ascending(rows \o opened)
  BY UptoLater DEF StoreInv, RowsInv
<1>4. Upto(rows', e) /\ Ascending(rows') /\ e \in ToSet(rows')
  BY <1>1, <1>3, CopiesFollow
<1>5. rows' \in Seq(Nat) /\ rows' \o opened' = rows'
  BY <1>1, <1>4, ConcatEmptySeq DEF Upto
<1>6. c \in Seq(Nat)
  BY <1>1, CopiesAre
<1>7. ToSet(rows) \subseteq ToSet(rows')
  BY <1>1, <1>2, <1>6, PartOfConcat
<1>8. <<>> \in Seq(Nat)
  BY EmptySeq
<1>9. QED
  BY <1>1, <1>4, <1>5, <1>7, <1>8 DEF RowsInv

\* An attempt that fails leaves rows that the next commit takes along.
LEMMA RecordedBlocked ==
    ASSUME StoreInv, NEW blocked \in Nat, Recorded(published + 1, blocked, FALSE),
           published' = published + 1
    PROVE  RowsInv' /\ rows' = rows
<1> DEFINE e == published + 1
           c == Copies(e, blocked)
<1>1. e \in Nat /\ rows' = rows /\ opened' = opened \o c
  BY DEF StoreInv, Recorded
<1>2. rows \in Seq(Nat) /\ opened \in Seq(Nat) /\ c \in Seq(Nat)
  BY <1>1, CopiesAre DEF StoreInv, RowsInv
<1>3. Upto(rows \o opened, e) /\ Ascending(rows \o opened)
  BY UptoLater DEF StoreInv, RowsInv
<1>4. rows' \o opened' = (rows \o opened) \o c /\ opened' \in Seq(Nat)
  <2> HIDE DEF c
  <2>1. opened \o c \in Seq(Nat)
    BY <1>2, ConcatProperties
  <2>2. (rows \o opened) \o c = rows \o (opened \o c)
    BY <1>2, ConcatAssociative
  <2>3. QED
    BY <1>1, <2>1, <2>2
<1>5. Upto(rows' \o opened', e) /\ Ascending(rows' \o opened')
  BY <1>1, <1>3, <1>4, CopiesFollow
<1>6. QED
  BY <1>1, <1>2, <1>4, <1>5 DEF RowsInv

\* The buffer takes the newest event in, and its oldest out.
LEMMA NewestIn ==
    ASSUME NEW s, NEW n \in Nat, Newest(s, n)
    PROVE  Newest(Append(s, n + 1), n + 1)
<1>1. s \in Seq(Nat) /\ Len(s) \in Nat /\ n + 1 \in Nat
  BY LenProperties DEF Newest
<1> DEFINE t == Append(s, n + 1)
<1>2. /\ t \in Seq(Nat) /\ Len(t) = Len(s) + 1
      /\ \A i \in 1..Len(s) : t[i] = s[i]
      /\ t[Len(s) + 1] = n + 1
  BY <1>1, AppendProperties
<1> HIDE DEF t
<1>3. ASSUME NEW i \in 1..Len(t) PROVE t[i] = n + 1 - Len(t) + i
  <2>1. CASE i = Len(t)
    BY <1>1, <1>2, <2>1
  <2>2. CASE i # Len(t)
    <3>1. i \in 1..Len(s)
      BY <1>1, <1>2, <2>2
    <3>2. t[i] = n - Len(s) + i
      BY <1>2, <3>1 DEF Newest
    <3>3. QED
      BY <1>1, <1>2, <3>1, <3>2
  <2>3. QED
    BY <2>1, <2>2
<1>4. Newest(t, n + 1)
  BY <1>2, <1>3 DEF Newest
<1>5. QED
  BY <1>4 DEF t

LEMMA OldestOut ==
    ASSUME NEW s, NEW n \in Nat, Newest(s, n), s # <<>>
    PROVE  Newest(Tail(s), n)
<1>1. s \in Seq(Nat) /\ Len(s) \in Nat
  BY LenProperties DEF Newest
<1> DEFINE t == Tail(s)
<1>2. t \in Seq(Nat) /\ Len(t) = Len(s) - 1 /\ \A i \in 1..Len(t) : t[i] = s[i + 1]
  BY <1>1, HeadTailProperties
<1> HIDE DEF t
<1>3. ASSUME NEW i \in 1..Len(t) PROVE t[i] = n - Len(t) + i
  <2>1. i + 1 \in 1..Len(s)
    BY <1>1, <1>2
  <2>2. t[i] = s[i + 1]
    BY <1>2
  <2>3. s[i + 1] = n - Len(s) + (i + 1)
    BY <2>1 DEF Newest
  <2>4. QED
    BY <1>1, <1>2, <2>2, <2>3
<1>4. Newest(t, n)
  BY <1>2, <1>3 DEF Newest
<1>5. QED
  BY <1>4 DEF t

LEMMA RememberKept ==
    ASSUME StoreInv, Remember(published + 1), published' = published + 1
    PROVE  RecentInv'
<1>1. published \in Nat /\ Newest(recent, published) /\ recent \in Seq(Nat)
  BY DEF StoreInv, RecentInv, Newest
<1>2. CASE Len(recent) < RecentMax
  <2>1. recent' = Append(recent, published + 1)
    BY <1>2 DEF Remember
  <2>2. QED
    BY <1>1, <2>1, NewestIn DEF RecentInv
<1>3. CASE ~(Len(recent) < RecentMax)
  <2>1. recent' = Append(Tail(recent), published + 1) /\ recent # <<>>
    BY <1>1, <1>3, StoreConstants, EmptySeq DEF Remember
  <2>2. Newest(Tail(recent), published)
    BY <1>1, <2>1, OldestOut
  <2>3. QED
    BY <1>1, <2>1, <2>2, NewestIn DEF RecentInv
<1>4. QED
  BY <1>2, <1>3

LEMMA BoxLater ==
    ASSUME NEW s, NEW first, NEW n \in Nat, Box(s, first, n)
    PROVE  Box(s, first, n + 1)
BY UptoLater DEF Box

LEMMA BoxAppend ==
    ASSUME NEW s, NEW first, NEW n \in Nat, Box(s, first, n)
    PROVE  Box(Append(s, n + 1), first, n + 1)
<1>1. /\ s \in Seq(Nat) /\ Len(s) \in Nat
      /\ \A i \in 1..Len(s) : s[i] \in Nat /\ s[i] <= n
  BY LenProperties, ElementOfSeq DEF Box, Upto
<1> DEFINE t == Append(s, n + 1)
<1>2. /\ t \in Seq(Nat) /\ Len(t) = Len(s) + 1
      /\ \A i \in 1..Len(s) : t[i] = s[i]
      /\ t[Len(s) + 1] = n + 1
  BY <1>1, AppendProperties
<1> HIDE DEF t
<1>3. QED
  BY <1>1, <1>2 DEF Box, Upto, t

LEMMA BoxTail ==
    ASSUME NEW s, NEW first, NEW n \in Nat, Box(s, first, n), s # <<>>
    PROVE  Box(Tail(s), first, n)
<1>1. s \in Seq(Nat) /\ Len(s) \in Nat
  BY LenProperties DEF Box, Upto
<1> DEFINE t == Tail(s)
<1>2. t \in Seq(Nat) /\ Len(t) = Len(s) - 1 /\ \A i \in 1..Len(t) : t[i] = s[i + 1]
  BY <1>1, HeadTailProperties DEF Box
<1> HIDE DEF t
<1>3. QED
  BY <1>1, <1>2 DEF Box, Upto, t

LEMMA DeliveredKept ==
    ASSUME StoreInv, Delivered(published + 1), published' = published + 1, since' = since
    PROVE  InboxInv'
<1>1. /\ DOMAIN inbox' = DOMAIN inbox /\ published \in Nat
      /\ \A l \in DOMAIN inbox : inbox'[l] \in {inbox[l], Append(inbox[l], published + 1)}
  BY DEF Delivered, StoreInv
<1>2. ASSUME NEW l \in DOMAIN inbox PROVE Box(inbox'[l], since[l], published + 1)
  <2>1. Box(inbox[l], since[l], published)
    BY DEF StoreInv, InboxInv
  <2>2. QED
    BY <1>1, <2>1, BoxLater, BoxAppend
<1>3. QED
  BY <1>1, <1>2 DEF StoreInv, InboxInv

LEMMA PublishKept ==
    ASSUME StoreInv, publish
    PROVE  StoreInv'
<1>1. /\ published' = published + 1 /\ published \in Nat
      /\ Remember(published + 1) /\ Delivered(published + 1) /\ since' = since
  BY DEF publish, StoreInv
<1>2. RecentInv' /\ InboxInv' /\ published' \in Nat
  BY <1>1, RememberKept, DeliveredKept
<1>3. ASSUME NEW blocked \in 0..Retries, Recorded(published + 1, blocked, TRUE),
             stored' = stored \cup {published + 1},
             points' \in {points, points \cup {published + 1}}
      PROVE  RowsInv' /\ stored' \subseteq ToSet(rows') /\ points' \subseteq stored'
  <2>3. blocked \in Nat
    BY StoreConstants
  <2>1. RowsInv' /\ ToSet(rows) \subseteq ToSet(rows') /\ published + 1 \in ToSet(rows')
    BY <1>1, <1>3, <2>3, RecordedDone, Zenon
  <2>2. QED
    BY <1>3, <2>1 DEF StoreInv
<1>4. ASSUME NEW blocked \in 0..(Retries + 1), Recorded(published + 1, blocked, FALSE),
             points' = points, stored' = stored
      PROVE  RowsInv' /\ stored' \subseteq ToSet(rows') /\ points' \subseteq stored'
  <2>3. blocked \in Nat
    BY StoreConstants
  <2>1. RowsInv' /\ rows' = rows
    BY <1>1, <1>4, <2>3, RecordedBlocked, Zenon
  <2>2. QED
    BY <1>4, <2>1 DEF StoreInv
<1>5. ASSUME UNCHANGED <<rows, opened, points, stored>>
      PROVE  RowsInv' /\ stored' \subseteq ToSet(rows') /\ points' \subseteq stored'
  BY <1>1, <1>5, UptoLater DEF StoreInv, RowsInv
<1>6. QED
  BY <1>2, <1>3, <1>4, <1>5 DEF publish, StoreInv

LEMMA SubscriptionsKept ==
    ASSUME StoreInv, NEW l \in Listeners, subscribe(l) \/ unsubscribe(l) \/ Consume(l)
    PROVE  StoreInv'
<1>1. UNCHANGED <<published, recent, rows, opened, points, stored>>
  BY DEF subscribe, unsubscribe, Consume
<1>2. ASSUME subscribe(l) PROVE InboxInv'
  <2>1. Box(<<>>, published + 1, published)
    BY AscendingEmpty DEF StoreInv, Box
  <2>2. QED
    BY <1>1, <1>2, <2>1 DEF subscribe, StoreInv, InboxInv
<1>3. ASSUME unsubscribe(l) PROVE InboxInv'
  BY <1>1, <1>3 DEF unsubscribe, StoreInv, InboxInv
<1>4. ASSUME Consume(l) PROVE InboxInv'
  <2>1. /\ DOMAIN inbox' = DOMAIN inbox /\ since' = since
        /\ inbox'[l] = Tail(inbox[l]) /\ inbox[l] # <<>> /\ l \in DOMAIN inbox
        /\ \A m \in DOMAIN inbox : m # l => inbox'[m] = inbox[m]
    BY <1>4 DEF Consume
  <2>2. Box(inbox'[l], since[l], published)
    BY <2>1, BoxTail DEF StoreInv, InboxInv
  <2>3. QED
    BY <1>1, <2>1, <2>2 DEF StoreInv, InboxInv
<1>5. QED
  BY <1>1, <1>2, <1>3, <1>4 DEF StoreInv, RowsInv, RecentInv

LEMMA CommitKept ==
    ASSUME StoreInv, CommitOther
    PROVE  StoreInv'
<1>1. /\ rows' = rows \o opened /\ opened' = <<>>
      /\ UNCHANGED <<published, recent, inbox, points, stored, since>>
  BY DEF CommitOther
<1>2. rows' \in Seq(Nat) /\ rows' \o opened' = rows' /\ opened' \in Seq(Nat)
  BY <1>1, ConcatEmptySeq, EmptySeq DEF StoreInv, RowsInv, Upto
<1>3. ToSet(rows) \subseteq ToSet(rows')
  BY <1>1, PartOfConcat DEF StoreInv, RowsInv
<1>4. QED
  BY <1>1, <1>2, <1>3 DEF StoreInv, RowsInv, RecentInv, InboxInv

LEMMA CloseKept ==
    ASSUME StoreInv, close
    PROVE  StoreInv'
<1>1. /\ rows' = rows /\ opened' = <<>>
      /\ UNCHANGED <<published, recent, inbox, points, stored, since>>
  BY DEF close
<1>2. rows' \o opened' = rows /\ opened' \in Seq(Nat) /\ rows \in Seq(Nat)
  BY <1>1, ConcatEmptySeq, EmptySeq DEF StoreInv, RowsInv
<1>3. Upto(rows, published) /\ Ascending(rows)
  BY PartOfConcat DEF StoreInv, RowsInv
<1>4. QED
  BY <1>1, <1>2, <1>3 DEF StoreInv, RowsInv, RecentInv, InboxInv

LEMMA StoreStarts == StoreInit => StoreInv
<1> SUFFICES ASSUME StoreInit PROVE StoreInv
  OBVIOUS
<1>1. /\ published = 0 /\ recent = <<>> /\ inbox = <<>> /\ rows = <<>> /\ opened = <<>>
      /\ points = {} /\ stored = {} /\ since = <<>>
  BY DEF StoreInit
<1>2. <<>> \in Seq(Nat) /\ Len(<<>>) = 0 /\ rows \o opened = <<>> /\ DOMAIN inbox = {}
  BY <1>1, EmptySeq, ConcatEmptySeq
<1>3. RowsInv /\ RecentInv /\ InboxInv
  BY <1>1, <1>2, AscendingEmpty DEF RowsInv, RecentInv, Newest, InboxInv
<1>4. QED
  BY <1>1, <1>3 DEF StoreInv

LEMMA StoreKeeps == StoreInv /\ [StoreNext]_storeVars => StoreInv'
<1>1. StoreInv /\ UNCHANGED storeVars => StoreInv'
  BY DEF storeVars, StoreInv, RowsInv, RecentInv, InboxInv
<1>2. QED
  BY <1>1, PublishKept, SubscriptionsKept, CommitKept, CloseKept DEF StoreNext

LEMMA BoxInOrder ==
    ASSUME NEW s, NEW first, NEW n, Box(s, first, n)
    PROVE  IsInjective(s) /\ Ascending(s) /\ (s # <<>> => s[1] >= first)
<1>1. /\ s \in Seq(Nat) /\ DOMAIN s = 1..Len(s) /\ Len(s) \in Nat
      /\ \A i \in 1..Len(s) : s[i] \in Nat
  BY LenProperties, ElementOfSeq DEF Box, Upto
<1>2. IsInjective(s)
  BY <1>1 DEF Box, IsInjective
<1>3. Ascending(s)
  BY <1>1 DEF Box, Ascending
<1>4. s # <<>> => s[1] >= first
  BY <1>1, EmptySeq DEF Box
<1>5. QED
  BY <1>2, <1>3, <1>4

\* Table, buffer and listeners agree on one order, and what counts as stored is
\* stored, for any number of events, retries, listeners and sizes.
THEOREM StoreFollows == StoreSpec => []StoreFollowsEvents
<1>1. StoreInv => StoreFollowsEvents
  <2> SUFFICES ASSUME StoreInv PROVE StoreFollowsEvents
    OBVIOUS
  <2>1. recent = [i \in 1..Len(recent) |-> published - Len(recent) + i]
    <3>1. recent \in [1..Len(recent) -> Nat]
      BY LenProperties DEF StoreInv, RecentInv, Newest
    <3>2. QED
      BY <3>1 DEF StoreInv, RecentInv, Newest
  <2>2. \A l \in DOMAIN inbox : /\ IsInjective(inbox[l]) /\ Ascending(inbox[l])
                                /\ inbox[l] # <<>> => inbox[l][1] >= since[l]
    BY BoxInOrder DEF StoreInv, InboxInv
  <2>3. QED
    BY <2>1, <2>2 DEF StoreInv, RowsInv, StoreFollowsEvents
<1>2. QED
  BY <1>1, StoreStarts, StoreKeeps, PTL DEF StoreSpec

-----------------------------------------------------------------------------
(* Re-identification.  The sightings of a track cross cameras because every  *)
(* feature in the store is a sighting of the track it names, and pruning     *)
(* only takes features out.                                                  *)

\* Whatever the features are, pruning leaves some of them.
LEMMA PrunedFrom ==
    ASSUME NEW S, NEW s \in Seq(S), NEW now
    PROVE  Pruned(s, now) \in Seq(S)
<1> DEFINE Stays(i) == s[i].time >= now - 2 * TimeWindow
           m == Len(s)
           PrunedTo(n, f) ==
               /\ f \in [0..n -> Seq(S)] /\ f[0] = <<>>
               /\ \A i \in 1..n : f[i] = IF Stays(i) THEN Append(f[i - 1], s[i])
                                                     ELSE f[i - 1]
           T == {n \in Nat : n <= m => \E f : PrunedTo(n, f)}
<1>1. m \in Nat /\ \A i \in 1..m : s[i] \in S
  BY ElementOfSeq, LenProperties
<1> HIDE DEF Stays, m
<1>2. 0 \in T
  <2>1. PrunedTo(0, [i \in 0..0 |-> <<>>])
    OBVIOUS
  <2> HIDE DEF PrunedTo
  <2>2. QED
    BY <2>1
<1>3. ASSUME NEW n \in Nat, n + 1 <= m, NEW f, PrunedTo(n, f)
      PROVE  \E g : PrunedTo(n + 1, g)
  <2> DEFINE v == IF Stays(n + 1) THEN Append(f[n], s[n + 1]) ELSE f[n]
             g == [i \in 0..(n + 1) |-> IF i = n + 1 THEN v ELSE f[i]]
  <2>1. s[n + 1] \in S /\ f[n] \in Seq(S)
    BY <1>1, <1>3
  <2>2. v \in Seq(S)
    BY <2>1
  <2> HIDE DEF v
  <2>3. g \in [0..(n + 1) -> Seq(S)]
    BY <1>3, <2>2
  <2>4. g[0] = <<>> /\ g[n + 1] = v /\ \A i \in 0..n : g[i] = f[i]
    BY <1>3
  <2> HIDE DEF g
  <2>5. ASSUME NEW i \in 1..(n + 1)
        PROVE  g[i] = IF Stays(i) THEN Append(g[i - 1], s[i]) ELSE g[i - 1]
    <3>1. CASE i = n + 1
      <4>1. i - 1 = n /\ n \in 0..n
        BY <3>1
      <4>2. QED
        BY <2>4, <3>1, <4>1 DEF v
    <3>2. CASE i \in 1..n
      <4>1. i \in 0..n /\ i - 1 \in 0..n
        BY <3>2
      <4>2. QED
        BY <1>3, <2>4, <3>2, <4>1
    <3>3. QED
      BY <3>1, <3>2
  <2>6. PrunedTo(n + 1, g)
    BY <2>3, <2>4, <2>5
  <2> HIDE DEF PrunedTo
  <2>7. QED
    BY <2>6
<1> HIDE DEF PrunedTo
<1>4. ASSUME NEW n \in Nat, n \in T
      PROVE  n + 1 \in T
  <2>1. ASSUME n + 1 <= m
        PROVE  \E g : PrunedTo(n + 1, g)
    <3>1. \E f : PrunedTo(n, f)
      BY <1>1, <1>4, <2>1
    <3>2. QED
      BY <1>3, <2>1, <3>1
  <2>2. QED
    BY <2>1
<1> HIDE DEF T
<1>5. Nat \subseteq T
  BY <1>2, <1>4, NatSetInduction
<1>6. PICK f : PrunedTo(m, f)
  BY <1>1, <1>5 DEF T
<1> DEFINE g == CHOOSE kept : kept = [i \in 0..m |->
                    IF i = 0 THEN <<>>
                    ELSE IF Stays(i) THEN Append(kept[i - 1], s[i]) ELSE kept[i - 1]]
           R == {n \in Nat : n <= m => g[n] \in Seq(S)}
<1>7. Pruned(s, now) = g[m]
  BY DEF Pruned, Stays, m
<1>8. f = [i \in 0..m |-> IF i = 0 THEN <<>>
                          ELSE IF Stays(i) THEN Append(f[i - 1], s[i]) ELSE f[i - 1]]
  <2>1. \A i \in 0..m : i # 0 => i \in 1..m
    OBVIOUS
  <2>2. QED
    BY <1>6, <2>1 DEF PrunedTo
<1>9. g = [i \in 0..m |-> IF i = 0 THEN <<>>
                          ELSE IF Stays(i) THEN Append(g[i - 1], s[i]) ELSE g[i - 1]]
  BY <1>8
<1> HIDE DEF g
<1>10. 0 \in R
  BY <1>1, <1>9
<1>11. ASSUME NEW n \in Nat, n \in R
       PROVE  n + 1 \in R
  <2>1. SUFFICES ASSUME n + 1 <= m
                 PROVE  g[n + 1] \in Seq(S)
    OBVIOUS
  <2>2. /\ g[n] \in Seq(S) /\ n + 1 \in 1..m /\ n + 1 \in 0..m /\ n + 1 # 0
        /\ (n + 1) - 1 = n
    BY <1>1, <1>11, <2>1
  <2>3. g[n + 1] = IF Stays(n + 1) THEN Append(g[n], s[n + 1]) ELSE g[n]
    BY <1>9, <2>2
  <2>4. QED
    BY <1>1, <2>2, <2>3
<1>12. Nat \subseteq R
  <2> HIDE DEF R
  <2>1. QED
    BY <1>10, <1>11, NatSetInduction
<1>13. QED
  BY <1>1, <1>7, <1>12

Features == [device : Cameras, class : ClassNames, vector : Vectors, time : 1..MaxTime]
Sightings == [device : Cameras, time : Int, similarity : Int]
TrackSet == [class : ClassNames, sightings : Seq(Sightings)]
Entries == [device : Cameras, class : ClassNames, vector : Vectors, time : Int, track : Nat]

\* Sighting x is of another camera than one of the sightings s, not too old then.
Continues(x, s) == /\ x.similarity >= Similarity
                 /\ \E j \in 1..Len(s) : /\ s[j].device # x.device
                                         /\ s[j].time >= x.time - TimeWindow
Crossing(s) == \A i \in 2..Len(s) :
                  /\ s[i].similarity >= Similarity
                  /\ \E j \in 1..(i - 1) : /\ s[j].device # s[i].device
                                           /\ s[j].time >= s[i].time - TimeWindow

\* The feature e is a sighting of the track that it names.
Sighted(e, t) == /\ e.track \in 1..Len(t) /\ t[e.track].class = e.class
                 /\ \E k \in 1..Len(t[e.track].sightings) :
                       /\ t[e.track].sightings[k].device = e.device
                       /\ t[e.track].sightings[k].time = e.time

ReIDInv ==
    /\ tracks \in Seq(TrackSet) /\ \A t \in 1..Len(tracks) : Crossing(tracks[t].sightings)
    /\ featureStore \in Seq({e \in Entries : Sighted(e, tracks)})

LEMMA BestMatches ==
    ASSUME NEW f \in Features, featureStore \in Seq(Entries), Matches(f) # {}
    PROVE  Best(f) \in Matches(f)
<1> DEFINE M == Matches(f)
           sim(i) == Cosine[f.vector, featureStore[i].vector]
<1>1. /\ Len(featureStore) \in Nat /\ M \subseteq 1..Len(featureStore)
      /\ \A i \in M : featureStore[i] \in Entries
  BY LenProperties, ElementOfSeq DEF Matches
<1>2. M \subseteq Nat /\ \A i \in M : sim(i) \in Int /\ sim(i) <= 100
  <2>1. f.vector \in Vectors /\ \A i \in M : featureStore[i].vector \in Vectors
    BY <1>1 DEF Entries, Features
  <2>2. \A v, w \in Vectors : Cosine[v, w] \in Int /\ Cosine[v, w] <= 100
    BY ReIDConstants
  <2>3. M \subseteq Nat
    BY <1>1
  <2>4. QED
    BY <2>1, <2>2, <2>3
<1> HIDE DEF M, sim
<1>3. PICK b \in M : \A j \in M : sim(j) <= sim(b)
  <2> DEFINE D == {100 - sim(j) : j \in M}
  <2>1. D \subseteq Nat /\ D # {}
    <3>1. M # {}
      BY DEF M
    <3>2. \A j \in M : 100 - sim(j) \in Nat
      BY <1>2
    <3>3. QED
      BY <3>1, <3>2
  <2>2. PICK d \in D : \A e \in D : d <= e
    <3> HIDE DEF D
    <3>1. QED
      BY <2>1, LeastNumber
  <2>3. PICK b \in M : d = 100 - sim(b)
    BY <2>2
  <2>4. ASSUME NEW j \in M PROVE sim(j) <= sim(b)
    <3>1. d <= 100 - sim(j)
      BY <2>2
    <3>2. 100 - sim(b) <= 100 - sim(j) /\ sim(j) \in Int /\ sim(b) \in Int
      BY <1>2, <2>3, <3>1
    <3>3. QED
      BY <3>2
  <2>5. QED
    BY <2>4
<1>4. PICK m \in M : sim(m) = sim(b) /\ \A j \in M : sim(j) = sim(b) => m <= j
  <2> DEFINE E == {j \in M : sim(j) = sim(b)}
  <2>1. E \subseteq Nat /\ E # {}
    BY <1>2, <1>3
  <2>2. PICK m \in E : \A j \in E : m <= j
    <3> HIDE DEF E
    <3>1. QED
      BY <2>1, LeastNumber
  <2>3. QED
    BY <2>2
<1>5. \A j \in M : sim(j) < sim(m) \/ (sim(j) = sim(m) /\ m <= j)
  <2>1. ASSUME NEW j \in M PROVE sim(j) < sim(m) \/ (sim(j) = sim(m) /\ m <= j)
    <3>1. CASE sim(j) = sim(b)
      BY <1>4, <3>1
    <3>2. CASE sim(j) # sim(b)
      <4>1. sim(j) <= sim(b) /\ sim(j) \in Int /\ sim(b) \in Int
        BY <1>2, <1>3
      <4>2. sim(j) < sim(b)
        BY <3>2, <4>1
      <4>3. sim(m) = sim(b)
        BY <1>4
      <4>4. QED
        BY <4>2, <4>3, Zenon
    <3>3. QED
      BY <3>1, <3>2
  <2>2. QED
    BY <2>1
<1>6. QED
  BY <1>5 DEF Best, M, sim

LEMMA SightingAdded ==
    ASSUME NEW s \in Seq(Sightings), Crossing(s), NEW x \in Sightings, s = <<>> \/ Continues(x, s)
    PROVE  /\ Append(s, x) \in Seq(Sightings) /\ Len(Append(s, x)) = Len(s) + 1
           /\ \A i \in 1..Len(s) : Append(s, x)[i] = s[i]
           /\ Append(s, x)[Len(s) + 1] = x
           /\ Crossing(Append(s, x))
<1> DEFINE n == Len(s)
           a == Append(s, x)
<1>1. /\ n \in Nat /\ a \in Seq(Sightings) /\ Len(a) = n + 1 /\ a[n + 1] = x
      /\ \A i \in 1..n : a[i] = s[i]
  BY AppendProperties, LenProperties
<1> HIDE DEF a
<1>2. ASSUME NEW i \in 2..(n + 1)
      PROVE  /\ a[i].similarity >= Similarity
             /\ \E j \in 1..(i - 1) : /\ a[j].device # a[i].device
                                      /\ a[j].time >= a[i].time - TimeWindow
  <2>1. \A j \in 1..(i - 1) : j \in 1..n /\ a[j] = s[j]
    BY <1>1
  <2>2. CASE i = n + 1
    <3>1. n # 0 /\ i - 1 = n /\ a[i] = x
      BY <1>1, <2>2
    <3>2. Continues(x, s)
      BY <3>1
    <3> HIDE DEF n
    <3>3. QED
      BY <2>1, <3>1, <3>2 DEF Continues, n
  <2>3. CASE i # n + 1
    <3>1. i \in 2..n /\ i \in 1..n
      BY <1>1, <2>3
    <3>2. a[i] = s[i]
      BY <1>1, <3>1
    <3>3. QED
      BY <2>1, <3>1, <3>2 DEF Crossing
  <2>4. QED
    BY <2>2, <2>3
<1>3. QED
  BY <1>1, <1>2 DEF Crossing, a

\* The tracks u have sighting x of class c in track k more than the tracks t.
Grown(t, u, k, c, x) ==
    /\ u \in Seq(TrackSet) /\ \A i \in 1..Len(u) : Crossing(u[i].sightings)
    /\ \A e \in Entries : Sighted(e, t) => Sighted(e, u)
    /\ \A e \in Entries :
          e.device = x.device /\ e.time = x.time /\ e.track = k /\ e.class = c => Sighted(e, u)

\* A track that grows, or one that begins, leaves the features their tracks.
LEMMA TrackGrows ==
    ASSUME NEW t \in Seq(TrackSet), NEW k \in 1..Len(t), NEW x \in Sightings,
           \A i \in 1..Len(t) : Crossing(t[i].sightings), Continues(x, t[k].sightings), NEW u,
           u = [t EXCEPT ![k].sightings = Append(t[k].sightings, x)]
    PROVE  Grown(t, u, k, t[k].class, x)
<1>1. /\ Len(t) \in Nat /\ \A i \in 1..Len(t) : t[i] \in TrackSet
      /\ t \in [1..Len(t) -> TrackSet]
  BY LenProperties, ElementOfSeq
<1> DEFINE s == t[k].sightings
           a == Append(s, x)
           r == [t[k] EXCEPT !.sightings = a]
<1>2. /\ a \in Seq(Sightings) /\ Len(a) = Len(s) + 1 /\ Len(s) \in Nat
      /\ \A i \in 1..Len(s) : a[i] = s[i]
      /\ a[Len(s) + 1] = x /\ Crossing(a)
  <2>1. s \in Seq(Sightings)
    BY <1>1 DEF TrackSet
  <2>2. QED
    BY <2>1, SightingAdded, LenProperties
<1>3. r \in TrackSet /\ r.class = t[k].class /\ r.sightings = a
  BY <1>1, <1>2 DEF TrackSet
<1>4. u = [t EXCEPT ![k] = r]
  BY <1>1
<1> HIDE DEF s, a, r
<1>5. /\ u \in [1..Len(t) -> TrackSet] /\ u[k] = r
      /\ \A i \in 1..Len(t) : i # k => u[i] = t[i]
  BY <1>1, <1>3, <1>4
<1>6. u \in Seq(TrackSet) /\ Len(u) = Len(t)
  BY <1>1, <1>5, SeqDef, LenProperties
<1>7. \A i \in 1..Len(u) : Crossing(u[i].sightings)
  BY <1>2, <1>3, <1>5, <1>6
<1>8. ASSUME NEW e \in Entries, Sighted(e, t) PROVE Sighted(e, u)
  <2>1. CASE e.track = k
    <3>1. PICK j \in 1..Len(s) : s[j].device = e.device /\ s[j].time = e.time
      BY <1>8, <2>1 DEF Sighted, s
    <3>2. j \in 1..Len(a) /\ a[j] = s[j] /\ u[k].sightings = a
      <4>1. j \in 1..(Len(s) + 1) /\ a[j] = s[j]
        BY <1>2
      <4>2. QED
        BY <1>2, <1>3, <1>5, <4>1
    <3>3. u[k].class = e.class
      BY <1>3, <1>5, <1>8, <2>1 DEF Sighted
    <3>4. QED
      BY <1>6, <2>1, <3>1, <3>2, <3>3 DEF Sighted
  <2>2. CASE e.track # k
    BY <1>5, <1>6, <1>8, <2>2 DEF Sighted
  <2>3. QED
    BY <2>1, <2>2
<1>9. ASSUME NEW e \in Entries, e.track = k, e.class = t[k].class,
             e.device = x.device, e.time = x.time
      PROVE  Sighted(e, u)
  <2>1. Len(s) + 1 \in 1..Len(a) /\ u[k].sightings = a /\ u[k].class = e.class
    <3>1. Len(s) + 1 \in 1..(Len(s) + 1)
      BY <1>2
    <3>2. QED
      BY <1>2, <1>3, <1>5, <1>9, <3>1
  <2>2. QED
    BY <1>2, <1>6, <1>9, <2>1 DEF Sighted
<1>10. \A e \in Entries :
          e.device = x.device /\ e.time = x.time /\ e.track = k /\ e.class = t[k].class
              => Sighted(e, u)
  BY <1>9
<1>11. QED
  BY <1>6, <1>7, <1>8, <1>10 DEF Grown

LEMMA TrackBegins ==
    ASSUME NEW t \in Seq(TrackSet), NEW x \in Sightings, NEW c \in ClassNames,
           \A i \in 1..Len(t) : Crossing(t[i].sightings), NEW u,
           u = Append(t, [class |-> c, sightings |-> <<x>>])
    PROVE  Grown(t, u, Len(t) + 1, c, x)
<1> DEFINE n == Len(t)
           r == [class |-> c, sightings |-> <<x>>]
<1>1. /\ r \in TrackSet /\ r.class = c /\ r.sightings = <<x>> /\ Len(<<x>>) = 1
      /\ <<x>>[1] = x
  BY DEF TrackSet
<1>2. Crossing(<<x>>)
  BY <1>1 DEF Crossing
<1> HIDE DEF r
<1>3. /\ n \in Nat /\ u \in Seq(TrackSet) /\ Len(u) = n + 1 /\ u[n + 1] = r
      /\ \A i \in 1..n : u[i] = t[i]
  BY <1>1, AppendProperties, LenProperties DEF r
<1> HIDE DEF n
<1>4. ASSUME NEW i \in 1..(n + 1) PROVE Crossing(u[i].sightings)
  <2>1. CASE i = n + 1
    BY <1>1, <1>2, <1>3, <2>1
  <2>2. CASE i \in 1..n
    BY <1>3, <2>2 DEF n
  <2>3. QED
    BY <1>3, <2>1, <2>2
<1>5. ASSUME NEW e \in Entries, Sighted(e, t) PROVE Sighted(e, u)
  <2>1. e.track \in 1..n /\ u[e.track] = t[e.track]
    BY <1>3, <1>5 DEF Sighted, n
  <2>2. e.track \in 1..Len(u)
    BY <1>3, <2>1
  <2>3. QED
    BY <1>5, <2>1, <2>2 DEF Sighted
<1>6. ASSUME NEW e \in Entries, e.track = n + 1, e.class = c,
             e.device = x.device, e.time = x.time
      PROVE  Sighted(e, u)
  <2>1. n + 1 \in 1..Len(u) /\ 1 \in 1..Len(r.sightings)
    BY <1>1, <1>3
  <2>2. r.sightings[1].device = e.device /\ r.sightings[1].time = e.time
    BY <1>1, <1>6
  <2>3. QED
    BY <1>1, <1>3, <1>6, <2>1, <2>2 DEF Sighted
<1>7. \A e \in Entries :
         e.device = x.device /\ e.time = x.time /\ e.track = n + 1 /\ e.class = c => Sighted(e, u)
  BY <1>6
<1>8. QED
  BY <1>3, <1>4, <1>5, <1>7 DEF n, Grown

\* The feature that comes is stored with its track, and those left are.
LEMMA StoreGrows ==
    ASSUME NEW t, NEW s \in Seq({e \in Entries : Sighted(e, t)}), NEW u,
           \A e \in Entries : Sighted(e, t) => Sighted(e, u),
           NEW n \in Entries, Sighted(n, u), NEW now
    PROVE  Pruned(Append(s, n), now) \in Seq({e \in Entries : Sighted(e, u)})
<1> DEFINE S == {e \in Entries : Sighted(e, t)}
           U == {e \in Entries : Sighted(e, u)}
<1>1. S \subseteq U /\ n \in U
  OBVIOUS
<1>2. s \in Seq(S)
  OBVIOUS
<1> HIDE DEF S, U
<1>3. s \in Seq(U)
  BY <1>1, <1>2, SeqMonotonic
<1>4. Append(s, n) \in Seq(U)
  BY <1>1, <1>3, AppendProperties
<1>5. Pruned(Append(s, n), now) \in Seq(U)
  BY <1>4, PrunedFrom
<1>6. QED
  BY <1>5 DEF U

LEMMA FeatureRegistered ==
    ASSUME ReIDInv, NEW f \in Features, register_feature(f)
    PROVE  ReIDInv'
<1> DEFINE S(t) == {e \in Entries : Sighted(e, t)}
<1>1. f.device \in Cameras /\ f.class \in ClassNames /\ f.vector \in Vectors /\ f.time \in Int
  BY DEF Features
<1>2. /\ tracks \in Seq(TrackSet) /\ Len(tracks) \in Nat
      /\ \A i \in 1..Len(tracks) : Crossing(tracks[i].sightings)
      /\ featureStore \in Seq(S(tracks))
  BY LenProperties DEF ReIDInv
<1>3. \A i \in 1..Len(featureStore) : featureStore[i] \in S(tracks)
  BY <1>2, ElementOfSeq
<1>4. featureStore \in Seq(Entries)
  <2>1. S(tracks) \subseteq Entries
    OBVIOUS
  <2> HIDE DEF S
  <2>2. QED
    BY <1>2, <2>1, SeqMonotonic
<1>5. ASSUME NEW x \in Sightings, NEW k \in Nat, x.device = f.device, x.time = f.time, NEW u,
             Grown(tracks, u, k, f.class, x), tracks' = u,
             featureStore' = Pruned(Append(featureStore,
                 [device |-> f.device, class |-> f.class, vector |-> f.vector,
                  time |-> f.time, track |-> k]), f.time)
      PROVE  ReIDInv'
  <2> DEFINE n == [device |-> f.device, class |-> f.class, vector |-> f.vector,
                   time |-> f.time, track |-> k]
  <2>1. /\ n \in Entries /\ n.track = k /\ n.class = f.class /\ n.device = f.device
        /\ n.time = f.time
    BY <1>1 DEF Entries
  <2> HIDE DEF n
  <2>2. Sighted(n, u)
    BY <1>5, <2>1 DEF Grown
  <2>3. Pruned(Append(featureStore, n), f.time) \in Seq(S(u))
    BY <1>2, <1>5, <2>1, <2>2, StoreGrows DEF Grown
  <2>4. featureStore' \in Seq({e \in Entries : Sighted(e, u)})
    BY <1>5, <2>3 DEF n
  <2>5. QED
    BY <1>5, <2>4 DEF ReIDInv, Grown
<1>6. CASE Matches(f) # {}
  <2>1. PICK b \in Matches(f) : b = Best(f)
    BY <1>4, <1>6, BestMatches
  <2>2. PICK g \in Entries : g = featureStore[b]
    BY <1>3, <2>1, <1>4, LenProperties DEF Matches
  <2>3. /\ g.device # f.device /\ g.time >= f.time - TimeWindow /\ g.class = f.class
        /\ Cosine[f.vector, g.vector] >= Similarity
    BY <2>1, <2>2 DEF Matches
  <2>4. Sighted(g, tracks)
    BY <1>3, <1>4, <2>1, <2>2, LenProperties DEF Matches
  <2>5. PICK x : x = Sighting(f, Cosine[f.vector, g.vector])
    OBVIOUS
  <2>6. /\ x \in Sightings /\ x.device = f.device /\ x.time = f.time
        /\ x.similarity = Cosine[f.vector, g.vector]
    <3>1. Cosine[f.vector, g.vector] \in Int
      BY <1>1, <2>2, ReIDConstants DEF Entries
    <3>2. QED
      BY <1>1, <2>5, <3>1 DEF Sighting, Sightings
  <2>7. g.track \in 1..Len(tracks) /\ tracks[g.track].class = f.class /\ g.track \in Nat
    BY <2>3, <2>4 DEF Sighted, Entries
  <2>8. Continues(x, tracks[g.track].sightings)
    BY <2>3, <2>4, <2>6 DEF Continues, Sighted
  <2>9. PICK u : u = [tracks EXCEPT ![g.track].sightings =
                          Append(tracks[g.track].sightings, x)]
    OBVIOUS
  <2>10. /\ tracks' = u
         /\ featureStore' = Pruned(Append(featureStore,
                [device |-> f.device, class |-> f.class, vector |-> f.vector,
                 time |-> f.time, track |-> g.track]), f.time)
    BY <1>6, <2>1, <2>2, <2>5, <2>9 DEF register_feature
  <2>11. Grown(tracks, u, g.track, f.class, x)
    BY <1>2, <2>6, <2>7, <2>8, <2>9, TrackGrows
  <2>12. QED
    BY <1>5, <2>6, <2>7, <2>10, <2>11
<1>7. CASE Matches(f) = {}
  <2>1. PICK x : x = Sighting(f, 100)
    OBVIOUS
  <2>2. x \in Sightings /\ x.device = f.device /\ x.time = f.time
    BY <1>1, <2>1 DEF Sighting, Sightings
  <2>3. PICK u : u = Append(tracks, [class |-> f.class, sightings |-> <<x>>])
    OBVIOUS
  <2>4. PICK k \in Nat : k = Len(tracks) + 1
    BY <1>2
  <2>5. /\ tracks' = u
        /\ featureStore' = Pruned(Append(featureStore,
               [device |-> f.device, class |-> f.class, vector |-> f.vector,
                time |-> f.time, track |-> k]), f.time)
    BY <1>7, <2>1, <2>3, <2>4 DEF register_feature
  <2>6. Grown(tracks, u, k, f.class, x)
    BY <1>1, <1>2, <2>2, <2>3, <2>4, TrackBegins
  <2>7. QED
    BY <1>5, <2>2, <2>5, <2>6
<1>8. QED
  BY <1>6, <1>7

\* A listed track really crosses cameras, and a stored feature is a sighting of
\* the track it names, for any features, similarities and window.
THEOREM TracksCross == ReIDSpec => []TracksCrossCameras
<1>1. ReIDInit => ReIDInv
  BY DEF ReIDInit, ReIDInv
<1>2. ReIDInv /\ [ReIDNext]_reidVars => ReIDInv'
  <2> SUFFICES ASSUME ReIDInv, [ReIDNext]_reidVars PROVE ReIDInv'
    OBVIOUS
  <2>1. CASE ReIDNext
    <3>1. PICK d \in Cameras, c \in ClassNames, v \in Vectors, t \in 1..MaxTime :
              register_feature([device |-> d, class |-> c, vector |-> v, time |-> t])
      BY <2>1 DEF ReIDNext
    <3>2. [device |-> d, class |-> c, vector |-> v, time |-> t] \in Features
      BY DEF Features
    <3>3. QED
      BY <3>1, <3>2, FeatureRegistered
  <2>2. CASE UNCHANGED reidVars
    BY <2>2 DEF reidVars, ReIDInv
  <2>3. QED
    BY <2>1, <2>2
<1>3. ReIDInv => TracksCrossCameras
  <2> SUFFICES ASSUME ReIDInv PROVE TracksCrossCameras
    OBVIOUS
  <2>1. DOMAIN tracks = 1..Len(tracks) /\ DOMAIN featureStore = 1..Len(featureStore)
    BY LenProperties DEF ReIDInv
  <2>2. \A t \in 1..Len(tracks) : Crossing(tracks[t].sightings)
    BY DEF ReIDInv
  <2>3. ASSUME NEW i \in 1..Len(featureStore)
        PROVE  LET e == featureStore[i]
               IN  /\ e.track \in DOMAIN tracks /\ tracks[e.track].class = e.class
                   /\ \E k \in DOMAIN tracks[e.track].sightings :
                          /\ tracks[e.track].sightings[k].device = e.device
                          /\ tracks[e.track].sightings[k].time = e.time
    <3>1. PICK e \in Entries : e = featureStore[i] /\ Sighted(e, tracks)
      BY ElementOfSeq DEF ReIDInv
    <3>2. tracks[e.track] \in TrackSet
      BY <3>1, ElementOfSeq DEF ReIDInv, Sighted
    <3>3. DOMAIN tracks[e.track].sightings = 1..Len(tracks[e.track].sightings)
      BY <3>2, LenProperties DEF TrackSet
    <3>4. QED
      BY <2>1, <3>1, <3>3 DEF Sighted
  <2>4. list_tracks \subseteq 1..Len(tracks)
    BY <2>1 DEF list_tracks
  <2>5. QED
    BY <2>1, <2>2, <2>3, <2>4 DEF TracksCrossCameras, Crossing
<1>4. QED
  BY <1>1, <1>2, <1>3, PTL DEF ReIDSpec

=================================================================================
