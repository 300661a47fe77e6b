----------------------------- MODULE ModelRegistry -----------------------------
(***************************************************************************)
(* The central registry of edge models                                     *)
(* (mac-central/src/model_management/model_registry.py), driven by the     *)
(* ManageModel call (communication/model_actions.py).  Every operation     *)
(* holds the registry's lock from its first check to its last write.       *)
(***************************************************************************)
EXTENDS Integers, FiniteSets

CONSTANTS Models, Targets,  \* model identifiers; devices, "" for all of them
          Versions, MaxPerDevice, NoVersion

ASSUME RegistryConstants == MaxPerDevice \in Nat

VARIABLES models,   \* _models, a function on the identifiers known
          revived   \* history: models deployed by the rollback of an undeployed record

registryVars == <<models, revived>>

Record == [target : Targets, version : Versions, status : {"deployed", "undeployed"},
           previous : Versions \cup {NoVersion}]

Known(m) == m \in DOMAIN models
Put(m, record) == [n \in DOMAIN models \cup {m} |-> IF n = m THEN record ELSE models[n]]
DeployedOn(d) == {m \in DOMAIN models :
                     models[m].target = d /\ models[m].status = "deployed"}

RegistryInit == models = <<>> /\ revived = {}

\* Fault: the models of all states are counted, but not the new one's device.
deployAnywhere(m, v, d) ==
    /\ Known(m) => models[m].status # "deployed"
    /\ \E e \in Targets : Cardinality(DeployedOn(e)) < MaxPerDevice
    /\ models' = Put(m, [target |-> d, version |-> v, status |-> "deployed",
                         previous |-> IF Known(m) THEN models[m].version ELSE NoVersion])
    /\ revived' = revived \ {m}

\* DEPLOY.  A record that was undeployed is replaced, whatever its device was,
\* and its version becomes the one to roll back to.
deploy(m, v, d) ==
    /\ Known(m) => models[m].status # "deployed"
    /\ Cardinality(DeployedOn(d)) < MaxPerDevice
    /\ models' = Put(m, [target |-> d, version |-> v, status |-> "deployed",
                         previous |-> IF Known(m) THEN models[m].version ELSE NoVersion])
    /\ revived' = revived \ {m}

\* UNDEPLOY.
undeploy(m) ==
    /\ Known(m)
    /\ models' = [models EXCEPT ![m].status = "undeployed"]
    /\ revived' = revived \ {m}

\* ROLLBACK deploys the record again, and looks at no limit.
rollback(m) ==
    /\ Known(m) /\ models[m].previous # NoVersion
    /\ models' = [models EXCEPT ![m].version = models[m].previous,
                                ![m].previous = models[m].version,
                                ![m].status = "deployed"]
    /\ revived' = IF models[m].status = "undeployed" THEN revived \cup {m} ELSE revived

RegistryNext ==
    \E m \in Models : \/ \E v \in Versions, d \in Targets : deploy(m, v, d)
                      \/ undeploy(m) \/ rollback(m)

RegistrySpec == RegistryInit /\ [][RegistryNext]_registryVars

-----------------------------------------------------------------------------
RegistryTypeOK == /\ DOMAIN models \subseteq Models
                  /\ \A m \in DOMAIN models : models[m] \in Record
                  /\ revived \subseteq DOMAIN models

\* Only rollbacks of undeployed models put more than max_models_per_device on
\* a device, however deployments, moves to other devices and rollbacks mix.
LimitPassedByRollbackOnly ==
    \A d \in Targets : Cardinality(DeployedOn(d) \ revived) <= MaxPerDevice
=============================================================================
