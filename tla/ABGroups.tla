------------------------------- MODULE ABGroups -------------------------------
(***************************************************************************)
(* The groups of the A/B test (mac-central/src/model_management/           *)
(* ab_test_manager.py) and their copies in the device sessions, which      *)
(* RegisterDevice (communication/grpc_server.py) labels and which come and *)
(* go with the detection streams.                                          *)
(***************************************************************************)
EXTENDS Integers, FiniteSets

CONSTANTS ABDevices, MaxSessions, NoGroup, NoSession

Groups == {"control", "treatment"}

ASSUME ABConstants == NoGroup \notin Groups /\ NoSession \notin Groups

VARIABLES group,    \* _device_groups, NoGroup for a device that has none
          label,    \* the ab_test_group of each session, NoSession if there is none
          outdated  \* history: sessions labelled before the last reset

abVars == <<group, label, outdated>>

ABInit == /\ group = [d \in ABDevices |-> NoGroup]
          /\ label = [d \in ABDevices |-> NoSession]
          /\ outdated = {}

CanRegister(d) == \/ label[d] # NoSession
                  \/ Cardinality({e \in ABDevices : label[e] # NoSession}) < MaxSessions

\* Fault: a device is drawn again whenever it registers.
AssignAgain(d) == Groups

\* assign_group: random, but the same again until a reset.
assign_group(d) == IF group[d] = NoGroup THEN Groups ELSE {group[d]}

RegisterInGroup(d) ==
    /\ CanRegister(d)
    /\ \E g \in assign_group(d) : /\ group' = [group EXCEPT ![d] = g]
                                  /\ label' = [label EXCEPT ![d] = g]
    /\ outdated' = outdated \ {d}

\* A detection stream registers its device without a group, or finds its session.
StreamRegisters(d) ==
    /\ CanRegister(d) /\ label[d] = NoSession
    /\ label' = [label EXCEPT ![d] = NoGroup]
    /\ UNCHANGED <<group, outdated>>

SessionEnds(d) ==
    /\ label[d] # NoSession
    /\ label' = [label EXCEPT ![d] = NoSession]
    /\ outdated' = outdated \ {d} /\ UNCHANGED group

ResetTest ==
    /\ group' = [d \in ABDevices |-> NoGroup]
    /\ outdated' = {d \in ABDevices : label[d] \in Groups}
    /\ UNCHANGED label

ABNext == \/ \E d \in ABDevices : RegisterInGroup(d) \/ StreamRegisters(d) \/ SessionEnds(d)
          \/ ResetTest

ABSpec == ABInit /\ [][ABNext]_abVars

-----------------------------------------------------------------------------
\* Until a reset a device stays in its group, through streams, expiries and
\* registrations, and every session labelled since then shows that group.
GroupsSticky ==
    [][\A d \in ABDevices :
          /\ group[d] # NoGroup => group'[d] = group[d] \/ \A e \in ABDevices : group'[e] = NoGroup
          /\ d \notin outdated' /\ label'[d] \in Groups => label'[d] = group'[d]]_abVars
=============================================================================
