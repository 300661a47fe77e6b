---------------------------- MODULE PluginLifecycle ----------------------------
(***************************************************************************)
(* PluginManager (mac-central/src/core/plugin.py): plugins that come and   *)
(* go, are initialised in the order of their priorities, process           *)
(* detections, and are shut down in the reverse order.  Nothing in the     *)
(* server uses it yet.  Its coroutines await every plugin they call, so    *)
(* registrations and detections happen in between; initialising and        *)
(* shutting down are taken to be called one after the other.               *)
(***************************************************************************)
EXTENDS Integers, Sequences, FiniteSets, SequencesExt

CONSTANTS Plugins, Priority,   \* the plugins and their priorities, all different
          Enabled,             \* those whose info.enabled is set
          Critical             \* priorities below this one: 50

ASSUME PluginConstants ==
    Enabled \subseteq Plugins /\ Priority \in [Plugins -> Nat] /\ Critical \in Nat

VARIABLES
    present,      \* _plugins
    initialized,  \* _initialized
    state,        \* of each plugin: "new", "ready", "failed" or "down"
    work, left,   \* "idle", or what the manager is doing, and the plugins left to do
    passing,      \* the plugins a detection has still to pass, and
    passed,       \* those that have seen it; <<>> when there is no detection
    late          \* history: plugins registered since the initialisation began

pluginVars == <<present, initialized, state, work, left, passing, passed, late>>

PluginInit ==
    /\ present = {} /\ initialized = FALSE /\ state = [n \in Plugins |-> "new"]
    /\ work = "idle" /\ left = <<>> /\ passing = <<>> /\ passed = <<>> /\ late = {}

\* The plugins of s, each once, in the order of their priorities.
ByPriority(s) ==
    CHOOSE q \in [1..Cardinality(s) -> s] :
        /\ ToSet(q) = s
        /\ \A i, j \in DOMAIN q : i < j => Priority[q[i]] <= Priority[q[j]]

RegisterPlugin(n) ==
    /\ n \notin present /\ present' = present \cup {n} /\ late' = late \cup {n}
    /\ UNCHANGED <<initialized, state, work, left, passing, passed>>
UnregisterPlugin(n) ==
    /\ n \in present /\ present' = present \ {n}
    /\ UNCHANGED <<initialized, state, work, left, passing, passed, late>>

\* initialize_all works on the plugins there are when it begins.
initialize_all ==
    /\ work = "idle" /\ ~initialized
    /\ work' = "initializing" /\ left' = ByPriority(present) /\ late' = {}
    /\ UNCHANGED <<present, initialized, state, passing, passed>>

\* Fault: a critical plugin that fails only ends the loop.
InitializeNextSwallowing ==
    /\ work = "initializing" /\ left # <<>>
    /\ LET n == Head(left) IN
       \/ /\ n \notin Enabled /\ left' = Tail(left) /\ UNCHANGED <<state, work>>
       \/ /\ n \in Enabled /\ state' = [state EXCEPT ![n] = "ready"]
          /\ left' = Tail(left) /\ UNCHANGED work
       \/ /\ n \in Enabled /\ state' = [state EXCEPT ![n] = "failed"]
          /\ left' = IF Priority[n] < Critical THEN <<>> ELSE Tail(left)
          /\ UNCHANGED work
    /\ UNCHANGED <<present, initialized, passing, passed, late>>

\* The failure of a critical plugin is raised, and leaves those initialised
\* before it as they are.
InitializeNext ==
    /\ work = "initializing" /\ left # <<>>
    /\ LET n == Head(left) IN
       \/ /\ n \notin Enabled /\ left' = Tail(left) /\ UNCHANGED <<state, work>>
       \/ /\ n \in Enabled /\ state' = [state EXCEPT ![n] = "ready"]
          /\ left' = Tail(left) /\ UNCHANGED work
       \/ /\ n \in Enabled /\ state' = [state EXCEPT ![n] = "failed"]
          /\ left' = IF Priority[n] < Critical THEN <<>> ELSE Tail(left)
          /\ work' = IF Priority[n] < Critical THEN "idle" ELSE work
    /\ UNCHANGED <<present, initialized, passing, passed, late>>

\* Disabled plugins and those never initialised are shut down too.
shutdown_all ==
    /\ work = "idle" /\ work' = "stopping" /\ left' = Reverse(ByPriority(present))
    /\ UNCHANGED <<present, initialized, state, passing, passed, late>>
ShutdownNext ==
    /\ work = "stopping" /\ left # <<>> /\ left' = Tail(left)
    /\ state' = [state EXCEPT ![Head(left)] = "down"]
    /\ UNCHANGED <<present, initialized, work, passing, passed, late>>
ManagerDone ==
    /\ work # "idle" /\ left = <<>> /\ work' = "idle"
    /\ initialized' = (work = "initializing")
    /\ UNCHANGED <<present, state, left, passing, passed, late>>

\* process_detection (and process_frame): whether _initialized is not asked.
\* A plugin may filter the detection out, or raise, which is skipped over.
ProcessBegin ==
    /\ passing = <<>> /\ passed' = <<>>
    /\ passing' = ByPriority(present \cap Enabled)
    /\ UNCHANGED <<present, initialized, state, work, left, late>>
ProcessNext ==
    /\ passing # <<>> /\ passed' = Append(passed, Head(passing))
    /\ passing' \in {Tail(passing), <<>>}
    /\ UNCHANGED <<present, initialized, state, work, left, late>>

PluginNext ==
    \/ \E n \in Plugins : RegisterPlugin(n) \/ UnregisterPlugin(n)
    \/ initialize_all \/ InitializeNext \/ shutdown_all \/ ShutdownNext \/ ManagerDone
    \/ ProcessBegin \/ ProcessNext

PluginSpec == PluginInit /\ [][PluginNext]_pluginVars

-----------------------------------------------------------------------------
\* Once plugins count as initialised, every enabled one that was registered
\* before is ready, or failed and is not critical, though plugins came and went
\* while others were awaited, and earlier initialisations failed.
InitializedAreReady ==
    initialized /\ work = "idle" =>
        \A n \in (present \cap Enabled) \ late :
            state[n] = "ready" \/ (state[n] = "failed" /\ Priority[n] >= Critical)
=============================================================================
