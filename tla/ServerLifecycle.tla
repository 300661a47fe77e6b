---------------------------- MODULE ServerLifecycle ----------------------------
(***************************************************************************)
(* Start and shutdown of the central server: main and _shutdown_sequence   *)
(* (mac-central/src/main.py), the ServiceContainer that builds the         *)
(* services (core/container.py), initialize and shutdown of the            *)
(* CentralOrchestrator, start and stop of NeuroPipelineServer, and the     *)
(* readiness probe.                                                        *)
(*                                                                         *)
(* main awaits between its steps, and requests are served meanwhile.  An   *)
(* exception before "running" leaves main, and so does a signal, whose     *)
(* handler is only installed then; the process exits as it is.             *)
(***************************************************************************)
EXTENDS Integers

CONSTANTS Disabled,      \* the optional services the configuration turns off
          WithDashboard, \* values of --dashboard to try
          MaxServed      \* bound: requests served at once

VARIABLES
    services,  \* _services: "built", or "none" for a service turned off
    phase,     \* how far main is
    signalled, \* stop_event
    grpc,      \* server.server: "none", "serving", "stopping" or "stopped"
    loaded,    \* the inference engine is loaded
    worker,    \* the VLM worker runs
    cleaning, watching, dashboard,   \* main's other tasks
    dbOpen,    \* the detection store has its connection
    served     \* requests being served

lifeVars == <<services, phase, signalled, grpc, loaded, worker, cleaning, watching,
              dashboard, dbOpen, served>>

Optional == {"alert_manager", "cloud_storage", "reasoning_chain", "rag_retriever",
             "anomaly_baseline", "reid_engine", "timeseries_engine", "auto_annotator",
             "report_generator", "rate_limiter", "model_registry", "ab_test_manager"}
Services == Optional \cup {"store", "session_manager", "circuit_breaker",
                           "behavior_analyzer", "orchestrator", "grpc_server"}

ASSUME LifeConstants == Disabled \subseteq Optional /\ MaxServed \in Nat

\* The services that a builder gets before it returns.
Needs == [n \in Services |->
    CASE n \in Disabled -> {}
      [] n \in {"behavior_analyzer", "rag_retriever", "anomaly_baseline",
                "timeseries_engine", "auto_annotator"} -> {"store"}
      [] n = "report_generator" -> {"store", "cloud_storage"}
      [] n = "orchestrator" ->
            {"store", "circuit_breaker", "alert_manager", "cloud_storage",
             "behavior_analyzer", "reasoning_chain", "rag_retriever", "anomaly_baseline"}
      [] n = "grpc_server" ->
            {"orchestrator", "session_manager", "rate_limiter", "model_registry",
             "store", "ab_test_manager"}
      [] OTHER -> {}]

Building[n \in Services] == {n} \cup UNION {Building[m] : m \in Needs[n]}

\* get, for several services: what is in _services is not built again.
get(names) ==
    [n \in DOMAIN services \cup UNION {Building[m] : m \in names} |->
        IF n \in DOMAIN services THEN services[n]
        ELSE IF n \in Disabled THEN "none" ELSE "built"]

LifeInit ==
    /\ services = <<>> /\ phase = "start" /\ signalled = FALSE
    /\ grpc = "none" /\ loaded = FALSE /\ worker = FALSE
    /\ cleaning = FALSE /\ watching = FALSE /\ dashboard \in WithDashboard
    /\ dbOpen = FALSE /\ served = 0

Starting == phase \in {"start", "assembled", "loaded", "initialized", "serving", "tasks"}

-----------------------------------------------------------------------------
Assemble ==
    /\ phase = "start" /\ phase' = "assembled"
    /\ services' = get({"orchestrator"}) /\ dbOpen' = TRUE
    /\ UNCHANGED <<signalled, grpc, loaded, worker, cleaning, watching, dashboard, served>>

\* orchestrator.initialize: the model, then the worker.
LoadModel ==
    /\ phase = "assembled" /\ phase' = "loaded" /\ loaded' = TRUE
    /\ UNCHANGED <<services, signalled, grpc, worker, cleaning, watching, dashboard, dbOpen,
                   served>>
StartWorker ==
    /\ phase = "loaded" /\ phase' = "initialized" /\ worker' = TRUE
    /\ UNCHANGED <<services, signalled, grpc, loaded, cleaning, watching, dashboard, dbOpen,
                   served>>

\* start; then the cleanup task and, with a configuration file, the watcher.
StartServer ==
    /\ phase = "initialized" /\ phase' = "serving" /\ grpc' = "serving"
    /\ services' = get({"grpc_server"})
    /\ UNCHANGED <<signalled, loaded, worker, cleaning, watching, dashboard, dbOpen, served>>
StartTasks ==
    /\ phase = "serving" /\ phase' = "tasks"
    /\ cleaning' = TRUE /\ watching' \in BOOLEAN
    /\ services' = get({"session_manager"})
    /\ UNCHANGED <<signalled, grpc, loaded, worker, dashboard, dbOpen, served>>
\* The embedded dashboard is given every engine; most are built by now.
Embed ==
    /\ phase = "tasks" /\ phase' = "running"
    /\ services' = IF dashboard
                   THEN get({"reid_engine", "timeseries_engine", "auto_annotator",
                             "report_generator"})
                   ELSE services
    /\ UNCHANGED <<signalled, grpc, loaded, worker, cleaning, watching, dashboard, dbOpen,
                   served>>

\* An exception or an early signal.
Die ==
    /\ Starting
    /\ phase' = "exited" /\ served' = 0
    /\ UNCHANGED <<services, signalled, grpc, loaded, worker, cleaning, watching, dashboard,
                   dbOpen>>

signal_handler ==
    /\ ~Starting /\ phase # "exited"
    /\ signalled' = TRUE
    /\ UNCHANGED <<services, phase, grpc, loaded, worker, cleaning, watching, dashboard,
                   dbOpen, served>>

-----------------------------------------------------------------------------
BeginShutdown ==
    /\ phase = "running" /\ signalled /\ phase' = "stopping"
    /\ cleaning' = FALSE
    /\ UNCHANGED <<services, signalled, grpc, loaded, worker, watching, dashboard, dbOpen,
                   served>>

\* Fault: the orchestrator is shut down before the server.
StopTasksOrchestratorFirst ==
    /\ phase = "stopping" /\ phase' = "stop worker"
    /\ watching' = FALSE /\ dashboard' = FALSE
    /\ UNCHANGED <<services, signalled, grpc, loaded, worker, cleaning, dbOpen, served>>

\* The watcher is stopped, the dashboard only asked to exit.
StopTasks ==
    /\ phase = "stopping" /\ phase' = "stop server"
    /\ watching' = FALSE /\ dashboard' = FALSE
    /\ UNCHANGED <<services, signalled, grpc, loaded, worker, cleaning, dbOpen, served>>

\* server.stop: no request is accepted any more; after the grace period those
\* under way are cancelled.
StopAccepting ==
    /\ phase = "stop server" /\ grpc = "serving" /\ grpc' = "stopping"
    /\ UNCHANGED <<services, phase, signalled, loaded, worker, cleaning, watching, dashboard,
                   dbOpen, served>>
Stopped ==
    /\ phase = "stop server" /\ grpc = "stopping"
    /\ grpc' = "stopped" /\ served' = 0 /\ phase' = "stop worker"
    /\ UNCHANGED <<services, signalled, loaded, worker, cleaning, watching, dashboard, dbOpen>>

\* orchestrator.shutdown, and the store.
StopWorker ==
    /\ phase = "stop worker" /\ phase' = "unload" /\ worker' = FALSE
    /\ UNCHANGED <<services, signalled, grpc, loaded, cleaning, watching, dashboard, dbOpen,
                   served>>
UnloadAndClose ==
    /\ phase = "unload" /\ phase' = "exited" /\ loaded' = FALSE /\ dbOpen' = FALSE
    /\ served' = 0
    /\ UNCHANGED <<services, signalled, grpc, worker, cleaning, watching, dashboard>>

\* The sixty seconds are over.
GlobalTimeout ==
    /\ phase \in {"stop server", "stop worker", "unload"}
    /\ phase' = "exited" /\ served' = 0
    /\ UNCHANGED <<services, signalled, grpc, loaded, worker, cleaning, watching, dashboard,
                   dbOpen>>

-----------------------------------------------------------------------------
BeginRequest ==
    /\ grpc = "serving" /\ phase # "exited" /\ served < MaxServed /\ served' = served + 1
    /\ UNCHANGED <<services, phase, signalled, grpc, loaded, worker, cleaning, watching,
                   dashboard, dbOpen>>
EndRequest ==
    /\ served > 0 /\ served' = served - 1
    /\ UNCHANGED <<services, phase, signalled, grpc, loaded, worker, cleaning, watching,
                   dashboard, dbOpen>>

LifeNext == \/ Assemble \/ LoadModel \/ StartWorker \/ StartServer \/ StartTasks \/ Embed
            \/ Die \/ signal_handler \/ BeginShutdown \/ StopTasks \/ StopAccepting \/ Stopped
            \/ StopWorker \/ UnloadAndClose \/ GlobalTimeout \/ BeginRequest \/ EndRequest

LifeSpec == LifeInit /\ [][LifeNext]_lifeVars

-----------------------------------------------------------------------------
\* readiness: the server object stays set when it has stopped.
readiness == loaded /\ dbOpen /\ grpc # "none"

\* While a request is served, what its handler uses is there: the store, the
\* loaded model, the VLM worker and every service of the server's constructor;
\* and the readiness probe says so.  Start, shutdown and timeouts included.
ServingNeedsAll ==
    served > 0 =>
        /\ readiness /\ worker
        /\ Building["grpc_server"] \subseteq DOMAIN services
=============================================================================
