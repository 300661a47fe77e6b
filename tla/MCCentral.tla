------------------------------- MODULE MCCentral -------------------------------
(* The services of the central server, each checked by itself: the behaviours *)
(* of this specification are those of the components, every one run by one    *)
(* component while the others keep a state of theirs.  One instance gives all *)
(* of them their constants.  The compositions of components that do interact  *)
(* are the other runs.                                                        *)
EXTENDS DeviceSessions, ConfigWatcher, MCConfigReload, ModelRegistry, ABGroups,
        RateLimiter, EventStore, TypedEvents, PluginLifecycle, ServerLifecycle,
        Inference, Alerting, ModelDownload, ReID, TLC

CONSTANTS d1, d2, d3

VARIABLE component   \* the component that runs

TwoDevices == {d1, d2}
OneReconnects == (d1 :> 2) @@ (d2 :> 1)
MCLimitPairs == {<<1, 4>>, <<3, 2>>, <<2, 1>>}
MCPriority == ("a" :> 10) @@ ("b" :> 50) @@ ("c" :> 30)
MCCosine == [p \in {"u", "v"} \X {"u", "v"} |-> IF p[1] = p[2] THEN 100 ELSE 90]

Components == {"sessions", "watcher", "reload", "registry", "groups",
               "limiter", "store", "bus", "plugins", "life", "engine",
               "alerts", "download", "reid"}

\* Of the components that do not run, one initial state each.
CentralInit ==
    /\ component \in Components
    /\ Init
    /\ WatcherInit
    /\ ReloadInit
    /\ RegistryInit
    /\ ABInit
    /\ LimiterInit
    /\ StoreInit
    /\ BusInit
    /\ PluginInit
    /\ LifeInit
    /\ EngineInit
    /\ AlertInit
    /\ DownloadInit
    /\ ReIDInit
    /\ component # "reload" => /\ embedded /\ unread = "no"
                              /\ file = CHOOSE c \in {f \in Contents : Starts(f)} : TRUE
    /\ component # "limiter" => <<rate, burst>> = CHOOSE l \in LimitPairs : TRUE
    /\ component # "life" => ~dashboard
    /\ component # "engine" => mode = "llm" /\ libraries = {} /\ vlmPath = NoPath
    /\ component # "alerts" => ~webhook /\ cooldown = [t \in AlertTypes |-> NoRule]
    /\ component # "download" => layout = CHOOSE l \in Layouts : TRUE

Runs(c) ==
    /\ component = c /\ UNCHANGED component
    /\ c # "sessions" => UNCHANGED vars
    /\ c # "watcher" => UNCHANGED watcherVars
    /\ c # "reload" => UNCHANGED reloadVars
    /\ c # "registry" => UNCHANGED registryVars
    /\ c # "groups" => UNCHANGED abVars
    /\ c # "limiter" => UNCHANGED limiterVars
    /\ c # "store" => UNCHANGED storeVars
    /\ c # "bus" => UNCHANGED busVars
    /\ c # "plugins" => UNCHANGED pluginVars
    /\ c # "life" => UNCHANGED lifeVars
    /\ c # "engine" => UNCHANGED engineVars
    /\ c # "alerts" => UNCHANGED alertVars
    /\ c # "download" => UNCHANGED downloadVars
    /\ c # "reid" => UNCHANGED reidVars

CentralNext ==
    \/ Runs("sessions") /\ Next
    \/ Runs("watcher") /\ WatcherNext
    \/ Runs("reload") /\ ReloadNext
    \/ Runs("registry") /\ RegistryNext
    \/ Runs("groups") /\ ABNext
    \/ Runs("limiter") /\ LimiterNext
    \/ Runs("store") /\ StoreNext
    \/ Runs("bus") /\ BusNext
    \/ Runs("plugins") /\ PluginNext
    \/ Runs("life") /\ LifeNext
    \/ Runs("engine") /\ EngineNext
    \/ Runs("alerts") /\ AlertNext
    \/ Runs("download") /\ DownloadNext
    \/ Runs("reid") /\ ReIDNext

CentralSpec == CentralInit /\ [][CentralNext]_<<component, vars, watcherVars, reloadVars, registryVars, abVars,
               limiterVars, storeVars, busVars, pluginVars, lifeVars,
               engineVars, alertVars, downloadVars, reidVars>>
===============================================================================
