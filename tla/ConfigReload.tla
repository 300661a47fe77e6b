----------------------------- MODULE ConfigReload -----------------------------
(***************************************************************************)
(* The configuration of a running central server: main.py's one watched    *)
(* file, its reload callback, and the dashboard that can rewrite the file  *)
(* and set the log level, embedded in the same event loop or a process of  *)
(* its own.                                                                *)
(*                                                                         *)
(* The callback is the watcher's only one, asynchronous but without an     *)
(* await in it: what runs in the same event loop, an embedded dashboard,   *)
(* never comes between the two times the file is read, by the watcher for  *)
(* its hash and by the callback for its content.  An edit from outside may *)
(* (the watcher with callbacks that do await is ConfigWatcher).            *)
(***************************************************************************)
EXTENDS Integers

CONSTANTS Contents,   \* what the file may hold: a set of Configurations
          Levels,     \* the levels that logging knows, without NOTSET
          Info,       \* logging.INFO
          NotSet,     \* logging.NOTSET, the level of loggers without one too
          Unknown,    \* the name of no level: AppConfig.validate accepts any
          Rules, Limits, Alerts,
          NoRules,    \* an empty vlm_rules list, a member of Rules
          Defaults,   \* AppConfig()
          Off, Missing, NoRead

LevelNames == Levels \cup {NotSet, Unknown}

\* AppConfig, down to what a reload applies.  The sections it leaves alone
\* only show in `valid': the file parses, AppConfig.validate passes, and the
\* level is a name at all (the first thing that a reload looks at).
Configurations ==
    [valid : BOOLEAN,
     accepted : BOOLEAN,    \* validate_config, the dashboard's own check
     level : LevelNames, rules : Rules,
     limiting : BOOLEAN, limits : Limits,
     alerting : BOOLEAN, alerts : Alerts,
     severities : BOOLEAN]  \* the severities of the alert routes exist

ASSUME ReloadConstants == /\ Contents \subseteq Configurations
                          /\ Defaults \in Configurations /\ NoRules \in Rules
                          /\ Info \in Levels /\ {NotSet, Unknown} \cap Levels = {}
                          /\ NotSet # Unknown /\ Missing \notin Contents
                          /\ NoRead \notin Contents \cup {Missing}

VARIABLES
    file,      \* external: the content of the file, or Missing
    adopted,   \* the content whose hash the watcher holds
    noticed,   \* a change is being debounced
    read,      \* the content whose hash a poll is reporting, or NoRead
    settings,  \* in force: VLM rules, rate limits, alert rules
    root,      \* the root logger's level
    loggers,   \* the level the dashboard gave every other logger, or NotSet
    embedded,  \* the dashboard runs in the server's process
    unread     \* history: why the server has not read the content adopted:
               \* force_reload adopted it ("forced"), or it was replaced before
               \* the server read the file ("edited"); "no" when it has

reloadVars == <<file, adopted, noticed, read, settings, root, loggers, embedded,
                unread>>

\* from_yaml: a missing file gives the defaults.
Loaded(f) == IF f = Missing THEN Defaults ELSE f

\* What the services are built with when the server starts on c.
Startup(c) ==
    [rules  |-> IF c.rules = NoRules THEN Defaults.rules ELSE c.rules,
     limits |-> IF c.limiting THEN c.limits ELSE Off,
     alerts |-> IF c.alerting THEN c.alerts ELSE Off]
Starts(c) == c.valid /\ (c.alerting => c.severities)

\* Fault: the rules and limits are left out of a reload that fails in the end.
ReloadKeepsRules(s, c) ==
    IF ~c.valid THEN s
    ELSE [rules  |-> IF s.alerts # Off THEN s.rules ELSE c.rules,
          limits |-> IF s.limits # Off /\ c.limiting THEN c.limits ELSE s.limits,
          alerts |-> IF s.alerts # Off /\ c.alerting /\ c.severities
                     THEN c.alerts ELSE s.alerts]

\* _on_config_change: a service that was not built at the start stays absent.
\* A severity that does not exist raises when all but the alerts are applied.
Reload(s, c) ==
    IF ~c.valid THEN s
    ELSE [rules  |-> c.rules,
          limits |-> IF s.limits # Off /\ c.limiting THEN c.limits ELSE s.limits,
          alerts |-> IF s.alerts # Off /\ c.alerting /\ c.severities
                     THEN c.alerts ELSE s.alerts]

\* setup_logging: the level a server starts with when the file names l.
AtStart(l) == IF l = Unknown THEN Info ELSE l

\* main reads the file long before it watches it: an edit may come between.
ReloadInit ==
    /\ file \in Contents \cup {Missing}
    /\ \E f \in Contents \cup {Missing} :
          /\ Starts(Loaded(f)) /\ settings = Startup(Loaded(f))
          /\ root = AtStart(Loaded(f).level)
          /\ unread = IF file = f THEN "no" ELSE "edited"
    /\ loggers = NotSet
    /\ adopted = file /\ noticed = FALSE /\ read = NoRead
    /\ embedded \in BOOLEAN

\* External: somebody edits, removes or restores the file.
EditFile ==
    /\ file' \in (Contents \cup {Missing}) \ {file}
    /\ UNCHANGED <<adopted, noticed, read, settings, root, loggers, embedded, unread>>

\* A poll sees the change; another one, after the debounce, reports it.
PollNotice ==
    /\ read = NoRead /\ file # adopted /\ ~noticed /\ noticed' = TRUE
    /\ UNCHANGED <<file, adopted, read, settings, root, loggers, embedded, unread>>
PollRead ==
    /\ read = NoRead /\ file # adopted /\ noticed /\ read' = file
    /\ UNCHANGED <<file, adopted, noticed, settings, root, loggers, embedded, unread>>

\* The callback reads the file itself.  A name that is no level, and NOTSET,
\* which is 0, leave the root's level as it is.
PollApply ==
    /\ read # NoRead /\ read' = NoRead /\ noticed' = FALSE
    /\ adopted' = read /\ unread' = IF file = read THEN "no" ELSE "edited"
    /\ settings' = Reload(settings, Loaded(file))
    /\ root' = IF Loaded(file).valid /\ Loaded(file).level \in Levels
               THEN Loaded(file).level ELSE root
    /\ UNCHANGED <<file, loggers, embedded>>

\* PUT /api/v2/config: a valid body replaces an existing file.  Embedded,
\* force_reload adopts it, and calls the synchronous callbacks: none.
PutConfig ==
    \E c \in Contents :
        /\ file # Missing /\ c.accepted
        /\ file' = c
        /\ \/ embedded /\ read = NoRead /\ adopted' = c /\ unread' = "forced"
           \/ ~embedded /\ UNCHANGED <<adopted, unread>>
        /\ UNCHANGED <<noticed, read, settings, root, loggers, embedded>>

\* PUT /api/v2/logging/level sets the root and every logger there is; only
\* the embedded dashboard's loggers are the server's.
PutLevel ==
    \E l \in Levels :
        /\ embedded /\ read = NoRead /\ root' = l /\ loggers' = l
        /\ UNCHANGED <<file, adopted, noticed, read, settings, embedded, unread>>

ReloadNext == EditFile \/ PollNotice \/ PollRead \/ PollApply \/ PutConfig \/ PutLevel

ReloadSpec == ReloadInit /\ [][ReloadNext]_reloadVars

-----------------------------------------------------------------------------
\* A reload leaves the server as a restart on the same file would, for files
\* that leave the enabled services as they are; for others it cannot.
Reloadable(c) == /\ Starts(c) /\ c.rules # NoRules
                 /\ c.limiting = (settings.limits # Off)
                 /\ c.alerting = (settings.alerts # Off)

\* Once the watcher has nothing left to notice, the settings in force are
\* those a restart would give; so is the root's level when the file names one
\* (an unknown name, or notset, gives another at a start) and the dashboard has
\* set none.  The exception is a content that the server never read.
ReloadIsRestart ==
    adopted = file /\ unread = "no" /\ Reloadable(Loaded(file))
        => /\ settings = Startup(Loaded(file))
           /\ loggers = NotSet /\ Loaded(file).level \in Levels
                => root = AtStart(Loaded(file).level)

\* "PUT triggers hot reload" (docs/API_REFERENCE.md:563): what the dashboard
\* wrote is in force once the watcher has nothing left to notice, unless the
\* file was edited between two reads of it.
PutTakesEffect ==
    adopted = file /\ unread # "edited" /\ Reloadable(Loaded(file))
        => settings = Startup(Loaded(file))
=============================================================================
