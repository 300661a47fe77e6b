----------------------------- MODULE ConfigWatcher -----------------------------
(***************************************************************************)
(* ConfigWatcher (mac-central/src/core/hot_reload.py): files watched by    *)
(* polling, with a debounce, and callbacks told of every change.           *)
(*                                                                         *)
(* The polling task and its callers share one asyncio event loop, so they  *)
(* interleave only where the task awaits: in its sleep and in each         *)
(* asynchronous callback.  The task walks the live list of asynchronous    *)
(* callbacks, which callers change meanwhile.  Callbacks do not call the   *)
(* watcher before they await, and are registered once at a time.           *)
(*                                                                         *)
(* The files are edited from outside at any time, between the reads of two *)
(* files of one round too.  An edit gives a file a content it did not have *)
(* before, here the next natural number.                                   *)
(***************************************************************************)
EXTENDS Integers, FiniteSets, SequencesExt

CONSTANTS Paths, SyncCallbacks, AsyncCallbacks,
          AnyCallbacks,  \* those of the callbacks registered by on_any_change
          AnyPath,       \* in place of a path: the lists of on_any_change
          Nowhere,       \* in place of a path: no list
          Debounce, Unwatched, Never,
          MaxEdits, MaxClock, MaxCalls   \* bounds

Callbacks == SyncCallbacks \cup AsyncCallbacks
Lists == Paths \cup {AnyPath}

ASSUME WatcherConstants == /\ MaxEdits \in Nat /\ Unwatched \notin 0..MaxEdits
                           /\ AnyPath \notin Paths /\ Nowhere \notin Lists

VARIABLES
    disk,        \* external: the content of each file
    hash,        \* _watched_files: the content last adopted, or Unwatched
    listed,      \* the keys of _callbacks and _async_callbacks
    sync,        \* _callbacks and _global_callbacks: called in one go, so sets
    async,       \* _async_callbacks and _global_async_callbacks
    pending,     \* _pending_changes: when a change was first seen, or Never
    loop,        \* the task: "off", "sleep", "round", "walk" or "await"
    now, todo,   \* of a round: its time, and the paths it has still to check
    current,     \* the change being handled: <<path, content>>
    walking,     \* the list of async being walked, or Nowhere: none, or one
                 \* that unwatch emptied and took out of the dictionary
    walked,      \* how many of its entries the iterator has passed
    clock, calls,
    told,        \* history: the content each callback knows of a path
    skipped,     \* history: the <<path, callback>> a walk passed by
    forced       \* history: paths adopted by force_reload since the last change

watcherVars == <<disk, hash, listed, sync, async, pending, loop, now, todo,
                 current, walking, walked, clock, calls, told, skipped, forced>>

WatcherInit ==
    /\ disk = [p \in Paths |-> 0]
    /\ hash = [p \in Paths |-> Unwatched]
    /\ listed = {} /\ sync = [l \in Lists |-> {}] /\ async = [l \in Lists |-> <<>>]
    /\ pending = [p \in Paths |-> Never]
    /\ loop = "off" /\ now = 0 /\ todo = {}
    /\ current = <<>> /\ walking = Nowhere /\ walked = 0
    /\ clock = 0 /\ calls = 0
    /\ told = [pc \in Paths \X Callbacks |-> 0] /\ skipped = {} /\ forced = {}

In(l) == sync[l] \cup ToSet(async[l])

\* A callback is called with the path, and finds in the file what is there.
Tell(p, cs) ==
    told' = [pc \in Paths \X Callbacks |->
                IF pc[1] = p /\ pc[2] \in cs THEN disk[p] ELSE told[pc]]

\* A caller runs while the task awaits.
Call == /\ loop \in {"off", "sleep", "await"}
        /\ calls < MaxCalls /\ calls' = calls + 1

Register(l, c) ==
    \/ /\ c \in SyncCallbacks
       /\ sync' = [sync EXCEPT ![l] = @ \cup {c}] /\ UNCHANGED async
    \/ /\ c \in AsyncCallbacks
       /\ async' = [async EXCEPT ![l] = Append(@, c)] /\ UNCHANGED sync

\* list.remove moves the entries behind.  In the list under walk, when one that
\* was passed goes, the next one slips into its place and is passed by.
PassedBy(l, i) ==
    IF walking = l /\ i <= walked /\ walked < Len(async[l])
    THEN {<<current[1], async[l][walked + 1]>>} ELSE {}

Deregister(l, c) ==
    /\ sync' = [sync EXCEPT ![l] = @ \ {c}]
    /\ \/ c \notin ToSet(async[l]) /\ UNCHANGED <<async, skipped>>
       \/ \E i \in DOMAIN async[l] :
             /\ async[l][i] = c
             /\ async' = [async EXCEPT ![l] = RemoveAt(@, i)]
             /\ skipped' = skipped \cup PassedBy(l, i)

\* The caller knows the file as it is when it registers, and those for any
\* change know it from when it is first watched.  A path that is watched but
\* not listed makes watch raise KeyError and changes nothing.
watch(p, c) ==
    /\ Call /\ c \notin AnyCallbacks /\ c \notin In(p)
    /\ hash[p] = Unwatched \/ p \in listed
    /\ hash' = [hash EXCEPT ![p] = IF @ = Unwatched THEN disk[p] ELSE @]
    /\ listed' = listed \cup {p}
    /\ Register(p, c)
    /\ Tell(p, {c} \cup IF hash[p] = Unwatched THEN In(AnyPath) ELSE {})
    /\ skipped' = skipped \ {<<p, c>>}
    /\ forced' = IF hash[p] = Unwatched THEN forced \ {p} ELSE forced
    /\ UNCHANGED <<disk, pending, loop, now, todo, current, walking, walked, clock>>

\* A path that nobody is registered for any more loses its lists.
unwatch(p, c) ==
    /\ Call /\ c \in In(p) /\ Deregister(p, c)
    /\ IF sync'[p] = {} /\ async'[p] = <<>>
       THEN /\ hash' = [hash EXCEPT ![p] = Unwatched] /\ listed' = listed \ {p}
            /\ walking' = IF walking = p THEN Nowhere ELSE walking
       ELSE UNCHANGED <<hash, listed, walking>>
    /\ UNCHANGED <<disk, pending, loop, now, todo, current, walked, clock, told, forced>>

on_any_change(c) ==
    /\ Call /\ c \in AnyCallbacks /\ c \notin In(AnyPath)
    /\ Register(AnyPath, c)
    /\ told' = [pc \in Paths \X Callbacks |-> IF pc[2] = c THEN disk[pc[1]] ELSE told[pc]]
    /\ skipped' = {pc \in skipped : pc[2] # c}
    /\ UNCHANGED <<disk, hash, listed, pending, loop, now, todo, current, walking,
                   walked, clock, forced>>

unregister_callback(c) ==
    /\ Call /\ c \in In(AnyPath) /\ Deregister(AnyPath, c)
    /\ UNCHANGED <<disk, hash, listed, pending, loop, now, todo, current, walking,
                   walked, clock, told, forced>>

start ==
    /\ Call /\ loop = "off" /\ loop' = "sleep"
    /\ UNCHANGED <<disk, hash, listed, sync, async, pending, now, todo, current,
                   walking, walked, clock, told, skipped, forced>>

\* Cancelling the task in a callback leaves the change pending.
stop ==
    /\ Call /\ loop # "off" /\ loop' = "off"
    /\ todo' = {} /\ current' = <<>> /\ walking' = Nowhere /\ walked' = 0
    /\ UNCHANGED <<disk, hash, listed, sync, async, pending, now, clock, told,
                   skipped, forced>>

\* Only the synchronous callbacks are called; a pending change stays pending.
force_reload(p) ==
    /\ Call /\ hash[p] # Unwatched
    /\ hash' = [hash EXCEPT ![p] = disk[p]]
    /\ Tell(p, sync[p] \cup sync[AnyPath])
    /\ forced' = forced \cup {p}
    /\ UNCHANGED <<disk, listed, sync, async, pending, loop, now, todo, current,
                   walking, walked, clock, skipped>>

-----------------------------------------------------------------------------
(* _check_changes: a round reads the time and the list of paths once. *)

Round ==
    /\ loop = "sleep" /\ loop' = "round"
    /\ now' = clock /\ todo' = {p \in Paths : hash[p] # Unwatched}
    /\ UNCHANGED <<disk, hash, listed, sync, async, pending, current, walking, walked,
                   clock, calls, told, skipped, forced>>

\* What is left of a round whose next path is gone: the KeyError ends it.
RoundFails ==
    /\ loop = "round" /\ \E p \in todo : hash[p] = Unwatched
    /\ loop' = "sleep" /\ todo' = {}
    /\ UNCHANGED <<disk, hash, listed, sync, async, pending, now, current, walking,
                   walked, clock, calls, told, skipped, forced>>

EndRound ==
    /\ loop = "round" /\ todo = {} /\ loop' = "sleep"
    /\ UNCHANGED <<disk, hash, listed, sync, async, pending, now, todo, current,
                   walking, walked, clock, calls, told, skipped, forced>>

FirstSeen(p) == IF pending[p] = Never THEN now ELSE pending[p]

\* The path is as it was, or its change is still being debounced.
PassOver(p) ==
    /\ loop = "round" /\ p \in todo /\ hash[p] # Unwatched
    /\ disk[p] = hash[p] \/ now - FirstSeen(p) < Debounce
    /\ pending' = [pending EXCEPT ![p] = IF disk[p] = hash[p] THEN @ ELSE FirstSeen(p)]
    /\ todo' = todo \ {p}
    /\ UNCHANGED <<disk, hash, listed, sync, async, loop, now, current, walking, walked,
                   clock, calls, told, skipped, forced>>

Due(p) == /\ loop = "round" /\ p \in todo /\ hash[p] # Unwatched
          /\ disk[p] # hash[p] /\ now - FirstSeen(p) >= Debounce

\* _handle_change: the synchronous callbacks of the path, at once.
Notice(p) ==
    /\ Due(p) /\ Tell(p, sync[p])
    /\ loop' = "walk" /\ walking' = p /\ walked' = 0
    /\ current' = <<p, disk[p]>> /\ todo' = todo \ {p}
    /\ pending' = [pending EXCEPT ![p] = FirstSeen(p)]
    /\ skipped' = {pc \in skipped : pc[1] # p}
    /\ UNCHANGED <<disk, hash, listed, sync, async, now, clock, calls, forced>>

Handling == loop \in {"walk", "await"}
Exhausted == walking \in Lists => walked >= Len(async[walking])

\* The next asynchronous callback of the list is called and awaited.
CallNext ==
    /\ Handling /\ ~Exhausted /\ loop' = "await" /\ walked' = walked + 1
    /\ Tell(current[1], {async[walking][walked + 1]})
    /\ UNCHANGED <<disk, hash, listed, sync, async, pending, now, todo, current,
                   walking, clock, calls, skipped, forced>>

\* Then those for any change, the synchronous ones at once.
ToGlobals ==
    /\ Handling /\ Exhausted /\ walking # AnyPath /\ loop' = "walk"
    /\ Tell(current[1], sync[AnyPath]) /\ walking' = AnyPath /\ walked' = 0
    /\ UNCHANGED <<disk, hash, listed, sync, async, pending, now, todo, current,
                   clock, calls, skipped, forced>>

\* Fault: the file is read again after the callbacks.
HandledRereading ==
    /\ Handling /\ Exhausted /\ walking = AnyPath /\ loop' = "round"
    /\ hash' = [hash EXCEPT ![current[1]] = disk[current[1]]]
    /\ pending' = [pending EXCEPT ![current[1]] = Never]
    /\ current' = <<>> /\ walking' = Nowhere /\ walked' = 0
    /\ forced' = forced \ {current[1]}
    /\ UNCHANGED <<disk, listed, sync, async, now, todo, clock, calls, told, skipped>>

\* All callbacks have returned.  The content is adopted even if the path is no
\* longer watched.
Handled ==
    /\ Handling /\ Exhausted /\ walking = AnyPath /\ loop' = "round"
    /\ hash' = [hash EXCEPT ![current[1]] = current[2]]
    /\ pending' = [pending EXCEPT ![current[1]] = Never]
    /\ current' = <<>> /\ walking' = Nowhere /\ walked' = 0
    /\ forced' = forced \ {current[1]}
    /\ UNCHANGED <<disk, listed, sync, async, now, todo, clock, calls, told, skipped>>

\* External: an edit, and the passing of time.
Edit(p) ==
    /\ disk[p] < MaxEdits /\ disk' = [disk EXCEPT ![p] = @ + 1]
    /\ UNCHANGED <<hash, listed, sync, async, pending, loop, now, todo, current,
                   walking, walked, clock, calls, told, skipped, forced>>
WatcherTick ==
    /\ clock < MaxClock /\ clock' = clock + 1
    /\ UNCHANGED <<disk, hash, listed, sync, async, pending, loop, now, todo, current,
                   walking, walked, calls, told, skipped, forced>>

WatcherNext ==
    \/ \E p \in Paths :
          \/ \E c \in Callbacks : watch(p, c) \/ unwatch(p, c)
          \/ force_reload(p) \/ PassOver(p) \/ Notice(p) \/ Edit(p)
    \/ \E c \in Callbacks : on_any_change(c) \/ unregister_callback(c)
    \/ start \/ stop \/ Round \/ RoundFails \/ EndRound
    \/ CallNext \/ ToGlobals \/ Handled \/ WatcherTick

WatcherSpec == WatcherInit /\ [][WatcherNext]_watcherVars

-----------------------------------------------------------------------------
\* Whatever the watcher counts as seen, every callback registered for the file
\* or for any change has been told, though the file changes while callbacks are
\* awaited, and callers come and go meanwhile.  Two ways of the code leave some
\* out: a forced reload calls no asynchronous one, and the removal of a callback
\* that the walk has passed costs the one next in the list its call, and no other.
NothingMissed ==
    \A p \in Paths : \A c \in In(p) \cup In(AnyPath) :
        hash[p] = disk[p] /\ <<p, c>> \notin skipped
            /\ (p \in forced => c \in sync[p] \cup sync[AnyPath]) => told[<<p, c>>] = disk[p]
=============================================================================
