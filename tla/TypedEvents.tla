----------------------------- MODULE TypedEvents -----------------------------
(***************************************************************************)
(* The publish-subscribe EventBus of mac-central/src/core/events.py, for   *)
(* one event type and the wildcard.  Nothing in the server uses it yet; it *)
(* is modelled as its interface allows, with coroutines that publish and   *)
(* await the handlers while others subscribe and unsubscribe.              *)
(*                                                                         *)
(* The loops run over the live list and the live set: taking a handler out *)
(* of the list shifts those behind it, and a set whose size changes makes  *)
(* its iteration raise RuntimeError.  Synchronous handlers are called      *)
(* without an await and are left out, as is the text of an event.          *)
(***************************************************************************)
EXTENDS Integers, Sequences, FiniteSets, SequencesExt

CONSTANTS Handlers, Publishers,
          MaxHistory,      \* max_history
          MaxPublications  \* bound

VARIABLES
    handlers,  \* _async_subscribers of the type, a sequence
    wildcard,  \* _wildcard_async_subscribers
    history,   \* _history
    events,    \* how many events were published; they are numbered
    tasks,     \* calls scheduled by publish: <<handler, event>>
    call,      \* of each publisher: how far its publish_async is
    ran        \* history: the events each handler was run with by a task

busVars == <<handlers, wildcard, history, events, tasks, call, ran>>

Idle == [state |-> "idle"]

BusInit ==
    /\ handlers = <<>> /\ wildcard = {} /\ history = <<>> /\ events = 0 /\ tasks = <<>>
    /\ call = [p \in Publishers |-> Idle] /\ ran = [h \in Handlers |-> <<>>]

Disturb(f) == [p \in Publishers |-> IF f[p].state = "idle" THEN f[p]
                                    ELSE [f[p] EXCEPT !.disturbed = TRUE]]

subscribe_async(h) ==
    /\ h \notin ToSet(handlers) \cup wildcard
    /\ \/ handlers' = Append(handlers, h) /\ UNCHANGED <<wildcard, call>>
       \/ wildcard' = wildcard \cup {h} /\ call' = Disturb(call) /\ UNCHANGED handlers
    /\ UNCHANGED <<history, events, tasks, ran>>

UnsubscribeAsync(h) ==
    /\ \/ /\ \E i \in DOMAIN handlers : handlers[i] = h /\ handlers' = RemoveAt(handlers, i)
          /\ UNCHANGED wildcard
       \/ h \in wildcard /\ wildcard' = wildcard \ {h} /\ UNCHANGED handlers
    /\ call' = Disturb(call)
    /\ UNCHANGED <<history, events, tasks, ran>>

NewEvent ==
    /\ events < MaxPublications /\ events' = events + 1
    /\ history' = IF Len(history) < MaxHistory THEN Append(history, events + 1)
                                               ELSE Append(Tail(history), events + 1)

\* publish schedules a task for every handler; tasks start in that order.
PublishTasks ==
    /\ NewEvent
    /\ \E w \in SetToSeqs(wildcard) :
          tasks' = tasks \o [i \in 1..Len(handlers \o w) |-> <<(handlers \o w)[i], events + 1>>]
    /\ UNCHANGED <<handlers, wildcard, call, ran>>
RunTask ==
    /\ tasks # <<>> /\ tasks' = Tail(tasks)
    /\ ran' = [ran EXCEPT ![Head(tasks)[1]] = Append(@, Head(tasks)[2])]
    /\ UNCHANGED <<handlers, wildcard, history, events, call>>

publish_async(p) ==
    /\ call[p].state # "running" /\ NewEvent
    /\ call' = [call EXCEPT ![p] =
          [state |-> "running", at |-> 1, size |-> -1, called |-> <<>>,
           present |-> ToSet(handlers) \cup wildcard, disturbed |-> FALSE]]
    /\ UNCHANGED <<handlers, wildcard, tasks, ran>>

Running(p) == call[p].state = "running"
Called(p, h) == [call[p] EXCEPT !.called = Append(@, h), !.at = @ + 1]

\* Fault: the handlers are called in reverse, from the end of the list.
CallListedBackwards(p) ==
    /\ Running(p) /\ call[p].at <= Len(handlers)
    /\ call' = [call EXCEPT ![p] = Called(p, handlers[Len(handlers) + 1 - call[p].at])]
    /\ UNCHANGED <<handlers, wildcard, history, events, tasks, ran>>

CallListed(p) ==
    /\ Running(p) /\ call[p].size = -1 /\ call[p].at <= Len(handlers)
    /\ call' = [call EXCEPT ![p] = Called(p, handlers[call[p].at])]
    /\ UNCHANGED <<handlers, wildcard, history, events, tasks, ran>>

InWildcard(p) == Running(p) /\ (call[p].size # -1 \/ call[p].at > Len(handlers))
SizeKept(p) == call[p].size \in {-1, Cardinality(wildcard)}

CallWildcard(p) ==
    /\ InWildcard(p) /\ SizeKept(p)
    /\ \E h \in wildcard \ ToSet(call[p].called) :
          call' = [call EXCEPT ![p] = [Called(p, h) EXCEPT !.size = Cardinality(wildcard)]]
    /\ UNCHANGED <<handlers, wildcard, history, events, tasks, ran>>

\* The publication ends: nothing is left to call, or the set has changed its
\* size, which raises.
EndPublish(p) ==
    /\ InWildcard(p)
    /\ ~SizeKept(p) \/ wildcard \cap call[p].present \subseteq ToSet(call[p].called)
    /\ call' = [call EXCEPT ![p].state = "done"]
    /\ UNCHANGED <<handlers, wildcard, history, events, tasks, ran>>

BusNext == \/ \E h \in Handlers : subscribe_async(h) \/ UnsubscribeAsync(h)
           \/ \E p \in Publishers : \/ publish_async(p) \/ CallListed(p)
                                    \/ CallWildcard(p) \/ EndPublish(p)
           \/ PublishTasks \/ RunTask

BusSpec == BusInit /\ [][BusNext]_busVars

-----------------------------------------------------------------------------
\* A publication during which nobody unsubscribed, nor joined the wildcard,
\* has called every handler that was there at its start, each once, whatever
\* other publications did meanwhile; and tasks run in the order of the events.
EveryHandlerOnce ==
    /\ \A p \in Publishers :
          call[p].state = "done" /\ ~call[p].disturbed
              => call[p].present \subseteq ToSet(call[p].called) /\ IsInjective(call[p].called)
    /\ \A h \in Handlers : \A i, j \in 1..Len(ran[h]) : i < j => ran[h][i] < ran[h][j]
=============================================================================
