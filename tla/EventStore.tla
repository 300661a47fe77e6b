------------------------------ MODULE EventStore ------------------------------
(***************************************************************************)
(* The way of an event on the central server: DetectionProcessor.process   *)
(* (mac-central/src/pipeline/detection_processor.py), EventBus.publish     *)
(* (core/event_bus.py) and the SQLite tables behind DetectionStore         *)
(* (storage/, observability/retry.py).                                     *)
(*                                                                         *)
(* Publishing does not await anything: recording, its retries and handing  *)
(* the event to the listeners are one action.  What another process that   *)
(* holds the database does to the retries is left open.  An INSERT opens a *)
(* transaction; a COMMIT that finds the database locked raises and leaves  *)
(* the transaction open, with its rows.                                    *)
(***************************************************************************)
EXTENDS Integers, Sequences, SequencesExt

CONSTANTS Retries,      \* max_retries of retry_sync
          RecentMax,    \* maxlen of _recent_events
          ListenerMax,  \* maxsize of a listener's queue
          Listeners,
          MaxEvents     \* bound: events published

ASSUME StoreConstants == Retries \in Nat /\ RecentMax \in Nat \ {0}

VARIABLES
    published,  \* how many events there have been; they are numbered
    recent,     \* _recent_events
    inbox,      \* the queue of each subscribed listener
    conn,       \* the store is open
    rows,       \* the committed rows of the table detections
    opened,     \* the rows of the transaction that is open
    points,     \* events with a time-series point inserted
    stored,     \* history: events counted as stored
    since       \* history: the first event each listener could see

storeVars == <<published, recent, inbox, conn, rows, opened, points, stored, since>>

StoreInit ==
    /\ published = 0 /\ recent = <<>> /\ inbox = <<>> /\ conn = TRUE
    /\ rows = <<>> /\ opened = <<>> /\ points = {} /\ stored = {} /\ since = <<>>

Copies(e, n) == [i \in 1..n |-> e]

\* Fault: the COMMIT that succeeds is left out.
RecordedUncommitted(e, blocked, done) ==
    IF done THEN rows' = rows /\ opened' = opened \o Copies(e, blocked + 1)
            ELSE rows' = rows /\ opened' = opened \o Copies(e, blocked)

\* _detection_repo.record: `blocked' COMMITs fail, each after an INSERT of its
\* own; an attempt whose INSERT fails leaves nothing behind.
Recorded(e, blocked, done) ==
    IF done THEN rows' = rows \o opened \o Copies(e, blocked + 1) /\ opened' = <<>>
            ELSE rows' = rows /\ opened' = opened \o Copies(e, blocked)

\* A listener whose queue is full misses the event.
Delivered(e) ==
    inbox' = [l \in DOMAIN inbox |-> IF Len(inbox[l]) < ListenerMax
                                     THEN Append(inbox[l], e) ELSE inbox[l]]

Remember(e) == recent' = IF Len(recent) < RecentMax THEN Append(recent, e)
                         ELSE Append(Tail(recent), e)

\* publish: the time-series point of a recorded event is written after it (and
\* may fail alone); the listeners are told whatever came of the database.
publish ==
    LET e == published + 1 IN
    /\ published < MaxEvents /\ published' = e
    /\ Remember(e) /\ Delivered(e)
    /\ \/ /\ conn
          /\ \E blocked \in 0..Retries :
                /\ Recorded(e, blocked, TRUE) /\ stored' = stored \cup {e}
                /\ points' \in {points, points \cup {e}}
       \/ /\ conn
          /\ \E blocked \in 0..(Retries + 1) :
                Recorded(e, blocked, FALSE) /\ UNCHANGED <<points, stored>>
       \/ /\ ~conn /\ UNCHANGED <<rows, opened, points, stored>>
    /\ UNCHANGED <<conn, since>>

subscribe(l) ==
    /\ l \notin DOMAIN inbox
    /\ inbox' = [m \in DOMAIN inbox \cup {l} |-> IF m = l THEN <<>> ELSE inbox[m]]
    /\ since' = [m \in DOMAIN inbox \cup {l} |-> IF m = l THEN published + 1 ELSE since[m]]
    /\ UNCHANGED <<published, recent, conn, rows, opened, points, stored>>

unsubscribe(l) ==
    /\ l \in DOMAIN inbox
    /\ inbox' = [m \in DOMAIN inbox \ {l} |-> inbox[m]]
    /\ since' = [m \in DOMAIN inbox \ {l} |-> since[m]]
    /\ UNCHANGED <<published, recent, conn, rows, opened, points, stored>>

Consume(l) ==
    /\ l \in DOMAIN inbox /\ inbox[l] # <<>>
    /\ inbox' = [inbox EXCEPT ![l] = Tail(@)]
    /\ UNCHANGED <<published, recent, conn, rows, opened, points, stored, since>>

\* Another writer of the connection, a turn of a conversation, commits what is
\* open with its own row.
CommitOther ==
    /\ conn /\ opened # <<>> /\ rows' = rows \o opened /\ opened' = <<>>
    /\ UNCHANGED <<published, recent, inbox, conn, points, stored, since>>

\* close rolls an open transaction back.
close ==
    /\ conn /\ conn' = FALSE /\ opened' = <<>>
    /\ UNCHANGED <<published, recent, inbox, rows, points, stored, since>>

StoreNext == \/ publish \/ CommitOther \/ close
             \/ \E l \in Listeners : subscribe(l) \/ unsubscribe(l) \/ Consume(l)

StoreSpec == StoreInit /\ [][StoreNext]_storeVars

-----------------------------------------------------------------------------
Ascending(s) == \A i \in 1..Len(s), j \in 1..Len(s) : i <= j => s[i] <= s[j]

\* Recent events, table and listeners agree on one order, retries and open
\* transactions notwithstanding; the buffer holds the newest events, a listener
\* nothing from before it subscribed, and what was counted as stored is stored.
StoreFollowsEvents ==
    /\ Ascending(rows \o opened)
    /\ recent = [i \in 1..Len(recent) |-> published - Len(recent) + i]
    /\ \A l \in DOMAIN inbox : /\ IsInjective(inbox[l]) /\ Ascending(inbox[l])
                               /\ inbox[l] # <<>> => inbox[l][1] >= since[l]
    /\ stored \subseteq ToSet(rows) /\ points \subseteq stored
=============================================================================
