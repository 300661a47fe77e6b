----------------------------- MODULE GrpcClient -----------------------------
(***************************************************************************)
(* The edge's gRPC client (rk3588-edge/src/communication/grpc_client.cpp): *)
(* StreamDetection with its reconnection, the persistent client stream and *)
(* the offline cache queue, called by several threads while the network    *)
(* and the central server come and go.                                     *)
(*                                                                         *)
(* What a thread does between taking and releasing mu_ is one action; the  *)
(* points where the code gives mu_ up (the backoff sleep, the drain loop,  *)
(* every Enqueue and Dequeue on the cache queue) are the values of pc.     *)
(* The cache queue is the abstract one of LossyBuffer, bounded by its      *)
(* number of entries.  The gRPC library is modelled from its use here: a   *)
(* Write that returns true hands the message to the transport, and what is *)
(* in transit is lost when the stream breaks.                              *)
(***************************************************************************)
EXTENDS Integers, Sequences, FiniteSets, SequencesExt

CONSTANTS Threads,      \* threads that call StreamDetection
          Controls,     \* calls other threads may make: a subset of
                        \* {"Connect", "Disconnect", "FlushStream"}
          CorruptResults,   \* results whose queued bytes do not parse back
          CacheEntries,   \* capacity of the cache queue
          MaxAttempts,  \* Config::max_reconnect_attempts
          Flaky,        \* may a server that is up still miss a deadline?
          MaxResults,   \* bound: calls of StreamDetection
          MaxOutages,   \* bound: broken streams and server crashes
          NoResult

ASSUME ClientConstants ==
    /\ IsFiniteSet(Threads) /\ Threads # {}
    /\ Controls \subseteq {"Connect", "Disconnect", "FlushStream"}
    /\ CacheEntries \in Nat \ {0}
    /\ MaxAttempts \in Nat
    /\ Flaky \in BOOLEAN
    /\ MaxResults \in Nat /\ MaxOutages \in Nat
    /\ NoResult \notin Nat

VARIABLES
    connected,  \* connected_
    stub,       \* stub_ and channel_ are set
    attempts,   \* reconnect_attempts_
    stream,     \* "closed", or stream_open_ with an RPC that is "open" or "broken"
    queue,      \* the cache queue
    pc, cur,    \* per thread: where it is in StreamDetection, and with what
    held,       \* per thread: the queued result it has dequeued
    server,     \* external: the central server is up
    wire,       \* external: written, not yet read by the server
    received,   \* external: what the server has read
    \* history
    accepted,   \* how many results StreamDetection was called with
    excused,    \* results evicted, unparsable, or cut off by a broken stream
    outages

client == <<connected, stub, attempts, stream>>
network == <<server, wire, received, outages>>
vars == <<client, queue, pc, cur, held, network, accepted, excused>>

Labels == {"idle", "backoff", "buffer", "drain", "drainWrite", "resume",
           "takeOne", "writeOne", "requeue"}
Results == 1..MaxResults

Goto(t, label) == pc' = [pc EXCEPT ![t] = label]

Init ==
    /\ connected = FALSE /\ stub = FALSE /\ attempts = 0 /\ stream = "closed"
    /\ queue = <<>>
    /\ pc = [t \in Threads |-> "idle"]
    /\ cur = [t \in Threads |-> NoResult] /\ held = [t \in Threads |-> NoResult]
    /\ server \in BOOLEAN
    /\ wire = <<>> /\ received = {}
    /\ accepted = 0 /\ excused = {} /\ outages = 0

-----------------------------------------------------------------------------
(* The cache queue: a put on a full queue evicts the oldest entry. *)

Enqueue(x) ==
    IF Len(queue) < CacheEntries
    THEN queue' = Append(queue, x) /\ UNCHANGED excused
    ELSE queue' = Append(Tail(queue), x) /\ excused' = excused \cup {Head(queue)}

\* Dequeue removes the front entry; `got' tells whether it could be parsed.
DequeueGot(got) == queue # <<>> /\ got = (Head(queue) \notin CorruptResults)

(* The persistent stream.  Opening it on a reachable server gives a live     *)
(* RPC, otherwise one whose first Write fails.                               *)

OpenedStream == IF stream # "closed" THEN stream
                ELSE IF server THEN "open" ELSE "broken"
CanOpen == stream # "closed" \/ stub

\* WritesDone and Finish wait for the server to read what is in transit.
FinishStream ==
    /\ stream' = "closed"
    /\ wire' = <<>>
    /\ received' = received \cup ToSet(wire)

-----------------------------------------------------------------------------
(* StreamDetection *)

\* Fault: a result that could not be written is not buffered.
SendBlockDropping(t, x) ==
    \/ /\ ~CanOpen
       /\ connected' = FALSE
       /\ Goto(t, "idle")
       /\ UNCHANGED <<stub, attempts, stream, wire>>
    \/ /\ CanOpen /\ OpenedStream = "open"
       /\ stream' = "open"
       /\ wire' = Append(wire, x)
       /\ Goto(t, IF queue = <<>> THEN "idle" ELSE "takeOne")
       /\ UNCHANGED <<connected, stub, attempts>>
    \/ /\ CanOpen /\ OpenedStream = "broken"
       /\ stream' = "closed"
       /\ connected' = FALSE
       /\ Goto(t, "idle")
       /\ UNCHANGED <<stub, attempts, wire>>

\* The write of the caller's own result, from line 218 to the end of the
\* critical section.
SendBlock(t, x) ==
    \/ /\ ~CanOpen
       /\ connected' = FALSE
       /\ Goto(t, "buffer")
       /\ UNCHANGED <<stub, attempts, stream, wire>>
    \/ /\ CanOpen /\ OpenedStream = "open"
       /\ stream' = "open"
       /\ wire' = Append(wire, x)
       /\ Goto(t, IF queue = <<>> THEN "idle" ELSE "takeOne")
       /\ UNCHANGED <<connected, stub, attempts>>
    \/ /\ CanOpen /\ OpenedStream = "broken"
       /\ stream' = "closed"
       /\ connected' = FALSE
       /\ Goto(t, "buffer")
       /\ UNCHANGED <<stub, attempts, wire>>

\* The call is made with mu_ free; a connected client sends at once, another
\* one buffers when its attempts are used up and else sleeps before trying.
CallConnected(t, x) == connected /\ SendBlock(t, x)

CallExhausted(t) ==
    /\ ~connected /\ attempts >= MaxAttempts
    /\ Goto(t, "buffer")
    /\ UNCHANGED <<client, wire>>

\* Fault: the limit of attempts is not looked at.
CallBackoffUnlimited(t) ==
    /\ ~connected
    /\ Goto(t, "backoff")
    /\ UNCHANGED <<client, wire>>

CallBackoff(t) ==
    /\ ~connected /\ attempts < MaxAttempts
    /\ Goto(t, "backoff")
    /\ UNCHANGED <<client, wire>>

StreamDetection(t) ==
    /\ pc[t] = "idle"
    /\ accepted < MaxResults
    /\ accepted' = accepted + 1
    /\ cur' = [cur EXCEPT ![t] = accepted + 1]
    /\ CallConnected(t, accepted + 1) \/ CallExhausted(t) \/ CallBackoff(t)
    /\ UNCHANGED <<queue, held, server, received, excused, outages>>

\* Fault: after a reconnection the cache queue is left as it is.
ReconnectUndrained(t) ==
    /\ pc[t] = "backoff"
    /\ stub' = TRUE
    /\ \/ /\ server
          /\ connected' = TRUE /\ attempts' = 0
          /\ Goto(t, "resume")
       \/ /\ ~server \/ Flaky
          /\ attempts' = attempts + 1
          /\ Goto(t, "buffer")
          /\ UNCHANGED connected
    /\ UNCHANGED <<stream, queue, cur, held, network, accepted, excused>>

\* After the sleep the code neither looks at connected_ again nor at what
\* other threads have done meanwhile: it makes a new channel regardless.
Reconnect(t) ==
    /\ pc[t] = "backoff"
    /\ stub' = TRUE
    /\ \/ /\ server
          /\ connected' = TRUE /\ attempts' = 0
          /\ Goto(t, "drain")
       \/ /\ ~server \/ Flaky
          /\ attempts' = attempts + 1
          /\ Goto(t, "buffer")
          /\ UNCHANGED connected
    /\ UNCHANGED <<stream, queue, cur, held, network, accepted, excused>>

Buffer(t) ==
    /\ pc[t] = "buffer"
    /\ Enqueue(cur[t])
    /\ Goto(t, "idle")
    /\ UNCHANGED <<client, cur, held, network, accepted>>

\* Fault: the front entry is copied, not removed.
DrainPeek(t) ==
    /\ pc[t] = "drain"
    /\ IF queue = <<>>
       THEN Goto(t, "resume") /\ UNCHANGED held
       ELSE Goto(t, "drainWrite") /\ held' = [held EXCEPT ![t] = Head(queue)]
    /\ UNCHANGED <<client, queue, cur, network, accepted, excused>>

\* DrainQueue: Dequeue without mu_, then Write under it.  It stops when there
\* is nothing to dequeue, or when the entry did not parse and is gone.
DrainTake(t) ==
    /\ pc[t] = "drain"
    /\ \/ /\ DequeueGot(TRUE)
          /\ held' = [held EXCEPT ![t] = Head(queue)]
          /\ queue' = Tail(queue)
          /\ Goto(t, "drainWrite")
          /\ UNCHANGED excused
       \/ /\ DequeueGot(FALSE)
          /\ queue' = Tail(queue)
          /\ excused' = excused \cup {Head(queue)}
          /\ Goto(t, "resume")
          /\ UNCHANGED held
       \/ /\ queue = <<>>
          /\ Goto(t, "resume")
          /\ UNCHANGED <<queue, held, excused>>
    /\ UNCHANGED <<client, cur, network, accepted>>

\* Faults: the result is re-queued after it was moved from, or the loop goes
\* on after a failed write.
DrainWriteMoved(t) ==
    /\ pc[t] = "drainWrite"
    /\ held' = [held EXCEPT ![t] = NoResult]
    /\ stream' = IF CanOpen THEN OpenedStream ELSE stream
    /\ \/ /\ stream' = "open"
          /\ wire' = Append(wire, held[t])
          /\ Goto(t, "drain")
          /\ UNCHANGED <<queue, excused>>
       \/ /\ stream' # "open"
          /\ Enqueue(held'[t])
          /\ Goto(t, "resume")
          /\ UNCHANGED wire
    /\ UNCHANGED <<connected, stub, attempts, cur, server, received, accepted, outages>>
DrainWriteNoBreak(t) ==
    /\ pc[t] = "drainWrite"
    /\ held' = [held EXCEPT ![t] = NoResult]
    /\ stream' = IF CanOpen THEN OpenedStream ELSE stream
    /\ Goto(t, "drain")
    /\ \/ /\ stream' = "open"
          /\ wire' = Append(wire, held[t])
          /\ UNCHANGED <<queue, excused>>
       \/ /\ stream' # "open"
          /\ Enqueue(held[t])
          /\ UNCHANGED wire
    /\ UNCHANGED <<connected, stub, attempts, cur, server, received, accepted, outages>>

\* A failed Write leaves the stream as it is: the next Write will notice.
DrainWrite(t) ==
    /\ pc[t] = "drainWrite"
    /\ held' = [held EXCEPT ![t] = NoResult]
    /\ stream' = IF CanOpen THEN OpenedStream ELSE stream
    /\ \/ /\ stream' = "open"
          /\ wire' = Append(wire, held[t])
          /\ Goto(t, "drain")
          /\ UNCHANGED <<queue, excused>>
       \/ /\ stream' # "open"
          /\ Enqueue(held[t])
          /\ Goto(t, "resume")
          /\ UNCHANGED wire
    /\ UNCHANGED <<connected, stub, attempts, cur, server, received, accepted, outages>>

Resume(t) ==
    /\ pc[t] = "resume"
    /\ SendBlock(t, cur[t])
    /\ UNCHANGED <<queue, cur, held, server, received, accepted, excused, outages>>

\* After a successful Write one queued result is sent along.
TakeOne(t) ==
    /\ pc[t] = "takeOne"
    /\ \/ /\ DequeueGot(TRUE)
          /\ held' = [held EXCEPT ![t] = Head(queue)]
          /\ queue' = Tail(queue)
          /\ Goto(t, "writeOne")
          /\ UNCHANGED excused
       \/ /\ DequeueGot(FALSE)
          /\ queue' = Tail(queue)
          /\ excused' = excused \cup {Head(queue)}
          /\ Goto(t, "idle")
          /\ UNCHANGED held
       \/ /\ queue = <<>>
          /\ Goto(t, "idle")
          /\ UNCHANGED <<queue, held, excused>>
    /\ UNCHANGED <<client, cur, network, accepted>>

\* If the stream was closed meanwhile, the dequeued result is dropped.
WriteOne(t) ==
    /\ pc[t] = "writeOne"
    /\ \/ /\ stream = "open"
          /\ wire' = Append(wire, held[t])
          /\ held' = [held EXCEPT ![t] = NoResult]
          /\ Goto(t, "idle")
       \/ /\ stream = "broken"
          /\ Goto(t, "requeue")
          /\ UNCHANGED <<wire, held>>
       \/ /\ stream = "closed"
          /\ held' = [held EXCEPT ![t] = NoResult]
          /\ Goto(t, "idle")
          /\ UNCHANGED wire
    /\ UNCHANGED <<client, queue, cur, server, received, accepted, excused, outages>>

Requeue(t) ==
    /\ pc[t] = "requeue"
    /\ Enqueue(held[t])
    /\ held' = [held EXCEPT ![t] = NoResult]
    /\ Goto(t, "idle")
    /\ UNCHANGED <<client, cur, network, accepted>>

-----------------------------------------------------------------------------
(* The other calls, made by threads that are not streaming. *)

TryConnect ==
    /\ ~connected
    /\ stub' = TRUE
    /\ \/ server /\ connected' = TRUE /\ attempts' = 0
       \/ (~server \/ Flaky) /\ UNCHANGED <<connected, attempts>>
    /\ UNCHANGED <<stream, queue, pc, cur, held, network, accepted, excused>>

Connect == "Connect" \in Controls /\ TryConnect

\* Fault: the channel goes away under an open stream.
DisconnectOpenStream ==
    /\ "Disconnect" \in Controls
    /\ connected' = FALSE
    /\ stub' = (stub /\ ~connected)
    /\ UNCHANGED <<stream, wire, received, attempts, queue, pc, cur, held, server,
                   outages, accepted, excused>>

Disconnect ==
    /\ "Disconnect" \in Controls
    /\ IF stream = "closed" THEN UNCHANGED <<stream, wire, received>> ELSE FinishStream
    /\ connected' = FALSE
    /\ stub' = (stub /\ ~connected)
    /\ UNCHANGED <<attempts, queue, pc, cur, held, server, outages, accepted, excused>>

\* The status of a broken RPC is an error, and the client counts as
\* disconnected after it.
FlushStream ==
    /\ stream # "closed"
    /\ FinishStream
    /\ connected' = (connected /\ stream = "open")
    /\ UNCHANGED <<stub, attempts, queue, pc, cur, held, server, outages, accepted, excused>>

\* The streaming thread flushes between two calls (PipelineCoordinator does
\* when its loop ends); another thread may at any time.
OwnFlush(t) == pc[t] = "idle" /\ FlushStream
OtherFlush == "FlushStream" \in Controls /\ FlushStream

-----------------------------------------------------------------------------
(* External: the network and the central server. *)

Deliver ==
    /\ wire # <<>>
    /\ received' = received \cup {Head(wire)}
    /\ wire' = Tail(wire)
    /\ UNCHANGED <<client, queue, pc, cur, held, server, outages, accepted, excused>>

CutStream ==
    /\ stream' = IF stream = "open" THEN "broken" ELSE stream
    /\ wire' = <<>>
    /\ excused' = excused \cup ToSet(wire)

Break ==
    /\ outages < MaxOutages /\ outages' = outages + 1
    /\ stream = "open"
    /\ CutStream
    /\ UNCHANGED <<connected, stub, attempts, queue, pc, cur, held, server,
                   received, accepted>>

ServerDown ==
    /\ outages < MaxOutages /\ outages' = outages + 1
    /\ server /\ server' = FALSE
    /\ CutStream
    /\ UNCHANGED <<connected, stub, attempts, queue, pc, cur, held, received, accepted>>

ServerUp ==
    /\ ~server /\ server' = TRUE
    /\ UNCHANGED <<client, queue, pc, cur, held, wire, received, outages, accepted, excused>>

-----------------------------------------------------------------------------
\* The steps of a call that is under way.
Continue(t) == \/ Reconnect(t) \/ Buffer(t)
               \/ DrainTake(t) \/ DrainWrite(t) \/ Resume(t)
               \/ TakeOne(t) \/ WriteOne(t) \/ Requeue(t)

Network == Deliver \/ Break \/ ServerDown \/ ServerUp

Next == \/ \E t \in Threads : StreamDetection(t) \/ Continue(t) \/ OwnFlush(t)
        \/ Connect \/ Disconnect \/ OtherFlush
        \/ Network

Spec == Init /\ [][Next]_vars

\* A thread inside StreamDetection is eventually scheduled.
FairSpec == Spec /\ \A t \in Threads : WF_vars(Continue(t))

-----------------------------------------------------------------------------
TypeOK ==
    /\ connected \in BOOLEAN /\ stub \in BOOLEAN /\ server \in BOOLEAN
    /\ attempts \in Nat /\ accepted \in Nat /\ outages \in Nat
    /\ stream \in {"closed", "open", "broken"}
    /\ queue \in Seq(Nat) /\ wire \in Seq(Nat)
    /\ pc \in [Threads -> Labels]
    /\ cur \in [Threads -> Nat \cup {NoResult}]
    /\ held \in [Threads -> Nat \cup {NoResult}]
    /\ received \subseteq Nat /\ excused \subseteq Nat

\* The result a thread has in hand and still has to send or to buffer.
Carrying(t) == pc[t] \in {"backoff", "buffer", "drain", "drainWrite", "resume"}
InHand == {cur[t] : t \in {u \in Threads : Carrying(u)}}
            \cup ({held[t] : t \in Threads} \ {NoResult})

\* Every result handed to StreamDetection is on its way, was received, or is
\* accounted for: evicted, unparsable, or in transit when the stream broke.
NoSilentLoss ==
    1..accepted \subseteq InHand \cup ToSet(queue) \cup ToSet(wire)
                              \cup received \cup excused

\* Re-queueing after a failed write never duplicates: a result is in one
\* place, and the server never gets it twice.
NoDuplicate ==
    /\ IsInjective(queue) /\ IsInjective(wire)
    /\ ToSet(queue) \cap (ToSet(wire) \cup received \cup InHand) = {}
    /\ ToSet(wire) \cap (received \cup InHand) = {}
    /\ received \cap InHand = {}

\* An open stream, and the claim to be connected, have a channel under them,
\* whoever disconnects while others reconnect or drain.
ChannelUnderStream == connected \/ stream # "closed" => stub

\* Each thread may still fail once after the last check of the limit.
AttemptsBound == attempts < MaxAttempts + Cardinality(Threads)

\* "auto-drains on reconnect" (CHANGELOG.md:49): a client that is streaming
\* and at rest has nothing left in its cache queue.
DrainedWhenStreaming ==
    connected /\ stream = "open" /\ (\A t \in Threads : pc[t] = "idle")
        => queue = <<>>

\* Every call of StreamDetection returns, however the connection fails.
CallReturns == \A t \in Threads : pc[t] # "idle" ~> pc[t] = "idle"
=============================================================================
