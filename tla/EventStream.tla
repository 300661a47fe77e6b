----------------------------- MODULE EventStream -----------------------------
(***************************************************************************)
(* The bidirectional event stream between the edge devices and the central *)
(* server, and the way an edge process stops:                              *)
(*   - GRPCClient::StartEventStream and StopEventStream                    *)
(*     (rk3588-edge/src/communication/grpc_client.cpp) with the reader     *)
(*     thread that executes the commands it reads;                         *)
(*   - PipelineCoordinator's pipeline thread, and the main thread of       *)
(*     edge_main.cpp which stops it when a signal comes;                   *)
(*   - BidirectionalEventStream (mac-central/.../grpc_server.py), one      *)
(*     handler per device, all served from the one command queue of        *)
(*     CentralOrchestrator.                                                *)
(*                                                                         *)
(* Of the kinds of command only SHUTDOWN changes the state modelled here,  *)
(* "other" stands for the rest, with parameters that parse; no command     *)
(* says which device it is for.  An edge process opens its event stream    *)
(* once, so a stream that has ended is not reopened.  The events that the  *)
(* edge sends on the same stream change nothing here and are left out.     *)
(***************************************************************************)
EXTENDS Integers, Sequences, FiniteSets, SequencesExt

CONSTANTS Devices,
          MaxCommands,  \* bound: commands queued on the central server
          NoCommand

ASSUME EventStreamConstants ==
    /\ IsFiniteSet(Devices) /\ Devices # {}
    /\ MaxCommands \in Nat

VARIABLES
    edge,       \* per device, the state of its process: see Edge
    serverUp,   \* the central server runs
    handler,    \* per device, the server's end: serving, and what it has taken
    pending,    \* CentralOrchestrator._command_queue
    down,       \* per device, the commands in transit
    \* history
    sent,       \* how many commands were queued
    executed    \* per device, the commands its reader thread has executed

central == <<serverUp, handler, pending>>
history == <<sent, executed>>
streamVars == <<edge, central, down, history>>

Commands == [id : 1..MaxCommands, kind : {"SHUTDOWN", "other"}]

Edge == [signalled : BOOLEAN,   \* g_shutdown_requested
         main : {"waiting", "joining", "exited"},
         running : BOOLEAN,     \* running_
         pipeline : {"start", "loop", "deactivate", "writesDone", "join", "reset", "stopped"},
         connected : BOOLEAN,   \* GRPCClient::connected_
         active : BOOLEAN,      \* event_stream_active_
         stream : {"none", "open", "halfClosed", "broken"},   \* event_stream_
         reader : {"none", "check", "read", "handle", "leave", "exited"},
         command : Commands \cup {NoCommand}]

StreamInit ==
    /\ edge \in [Devices -> {[signalled |-> FALSE, main |-> "waiting", running |-> TRUE,
                              pipeline |-> "start", connected |-> c, active |-> FALSE,
                              stream |-> "none", reader |-> "none",
                              command |-> NoCommand] : c \in BOOLEAN}]
    /\ serverUp = TRUE
    /\ handler = [d \in Devices |-> [serving |-> FALSE, taken |-> NoCommand]]
    /\ pending = <<>>
    /\ down = [d \in Devices |-> <<>>]
    /\ sent = 0 /\ executed = [d \in Devices |-> <<>>]

-----------------------------------------------------------------------------
(* The main thread of the edge process. *)

Signal(d) ==
    /\ ~edge[d].signalled
    /\ edge' = [edge EXCEPT ![d].signalled = TRUE]
    /\ UNCHANGED <<central, down, history>>

\* Fault: the pipeline is joined without being told to stop.
MainStopUntold(d) ==
    /\ edge[d].main = "waiting" /\ edge[d].signalled
    /\ edge' = [edge EXCEPT ![d].main = "joining"]
    /\ UNCHANGED <<central, down, history>>

\* It waits for a signal only: not for the pipeline to stop by itself.
MainStop(d) ==
    /\ edge[d].main = "waiting" /\ edge[d].signalled
    /\ edge' = [edge EXCEPT ![d].main = "joining", ![d].running = FALSE]
    /\ UNCHANGED <<central, down, history>>

MainExit(d) ==
    /\ edge[d].main = "joining" /\ edge[d].pipeline = "stopped"
    /\ edge' = [edge EXCEPT ![d].main = "exited"]
    /\ UNCHANGED <<central, down, history>>

-----------------------------------------------------------------------------
(* The pipeline thread. *)

\* An input source that does not start ends the pipeline before the stream.
SourceFails(d) ==
    /\ edge[d].pipeline = "start"
    /\ edge' = [edge EXCEPT ![d].pipeline = "stopped", ![d].running = FALSE]
    /\ UNCHANGED <<central, down, history>>

StartEventStream(d) ==
    /\ edge[d].pipeline = "start"
    /\ \/ /\ ~edge[d].connected
          /\ edge' = [edge EXCEPT ![d].pipeline = "loop"]
          /\ UNCHANGED handler
       \/ /\ edge[d].connected
          /\ edge' = [edge EXCEPT ![d].pipeline = "loop", ![d].active = TRUE,
                                  ![d].reader = "check",
                                  ![d].stream = IF serverUp THEN "open" ELSE "broken"]
          /\ handler' = [handler EXCEPT ![d].serving = serverUp]
    /\ UNCHANGED <<serverUp, pending, down, history>>

\* A failed write of the detection stream ends the connection for good.
LoseConnection(d) ==
    /\ edge[d].pipeline = "loop" /\ edge[d].connected
    /\ edge' = [edge EXCEPT ![d].connected = FALSE]
    /\ UNCHANGED <<central, down, history>>

\* running_ is false; or the input has ended, or max_frames is reached.
LeaveLoop(d) ==
    /\ edge[d].pipeline = "loop"
    /\ edge' = [edge EXCEPT ![d].pipeline = "deactivate"]
    /\ UNCHANGED <<central, down, history>>

\* StopEventStream, step by step.
Deactivate(d) ==
    /\ edge[d].pipeline = "deactivate"
    /\ edge' = [edge EXCEPT ![d].pipeline = "writesDone", ![d].active = FALSE]
    /\ UNCHANGED <<central, down, history>>

WritesDone(d) ==
    /\ edge[d].pipeline = "writesDone"
    /\ edge' = [edge EXCEPT ![d].pipeline = "join",
                            ![d].stream = IF @ = "open" THEN "halfClosed" ELSE @]
    /\ UNCHANGED <<central, down, history>>

\* Fault: the reader thread is not waited for.
JoinNobody(d) ==
    /\ edge[d].pipeline = "join"
    /\ edge' = [edge EXCEPT ![d].pipeline = "reset"]
    /\ UNCHANGED <<central, down, history>>

Join(d) ==
    /\ edge[d].pipeline = "join" /\ edge[d].reader \in {"none", "exited"}
    /\ edge' = [edge EXCEPT ![d].pipeline = "reset"]
    /\ UNCHANGED <<central, down, history>>

\* Destroying the call and its context cancels an RPC that is still live.
Reset(d) ==
    /\ edge[d].pipeline = "reset"
    /\ edge' = [edge EXCEPT ![d].pipeline = "stopped", ![d].stream = "none",
                            ![d].running = FALSE]
    /\ down' = [down EXCEPT ![d] = <<>>]
    /\ UNCHANGED <<central, history>>

-----------------------------------------------------------------------------
(* The reader thread. *)

ReaderCheck(d) ==
    /\ edge[d].reader = "check"
    /\ edge' = [edge EXCEPT ![d].reader = IF edge[d].active THEN "read" ELSE "leave"]
    /\ UNCHANGED <<central, down, history>>

\* Read blocks until a message comes or the stream ends.
Read(d) ==
    /\ edge[d].reader = "read"
    /\ \/ /\ down[d] # <<>>
          /\ edge' = [edge EXCEPT ![d].reader = "handle", ![d].command = Head(down[d])]
          /\ down' = [down EXCEPT ![d] = Tail(@)]
       \/ /\ down[d] = <<>> /\ edge[d].stream = "broken"
          /\ edge' = [edge EXCEPT ![d].reader = "leave"]
          /\ UNCHANGED down
    /\ UNCHANGED <<central, history>>

HandleCommand(d) ==
    /\ edge[d].reader = "handle"
    /\ edge' = [edge EXCEPT ![d].reader = "check", ![d].command = NoCommand,
                            ![d].running = @ /\ edge[d].command.kind # "SHUTDOWN"]
    /\ executed' = [executed EXCEPT ![d] = Append(@, edge[d].command)]
    /\ UNCHANGED <<central, down, sent>>

ReaderLeave(d) ==
    /\ edge[d].reader = "leave"
    /\ edge' = [edge EXCEPT ![d].reader = "exited", ![d].active = FALSE]
    /\ UNCHANGED <<central, down, history>>

-----------------------------------------------------------------------------
(* The central server. *)

\* SendControlCommand, and the commands that follow from a VLM's guidance.
send_command(kind) ==
    /\ serverUp /\ sent < MaxCommands
    /\ sent' = sent + 1
    /\ pending' = Append(pending, [id |-> sent + 1, kind |-> kind])
    /\ UNCHANGED <<edge, serverUp, handler, down, executed>>

\* Faults: the command is looked at and left in the queue, or the time-out of
\* an empty queue is forwarded like a command.
TakePeek(d) ==
    /\ handler[d].serving /\ handler[d].taken = NoCommand /\ pending # <<>>
    /\ handler' = [handler EXCEPT ![d].taken = Head(pending)]
    /\ UNCHANGED <<edge, serverUp, pending, down, history>>
YieldTimeout(d) ==
    /\ handler[d].serving /\ Len(down[d]) < MaxCommands
    /\ down' = IF edge[d].stream \in {"open", "halfClosed"}
               THEN [down EXCEPT ![d] = Append(@, handler[d].taken)] ELSE down
    /\ handler' = [handler EXCEPT ![d].taken = NoCommand]
    /\ UNCHANGED <<edge, serverUp, pending, history>>

\* get_pending_command: whichever handler is first gets the command.  The
\* handler goes on after the client's WritesDone.
Take(d) ==
    /\ handler[d].serving /\ handler[d].taken = NoCommand /\ pending # <<>>
    /\ handler' = [handler EXCEPT ![d].taken = Head(pending)]
    /\ pending' = Tail(pending)
    /\ UNCHANGED <<edge, serverUp, down, history>>

Yield(d) ==
    /\ handler[d].serving /\ handler[d].taken # NoCommand
    /\ down' = IF edge[d].stream \in {"open", "halfClosed"}
               THEN [down EXCEPT ![d] = Append(@, handler[d].taken)] ELSE down
    /\ handler' = [handler EXCEPT ![d].taken = NoCommand]
    /\ UNCHANGED <<edge, serverUp, pending, history>>

\* The handler notices that the RPC is gone; what it had taken is gone too.
Cancelled(d) ==
    /\ handler[d].serving /\ edge[d].stream \in {"broken", "none"}
    /\ handler' = [handler EXCEPT ![d] = [serving |-> FALSE, taken |-> NoCommand]]
    /\ UNCHANGED <<edge, serverUp, pending, down, history>>

Cut(D) ==
    /\ edge' = [d \in Devices |-> IF d \in D /\ edge[d].stream # "none"
                                  THEN [edge[d] EXCEPT !.stream = "broken"] ELSE edge[d]]
    /\ down' = [d \in Devices |-> IF d \in D THEN <<>> ELSE down[d]]

\* External: the network breaks one RPC.
BreakStream(d) ==
    /\ edge[d].stream \in {"open", "halfClosed"}
    /\ Cut({d})
    /\ UNCHANGED <<central, history>>

\* The central server stops: every RPC ends, and the queue is not kept.
ServerStop ==
    /\ serverUp /\ serverUp' = FALSE
    /\ Cut(Devices)
    /\ handler' = [d \in Devices |-> [serving |-> FALSE, taken |-> NoCommand]]
    /\ pending' = <<>>
    /\ UNCHANGED history

-----------------------------------------------------------------------------
Main(d) == MainStop(d) \/ MainExit(d)
Stopping(d) == (~edge[d].running /\ LeaveLoop(d)) \/ Deactivate(d) \/ WritesDone(d)
                  \/ Join(d) \/ Reset(d)
Reader(d) == ReaderCheck(d) \/ Read(d) \/ HandleCommand(d) \/ ReaderLeave(d)

StreamNext ==
    \/ \E d \in Devices :
          \/ Signal(d) \/ Main(d)
          \/ SourceFails(d) \/ StartEventStream(d) \/ LoseConnection(d) \/ LeaveLoop(d)
          \/ Stopping(d) \/ Reader(d)
          \/ Take(d) \/ Yield(d) \/ Cancelled(d)
          \/ BreakStream(d)
    \/ \E kind \in {"SHUTDOWN", "other"} : send_command(kind)
    \/ ServerStop

StreamSpec == StreamInit /\ [][StreamNext]_streamVars

\* Threads are scheduled, frames do not block for ever (so a pipeline told to
\* stop leaves its loop), the handlers run.  Nobody has to send a signal or a
\* command, and neither the network nor the server has to fail.
StreamFairSpec ==
    /\ StreamSpec
    /\ \A d \in Devices : /\ WF_streamVars(Main(d)) /\ WF_streamVars(StartEventStream(d))
                          /\ WF_streamVars(Stopping(d)) /\ WF_streamVars(Reader(d))
                          /\ WF_streamVars(Take(d) \/ Yield(d) \/ Cancelled(d))

-----------------------------------------------------------------------------
StreamTypeOK ==
    /\ edge \in [Devices -> Edge]
    /\ serverUp \in BOOLEAN
    /\ handler \in [Devices -> [serving : BOOLEAN, taken : Commands \cup {NoCommand}]]
    /\ pending \in Seq(Commands)
    /\ down \in [Devices -> Seq(Commands)]
    /\ sent \in Nat /\ executed \in [Devices -> Seq(Commands)]

ReaderRuns(d) == edge[d].reader \in {"check", "read", "handle", "leave"}

\* event_stream_ is never destroyed under the reader thread that uses it.
StreamOutlivesReader == \A d \in Devices : ReaderRuns(d) => edge[d].stream # "none"

\* A command is executed once, by one device, and each device executes its
\* commands in the order they were queued.
ExecutedOnceInOrder ==
    /\ \A d \in Devices : \A i, j \in DOMAIN executed[d] :
          i < j => executed[d][i].id < executed[d][j].id
    /\ \A d, e \in Devices : d # e =>
          {c.id : c \in ToSet(executed[d])} \cap {c.id : c \in ToSet(executed[e])} = {}

\* Once the pipeline has stopped no command is executed: the callback, which
\* refers to the coordinator, is not called again.
QuietOnceStopped ==
    [][\A d \in Devices : edge[d].pipeline = "stopped" => executed'[d] = executed[d]]_streamVars

\* A process that gets its signal exits, if the central server has stopped or
\* stops later.
ExitsOnceServerStops ==
    \A d \in Devices : edge[d].signalled /\ ~serverUp ~> edge[d].main = "exited"

\* "Received signal ..., shutting down..." (edge_main.cpp:16), whatever the
\* central server does.
SignalStopsProcess == \A d \in Devices : edge[d].signalled ~> edge[d].main = "exited"
=============================================================================
