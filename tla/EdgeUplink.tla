----------------------------- MODULE EdgeUplink -----------------------------
(***************************************************************************)
(* The way of a detection from the edge pipeline to the central server:    *)
(* PipelineCoordinator (rk3588-edge/src/app/pipeline_coordinator.cpp)      *)
(* driving GrpcClient from its one pipeline thread.                        *)
(*                                                                         *)
(* The coordinator connects once, in Initialize, and goes on in "local     *)
(* mode" if that fails.  Its loop calls StreamDetection only for a frame   *)
(* it finds the client connected on; on any other frame it does nothing,   *)
(* which here is a stuttering step.  When the loop ends it flushes the     *)
(* stream.                                                                 *)
(*                                                                         *)
(* Another caller of the client, such as its tests, does not look at       *)
(* IsConnected first, so that the reconnection is reached, and may flush   *)
(* between two calls.  Callers says which of the two a run is about.       *)
(***************************************************************************)
EXTENDS GrpcClient

CONSTANT Callers     \* a subset of {"coordinator", "other"}

VARIABLES phase,     \* "init", "running", "flushing" or "stopped"
          caller     \* who streams, from the beginning to the end

uvars == <<vars, phase, caller>>

UInit == Init /\ phase = "init" /\ caller \in Callers

\* Connect, from Initialize; the pipeline runs whatever comes of it.
Initialize ==
    /\ phase = "init"
    /\ phase' = "running"
    /\ TryConnect
    /\ UNCHANGED caller

\* Fault (or repair): every detection is handed to the client.
SendAlways(t) ==
    /\ phase = "running"
    /\ StreamDetection(t)
    /\ UNCHANGED <<phase, caller>>

\* A frame with a novel detection, due according to frame_skip_interval.
Send(t) ==
    /\ phase = "running"
    /\ caller = "coordinator" => connected
    /\ StreamDetection(t)
    /\ UNCHANGED <<phase, caller>>

InCall(t) == Continue(t) /\ UNCHANGED <<phase, caller>>

Flush(t) == caller = "other" /\ OwnFlush(t) /\ UNCHANGED <<phase, caller>>

\* running_ is false, the input ended, or max_frames is reached.
LeaveLoop ==
    /\ phase = "running"
    /\ \A t \in Threads : pc[t] = "idle"
    /\ phase' = "flushing"
    /\ UNCHANGED <<vars, caller>>

Stop ==
    /\ phase = "flushing"
    /\ phase' = "stopped"
    /\ FlushStream \/ (stream = "closed" /\ UNCHANGED vars)
    /\ UNCHANGED caller

Outside == Network /\ UNCHANGED <<phase, caller>>

UNext == \/ Initialize \/ LeaveLoop \/ Stop \/ Outside
         \/ \E t \in Threads : Send(t) \/ InCall(t) \/ Flush(t)

USpec == UInit /\ [][UNext]_uvars

\* The pipeline thread is scheduled, frames with detections keep coming, and
\* the server comes back after every crash.
UFairSpec == /\ USpec
             /\ \A t \in Threads : WF_uvars(Send(t)) /\ WF_uvars(InCall(t))
             /\ WF_uvars(ServerUp /\ UNCHANGED <<phase, caller>>)

-----------------------------------------------------------------------------
\* Local mode is final: a coordinator that has lost its connection, or never had
\* one, does not get it back, because the reconnection is inside the call it
\* no longer makes.
LocalModeIsFinal ==
    [][caller = "coordinator" /\ phase # "init" /\ ~connected => ~connected']_uvars

\* "Edge offline detection cache queue - buffers during gRPC disconnects,
\* auto-drains on reconnect" (CHANGELOG.md:49).
BufferDrains == queue # <<>> ~> (queue = <<>> \/ phase # "running")
=============================================================================
