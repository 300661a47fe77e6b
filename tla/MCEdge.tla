-------------------------------- MODULE MCEdge --------------------------------
(* The edge device: its frame loop, its cache queue, and the way of its        *)
(* detections to the server, each by itself.  Every behaviour is run by one of *)
(* the three while the others keep an initial state of theirs.                 *)
EXTENDS MCDetectionQueue, MCEdgeUplink, FrameLoop

VARIABLE part    \* the component that runs

edgeVars == <<part, queueVars, uvars, loopVars>>

EdgeInit ==
    /\ part \in {"queue", "uplink", "loop"}
    /\ QueueInit /\ UInit /\ LoopInit
    /\ part # "uplink" => caller = "other" /\ ~server
    /\ part # "loop" => sources = 1 /\ ~multi /\ ~healthy

Alone(p) ==
    /\ part = p /\ UNCHANGED part
    /\ p # "queue" => UNCHANGED queueVars
    /\ p # "uplink" => UNCHANGED uvars
    /\ p # "loop" => UNCHANGED loopVars

EdgeNext ==
    \/ Alone("queue") /\ QueueNext
    \/ Alone("uplink") /\ UNext
    \/ Alone("loop") /\ LoopNext

\* The fairness of QueueFairSpec, and LoopFairness.
EdgeSpec ==
    /\ EdgeInit /\ [][EdgeNext]_edgeVars
    /\ WF_edgeVars(Alone("queue") /\ EvictOldest)
    /\ WF_edgeVars(Alone("queue") /\ PushBack)
    /\ WF_edgeVars(Alone("loop") /\ Capture)
    /\ WF_edgeVars(Alone("loop") /\ LeaveLoopAtTop)
    /\ SF_edgeVars(Alone("loop") /\ BeginInference)
    /\ WF_edgeVars(Alone("loop") /\ InferenceDone)
    /\ WF_edgeVars(Alone("loop") /\ \E novel \in BOOLEAN : Output(novel))
    /\ WF_edgeVars(Alone("loop") /\ ReloadInitialize)
===============================================================================
