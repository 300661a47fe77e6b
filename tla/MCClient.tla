------------------------------- MODULE MCClient -------------------------------
(* The gRPC client of an edge device: its detection stream, used by two        *)
(* threads and the callers of the control operations, and its event stream.    *)
(* The two share nothing here, so a behaviour is run by one of them while the  *)
(* other keeps an initial state of its own.                                    *)
EXTENDS MCGrpcClient, MCEventStream

VARIABLE events    \* the event stream runs, not the detection stream

clientVars == <<events, vars, MCvars>>

ClientInit ==
    /\ Init /\ MCInit
    /\ events \in BOOLEAN
    /\ events => ~server
    /\ ~events => stays /\ \A d \in Devices : ~edge[d].connected

Detections(A) == A /\ ~events /\ UNCHANGED <<events, MCvars>>
Events(A) == A /\ events /\ UNCHANGED <<events, vars>>

ClientNext == Detections(Next) \/ Events(MCNext)

\* The fairness of FairSpec and of MCSpec.
ClientSpec ==
    /\ ClientInit /\ [][ClientNext]_clientVars
    /\ \A t \in Threads : WF_clientVars(Detections(Continue(t)))
    /\ WF_clientVars(Events(Alone(Main(d1))))
    /\ WF_clientVars(Events(Alone(StartEventStream(d1))))
    /\ WF_clientVars(Events(Alone(Stopping(d1))))
    /\ WF_clientVars(Events(Alone(Reader(d1))))
    /\ WF_clientVars(Events(Alone(Handler(d1))))
===============================================================================
