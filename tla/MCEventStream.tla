----------------------------- MODULE MCEventStream -----------------------------
(* One edge device with its life from start to exit, or two devices served    *)
(* from the same command queue.  Which of the two is chosen at the beginning. *)
EXTENDS EventStream, TLC

CONSTANTS d1, d2,
          Stays   \* whether the devices stay in their loops: a subset of BOOLEAN

VARIABLE stays    \* two devices, until the server stops; or d1 alone

MCvars == <<streamVars, stays>>
TwoDevices == {d1, d2}

MCInit == StreamInit /\ stays \in Stays /\ (~stays => ~edge[d2].connected)

Commanding == (\E kind \in {"SHUTDOWN", "other"} : send_command(kind)) \/ ServerStop
Handler(d) == Take(d) \/ Yield(d) \/ Cancelled(d)

\* What can happen to the commands ...
Delivery == \/ \E d \in Devices : StartEventStream(d) \/ Reader(d) \/ Handler(d) \/ BreakStream(d)
            \/ Commanding

\* ... and to a process.
Life(d) == \/ Signal(d) \/ Main(d)
           \/ SourceFails(d) \/ StartEventStream(d) \/ LoseConnection(d) \/ LeaveLoop(d)
           \/ Stopping(d) \/ Reader(d) \/ Handler(d) \/ BreakStream(d)
           \/ Commanding

MCNext == UNCHANGED stays /\ ((stays /\ Delivery) \/ (~stays /\ Life(d1)))

\* The fairness of StreamFairSpec for the process that lives its whole life.
Alone(A) == ~stays /\ UNCHANGED stays /\ A
MCSpec == /\ MCInit /\ [][MCNext]_MCvars
          /\ WF_MCvars(Alone(Main(d1))) /\ WF_MCvars(Alone(StartEventStream(d1)))
          /\ WF_MCvars(Alone(Stopping(d1))) /\ WF_MCvars(Alone(Reader(d1)))
          /\ WF_MCvars(Alone(Handler(d1)))
=============================================================================
