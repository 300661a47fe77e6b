------------------------------ MODULE FrameLoop ------------------------------
(***************************************************************************)
(* The loop of the edge pipeline: PipelineCoordinator::Impl::Run           *)
(* (rk3588-edge/src/app/pipeline_coordinator.cpp) on its own thread, and   *)
(* the commands that change the engine, executed by the reader thread of   *)
(* the event stream under the same engine_mutex_.                          *)
(*                                                                         *)
(* The sources are V4L2 cameras (src/hal/v4l2_camera.cpp): a frame is one  *)
(* of a few buffers mapped from the driver, lent to the loop until         *)
(* ReleaseFrame queues it again.  With several models (multi) the loop     *)
(* uses the active slot of MultiModelManager, otherwise engine_.           *)
(* What the loop then does with the detections is in Tracking and          *)
(* EdgeUplink.                                                             *)
(***************************************************************************)
EXTENDS VideoRecorder, FiniteSets

CONSTANTS MaxSources,    \* bound: input sources
          Buffers,       \* the mapped buffers of one camera
          Slots,         \* the models loaded when multi-model is enabled
          NoFrame

ASSUME LoopConstants ==
    /\ MaxSources \in Nat \ {0}
    /\ IsFiniteSet(Buffers) /\ Buffers # {}
    /\ Slots # {}
    /\ NoFrame \notin [source : 0..(MaxSources - 1), buffer : Buffers]

VARIABLES
    sources,    \* sources_.size()
    multi,      \* model_mgr_ is set
    running,
    step,       \* where the pipeline thread is in the loop
    turn,       \* frame_count % sources_.size()
    frame,      \* the frame it holds
    lent,       \* per source, the buffers that are not queued in the driver
    lock,       \* who holds engine_mutex_
    engine,     \* ctx_ of engine_: "up", "down", or "half" initialised
    active,     \* active_model_id_
    recorder,
    dead,       \* external: sources that give no frames any more
    healthy     \* external: from now on RGA, NPU and model file do not fail

loopVars == <<sources, multi, running, step, turn, frame, lent, lock, engine,
              active, recorder, dead, healthy>>
setup == <<sources, multi>>
outside == <<dead, healthy>>

Sources == 0..(sources - 1)
Frames == [source : 0..(MaxSources - 1), buffer : Buffers]

LoopInit ==
    /\ sources \in 1..MaxSources /\ multi \in BOOLEAN
    /\ running = TRUE /\ step = "top" /\ turn = 0
    /\ frame = NoFrame /\ lent = [c \in Sources |-> {}]
    /\ lock = "free" /\ engine = "up" /\ active = CHOOSE m \in Slots : TRUE
    /\ recorder = NewRecorder
    /\ dead = {} /\ healthy \in BOOLEAN

-----------------------------------------------------------------------------
(* The pipeline thread. *)

\* sources_[frame_count % size]->CaptureFrame() gives a frame.
Capture ==
    /\ step = "top" /\ running
    /\ turn \notin dead
    /\ \E b \in Buffers \ lent[turn] :
          /\ frame' = [source |-> turn, buffer |-> b]
          /\ lent' = [lent EXCEPT ![turn] = @ \cup {b}]
    /\ step' = "captured"
    /\ UNCHANGED <<setup, running, turn, lock, engine, active, recorder, outside>>

\* Without a frame in two seconds a single source counts as ended; one of
\* several is asked again: the frame count has not moved.
CaptureEnds ==
    /\ step = "top" /\ running
    /\ turn \in dead \/ lent[turn] = Buffers \/ ~healthy
    /\ sources = 1
    /\ step' = "stopped" /\ running' = FALSE
    /\ UNCHANGED <<setup, turn, frame, lent, lock, engine, active, recorder, outside>>

LeaveLoopAtTop ==
    /\ step = "top" /\ ~running
    /\ step' = "stopped"
    /\ UNCHANGED <<setup, running, turn, frame, lent, lock, engine, active, recorder,
                   outside>>

\* ReleaseFrame, and back to the top of the loop.
ReleaseFrame ==
    /\ lent' = [lent EXCEPT ![frame.source] = @ \ {frame.buffer}]
    /\ frame' = NoFrame
    /\ step' = "top"

PreprocessFails ==
    /\ step = "captured" /\ ~healthy
    /\ ReleaseFrame
    /\ UNCHANGED <<setup, running, turn, lock, engine, active, recorder, outside>>

\* After a successful RGA step the inference takes engine_mutex_.
BeginInference ==
    /\ step = "captured" /\ lock = "free"
    /\ step' = "infer" /\ lock' = "pipeline"
    /\ UNCHANGED <<setup, running, turn, frame, lent, engine, active, recorder, outside>>

\* Fault: the frame is forgotten when the inference fails.
InferenceFailsKeeping ==
    /\ step = "infer"
    /\ ~healthy \/ (~multi /\ engine # "up")
    /\ step' = "top" /\ frame' = NoFrame /\ lock' = "free"
    /\ UNCHANGED <<setup, running, turn, lent, engine, active, recorder, outside>>

InferenceFails ==
    /\ step = "infer"
    /\ ~healthy \/ (~multi /\ engine # "up")
    /\ ReleaseFrame /\ lock' = "free"
    /\ UNCHANGED <<setup, running, turn, engine, active, recorder, outside>>

InferenceDone ==
    /\ step = "infer"
    /\ multi \/ engine # "down"
    /\ step' = "output" /\ lock' = "free"
    /\ UNCHANGED <<setup, running, turn, frame, lent, engine, active, recorder, outside>>

\* Fault: only frames with something to report are counted.
OutputUncounted(novel) ==
    /\ step = "output"
    /\ recorder' = IF novel THEN TriggerRecording(PushFrame(recorder))
                   ELSE PushFrame(recorder)
    /\ ReleaseFrame
    /\ turn' = IF novel THEN (turn + 1) % sources ELSE turn
    /\ UNCHANGED <<setup, running, lock, engine, active, outside>>

\* Recorder, detections, release, and the next source.  The loop may reach
\* max_frames here.
Output(novel) ==
    /\ step = "output"
    /\ recorder' = IF novel THEN TriggerRecording(PushFrame(recorder))
                   ELSE PushFrame(recorder)
    /\ ReleaseFrame
    /\ turn' = (turn + 1) % sources
    /\ UNCHANGED <<setup, running, lock, engine, active, outside>>

-----------------------------------------------------------------------------
(* The reader thread, and Stop. *)

\* Fault: RELOAD_MODEL does not take the mutex.
ReloadReleaseUnlocked ==
    /\ step # "stopped" /\ lock # "reader"
    /\ lock' = "reader" /\ engine' = "down"
    /\ UNCHANGED <<setup, running, step, turn, frame, lent, active, recorder, outside>>

\* RELOAD_MODEL releases engine_, also when the loop uses another one ...
ReloadRelease ==
    /\ step # "stopped" /\ lock = "free"
    /\ lock' = "reader" /\ engine' = "down"
    /\ UNCHANGED <<setup, running, step, turn, frame, lent, active, recorder, outside>>

\* ... and initialises it again.  A failure after rknn_init leaves a context.
ReloadInitialize ==
    /\ lock = "reader"
    /\ lock' = "free"
    /\ engine' \in IF healthy THEN {"up"} ELSE {"up", "half", "down"}
    /\ UNCHANGED <<setup, running, step, turn, frame, lent, active, recorder, outside>>

\* SWITCH_MODEL_VARIANT: SwitchActiveModel under the same mutex.
SwitchModel(m) ==
    /\ step # "stopped" /\ lock = "free" /\ multi
    /\ active' = m
    /\ UNCHANGED <<setup, running, step, turn, frame, lent, lock, engine, recorder, outside>>

\* SHUTDOWN, or Stop() on a signal.
StopRunning ==
    /\ running' = FALSE
    /\ UNCHANGED <<setup, step, turn, frame, lent, lock, engine, active, recorder, outside>>

-----------------------------------------------------------------------------
(* Outside. *)

SourceDies(c) ==
    /\ dead' = dead \cup {c}
    /\ UNCHANGED <<setup, running, step, turn, frame, lent, lock, engine, active,
                   recorder, healthy>>

Heal ==
    /\ healthy' = TRUE
    /\ UNCHANGED <<setup, running, step, turn, frame, lent, lock, engine, active,
                   recorder, dead>>

LoopNext ==
    \/ Capture \/ CaptureEnds \/ LeaveLoopAtTop \/ PreprocessFails
    \/ BeginInference \/ InferenceFails \/ InferenceDone
    \/ \E novel \in BOOLEAN : Output(novel)
    \/ ReloadRelease \/ ReloadInitialize \/ \E m \in Slots : SwitchModel(m)
    \/ StopRunning
    \/ \E c \in Sources : SourceDies(c)
    \/ Heal

LoopSpec == LoopInit /\ [][LoopNext]_loopVars

\* Captures, RGA and inferences end.  The reader waits for the network
\* between two commands, so it does not keep the pipeline off the mutex.
LoopFairness ==
    /\ WF_loopVars(Capture) /\ WF_loopVars(LeaveLoopAtTop)
    /\ SF_loopVars(BeginInference) /\ WF_loopVars(InferenceDone)
    /\ WF_loopVars(\E novel \in BOOLEAN : Output(novel))
    /\ WF_loopVars(ReloadInitialize)

LoopFairSpec == LoopSpec /\ LoopFairness

-----------------------------------------------------------------------------
LoopTypeOK ==
    /\ sources \in 1..MaxSources /\ turn \in Sources
    /\ step \in {"top", "captured", "infer", "output", "stopped"}
    /\ frame \in Frames \cup {NoFrame}
    /\ lent \in [Sources -> SUBSET Buffers]
    /\ lock \in {"free", "pipeline", "reader"}
    /\ engine \in {"up", "half", "down"} /\ active \in Slots
    /\ recorder \in Recorder
    /\ dead \subseteq Sources
    /\ {running, multi, healthy} \subseteq BOOLEAN

\* Every buffer goes back to its camera, on all the ways out of an iteration:
\* a buffer forgotten on a rare one would, after as many failures as the
\* camera has buffers, leave a camera that never gives a frame again.
BuffersReturned ==
    \A c \in Sources :
        lent[c] = IF frame # NoFrame /\ frame.source = c THEN {frame.buffer} ELSE {}

\* A command changes neither engine nor active model in the middle of an
\* inference (pipeline_coordinator.cpp:286, "mutex-protected for hot-reload
\* safety").
InferenceUndisturbed ==
    [][step = "infer" /\ step' = "infer" => UNCHANGED <<engine, active>>]_loopVars

\* The hardware works, and the engine the loop uses has been loaded.
Works == healthy /\ (multi \/ engine = "up")

\* While all sources live, each gets its turn, whatever commands come.
SourcesTakeTurns ==
    \A c \in 0..(MaxSources - 1) :
        Works /\ dead = {} /\ c \in Sources
            ~> (frame # NoFrame /\ frame.source = c) \/ dead # {} \/ ~running

\* A recording is completed although novel detections go on triggering it.
RecordingsEnd ==
    Works /\ dead = {} /\ recorder.recording
        ~> recorder.ended \/ dead # {} \/ ~running

\* "Multi-camera round-robin capture" (CHANGELOG.md:167): a source that lives
\* is asked for frames in turn, also when another one has died.
LivingSourcesServed ==
    \A c \in 0..(MaxSources - 1) :
        Works /\ c \in Sources \ dead
            ~> (frame # NoFrame /\ frame.source = c) \/ c \in dead \/ ~running
=============================================================================
