---------------------------- MODULE VideoRecorder ----------------------------
(***************************************************************************)
(* The event-triggered recorder of the edge pipeline                       *)
(* (rk3588-edge/src/app/video_recorder.cpp), as operators on its state.    *)
(* Nothing reads the frames of its ring buffer, so only their number is    *)
(* kept.                                                                   *)
(***************************************************************************)
EXTENDS Integers, FiniteSetsExt

CONSTANTS MaxBuffered,   \* max_buffer_frames_: pre_seconds * fps
          PostFrames     \* post_seconds * fps

ASSUME RecorderConstants == MaxBuffered \in Nat /\ PostFrames \in Nat

Recorder == [buffered : 0..MaxBuffered,   \* ring_buffer_.size()
             recording : BOOLEAN,
             remaining : 0..PostFrames,   \* post_frames_remaining_
             ended : BOOLEAN]             \* the last frame completed a recording

NewRecorder == [buffered |-> 0, recording |-> FALSE, remaining |-> 0, ended |-> FALSE]

\* The frame after the last one that was due ends the recording.
PushFrame(r) ==
    [buffered |-> Min({MaxBuffered, r.buffered + 1}),
     recording |-> r.recording /\ r.remaining > 0,
     remaining |-> IF r.recording THEN Max({0, r.remaining - 1}) ELSE r.remaining,
     ended |-> r.recording /\ r.remaining = 0]

\* Fault: a trigger starts the count again.
TriggerAgain(r) == [r EXCEPT !.recording = TRUE, !.remaining = PostFrames]

\* Triggers during a recording are ignored.
TriggerRecording(r) ==
    IF r.recording THEN r
    ELSE [r EXCEPT !.recording = TRUE, !.remaining = PostFrames]
=============================================================================
