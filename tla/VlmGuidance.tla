------------------------------ MODULE VlmGuidance ------------------------------
(***************************************************************************)
(* From the text of the vision model to the settings of an edge device:    *)
(* VLMConfigGuide (mac-central/src/inference/vlm_config_guide.py) and      *)
(* _apply_vlm_guidance (pipeline/vlm_pipeline.py) make commands of the     *)
(* recommendations in the text, and HandleCommand of the edge              *)
(* (rk3588-edge/src/app/pipeline_coordinator.cpp) carries them out.        *)
(*                                                                         *)
(* A recommendation is what the guide looks for in it: the keyword lists   *)
(* that match, the words of direction, and the numbers.  Numbers are       *)
(* percents.  The container builds the orchestrator without a guide, so    *)
(* the loop runs only for a caller that passes one.                        *)
(***************************************************************************)
EXTENDS Integers, Sequences, SequencesExt

CONSTANTS Texts,           \* recommendations: [kinds, words, numbers]
          GuideKinds,      \* the kinds of adjustment that are enabled
          MinConfidence,
          MaxAdjustments,  \* recommendations read of one result
          MaxGuided        \* bound: commands made

VARIABLES
    outgoing,   \* _command_queue: the commands that the edge has still to take
    commandId,  \* _command_id_counter
    threshold,  \* of the edge: config_.confidence_threshold
    ignored     \* history: sensitivity adjustments that changed nothing

guideVars == <<outgoing, commandId, threshold, ignored>>

GuideInit == outgoing = <<>> /\ commandId = 0 /\ threshold = 50 /\ ignored = {}

-------------------------------------------------------------------------------
(* VLMConfigGuide: one recommendation to at most one adjustment            *)

Within(n) == IF n < 0 THEN 0 ELSE IF n > 100 THEN 100 ELSE n   \* clamp

Frame == <<0, 100, 0, 100>>

\* The later of the words wins; center overrides both directions.
Named(words) ==
    LET Side(low, high) == CASE "center" \in words -> <<25, 75>>
                             [] "center" \notin words /\ high \in words -> <<50, 100>>
                             [] words \cap {"center", high} = {} /\ low \in words -> <<0, 50>>
                             [] OTHER -> <<0, 100>>
    IN  Side("left", "right") \o Side("upper", "lower")

\* _extract_region: x_min, x_max, y_min, y_max.  Without a word, four numbers
\* are the two corners, in whatever order they come.
Region(t) ==
    IF Named(t.words) # Frame THEN {Named(t.words)}
    ELSE IF Len(t.numbers) < 4 THEN {}
    ELSE {<<Within(t.numbers[1]), Within(t.numbers[3]), Within(t.numbers[2]), Within(t.numbers[4])>>}

\* _extract_sensitivity_delta and _extract_fps_delta: "lower" is a word of
\* less, also in "lower the threshold".
Delta(words) == IF "more" \in words THEN 5 ELSE IF words \cap {"less", "lower"} # {} THEN -5 ELSE 0

\* _parse_recommendation with the test of parse_vlm_result: the first enabled
\* list that matches decides, but a region that is not found lets the next try.
Adjustments(t) ==
    LET Is(kind) == kind \in t.kinds \cap GuideKinds
        found == IF Is("region") /\ Region(t) # {}
                   THEN {[kind |-> "region", confidence |-> 70, value |-> r] : r \in Region(t)}
                 ELSE IF Is("sensitivity")
                   THEN {[kind |-> "sensitivity", confidence |-> 75, value |-> Delta(t.words)]}
                 ELSE IF Is("fps")
                   THEN {[kind |-> "fps", confidence |-> 60, value |-> Delta(t.words)]}
                 ELSE {}
    IN  {a \in found : a.confidence >= MinConfidence}

\* create_control_command and to_command_params.  The target device is part of
\* the dictionary but not of the message made of it.
create_control_command(a, id) ==
    CASE a.kind = "region" ->
             [type |-> "SET_DETECTION_REGION", id |-> id, parameters |-> [region |-> a.value]]
      [] a.kind = "sensitivity" ->
             [type |-> "SET_SENSITIVITY", id |-> id, parameters |-> [delta |-> a.value]]
      [] a.kind = "fps" ->
             [type |-> "SET_FPS", id |-> id, parameters |-> [delta |-> a.value]]

-------------------------------------------------------------------------------
(* The queue and the two ends                                              *)

\* _extract_recommendations: the recommendations of a result, each once.
Results == UNION {{r \in [1..n -> Texts] : IsInjective(r)} : n \in 1..(MaxAdjustments + 1)}

\* parse_vlm_result and _apply_vlm_guidance.
Guide == \E r \in Results :
    LET read == SubSeq(r, 1, IF Len(r) < MaxAdjustments THEN Len(r) ELSE MaxAdjustments)
        adjustments == FoldLeft(LAMBDA s, t : s \o SetToSeq(Adjustments(t)), <<>>, read)
    IN  /\ commandId + Len(adjustments) <= MaxGuided
        /\ commandId' = commandId + Len(adjustments)
        /\ outgoing' = outgoing \o [i \in 1..Len(adjustments) |->
                            create_control_command(adjustments[i], commandId + i)]
        /\ UNCHANGED <<threshold, ignored>>

\* SendControlCommand and send_command: an operator's command, whose number is
\* the operator's.
Operate == /\ Len(outgoing) < MaxGuided
           /\ \E s \in {20, 50} :
                outgoing' = Append(outgoing, [type |-> "SET_SENSITIVITY", id |-> 0,
                                              parameters |-> [sensitivity |-> s]])
           /\ UNCHANGED <<commandId, threshold, ignored>>

\* HandleCommand of a device: a command without the parameter it reads does
\* nothing, and a region is only logged.
HandleCommand ==
    /\ outgoing # <<>>
    /\ outgoing' = Tail(outgoing)
    /\ LET cmd == Head(outgoing)
       IN  /\ threshold' = IF cmd.type = "SET_SENSITIVITY" /\ "sensitivity" \in DOMAIN cmd.parameters
                           THEN 100 - cmd.parameters.sensitivity ELSE threshold
           /\ ignored' = IF /\ cmd.type = "SET_SENSITIVITY" /\ "delta" \in DOMAIN cmd.parameters
                            /\ cmd.parameters.delta # 0 /\ threshold' = threshold
                         THEN ignored \cup {cmd.id} ELSE ignored
    /\ UNCHANGED commandId

GuideNext == Guide \/ Operate \/ HandleCommand

GuideSpec == GuideInit /\ [][GuideNext]_guideVars

-------------------------------------------------------------------------------
\* A recommendation to be more or less sensitive changes the threshold of the
\* device that takes the command.
GuidanceTakesEffect == ignored = {}
===============================================================================
