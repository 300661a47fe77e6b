------------------------------- MODULE Inference -------------------------------
(***************************************************************************)
(* The inference engine of the central server                              *)
(* (mac-central/src/inference/mlx_llm_inference.py), with the conversation *)
(* of each device, and the reasoning chain that asks it step by step       *)
(* (inference/reasoning_chain.py).                                         *)
(*                                                                         *)
(* A call of mlx blocks the event loop, so an operation of the engine is   *)
(* one action; between two steps of a chain others get their turn.  What   *)
(* is on the disk and whether mlx loads it is external and may change.     *)
(***************************************************************************)
EXTENDS Integers, Sequences

CONSTANTS VisionPaths, NoPath,   \* the vision models there may be; none
          Talkers, MaxTurns,     \* devices with a conversation; max_turns
          MaxSteps               \* max_steps of the chain, at most 3

ASSUME EngineConstants == MaxTurns \in Nat

VARIABLES
    mode, libraries,  \* "llm" or "vlm"; which of mlx_lm and mlx_vlm import
    ready, stub,      \* _loaded, use_stub
    text,             \* the text model is there
    vision, vlmPath,  \* vlm_model, by its path, and vlm_model_path
    turns,            \* per device: turns of the conversation, or 0
    chain,            \* outcome of each step of the chain under way
    wanted            \* history: the vision model configured, or switched to since

engineVars == <<mode, libraries, ready, stub, text, vision, vlmPath, turns, chain, wanted>>

EngineInit ==
    /\ mode \in {"llm", "vlm"} /\ libraries \in SUBSET {"mlx_lm", "mlx_vlm"}
    /\ ready = FALSE /\ stub = TRUE /\ text = FALSE
    /\ vision = NoPath /\ vlmPath \in VisionPaths \cup {NoPath}
    /\ turns = [d \in Talkers |-> 0] /\ chain = <<>> /\ wanted = vlmPath

\* The second half of load_model: any failure only leaves the vision model as it is.
LoadVision ==
    \/ /\ mode = "vlm" /\ vlmPath # NoPath /\ "mlx_vlm" \in libraries
       /\ vision' = vlmPath
    \/ UNCHANGED vision

load_model ==
    /\ \/ \* The path of the text model does not exist.
          stub' = TRUE /\ ready' = TRUE /\ UNCHANGED <<text, vision>>
       \/ /\ "mlx_lm" \in libraries /\ stub' = FALSE /\ text' = TRUE
          /\ ready' = TRUE /\ LoadVision
       \/ /\ "mlx_lm" \notin libraries /\ stub' = TRUE /\ UNCHANGED text
          /\ ready' = TRUE /\ LoadVision
    /\ UNCHANGED <<mode, libraries, vlmPath, turns, chain, wanted>>

unload_model ==
    /\ text' = FALSE /\ vision' = NoPath /\ ready' = FALSE
    /\ turns' = [d \in Talkers |-> 0]
    /\ UNCHANGED <<mode, libraries, stub, vlmPath, chain, wanted>>

\* Fault: the new path is not remembered.
switch_forgetting_path(p) ==
    /\ "mlx_vlm" \in libraries
    /\ vision' = p /\ wanted' = p
    /\ UNCHANGED <<mode, libraries, ready, stub, text, vlmPath, turns, chain>>

\* switch_vlm_model, when it returns True; in "llm" mode, or before load_model, too.
switch_vlm_model(p) ==
    /\ "mlx_vlm" \in libraries
    /\ vision' = p /\ vlmPath' = p /\ wanted' = p
    /\ UNCHANGED <<mode, libraries, ready, stub, text, turns, chain>>

-----------------------------------------------------------------------------
\* Who answers generate, and analyze_image when the vision model does not fail:
\* with stubs the vision model is not asked.
generate == CASE ~ready -> "raises"
              [] ready /\ stub -> "stub"
              [] ready /\ ~stub -> IF text THEN "text" ELSE "raises"
analyze_image == IF ready /\ ~stub /\ mode = "vlm" /\ vision # NoPath THEN vision ELSE generate

\* get_conversation and two add_turn, once the worker has an answer, or one of
\* batch_analyze (in which a failed item is an answer as well).
Converse(d) ==
    /\ analyze_image # "raises"
    /\ turns' = [turns EXCEPT ![d] = IF @ + 2 > 2 * MaxTurns THEN 2 * MaxTurns ELSE @ + 2]
    /\ UNCHANGED <<mode, libraries, ready, stub, text, vision, vlmPath, chain, wanted>>

clear_conversation(d) ==
    /\ turns' = [turns EXCEPT ![d] = 0]
    /\ UNCHANGED <<mode, libraries, ready, stub, text, vision, vlmPath, chain, wanted>>

-----------------------------------------------------------------------------
(* execute of the chain. *)

Broken == \E i \in 1..Len(chain) : chain[i] \in {"timeout", "error"}

\* A step that is answered gives the next one its context; with a fallback
\* to the text model, the answer may be its.
ChainStep ==
    /\ Len(chain) < MaxSteps /\ ~Broken
    /\ \E outcome \in {analyze_image, generate, "timeout", "error"} :
          chain' = Append(chain, IF outcome = "raises" THEN "error" ELSE outcome)
    /\ UNCHANGED <<mode, libraries, ready, stub, text, vision, vlmPath, turns, wanted>>

\* The result counts as a success when all steps were taken, even if the last
\* one timed out or failed.
success == Len(chain) = MaxSteps
ChainDone ==
    /\ success \/ Broken
    /\ chain' = <<>>
    /\ UNCHANGED <<mode, libraries, ready, stub, text, vision, vlmPath, turns, wanted>>

EngineNext ==
    \/ load_model \/ unload_model \/ ChainStep \/ ChainDone
    \/ \E p \in VisionPaths : switch_vlm_model(p)
    \/ \E d \in Talkers : Converse(d) \/ clear_conversation(d)

EngineSpec == EngineInit /\ [][EngineNext]_engineVars

-----------------------------------------------------------------------------
\* A loaded engine always has somebody to answer.  A vision model in memory is
\* the one last asked for, through switches, unloading and loads that fail in
\* part; and conversations keep whole exchanges only.
EngineAnswers ==
    /\ ready => generate # "raises"
    /\ vision \in {NoPath, wanted}
    /\ \A d \in Talkers : turns[d] <= 2 * MaxTurns /\ turns[d] % 2 = 0
=============================================================================
