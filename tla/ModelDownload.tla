----------------------------- MODULE ModelDownload -----------------------------
(***************************************************************************)
(* The script that downloads a vision model, or converts one for MLX       *)
(* (mac-central/scripts/download_vlm_model.py), and the validation of what *)
(* it left (model_management/vlm_validator.py).  It is run again and       *)
(* again, in either mode, and may be interrupted.                          *)
(*                                                                         *)
(* The files of the output directory come from libraries; external: they   *)
(* write one file after the other, and a model has its weights in one file *)
(* or in shards.                                                           *)
(***************************************************************************)
EXTENDS FiniteSets, Integers

CONSTANT DownloadRuns   \* bound: runs of the script

VARIABLES
    files,     \* what is in the directory
    layout,    \* external: the files of the whole model
    script,    \* how far the run is: "none", "writing", "verifying" or "testing"
    converts,  \* the run converts; it downloads otherwise
    tests,     \* --test or --test-inference
    result,    \* exit status of the last run, or -1
    runs,      \* runs so far
    usable     \* what a test run or the validator said of the directory last

downloadVars == <<files, layout, script, converts, tests, result, runs, usable>>

Layouts == {{"config", "model", "tokenizer"}, {"config", "shard1", "shard2", "tokenizer"}}
Weights == {"model", "shard1", "shard2"}
Whole == layout \subseteq files

DownloadInit ==
    /\ files = {} /\ layout \in Layouts
    /\ script = "none" /\ converts = FALSE /\ tests = FALSE
    /\ result = -1 /\ runs = 0 /\ usable = FALSE

\* Fault: the weights are looked for under a name that verify_model knows too.
AlreadyOtherName == {"config", "weights"} \subseteq files

\* The check for a model that is there: shards do not count, and what else
\* belongs to it is not looked for.
Already == {"config", "model"} \subseteq files

\* Without the dependencies the script ends before it touches anything.
MissingDependencies ==
    /\ script = "none" /\ runs < DownloadRuns /\ runs' = runs + 1 /\ result' = 1
    /\ UNCHANGED <<files, layout, script, converts, tests, usable>>

\* Converting begins with the removal of an incomplete directory.
StartRun ==
    /\ script = "none" /\ runs < DownloadRuns /\ runs' = runs + 1
    /\ converts' \in BOOLEAN /\ tests' \in BOOLEAN
    /\ script' = IF Already THEN "verifying" ELSE "writing"
    /\ files' = IF converts' /\ ~Already THEN {} ELSE files
    /\ UNCHANGED <<layout, result, usable>>

WriteFile ==
    /\ script = "writing"
    /\ \E f \in layout \ files : files' = files \cup {f}
    /\ UNCHANGED <<layout, script, converts, tests, result, runs, usable>>

\* The library is done, or reports an error, which ends the run.
Written ==
    /\ script = "writing"
    /\ \/ Whole /\ script' = "verifying" /\ UNCHANGED result
       \/ script' = "none" /\ result' = 1
    /\ UNCHANGED <<files, layout, converts, tests, runs, usable>>

\* verify_model.
Verified == "config" \in files /\ Weights \cap files # {}
Verify ==
    /\ script = "verifying"
    /\ IF Verified THEN script' = (IF tests THEN "testing" ELSE "none") /\ result' = 0
                   ELSE script' = "none" /\ result' = 1
    /\ UNCHANGED <<files, layout, converts, tests, runs, usable>>

\* What the tests find after a download is printed, and the exit status stays 0.
TestAfterwards ==
    /\ script = "testing" /\ script' = "none"
    /\ usable' = Whole
    /\ UNCHANGED <<files, layout, converts, tests, result, runs>>

\* --test-only, whose exit status is the outcome, and VLMValidator.validate: a
\* model that is not whole cannot be loaded, a whole one may still be too slow.
TestOnly ==
    /\ script = "none" /\ runs < DownloadRuns /\ runs' = runs + 1
    /\ usable' \in {FALSE, Whole}
    /\ result' = IF usable' THEN 0 ELSE 1
    /\ UNCHANGED <<files, layout, script, converts, tests>>

Interrupt ==
    /\ script # "none" /\ script' = "none" /\ result' = 1
    /\ UNCHANGED <<files, layout, converts, tests, runs, usable>>

DownloadNext == \/ MissingDependencies \/ StartRun \/ WriteFile \/ Written \/ Verify
                \/ TestAfterwards \/ TestOnly \/ Interrupt

DownloadSpec == DownloadInit /\ [][DownloadNext]_downloadVars

-----------------------------------------------------------------------------
\* A whole model with its weights in one file stays whole, whatever runs follow,
\* in either mode, interrupted or not.
WholeStaysWhole ==
    [][Whole /\ "model" \in layout => Whole']_downloadVars
=============================================================================
