----------------------------- MODULE VlmPipeline -----------------------------
(***************************************************************************)
(* The VLM pipeline of the central server: DetectionProcessor.process puts *)
(* the frames that match a rule on a bounded queue, one worker             *)
(* (mac-central/src/pipeline/vlm_pipeline.py) takes them off in batches    *)
(* and analyses them behind a circuit breaker, and shutdown drains the     *)
(* queue and cancels the worker.                                           *)
(*                                                                         *)
(* All of this runs on one asyncio event loop: what the worker does        *)
(* between two awaits is not interleaved with anything, and a cancellation *)
(* reaches it at an await.  LoopFree says that it is at one.               *)
(*                                                                         *)
(* The inference engine is modelled from batch_analyze and analyze_image   *)
(* of mlx_llm_inference.py: a batch returns one answer per item, an error  *)
(* text for an item that failed, unless it raises or times out as a whole. *)
(***************************************************************************)
EXTENDS Integers, Sequences, SequencesExt, CircuitBreaker

CONSTANTS MaxQueue,     \* size of the VLM queue (32)
          MaxBatch,     \* batch_max_size
          MaxItems      \* bound: frames that match a rule

ASSUME PipelineConstants ==
    /\ MaxQueue \in Nat \ {0} /\ MaxBatch \in Nat \ {0}
    /\ MaxItems \in Nat

VARIABLES
    queue, unfinished,  \* the asyncio queue, and its count of unfinished tasks
    batch,      \* items of the batch that are not done yet
    answers,    \* what batch_analyze answered for them, TRUE for an analysis and
                \* FALSE for an error text; empty if there was no such call
    at,         \* where the worker is
    breaker,
    shuttingDown,       \* DetectionProcessor._shutting_down
    phase,      \* shutdown: "up", "join", "cancel" or "down"
    \* history
    arrived,    \* how many frames matched a rule
    outcome,    \* what became of each of them
    failing,    \* analyses that failed in a row, whoever noticed
    log,        \* the outcomes the breaker was told, in order
    drain       \* how the drain ended: "none", "joined" or "timedOut"

work == <<queue, unfinished, batch, answers, at>>
vars == <<work, breaker, shuttingDown, phase, arrived, outcome, failing, log, drain>>

Items == 1..MaxItems
Locations == {"get", "fill", "batch", "item", "analyse", "upload", "cancelled"}
Outcomes == {"none", "queued", "dropped", "rejected", "skipped", "failed",
             "analysed", "error text"}
LoopFree == at # "item"

Init ==
    /\ queue = <<>> /\ unfinished = 0 /\ batch = <<>> /\ answers = <<>>
    /\ at = "get"
    /\ breaker = NewBreaker
    /\ shuttingDown = FALSE /\ phase = "up"
    /\ arrived = 0 /\ outcome = [i \in Items |-> "none"]
    /\ failing = 0 /\ log = <<>> /\ drain = "none"

-----------------------------------------------------------------------------
(* DetectionProcessor.process, for a frame that matches a rule. *)

process ==
    /\ LoopFree /\ arrived < MaxItems
    /\ arrived' = arrived + 1
    /\ \/ /\ shuttingDown
          /\ outcome' = [outcome EXCEPT ![arrived'] = "rejected"]
          /\ UNCHANGED <<queue, unfinished>>
       \/ /\ ~shuttingDown /\ Len(queue) >= MaxQueue
          /\ outcome' = [outcome EXCEPT ![arrived'] = "dropped"]
          /\ UNCHANGED <<queue, unfinished>>
       \/ /\ ~shuttingDown /\ Len(queue) < MaxQueue
          /\ outcome' = [outcome EXCEPT ![arrived'] = "queued"]
          /\ queue' = Append(queue, arrived')
          /\ unfinished' = unfinished + 1
    /\ UNCHANGED <<batch, answers, at, breaker, shuttingDown, phase, failing, log, drain>>

-----------------------------------------------------------------------------
(* The worker. *)

\* An item is taken; the batch goes on filling unless it is full.
TakeInto(b) ==
    /\ queue # <<>>
    /\ queue' = Tail(queue)
    /\ batch' = Append(b, Head(queue))

\* The batch is complete: more than one item goes to batch_analyze first,
\* whatever the breaker says.
Filled(b) == at' = IF Len(b) > 1 THEN "batch" ELSE "item"

Get ==
    /\ at = "get"
    /\ TakeInto(<<>>)
    /\ IF MaxBatch = 1 THEN Filled(batch') ELSE at' = "fill"
    /\ UNCHANGED <<unfinished, answers, breaker, shuttingDown, phase, arrived,
                   outcome, failing, log, drain>>

Fill ==
    /\ at = "fill"
    /\ TakeInto(batch)
    /\ IF Len(batch') = MaxBatch THEN Filled(batch') ELSE UNCHANGED at
    /\ UNCHANGED <<unfinished, answers, breaker, shuttingDown, phase, arrived,
                   outcome, failing, log, drain>>

FillTimeout ==
    /\ at = "fill"
    /\ Filled(batch)
    /\ UNCHANGED <<queue, unfinished, batch, answers, breaker, shuttingDown, phase,
                   arrived, outcome, failing, log, drain>>

\* Failures in a row after a run of analyses, `before' of them before it.
FailedInARow(run, before) ==
    LET good == {i \in DOMAIN run : run[i]}
    IN  IF good = {} THEN before + Len(run) ELSE Len(run) - Max(good)

BatchReturns ==
    /\ at = "batch" /\ at' = "item"
    /\ answers' \in [1..Len(batch) -> BOOLEAN]
    /\ failing' = FailedInARow(answers', failing)
    /\ UNCHANGED <<queue, unfinished, batch, breaker, shuttingDown, phase, arrived,
                   outcome, log, drain>>

\* Fault: the exception ends the worker.
BatchRaisesUncaught ==
    /\ at = "batch" /\ at' = "cancelled"
    /\ UNCHANGED <<queue, unfinished, batch, answers, breaker, shuttingDown, phase,
                   arrived, outcome, failing, log, drain>>

\* The items are analysed one by one instead.
BatchRaises ==
    /\ at = "batch" /\ at' = "item"
    /\ UNCHANGED <<queue, unfinished, batch, answers, breaker, shuttingDown, phase,
                   arrived, outcome, failing, log, drain>>

BatchDone ==
    /\ at = "item" /\ batch = <<>>
    /\ at' = "get"
    /\ UNCHANGED <<queue, unfinished, batch, answers, breaker, shuttingDown, phase,
                   arrived, outcome, failing, log, drain>>

\* task_done for the current item, which ends with outcome o.
TaskDone(o) ==
    /\ unfinished' = unfinished - 1
    /\ outcome' = [outcome EXCEPT ![Head(batch)] = o]
    /\ batch' = Tail(batch)
    /\ answers' = IF answers = <<>> THEN <<>> ELSE Tail(answers)
    /\ at' = "item"

\* Faults: a skipped item is forgotten by, or told twice to, the queue.
SkipUndone ==
    /\ at = "item" /\ batch # <<>> /\ ~Allows(breaker)
    /\ outcome' = [outcome EXCEPT ![Head(batch)] = "skipped"]
    /\ batch' = Tail(batch)
    /\ answers' = IF answers = <<>> THEN <<>> ELSE Tail(answers)
    /\ UNCHANGED <<queue, unfinished, at, breaker, shuttingDown, phase, arrived, failing, log, drain>>
SkipDoneTwice ==
    /\ at = "item" /\ batch # <<>> /\ ~Allows(breaker)
    /\ unfinished' = unfinished - 2
    /\ outcome' = [outcome EXCEPT ![Head(batch)] = "skipped"]
    /\ batch' = Tail(batch)
    /\ answers' = IF answers = <<>> THEN <<>> ELSE Tail(answers)
    /\ UNCHANGED <<queue, at, breaker, shuttingDown, phase, arrived, failing, log, drain>>

Skip ==
    /\ at = "item" /\ batch # <<>> /\ ~Allows(breaker)
    /\ TaskDone("skipped")
    /\ UNCHANGED <<queue, breaker, shuttingDown, phase, arrived, failing, log, drain>>

\* A successful analysis is told to the breaker and published.  With a cloud
\* storage the frame is then uploaded before the task is done.
Publish(o, b) ==
    /\ breaker' = record_success(b)
    /\ log' = Append(log, TRUE)
    /\ \/ /\ at' = "upload"
          /\ outcome' = [outcome EXCEPT ![Head(batch)] = o]
          /\ UNCHANGED <<unfinished, batch, answers>>
       \/ TaskDone(o)

\* An item with an answer from batch_analyze: an error text is an answer too.
UseAnswer ==
    /\ at = "item" /\ batch # <<>> /\ Allows(breaker) /\ answers # <<>>
    /\ Publish(IF Head(answers) THEN "analysed" ELSE "error text", AfterAllow(breaker))
    /\ UNCHANGED <<queue, shuttingDown, phase, arrived, failing, drain>>

Analyse ==
    /\ at = "item" /\ batch # <<>> /\ Allows(breaker) /\ answers = <<>>
    /\ breaker' = AfterAllow(breaker)
    /\ at' = "analyse"
    /\ UNCHANGED <<queue, unfinished, batch, answers, shuttingDown, phase, arrived,
                   outcome, failing, log, drain>>

AnalyseReturns ==
    /\ at = "analyse"
    /\ Publish("analysed", breaker)
    /\ failing' = 0
    /\ UNCHANGED <<queue, shuttingDown, phase, arrived, drain>>

\* Fault: the failure of a trial is not told to the breaker.
AnalyseFailsUnrecorded ==
    /\ at = "analyse"
    /\ breaker' = IF breaker.state = "half_open" THEN breaker ELSE record_failure(breaker)
    /\ log' = Append(log, FALSE)
    /\ failing' = failing + 1
    /\ TaskDone("failed")
    /\ UNCHANGED <<queue, shuttingDown, phase, arrived, drain>>

\* It raised, or took more than 30 seconds.
AnalyseFails ==
    /\ at = "analyse"
    /\ breaker' = record_failure(breaker)
    /\ log' = Append(log, FALSE)
    /\ failing' = failing + 1
    /\ TaskDone("failed")
    /\ UNCHANGED <<queue, shuttingDown, phase, arrived, drain>>

\* However the upload ends.
UploadEnds ==
    /\ at = "upload"
    /\ TaskDone(outcome[Head(batch)])
    /\ UNCHANGED <<queue, breaker, shuttingDown, phase, arrived, failing, log, drain>>

Recover ==
    /\ LoopFree
    /\ breaker' = Cool(breaker)
    /\ UNCHANGED <<work, shuttingDown, phase, arrived, outcome, failing, log, drain>>

-----------------------------------------------------------------------------
(* CentralOrchestrator.shutdown. *)

\* The drain is for a queue that is not empty at this moment.
BeginShutdown ==
    /\ LoopFree /\ phase = "up"
    /\ shuttingDown' = TRUE
    /\ phase' = IF queue # <<>> THEN "join" ELSE "cancel"
    /\ UNCHANGED <<work, breaker, arrived, outcome, failing, log, drain>>

Joined ==
    /\ LoopFree /\ phase = "join" /\ unfinished = 0
    /\ phase' = "cancel" /\ drain' = "joined"
    /\ UNCHANGED <<work, breaker, shuttingDown, arrived, outcome, failing, log>>

JoinTimeout ==
    /\ LoopFree /\ phase = "join"
    /\ phase' = "cancel" /\ drain' = "timedOut"
    /\ UNCHANGED <<work, breaker, shuttingDown, arrived, outcome, failing, log>>

\* The worker stops at its await; an item that was being processed is done.
CancelWorker ==
    /\ LoopFree /\ phase = "cancel"
    /\ phase' = "down" /\ at' = "cancelled"
    /\ unfinished' = IF at \in {"analyse", "upload"} THEN unfinished - 1 ELSE unfinished
    /\ UNCHANGED <<queue, batch, answers, breaker, shuttingDown, arrived, outcome,
                   failing, log, drain>>

-----------------------------------------------------------------------------
Worker == \/ Get \/ Fill \/ FillTimeout
          \/ BatchReturns \/ BatchRaises \/ BatchDone
          \/ Skip \/ UseAnswer \/ Analyse
          \/ AnalyseReturns \/ AnalyseFails \/ UploadEnds
Shutdown == BeginShutdown \/ Joined \/ JoinTimeout \/ CancelWorker

Next == process \/ Worker \/ Recover \/ Shutdown

Spec == Init /\ [][Next]_vars

\* Awaits of the worker end: gets and inference calls have time-outs, uploads
\* are assumed to end.  The join is not assumed to time out.
FairSpec == Spec /\ WF_vars(Worker) /\ WF_vars(Joined) /\ WF_vars(CancelWorker)

-----------------------------------------------------------------------------
TypeOK ==
    /\ queue \in Seq(Items) /\ batch \in Seq(Items) /\ answers \in Seq(BOOLEAN)
    /\ unfinished \in Nat
    /\ at \in Locations
    /\ breaker \in Breaker
    /\ shuttingDown \in BOOLEAN /\ phase \in {"up", "join", "cancel", "down"}
    /\ arrived \in 0..MaxItems /\ outcome \in [Items -> Outcomes]
    /\ failing \in Nat /\ log \in Seq(BOOLEAN)
    /\ drain \in {"none", "joined", "timedOut"}

\* The queue's count of unfinished tasks, on which the drain waits, is exact:
\* every path through _process_item calls task_done once.
UnfinishedExact == at # "cancelled" => unfinished = Len(queue) + Len(batch)

\* The breaker is never left half open without a trial under way, in which
\* state it would refuse every request from then on.
HalfOpenHasTrial == breaker.state = "half_open" => at \in {"analyse", "cancelled"}

\* The breaker opens when, and only when, it was told of FailureThreshold
\* failures in a row.
OpensOnRecordedFailures ==
    /\ breaker.state = "closed" <=>
          \/ Len(log) < FailureThreshold
          \/ \E i \in DOMAIN log : i > Len(log) - FailureThreshold /\ log[i]
    /\ breaker.state = "closed" => breaker.failures < FailureThreshold

\* A drain that ended by itself leaves no item behind.
DrainedWhenJoined == drain = "joined" => \A i \in Items : outcome[i] # "queued"

\* Every item that was queued is settled, unless the server shuts down.
ItemsSettle ==
    \A i \in Items : outcome[i] = "queued" ~> (outcome[i] # "queued" \/ phase # "up")

\* The drain ends without its time-out.
DrainEnds == phase = "join" ~> phase = "down"

\* "Trigger: VLM inference fails N times in a row, then Open" (ARCHITECTURE.md:330,
\* in Chinese): seen when the worker is between two batches.
OpensOnFailures ==
    at = "get" /\ failing >= FailureThreshold => breaker.state # "closed"
=============================================================================
