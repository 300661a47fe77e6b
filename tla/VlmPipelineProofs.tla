-------------------------- MODULE VlmPipelineProofs --------------------------
(***************************************************************************)
(* Theorems about VlmPipeline for every size of queue and batch, every     *)
(* threshold of the breaker and every number of frames.                    *)
(*                                                                         *)
(* CountInv ties the queue's count of unfinished tasks to the items that   *)
(* are waiting or in the batch.  BreakerInv ties the breaker to where the  *)
(* worker is, and its failure count to the last outcomes it was told.      *)
(* DrainInv says that an item whose outcome is open is waiting somewhere,  *)
(* so that the count on which the drain waits accounts for it.             *)
(***************************************************************************)
EXTENDS VlmPipeline, Induction, SequenceTheorems, TLAPS

\* The worker at an item's await has that item in its batch, and none when it
\* waits for the next one.
CountInv ==
    /\ queue \in Seq(Nat) /\ batch \in Seq(Nat)
    /\ unfinished \in Int /\ arrived \in Nat
    /\ at \in {"analyse", "upload"} => batch # <<>>
    /\ at = "get" => batch = <<>>
    /\ UnfinishedExact

\* The last n outcomes were failures.
LastFailed(n) == n <= Len(log) /\ \A i \in 1..Len(log) : i > Len(log) - n => ~log[i]

BreakerInv ==
    /\ breaker \in Breaker /\ log \in Seq(BOOLEAN)
    /\ HalfOpenHasTrial
    /\ at = "analyse" => breaker.state # "open"
    /\ breaker.state # "closed" => LastFailed(FailureThreshold)
    /\ breaker.state = "closed" =>
          /\ breaker.failures < FailureThreshold
          /\ LastFailed(breaker.failures)
          /\ breaker.failures < Len(log) => log[Len(log) - breaker.failures]

-----------------------------------------------------------------------------
(* The queue's count. *)

LEMMA TakeFront ==
    ASSUME NEW s \in Seq(Nat), s # <<>>
    PROVE  /\ Head(s) \in Nat /\ Tail(s) \in Seq(Nat)
           /\ Len(s) \in Nat /\ Len(Tail(s)) \in Nat
           /\ Len(s) = Len(Tail(s)) + 1
<1>1. Len(s) \in Nat \ {0} /\ Len(Tail(s)) = Len(s) - 1 /\ Tail(s) \in Seq(Nat) /\ Head(s) \in Nat
  BY HeadTailProperties, EmptySeq
<1>2. QED
  BY <1>1

\* An item moves from the queue to the batch.
LEMMA TakeCount ==
    ASSUME CountInv, at # "cancelled", UNCHANGED <<unfinished, arrived>>,
           NEW b \in Seq(Nat), Len(b) = Len(batch), TakeInto(b),
           at' \notin {"analyse", "upload", "get", "cancelled"}
    PROVE  CountInv'
<1>1. queue \in Seq(Nat) /\ queue # <<>> /\ queue' = Tail(queue) /\ batch' = Append(b, Head(queue))
  BY DEF CountInv, TakeInto
<1>2. /\ Head(queue) \in Nat /\ queue' \in Seq(Nat)
      /\ Len(queue) \in Nat /\ Len(queue') \in Nat /\ Len(queue) = Len(queue') + 1
  BY <1>1, TakeFront
<1>3. batch' \in Seq(Nat) /\ Len(batch') = Len(b) + 1 /\ Len(b) \in Nat
  BY <1>1, <1>2, AppendProperties, LenProperties
<1>4. unfinished = Len(queue) + Len(batch)
  BY DEF CountInv, UnfinishedExact
<1>5. unfinished' = Len(queue') + Len(batch')
  BY <1>2, <1>3, <1>4
<1>6. QED
  BY <1>2, <1>3, <1>5 DEF CountInv, UnfinishedExact

\* task_done, for the item at the front of the batch.
LEMMA DoneCount ==
    ASSUME CountInv, at # "cancelled", UNCHANGED <<queue, arrived>>,
           batch # <<>>, NEW o, TaskDone(o)
    PROVE  CountInv'
<1>1. /\ unfinished' = unfinished - 1 /\ batch' = Tail(batch) /\ at' = "item"
      /\ batch \in Seq(Nat) /\ queue \in Seq(Nat)
  BY DEF CountInv, TaskDone
<1>2. /\ batch' \in Seq(Nat)
      /\ Len(batch) \in Nat /\ Len(batch') \in Nat /\ Len(batch) = Len(batch') + 1
  BY <1>1, TakeFront
<1>3. unfinished = Len(queue) + Len(batch) /\ Len(queue) \in Nat
  BY <1>1, LenProperties DEF CountInv, UnfinishedExact
<1>4. unfinished' = Len(queue') + Len(batch')
  BY <1>1, <1>2, <1>3
<1>5. QED
  BY <1>1, <1>2, <1>3, <1>4 DEF CountInv, UnfinishedExact

\* The worker goes elsewhere with the batch it has.
LEMMA SameCount ==
    ASSUME CountInv, at # "cancelled", UNCHANGED <<queue, unfinished, batch, arrived>>,
           at' \in {"analyse", "upload"} => batch # <<>>,
           at' = "get" => batch = <<>>
    PROVE  CountInv'
BY DEF CountInv, UnfinishedExact

LEMMA WorkerCount ==
    ASSUME CountInv, Worker
    PROVE  CountInv'
<1>1. batch \in Seq(Nat) /\ (at \in {"analyse", "upload"} => batch # <<>>)
  BY DEF CountInv
<1>2. CASE Get
  <2>1. at = "get" /\ TakeInto(batch) /\ UNCHANGED <<unfinished, arrived>>
    BY <1>2 DEF Get, CountInv
  <2>2. at' \in {"batch", "item", "fill"}
    BY <1>2 DEF Get, Filled
  <2>3. QED
    BY <1>1, <2>1, <2>2, TakeCount
<1>3. CASE Fill
  <2>1. at = "fill" /\ TakeInto(batch) /\ UNCHANGED <<unfinished, arrived>>
    BY <1>3 DEF Fill
  <2>2. at' \in {"batch", "item", "fill"}
    BY <1>3, <2>1 DEF Fill, Filled
  <2>3. QED
    BY <1>1, <2>1, <2>2, TakeCount
<1>4. CASE FillTimeout \/ BatchReturns \/ BatchRaises \/ BatchDone
  <2>1. /\ UNCHANGED <<queue, unfinished, batch, arrived>>
        /\ at' \in {"batch", "item", "get"} /\ at # "cancelled"
        /\ at' = "get" => batch = <<>>
    BY <1>4 DEF FillTimeout, BatchReturns, BatchRaises, BatchDone, Filled
  <2>2. QED
    BY <2>1, SameCount
<1>5. CASE Analyse
  <2>1. /\ UNCHANGED <<queue, unfinished, batch, arrived>>
        /\ batch # <<>> /\ at = "item" /\ at' = "analyse"
    BY <1>5 DEF Analyse
  <2>2. QED
    BY <2>1, SameCount
<1>6. CASE Skip \/ AnalyseFails \/ UploadEnds
  <2>1. /\ at # "cancelled" /\ UNCHANGED <<queue, arrived>> /\ batch # <<>>
        /\ \E o : TaskDone(o)
    BY <1>1, <1>6 DEF Skip, AnalyseFails, UploadEnds
  <2>2. QED
    BY <2>1, DoneCount
<1>7. CASE UseAnswer \/ AnalyseReturns
  <2>1. /\ at # "cancelled" /\ UNCHANGED <<queue, arrived>> /\ batch # <<>>
        /\ \/ UNCHANGED <<unfinished, batch>> /\ at' = "upload"
           \/ \E o : TaskDone(o)
    BY <1>1, <1>7 DEF UseAnswer, AnalyseReturns, Publish
  <2>2. QED
    BY <2>1, DoneCount, SameCount
<1>8. QED
  BY <1>2, <1>3, <1>4, <1>5, <1>6, <1>7 DEF Worker

LEMMA NextCount == CountInv /\ [Next]_vars => CountInv'
<1> SUFFICES ASSUME CountInv, [Next]_vars PROVE CountInv'
  OBVIOUS
<1>1. CASE process
  <2>1. arrived' = arrived + 1 /\ UNCHANGED <<batch, at>> /\ arrived \in Nat /\ queue \in Seq(Nat)
    BY <1>1 DEF process, CountInv
  <2>2. CASE UNCHANGED <<queue, unfinished>>
    BY <2>1, <2>2 DEF CountInv, UnfinishedExact
  <2>3. CASE queue' = Append(queue, arrived') /\ unfinished' = unfinished + 1
    <3>1. /\ queue' \in Seq(Nat) /\ Len(queue') = Len(queue) + 1 /\ Len(queue) \in Nat
      BY <2>1, <2>3, AppendProperties, LenProperties
    <3>2. batch \in Seq(Nat) /\ Len(batch) \in Nat /\ unfinished \in Int
      BY LenProperties DEF CountInv
    <3>3. at' # "cancelled" => unfinished' = Len(queue') + Len(batch')
      BY <2>1, <2>3, <3>1, <3>2 DEF CountInv, UnfinishedExact
    <3>4. QED
      BY <2>1, <2>3, <3>1, <3>2, <3>3 DEF CountInv, UnfinishedExact
  <2>4. QED
    BY <1>1, <2>2, <2>3 DEF process
<1>2. CASE Recover \/ BeginShutdown \/ Joined \/ JoinTimeout \/ UNCHANGED vars
  <2>1. UNCHANGED <<queue, unfinished, batch, arrived, at>>
    BY <1>2 DEF Recover, BeginShutdown, Joined, JoinTimeout, vars, work
  <2>2. QED
    BY <2>1 DEF CountInv, UnfinishedExact
<1>3. CASE CancelWorker
  <2>1. /\ at' = "cancelled" /\ UNCHANGED <<queue, batch, arrived>>
        /\ unfinished' = unfinished \/ unfinished' = unfinished - 1
    BY <1>3 DEF CancelWorker
  <2>2. unfinished' \in Int
    BY <2>1 DEF CountInv
  <2>3. QED
    BY <2>1, <2>2 DEF CountInv, UnfinishedExact
<1>4. QED
  BY <1>1, <1>2, <1>3, WorkerCount DEF Next, Shutdown

\* Every path through the worker calls task_done once per item, so that the
\* count on which the drain waits is the number of items not done.
THEOREM CountExact == Spec => []UnfinishedExact
<1>1. Init => CountInv
  BY EmptySeq DEF Init, CountInv, UnfinishedExact
<1>2. CountInv => UnfinishedExact
  BY DEF CountInv
<1>3. QED
  BY <1>1, <1>2, NextCount, PTL DEF Spec

-----------------------------------------------------------------------------
(* The breaker. *)

LEMMA SuccessOp ==
    ASSUME NEW b \in Breaker
    PROVE  /\ record_success(b) \in Breaker
           /\ record_success(b).failures = 0
           /\ record_success(b).state = (IF b.state = "half_open" THEN "closed" ELSE b.state)
BY DEF Breaker, record_success

LEMMA FailureOp ==
    ASSUME NEW b \in Breaker
    PROVE  /\ record_failure(b) \in Breaker
           /\ record_failure(b).failures = b.failures + 1
           /\ record_failure(b).state =
                 (IF b.state = "half_open" \/ b.failures + 1 >= FailureThreshold
                  THEN "open" ELSE b.state)
<1> DEFINE next == IF b.state = "half_open" \/ b.failures + 1 >= FailureThreshold
                   THEN "open" ELSE b.state
<1>1. /\ b.state \in {"closed", "open", "half_open"} /\ b.failures + 1 \in Nat
      /\ b.trials \in Nat
  BY DEF Breaker
<1>2. next \in {"closed", "open", "half_open"}
  BY <1>1
<1>3. record_failure(b) = [b EXCEPT !.failures = @ + 1, !.cooled = FALSE, !.state = next]
  BY DEF record_failure
<1> HIDE DEF next
<1>4. record_failure(b) = [state |-> next, failures |-> b.failures + 1,
                           trials |-> b.trials, cooled |-> FALSE]
  BY <1>3 DEF Breaker
<1>5. QED
  BY <1>1, <1>2, <1>4 DEF Breaker, next

LEMMA CoolOp ==
    ASSUME NEW b \in Breaker
    PROVE  Cool(b) \in Breaker /\ Cool(b).state = b.state /\ Cool(b).failures = b.failures
BY DEF Breaker, Cool

\* A request that is allowed finds the breaker closed, or makes a trial.
LEMMA AllowOp ==
    ASSUME NEW b \in Breaker, Allows(b)
    PROVE  /\ AfterAllow(b) \in Breaker
           /\ AfterAllow(b).failures = b.failures
           /\ AfterAllow(b).state = (IF b.state = "closed" THEN "closed" ELSE "half_open")
<1>1. CASE b.state = "open" /\ b.cooled
  <2>1. AfterAllow(b) = [b EXCEPT !.state = "half_open", !.trials = 1]
    BY <1>1 DEF AfterAllow
  <2>2. AfterAllow(b) = [state |-> "half_open", failures |-> b.failures,
                         trials |-> 1, cooled |-> b.cooled]
    BY <2>1 DEF Breaker
  <2>3. b.failures \in Nat /\ b.cooled \in BOOLEAN
    BY DEF Breaker
  <2>4. QED
    BY <1>1, <2>2, <2>3 DEF Breaker
<1>2. CASE b.state = "half_open" /\ b.trials < HalfOpenMax
  <2>1. AfterAllow(b) = [b EXCEPT !.trials = @ + 1]
    BY <1>2 DEF AfterAllow
  <2>2. QED
    BY <1>2, <2>1 DEF Breaker
<1>3. CASE b.state = "closed"
  <2>1. AfterAllow(b) = b
    BY <1>3 DEF AfterAllow
  <2>2. QED
    BY <1>3, <2>1
<1>4. QED
  BY <1>1, <1>2, <1>3 DEF Allows

\* One more outcome at the end of the log.
LEMMA Told ==
    ASSUME log \in Seq(BOOLEAN), NEW o \in BOOLEAN, log' = Append(log, o)
    PROVE  /\ log' \in Seq(BOOLEAN) /\ Len(log') = Len(log) + 1 /\ Len(log) \in Nat
           /\ \A i \in 1..Len(log) : log'[i] = log[i]
           /\ log'[Len(log) + 1] = o
BY AppendProperties, LenProperties

LEMMA BreakerTypes ==
    ASSUME BreakerInv
    PROVE  /\ breaker \in Breaker /\ log \in Seq(BOOLEAN) /\ Len(log) \in Nat
           /\ breaker.failures \in Nat /\ FailureThreshold \in Nat \ {0}
           /\ breaker.state \in {"closed", "open", "half_open"}
BY BreakerConstants, LenProperties DEF BreakerInv, Breaker

\* A success closes a breaker that has let the request through.
LEMMA SuccessKeeps ==
    ASSUME BreakerInv, NEW b \in Breaker, b.state # "open", breaker' = record_success(b),
           log' = Append(log, TRUE)
    PROVE  BreakerInv'
<1>1. /\ breaker' \in Breaker /\ breaker'.failures = 0 /\ breaker'.state = "closed"
  <2>1. b.state \in {"closed", "open", "half_open"}
    BY DEF Breaker
  <2>2. QED
    BY <2>1, SuccessOp
<1>2. /\ log' \in Seq(BOOLEAN) /\ Len(log') = Len(log) + 1 /\ Len(log) \in Nat
      /\ log'[Len(log) + 1] = TRUE /\ FailureThreshold \in Nat \ {0}
  BY BreakerTypes, Told
<1>3. log'[Len(log') - breaker'.failures]
  <2>1. Len(log') - breaker'.failures = Len(log) + 1
    BY <1>1, <1>2
  <2>2. QED
    BY <1>2, <2>1
<1>4. LastFailed(breaker.failures)'
  <2>1. 0 <= Len(log') /\ \A i \in 1..Len(log') : ~(i > Len(log') - 0)
    BY <1>2
  <2>2. QED
    BY <1>1, <2>1 DEF LastFailed
<1>5. HalfOpenHasTrial'
  BY <1>1 DEF HalfOpenHasTrial
<1>6. QED
  BY <1>1, <1>2, <1>3, <1>4, <1>5 DEF BreakerInv

\* A failure adds to the failures in a row, and opens the breaker at the
\* threshold or when it was a trial.
LEMMA FailureKeeps ==
    ASSUME BreakerInv, at = "analyse", breaker' = record_failure(breaker),
           log' = Append(log, FALSE), at' = "item"
    PROVE  BreakerInv'
<1>1. /\ breaker' \in Breaker /\ breaker'.failures = breaker.failures + 1
      /\ breaker'.state = (IF breaker.state = "half_open"
                              \/ breaker.failures + 1 >= FailureThreshold
                           THEN "open" ELSE breaker.state)
  BY BreakerTypes, FailureOp
<1>2. /\ log' \in Seq(BOOLEAN) /\ Len(log') = Len(log) + 1 /\ Len(log) \in Nat
      /\ \A i \in 1..Len(log) : log'[i] = log[i]
      /\ log'[Len(log) + 1] = FALSE
      /\ breaker.failures \in Nat /\ FailureThreshold \in Nat \ {0}
      /\ breaker.state \in {"closed", "half_open"}
  <2>1. breaker.state # "open"
    BY DEF BreakerInv
  <2>2. QED
    BY <2>1, BreakerTypes, Told
<1>3. ASSUME NEW n \in Nat, LastFailed(n)
      PROVE  /\ n + 1 <= Len(log')
             /\ \A i \in 1..Len(log') : i > Len(log') - (n + 1) => ~log'[i]
  <2>1. n + 1 <= Len(log')
    BY <1>2, <1>3 DEF LastFailed
  <2>2. ASSUME NEW i \in 1..Len(log'), i > Len(log') - (n + 1)
        PROVE  ~log'[i]
    <3>1. CASE i = Len(log) + 1
      BY <1>2, <3>1
    <3>2. CASE i \in 1..Len(log)
      <4>1. i > Len(log) - n
        BY <1>2, <2>2
      <4>2. QED
        BY <1>2, <1>3, <3>2, <4>1 DEF LastFailed
    <3>3. QED
      BY <1>2, <3>1, <3>2
  <2>3. QED
    BY <2>1, <2>2
<1>4. CASE breaker.state = "half_open" \/ breaker.failures + 1 >= FailureThreshold
  <2>1. breaker'.state = "open"
    BY <1>1, <1>4
  <2>2. PICK n \in Nat : LastFailed(n) /\ n + 1 >= FailureThreshold
    <3>1. CASE breaker.state = "half_open"
      BY <1>2, <3>1 DEF BreakerInv
    <3>2. CASE breaker.state = "closed"
      BY <1>2, <1>4, <3>2 DEF BreakerInv
    <3>3. QED
      BY <1>2, <3>1, <3>2
  <2>3. /\ n + 1 <= Len(log')
        /\ \A i \in 1..Len(log') : i > Len(log') - (n + 1) => ~log'[i]
    BY <1>3, <2>2
  <2>4. LastFailed(FailureThreshold)'
    <3>1. FailureThreshold <= Len(log')
      BY <1>2, <2>2, <2>3
    <3>2. \A i \in 1..Len(log') :
             i > Len(log') - FailureThreshold => i > Len(log') - (n + 1)
      BY <1>2, <2>2
    <3>3. QED
      BY <2>3, <3>1, <3>2 DEF LastFailed
  <2>5. QED
    BY <1>1, <1>2, <2>1, <2>4 DEF BreakerInv, HalfOpenHasTrial
<1>5. CASE breaker.state = "closed" /\ breaker.failures + 1 < FailureThreshold
  <2>1. breaker'.state = "closed" /\ breaker'.failures < FailureThreshold
    BY <1>1, <1>2, <1>5
  <2>2. /\ LastFailed(breaker.failures)
        /\ breaker.failures < Len(log) => log[Len(log) - breaker.failures]
    BY <1>5 DEF BreakerInv
  <2>3. LastFailed(breaker.failures)'
    BY <1>1, <1>2, <1>3, <2>2 DEF LastFailed
  <2>4. ASSUME breaker'.failures < Len(log')
        PROVE  log'[Len(log') - breaker'.failures]
    <3>1. /\ breaker.failures < Len(log)
          /\ Len(log') - breaker'.failures = Len(log) - breaker.failures
          /\ Len(log) - breaker.failures \in 1..Len(log)
      BY <1>1, <1>2, <2>4
    <3>2. QED
      BY <1>2, <2>2, <3>1
  <2>5. QED
    BY <1>1, <1>2, <2>1, <2>3, <2>4 DEF BreakerInv, HalfOpenHasTrial
<1>6. QED
  BY <1>2, <1>4, <1>5

\* The worker goes elsewhere, and the breaker is asked, cools or is left alone.
LEMMA UntoldKeeps ==
    ASSUME BreakerInv, log' = log, breaker' \in Breaker,
           breaker'.failures = breaker.failures,
           \/ breaker'.state = breaker.state
           \/ breaker.state # "closed" /\ breaker'.state = "half_open",
           breaker'.state = "half_open" => at' \in {"analyse", "cancelled"},
           at' = "analyse" => breaker'.state # "open"
    PROVE  BreakerInv'
<1>1. /\ log' \in Seq(BOOLEAN)
      /\ LastFailed(breaker.failures)' <=> LastFailed(breaker.failures)
      /\ LastFailed(FailureThreshold)' <=> LastFailed(FailureThreshold)
  BY DEF BreakerInv, LastFailed
<1>2. breaker'.state # "closed" => LastFailed(FailureThreshold)'
  BY <1>1 DEF BreakerInv
<1>3. breaker'.state = "closed" =>
          /\ breaker'.failures < FailureThreshold
          /\ LastFailed(breaker.failures)'
          /\ breaker'.failures < Len(log') => log'[Len(log') - breaker'.failures]
  BY <1>1 DEF BreakerInv
<1>4. QED
  BY <1>1, <1>2, <1>3 DEF BreakerInv, HalfOpenHasTrial

\* The worker takes, skips and finishes items only while no trial is under way.
LEMMA WorkerBreaker ==
    ASSUME BreakerInv, Worker
    PROVE  BreakerInv'
<1>1. breaker \in Breaker /\ HalfOpenHasTrial
  BY DEF BreakerInv
<1>2. CASE Get \/ Fill \/ FillTimeout \/ BatchReturns \/ BatchRaises \/ BatchDone
           \/ Skip \/ UploadEnds
  <2>1. /\ UNCHANGED <<breaker, log>> /\ at \notin {"analyse", "cancelled"}
        /\ at' # "analyse"
    BY <1>2 DEF Get, Fill, FillTimeout, BatchReturns, BatchRaises, BatchDone, Skip, UploadEnds,
                Filled, TaskDone
  <2>2. breaker.state # "half_open"
    BY <1>1, <2>1 DEF HalfOpenHasTrial
  <2>3. QED
    BY <1>1, <2>1, <2>2, UntoldKeeps
<1>3. CASE UseAnswer
  <2>1. /\ Allows(breaker) /\ breaker' = record_success(AfterAllow(breaker))
        /\ log' = Append(log, TRUE)
    BY <1>3 DEF UseAnswer, Publish
  <2>2. AfterAllow(breaker) \in Breaker /\ AfterAllow(breaker).state # "open"
    BY <1>1, <2>1, AllowOp
  <2>3. QED
    BY <2>1, <2>2, SuccessKeeps
<1>4. CASE Analyse
  <2>1. /\ Allows(breaker) /\ breaker' = AfterAllow(breaker) /\ log' = log /\ at' = "analyse"
    BY <1>4 DEF Analyse
  <2>2. /\ breaker' \in Breaker /\ breaker'.failures = breaker.failures
        /\ breaker'.state = (IF breaker.state = "closed" THEN "closed" ELSE "half_open")
    BY <1>1, <2>1, AllowOp
  <2>3. QED
    BY <2>1, <2>2, UntoldKeeps
<1>5. CASE AnalyseReturns
  <2>1. at = "analyse" /\ breaker' = record_success(breaker) /\ log' = Append(log, TRUE)
    BY <1>5 DEF AnalyseReturns, Publish
  <2>2. breaker.state # "open"
    BY <2>1 DEF BreakerInv
  <2>3. QED
    BY <1>1, <2>1, <2>2, SuccessKeeps
<1>6. CASE AnalyseFails
  <2>1. /\ at = "analyse" /\ breaker' = record_failure(breaker) /\ log' = Append(log, FALSE)
        /\ at' = "item"
    BY <1>6 DEF AnalyseFails, TaskDone
  <2>2. QED
    BY <2>1, FailureKeeps
<1>7. QED
  BY <1>2, <1>3, <1>4, <1>5, <1>6 DEF Worker

LEMMA NextBreaker == BreakerInv /\ [Next]_vars => BreakerInv'
<1> SUFFICES ASSUME BreakerInv, [Next]_vars PROVE BreakerInv'
  OBVIOUS
<1>1. breaker \in Breaker /\ HalfOpenHasTrial /\ (at = "analyse" => breaker.state # "open")
  BY DEF BreakerInv
<1>2. CASE process \/ BeginShutdown \/ Joined \/ JoinTimeout \/ UNCHANGED vars
  <2>1. UNCHANGED <<breaker, log, at>>
    BY <1>2 DEF process, BeginShutdown, Joined, JoinTimeout, work, vars
  <2>2. QED
    BY <1>1, <2>1, UntoldKeeps DEF HalfOpenHasTrial
<1>3. CASE Recover
  <2>1. breaker' = Cool(breaker) /\ UNCHANGED <<log, at>>
    BY <1>3 DEF Recover, work
  <2>2. /\ breaker' \in Breaker /\ breaker'.failures = breaker.failures
        /\ breaker'.state = breaker.state
    BY <1>1, <2>1, CoolOp
  <2>3. QED
    BY <1>1, <2>1, <2>2, UntoldKeeps DEF HalfOpenHasTrial
<1>4. CASE CancelWorker
  <2>1. UNCHANGED <<breaker, log>> /\ at' = "cancelled"
    BY <1>4 DEF CancelWorker
  <2>2. QED
    BY <1>1, <2>1, UntoldKeeps
<1>5. QED
  BY <1>2, <1>3, <1>4, WorkerBreaker DEF Next, Shutdown

LEMMA InitBreaker == Init => BreakerInv
<1> SUFFICES ASSUME Init PROVE BreakerInv
  OBVIOUS
<1>1. /\ breaker = NewBreaker /\ log = <<>> /\ Len(log) = 0 /\ at = "get"
      /\ FailureThreshold \in Nat \ {0}
  BY EmptySeq, BreakerConstants DEF Init
<1>2. /\ breaker \in Breaker /\ breaker.state = "closed" /\ breaker.failures = 0
  BY <1>1 DEF NewBreaker, Breaker
<1>3. log \in Seq(BOOLEAN)
  BY <1>1, EmptySeq
<1>4. QED
  BY <1>1, <1>2, <1>3 DEF BreakerInv, HalfOpenHasTrial, LastFailed

\* The breaker is never left half open, where it would refuse every request,
\* without a trial whose outcome it will be told.
THEOREM TrialUnderWay == Spec => []HalfOpenHasTrial
<1>1. BreakerInv => HalfOpenHasTrial
  BY DEF BreakerInv
<1>2. QED
  BY <1>1, InitBreaker, NextBreaker, PTL DEF Spec

\* The breaker is closed unless the last FailureThreshold outcomes it was
\* told were failures, and then it is not.
THEOREM OpensExactly == Spec => []OpensOnRecordedFailures
<1>1. BreakerInv => OpensOnRecordedFailures
  <2> SUFFICES ASSUME BreakerInv PROVE OpensOnRecordedFailures
    OBVIOUS
  <2>1. /\ Len(log) \in Nat /\ FailureThreshold \in Nat \ {0} /\ breaker.failures \in Nat
        /\ DOMAIN log = 1..Len(log)
    BY BreakerTypes, LenProperties
  <2>2. CASE breaker.state # "closed"
    <3>1. LastFailed(FailureThreshold)
      BY <2>2 DEF BreakerInv
    <3>2. QED
      BY <2>1, <2>2, <3>1 DEF LastFailed, OpensOnRecordedFailures
  <2>3. CASE breaker.state = "closed"
    <3>1. /\ breaker.failures < FailureThreshold /\ LastFailed(breaker.failures)
          /\ breaker.failures < Len(log) => log[Len(log) - breaker.failures]
      BY <2>3 DEF BreakerInv
    <3>2. CASE breaker.failures < Len(log)
      <4>1. /\ Len(log) - breaker.failures \in DOMAIN log
            /\ Len(log) - breaker.failures > Len(log) - FailureThreshold
        BY <2>1, <3>1, <3>2
      <4>2. QED
        BY <2>3, <3>1, <3>2, <4>1 DEF OpensOnRecordedFailures
    <3>3. CASE ~(breaker.failures < Len(log))
      <4>1. Len(log) < FailureThreshold
        BY <2>1, <3>1, <3>3
      <4>2. QED
        BY <2>3, <3>1, <4>1 DEF OpensOnRecordedFailures
    <3>4. QED
      BY <3>2, <3>3
  <2>4. QED
    BY <2>2, <2>3
<1>2. QED
  BY <1>1, InitBreaker, NextBreaker, PTL DEF Spec
-----------------------------------------------------------------------------
(* The drain. *)

In(s, i) == \E k \in 1..Len(s) : s[k] = i
Waiting(i) == In(queue, i) \/ In(batch, i)

\* An item whose outcome is open is in the queue or in the batch.
OpenInv ==
    /\ DOMAIN outcome = Items
    /\ \A i \in Items : outcome[i] = "queued" => Waiting(i)
    /\ \A i : Waiting(i) => i \in Items /\ i <= arrived
    /\ at = "upload" => outcome[Head(batch)] # "queued"

\* Where the shutdown is, and what it has done by then.
StopInv ==
    /\ at = "cancelled" => phase = "down"
    /\ phase # "up" => shuttingDown
    /\ drain = "joined" => phase \in {"cancel", "down"} /\ DrainedWhenJoined

DrainInv == CountInv /\ OpenInv /\ StopInv

LEMMA InFront ==
    ASSUME NEW s \in Seq(Nat), s # <<>>
    PROVE  /\ In(s, Head(s))
           /\ \A i : In(Tail(s), i) => In(s, i)
           /\ \A i : In(s, i) => i = Head(s) \/ In(Tail(s), i)
<1>1. /\ Len(s) \in Nat \ {0} /\ Tail(s) \in Seq(Nat) /\ Len(Tail(s)) = Len(s) - 1
      /\ Head(s) = s[1] /\ \A k \in 1..Len(Tail(s)) : Tail(s)[k] = s[k + 1]
  BY HeadTailProperties, EmptySeq
<1>2. In(s, Head(s))
  BY <1>1 DEF In
<1>3. ASSUME NEW i, In(Tail(s), i) PROVE In(s, i)
  <2>1. PICK k \in 1..Len(Tail(s)) : Tail(s)[k] = i
    BY <1>3 DEF In
  <2>2. k + 1 \in 1..Len(s) /\ s[k + 1] = i
    BY <1>1, <2>1
  <2>3. QED
    BY <2>2 DEF In
<1>4. ASSUME NEW i, In(s, i), i # Head(s) PROVE In(Tail(s), i)
  <2>1. PICK k \in 1..Len(s) : s[k] = i
    BY <1>4 DEF In
  <2>2. k # 1
    BY <1>1, <1>4, <2>1
  <2>3. k - 1 \in 1..Len(Tail(s)) /\ (k - 1) + 1 = k
    BY <1>1, <2>2
  <2>4. Tail(s)[k - 1] = i
    BY <1>1, <2>1, <2>3
  <2>5. QED
    BY <2>3, <2>4 DEF In
<1>5. QED
  BY <1>2, <1>3, <1>4

LEMMA InAppended ==
    ASSUME NEW s \in Seq(Nat), NEW e \in Nat
    PROVE  \A i : In(Append(s, e), i) <=> In(s, i) \/ i = e
<1>1. /\ Len(s) \in Nat /\ Len(Append(s, e)) = Len(s) + 1 /\ Append(s, e)[Len(s) + 1] = e
      /\ \A k \in 1..Len(s) : Append(s, e)[k] = s[k]
  BY AppendProperties, LenProperties
<1>2. QED
  BY <1>1 DEF In

\* An item that moves from the queue to the batch goes on waiting.
LEMMA TakeOpen ==
    ASSUME DrainInv, TakeInto(batch), UNCHANGED <<outcome, arrived>>, at' # "upload"
    PROVE  OpenInv'
<1>1. /\ queue \in Seq(Nat) /\ batch \in Seq(Nat) /\ queue # <<>>
      /\ queue' = Tail(queue) /\ batch' = Append(batch, Head(queue))
  BY DEF DrainInv, CountInv, TakeInto
<1>2. Head(queue) \in Nat
  BY <1>1, TakeFront
<1>3. \A i : Waiting(i)' <=> Waiting(i)
  <2>1. \A i : In(batch', i) <=> In(batch, i) \/ i = Head(queue)
    BY <1>1, <1>2, InAppended
  <2>2. /\ In(queue, Head(queue)) /\ \A i : In(queue', i) => In(queue, i)
        /\ \A i : In(queue, i) => i = Head(queue) \/ In(queue', i)
    BY <1>1, InFront
  <2>3. QED
    BY <2>1, <2>2 DEF Waiting, In
<1>4. QED
  BY <1>3 DEF DrainInv, OpenInv

\* The item at the front of the batch gets its outcome: while it is uploaded
\* it stays in the batch, and then it leaves.
LEMMA SettleOpen ==
    ASSUME DrainInv, batch # <<>>, NEW o, o # "queued", UNCHANGED <<queue, arrived>>,
           outcome' = [outcome EXCEPT ![Head(batch)] = o],
           batch' = batch \/ (at' # "upload" /\ batch' = Tail(batch))
    PROVE  OpenInv'
<1>1. /\ batch \in Seq(Nat) /\ In(batch, Head(batch)) /\ OpenInv
      /\ \A i : In(Tail(batch), i) => In(batch, i)
      /\ \A i : In(batch, i) => i = Head(batch) \/ In(Tail(batch), i)
  BY InFront DEF DrainInv, CountInv
<1>2. Head(batch) \in Items
  BY <1>1 DEF OpenInv, Waiting
<1>3. /\ DOMAIN outcome' = Items /\ outcome'[Head(batch)] = o
      /\ \A i \in Items : i # Head(batch) => outcome'[i] = outcome[i]
  BY <1>1, <1>2 DEF OpenInv
<1>4. /\ \A i : Waiting(i)' => Waiting(i)
      /\ \A i : Waiting(i) /\ i # Head(batch) => Waiting(i)'
  BY <1>1 DEF Waiting, In
<1>5. at' = "upload" => outcome'[Head(batch')] # "queued"
  BY <1>3
<1>6. QED
  BY <1>1, <1>3, <1>4, <1>5 DEF OpenInv

LEMMA SameOpen ==
    ASSUME OpenInv, UNCHANGED <<queue, batch, outcome, arrived>>, at' = at \/ at' # "upload"
    PROVE  OpenInv'
BY DEF OpenInv, Waiting, In

LEMMA WorkerOpen ==
    ASSUME DrainInv, Worker
    PROVE  OpenInv'
<1>1. OpenInv /\ CountInv
  BY DEF DrainInv
<1>2. CASE Get \/ Fill
  <2>1. TakeInto(batch) /\ UNCHANGED <<outcome, arrived>> /\ at' # "upload"
    BY <1>1, <1>2 DEF Get, Fill, Filled, CountInv
  <2>2. QED
    BY <2>1, TakeOpen
<1>3. CASE FillTimeout \/ BatchReturns \/ BatchRaises \/ BatchDone \/ Analyse
  <2>1. UNCHANGED <<queue, batch, outcome, arrived>> /\ at' # "upload"
    BY <1>3 DEF FillTimeout, BatchReturns, BatchRaises, BatchDone, Analyse, Filled
  <2>2. QED
    BY <1>1, <2>1, SameOpen
<1>4. CASE Skip \/ UseAnswer \/ AnalyseReturns \/ AnalyseFails \/ UploadEnds
  <2>1. batch # <<>>
    BY <1>1, <1>4 DEF Skip, UseAnswer, AnalyseReturns, AnalyseFails, UploadEnds, CountInv
  <2>2. UNCHANGED <<queue, arrived>>
    BY <1>4 DEF Skip, UseAnswer, AnalyseReturns, AnalyseFails, UploadEnds
  <2>3. \E o : /\ o # "queued"
               /\ outcome' = [outcome EXCEPT ![Head(batch)] = o]
               /\ batch' = batch \/ (at' # "upload" /\ batch' = Tail(batch))
    <3>1. CASE Skip
      BY <3>1 DEF Skip, TaskDone
    <3>2. CASE UseAnswer
      BY <3>2 DEF UseAnswer, Publish, TaskDone
    <3>3. CASE AnalyseReturns
      BY <3>3 DEF AnalyseReturns, Publish, TaskDone
    <3>4. CASE AnalyseFails
      BY <3>4 DEF AnalyseFails, TaskDone
    <3>5. CASE UploadEnds
      BY <1>1, <3>5 DEF UploadEnds, TaskDone, OpenInv
    <3>6. QED
      BY <1>4, <3>1, <3>2, <3>3, <3>4, <3>5
  <2>4. QED
    BY <2>1, <2>2, <2>3, SettleOpen
<1>5. QED
  BY <1>2, <1>3, <1>4 DEF Worker

\* A frame that matches a rule: it waits, or its outcome is settled at once.
LEMMA ProcessOpen ==
    ASSUME DrainInv, process
    PROVE  OpenInv'
<1>1. /\ OpenInv /\ queue \in Seq(Nat) /\ arrived \in Nat /\ MaxItems \in Nat
      /\ at = "upload" => batch # <<>> /\ In(batch, Head(batch))
  BY PipelineConstants, InFront DEF DrainInv, CountInv
<1>2. /\ arrived' = arrived + 1 /\ arrived' \in Items /\ UNCHANGED <<batch, at>>
  BY <1>1 DEF process, Items
<1>3. PICK o : /\ outcome' = [outcome EXCEPT ![arrived'] = o]
               /\ \/ o # "queued" /\ queue' = queue
                  \/ o = "queued" /\ queue' = Append(queue, arrived')
  BY DEF process
<1>4. /\ DOMAIN outcome' = Items /\ outcome'[arrived'] = o
      /\ \A i \in Items : i # arrived' => outcome'[i] = outcome[i]
  BY <1>1, <1>2, <1>3 DEF OpenInv
<1>5. /\ \A i : Waiting(i) => Waiting(i)'
      /\ \A i : Waiting(i)' => Waiting(i) \/ i = arrived'
      /\ \A i : o = "queued" /\ i = arrived' => Waiting(i)'
  <2>1. arrived' \in Nat
    BY <1>1, <1>2
  <2>2. CASE queue' = queue /\ o # "queued"
    BY <1>2, <2>2 DEF Waiting, In
  <2>3. CASE queue' = Append(queue, arrived')
    <3>1. \A i : In(queue', i) <=> In(queue, i) \/ i = arrived'
      BY <1>1, <2>1, <2>3, InAppended
    <3>2. \A i : In(batch', i) <=> In(batch, i)
      BY <1>2
    <3>3. \A i : Waiting(i)' <=> In(queue', i) \/ In(batch', i)
      BY DEF Waiting, In
    <3>4. \A i : Waiting(i) <=> In(queue, i) \/ In(batch, i)
      BY DEF Waiting
    <3>5. QED
      BY <3>1, <3>2, <3>3, <3>4
  <2>4. QED
    BY <1>3, <2>2, <2>3
<1>6. \A i : Waiting(i)' => i \in Items /\ i <= arrived'
  <2>1. \A i \in Items : i <= arrived => i <= arrived'
    BY <1>1, <1>2 DEF Items
  <2>2. arrived' <= arrived'
    BY <1>1, <1>2
  <2>3. QED
    BY <1>1, <1>2, <1>5, <2>1, <2>2 DEF OpenInv
<1>7. ASSUME at' = "upload" PROVE outcome'[Head(batch')] # "queued"
  <2>1. /\ Head(batch) \in Items /\ Head(batch) <= arrived
        /\ outcome[Head(batch)] # "queued"
    BY <1>1, <1>2, <1>7 DEF OpenInv, Waiting
  <2>2. Head(batch) # arrived'
    BY <1>1, <1>2, <2>1
  <2>3. QED
    BY <1>2, <1>4, <2>1, <2>2
<1>8. \A i \in Items : outcome'[i] = "queued" => Waiting(i)'
  BY <1>1, <1>4, <1>5 DEF OpenInv
<1>9. QED
  BY <1>4, <1>6, <1>7, <1>8 DEF OpenInv

\* Nothing is queued once the server shuts down.
LEMMA WorkStop ==
    ASSUME DrainInv, Worker \/ process
    PROVE  StopInv'
<1>1. /\ StopInv /\ OpenInv /\ CountInv /\ UNCHANGED <<shuttingDown, phase, drain>>
      /\ at' # at => at' # "cancelled"
  BY DEF DrainInv, Worker, process, Get, Fill, FillTimeout, BatchReturns, BatchRaises, BatchDone,
         Skip, UseAnswer, Analyse, AnalyseReturns, AnalyseFails, UploadEnds, Publish, TaskDone,
         Filled
<1>2. ASSUME drain = "joined" PROVE DrainedWhenJoined'
  <2>1. shuttingDown /\ \A i \in Items : outcome[i] # "queued"
    BY <1>1, <1>2 DEF StopInv, DrainedWhenJoined
  <2>2. \A i \in Items : outcome'[i] # "queued"
    <3>1. CASE Worker
      <4>1. \/ outcome' = outcome
            \/ \E o : o # "queued" /\ outcome' = [outcome EXCEPT ![Head(batch)] = o]
        <5>1. CASE Get \/ Fill \/ FillTimeout \/ BatchReturns \/ BatchRaises \/ BatchDone \/ Analyse
          BY <5>1 DEF Get, Fill, FillTimeout, BatchReturns, BatchRaises, BatchDone, Analyse
        <5>2. CASE Skip \/ AnalyseFails
          BY <5>2 DEF Skip, AnalyseFails, TaskDone
        <5>3. CASE UseAnswer \/ AnalyseReturns
          BY <5>3 DEF UseAnswer, AnalyseReturns, Publish, TaskDone
        <5>4. CASE UploadEnds
          BY <1>1, <5>4 DEF UploadEnds, TaskDone, OpenInv
        <5>5. QED
          BY <3>1, <5>1, <5>2, <5>3, <5>4 DEF Worker
      <4>2. QED
        BY <1>1, <2>1, <4>1 DEF OpenInv
    <3>2. CASE process
      <4>1. outcome' = [outcome EXCEPT ![arrived'] = "rejected"]
        BY <2>1, <3>2 DEF process
      <4>2. QED
        BY <1>1, <2>1, <4>1 DEF OpenInv
    <3>3. QED
      BY <3>1, <3>2
  <2>3. QED
    BY <2>2 DEF DrainedWhenJoined
<1>3. QED
  BY <1>1, <1>2 DEF StopInv

\* The join returns when no task is unfinished: then nothing waits.
LEMMA ShutdownStop ==
    ASSUME DrainInv, Shutdown \/ Recover
    PROVE  StopInv'
<1>1. StopInv /\ OpenInv /\ CountInv /\ outcome' = outcome
  BY DEF DrainInv, Shutdown, BeginShutdown, Joined, JoinTimeout, CancelWorker, Recover
<1>2. CASE BeginShutdown \/ JoinTimeout \/ CancelWorker \/ Recover
  <2>1. DrainedWhenJoined' <=> (drain' = "joined" => \A i \in Items : outcome[i] # "queued")
    BY <1>1 DEF DrainedWhenJoined
  <2>2. QED
    BY <1>1, <1>2, <2>1 DEF StopInv, DrainedWhenJoined, BeginShutdown, JoinTimeout, CancelWorker,
                            Recover, work
<1>3. CASE Joined
  <2>1. /\ phase = "join" /\ unfinished = 0 /\ UNCHANGED <<at, shuttingDown>>
        /\ phase' = "cancel" /\ drain' = "joined"
    BY <1>3 DEF Joined, work
  <2>2. at # "cancelled" /\ shuttingDown
    BY <1>1, <2>1 DEF StopInv
  <2>3. Len(queue) = 0 /\ Len(batch) = 0
    <3>1. Len(queue) \in Nat /\ Len(batch) \in Nat
      BY <1>1, LenProperties DEF CountInv
    <3>2. QED
      BY <1>1, <2>1, <2>2, <3>1 DEF CountInv, UnfinishedExact
  <2>4. \A i \in Items : outcome[i] # "queued"
    BY <1>1, <2>3 DEF OpenInv, Waiting, In
  <2>5. DrainedWhenJoined'
    BY <1>1, <2>4 DEF DrainedWhenJoined
  <2>6. QED
    BY <2>1, <2>2, <2>5 DEF StopInv
<1>4. QED
  BY <1>2, <1>3 DEF Shutdown

LEMMA NextDrain == DrainInv /\ [Next]_vars => DrainInv'
<1> SUFFICES ASSUME DrainInv, [Next]_vars PROVE DrainInv'
  OBVIOUS
<1>1. CountInv'
  BY NextCount DEF DrainInv
<1>2. CASE process \/ Worker
  BY <1>1, <1>2, ProcessOpen, WorkerOpen, WorkStop DEF DrainInv
<1>3. CASE Shutdown \/ Recover
  <2>1. OpenInv'
    <3>1. UNCHANGED <<queue, batch, outcome, arrived>> /\ (at' = at \/ at' # "upload")
      BY <1>3 DEF Shutdown, BeginShutdown, Joined, JoinTimeout, CancelWorker, Recover, work
    <3>2. QED
      BY <3>1, SameOpen DEF DrainInv
  <2>2. QED
    BY <1>1, <1>3, <2>1, ShutdownStop DEF DrainInv
<1>4. CASE UNCHANGED vars
  <2>1. OpenInv'
    BY <1>4, SameOpen DEF DrainInv, vars, work
  <2>2. StopInv'
    BY <1>4 DEF DrainInv, StopInv, DrainedWhenJoined, vars, work
  <2>3. QED
    BY <1>1, <2>1, <2>2 DEF DrainInv
<1>5. QED
  BY <1>2, <1>3, <1>4 DEF Next

\* When the drain ends without its time-out no item is left behind, whatever
\* the worker had in its batch and however full the queue was.
THEOREM Drained == Spec => []DrainedWhenJoined
<1>1. Init => DrainInv
  <2> SUFFICES ASSUME Init PROVE DrainInv
    OBVIOUS
  <2>1. CountInv /\ Len(queue) = 0 /\ Len(batch) = 0
    BY EmptySeq DEF Init, CountInv, UnfinishedExact
  <2>2. OpenInv
    BY <2>1 DEF Init, OpenInv, Waiting, In
  <2>3. StopInv
    BY DEF Init, StopInv
  <2>4. QED
    BY <2>1, <2>2, <2>3 DEF DrainInv
<1>2. DrainInv => DrainedWhenJoined
  BY DEF DrainInv, StopInv, DrainedWhenJoined
<1>3. QED
  BY <1>1, <1>2, NextDrain, PTL DEF Spec

-----------------------------------------------------------------------------
(* Types.  An item that is settled is at the front of the batch, and the     *)
(* count that task_done lowers is then not zero: both by CountInv.           *)

\* A run of analyses leaves a number of failures in a row.
LEMMA FailuresInARow ==
    ASSUME NEW run \in Seq(BOOLEAN), NEW before \in Nat
    PROVE  FailedInARow(run, before) \in Nat
<1> DEFINE good == {i \in DOMAIN run : run[i]}
           m == Len(run)
           T == {n \in Nat : m - n \in good}
<1>1. m \in Nat /\ DOMAIN run = 1..m
  BY LenProperties
<1>2. CASE good = {}
  <2>1. FailedInARow(run, before) = before + m
    BY <1>2 DEF FailedInARow
  <2>2. QED
    BY <1>1, <2>1
<1>3. CASE good # {}
  <2>1. good \subseteq 1..m
    BY <1>1
  <2> HIDE DEF good, m
  <2>2. PICK g \in good : TRUE
    BY <1>3
  <2>3. m - g \in Nat /\ m - (m - g) = g
    BY <1>1, <2>1, <2>2
  <2>4. PICK n \in T : \A k \in T : n <= k
    <3>1. T # {} /\ T \subseteq Nat
      BY <2>2, <2>3
    <3>2. QED
      BY <3>1, LeastNumber
  <2>5. m - n \in good /\ \A y \in good : m - n >= y
    <3>1. ASSUME NEW y \in good
          PROVE  m - n >= y
      <4>1. m - y \in Nat /\ m - (m - y) = y /\ y \in Nat
        BY <1>1, <2>1
      <4>2. m - y \in T
        BY <4>1
      <4>3. n <= m - y
        BY <2>4, <4>2
      <4>4. QED
        BY <1>1, <4>1, <4>3
    <3>2. QED
      BY <3>1
  <2>6. Max(good) \in good
    BY <2>5 DEF Max
  <2>7. FailedInARow(run, before) = m - Max(good)
    BY <1>3 DEF FailedInARow, good, m
  <2>8. \A x \in 1..m : m - x \in Nat
    BY <1>1
  <2>9. Max(good) \in 1..m
    BY <2>1, <2>6
  <2>10. QED
    BY <2>7, <2>8, <2>9, Zenon
<1>4. QED
  BY <1>2, <1>3

\* task_done, for the item at the front of the batch.
LEMMA DoneTypes ==
    ASSUME TypeOK, CountInv, at # "cancelled", batch # <<>>, NEW o \in Outcomes, TaskDone(o)
    PROVE  /\ batch' \in Seq(Items) /\ answers' \in Seq(BOOLEAN)
           /\ unfinished' \in Nat /\ at' = "item" /\ outcome' \in [Items -> Outcomes]
<1>1. /\ unfinished' = unfinished - 1 /\ batch' = Tail(batch) /\ at' = "item"
      /\ outcome' = [outcome EXCEPT ![Head(batch)] = o]
      /\ answers' = IF answers = <<>> THEN <<>> ELSE Tail(answers)
  BY DEF TaskDone
<1>2. /\ batch \in Seq(Items) /\ answers \in Seq(BOOLEAN) /\ queue \in Seq(Items)
      /\ unfinished \in Nat /\ outcome \in [Items -> Outcomes]
  BY DEF TypeOK
<1>3. Head(batch) \in Items /\ Tail(batch) \in Seq(Items) /\ Len(batch) \in Nat \ {0}
  BY <1>2, HeadTailProperties, EmptySeq
<1>4. answers' \in Seq(BOOLEAN)
  BY <1>1, <1>2, HeadTailProperties, EmptySeq
<1>5. unfinished' \in Nat
  <2>1. unfinished = Len(queue) + Len(batch) /\ Len(queue) \in Nat
    BY <1>2, LenProperties DEF CountInv, UnfinishedExact
  <2>2. QED
    BY <1>1, <1>3, <2>1
<1>6. QED
  BY <1>1, <1>2, <1>3, <1>4, <1>5

\* An item goes from the queue to the batch b.
LEMMA TakeTypes ==
    ASSUME TypeOK, NEW b \in Seq(Items), TakeInto(b)
    PROVE  queue' \in Seq(Items) /\ batch' \in Seq(Items)
<1>1. queue \in Seq(Items) /\ queue # <<>> /\ queue' = Tail(queue) /\ batch' = Append(b, Head(queue))
  BY DEF TypeOK, TakeInto
<1>2. Head(queue) \in Items /\ Tail(queue) \in Seq(Items)
  BY <1>1, HeadTailProperties, EmptySeq
<1>3. QED
  BY <1>1, <1>2, AppendProperties

\* What the worker does outside the breaker and its log, whose types are part
\* of BreakerInv.
WorkerTypes ==
    /\ queue \in Seq(Items) /\ batch \in Seq(Items) /\ answers \in Seq(BOOLEAN)
    /\ unfinished \in Nat /\ at \in Locations
    /\ outcome \in [Items -> Outcomes] /\ failing \in Nat

LEMMA WorkerStepTypes ==
    ASSUME TypeOK, CountInv, Worker
    PROVE  WorkerTypes' /\ UNCHANGED <<shuttingDown, phase, arrived, drain>>
<1>1. /\ WorkerTypes /\ queue \in Seq(Items) /\ batch \in Seq(Items)
      /\ failing \in Nat
      /\ at \in {"analyse", "upload"} => batch # <<>>
  BY DEF TypeOK, WorkerTypes, CountInv
<1>2. CASE Get
  <2>1. /\ TakeInto(<<>>) /\ at' \in Locations /\ <<>> \in Seq(Items)
        /\ UNCHANGED <<unfinished, answers, shuttingDown, phase, arrived, outcome, failing, drain>>
    BY <1>2, EmptySeq DEF Get, Filled, Locations
  <2>2. QED
    BY <1>1, <2>1, TakeTypes DEF WorkerTypes
<1>3. CASE Fill
  <2>1. /\ TakeInto(batch) /\ at' \in Locations
        /\ UNCHANGED <<unfinished, answers, shuttingDown, phase, arrived, outcome, failing, drain>>
    BY <1>1, <1>3 DEF Fill, Filled, Locations, WorkerTypes
  <2>2. QED
    BY <1>1, <2>1, TakeTypes DEF WorkerTypes
<1>4. CASE FillTimeout \/ BatchRaises \/ BatchDone \/ Analyse
  <2>1. /\ at' \in Locations
        /\ UNCHANGED <<queue, batch, unfinished, answers, outcome, failing,
                       shuttingDown, phase, arrived, drain>>
    BY <1>4 DEF FillTimeout, BatchRaises, BatchDone, Analyse, Filled, Locations
  <2>2. QED
    BY <1>1, <2>1 DEF WorkerTypes
<1>5. CASE BatchReturns
  <2>1. /\ answers' \in [1..Len(batch) -> BOOLEAN] /\ failing' = FailedInARow(answers', failing)
        /\ at' \in Locations
        /\ UNCHANGED <<queue, batch, unfinished, outcome, shuttingDown, phase, arrived, drain>>
    BY <1>5 DEF BatchReturns, Locations
  <2>2. answers' \in Seq(BOOLEAN)
    BY <1>1, <2>1, LenProperties
  <2>3. failing' \in Nat
    BY <1>1, <2>1, <2>2, FailuresInARow
  <2>4. QED
    BY <1>1, <2>1, <2>2, <2>3 DEF WorkerTypes
<1>6. CASE Skip \/ AnalyseFails \/ UploadEnds
  <2>1. /\ at # "cancelled" /\ batch # <<>>
        /\ failing' \in {failing, failing + 1}
        /\ UNCHANGED <<queue, shuttingDown, phase, arrived, drain>>
    BY <1>1, <1>6 DEF Skip, AnalyseFails, UploadEnds
  <2>2. \E o \in Outcomes : TaskDone(o)
    <3>1. CASE UploadEnds
      <4>1. Head(batch) \in Items
        BY <1>1, <2>1, HeadTailProperties, EmptySeq
      <4>2. outcome[Head(batch)] \in Outcomes
        BY <1>1, <4>1 DEF WorkerTypes
      <4>3. QED
        BY <3>1, <4>2 DEF UploadEnds
    <3>2. CASE Skip \/ AnalyseFails
      BY <3>2 DEF Skip, AnalyseFails, Outcomes
    <3>3. QED
      BY <1>6, <3>1, <3>2
  <2>3. /\ batch' \in Seq(Items) /\ answers' \in Seq(BOOLEAN)
        /\ unfinished' \in Nat /\ at' = "item" /\ outcome' \in [Items -> Outcomes]
    BY <2>1, <2>2, DoneTypes
  <2>4. QED
    BY <1>1, <2>1, <2>3 DEF WorkerTypes, Locations
<1>7. CASE UseAnswer \/ AnalyseReturns
  <2>1. /\ at # "cancelled" /\ batch # <<>>
        /\ failing' \in {failing, 0}
        /\ UNCHANGED <<queue, shuttingDown, phase, arrived, drain>>
    BY <1>1, <1>7 DEF UseAnswer, AnalyseReturns
  <2>2. PICK o \in Outcomes :
            \/ /\ at' = "upload" /\ outcome' = [outcome EXCEPT ![Head(batch)] = o]
               /\ UNCHANGED <<unfinished, batch, answers>>
            \/ TaskDone(o)
    <3>1. CASE UseAnswer
      <4>1. \/ Publish("analysed", AfterAllow(breaker))
            \/ Publish("error text", AfterAllow(breaker))
        BY <3>1 DEF UseAnswer
      <4>2. QED
        BY <4>1 DEF Publish, Outcomes
    <3>2. CASE AnalyseReturns
      BY <3>2 DEF AnalyseReturns, Publish, Outcomes
    <3>3. QED
      BY <1>7, <3>1, <3>2
  <2>3. CASE TaskDone(o)
    <3>1. /\ batch' \in Seq(Items) /\ answers' \in Seq(BOOLEAN)
          /\ unfinished' \in Nat /\ at' = "item" /\ outcome' \in [Items -> Outcomes]
      BY <2>1, <2>3, DoneTypes
    <3>2. QED
      BY <1>1, <2>1, <3>1 DEF WorkerTypes, Locations
  <2>4. CASE /\ at' = "upload" /\ outcome' = [outcome EXCEPT ![Head(batch)] = o]
             /\ UNCHANGED <<unfinished, batch, answers>>
    <3>1. outcome' \in [Items -> Outcomes]
      BY <1>1, <2>2, <2>4 DEF WorkerTypes
    <3>2. QED
      BY <1>1, <2>1, <2>4, <3>1 DEF WorkerTypes, Locations
  <2>5. QED
    BY <2>2, <2>3, <2>4
<1>8. QED
  BY <1>2, <1>3, <1>4, <1>5, <1>6, <1>7 DEF Worker

TypeInv == TypeOK /\ CountInv /\ BreakerInv

LEMMA NextTypes == TypeInv /\ [Next]_vars => TypeInv'
<1> SUFFICES ASSUME TypeInv, [Next]_vars PROVE TypeInv'
  OBVIOUS
<1>1. TypeOK /\ CountInv /\ BreakerInv /\ CountInv' /\ BreakerInv'
  BY NextCount, NextBreaker DEF TypeInv
<1>2. breaker' \in Breaker /\ log' \in Seq(BOOLEAN)
  BY <1>1 DEF BreakerInv
<1>3. CASE Worker
  <2>1. WorkerTypes' /\ UNCHANGED <<shuttingDown, phase, arrived, drain>>
    BY <1>1, <1>3, WorkerStepTypes
  <2>2. QED
    BY <1>1, <1>2, <2>1 DEF TypeOK, WorkerTypes, TypeInv
<1>4. CASE process
  <2>1. /\ arrived \in 0..MaxItems /\ arrived < MaxItems /\ arrived' = arrived + 1
        /\ UNCHANGED <<batch, answers, at, shuttingDown, phase, failing, drain>>
        /\ queue \in Seq(Items) /\ unfinished \in Nat /\ outcome \in [Items -> Outcomes]
    BY <1>1, <1>4 DEF process, TypeOK
  <2>2. arrived' \in 0..MaxItems /\ arrived' \in Items
    BY <2>1, PipelineConstants DEF Items
  <2>3. \E o \in Outcomes : outcome' = [outcome EXCEPT ![arrived'] = o]
    BY <1>4 DEF process, Outcomes
  <2>4. outcome' \in [Items -> Outcomes]
    BY <2>1, <2>3
  <2>5. queue' \in Seq(Items) /\ unfinished' \in Nat
    <3>1. \/ UNCHANGED <<queue, unfinished>>
          \/ queue' = Append(queue, arrived') /\ unfinished' = unfinished + 1
      BY <1>4 DEF process
    <3>2. QED
      BY <2>1, <2>2, <3>1, AppendProperties
  <2>6. QED
    BY <1>1, <1>2, <2>1, <2>2, <2>4, <2>5 DEF TypeOK, TypeInv
<1>5. CASE CancelWorker
  <2>1. /\ phase' = "down" /\ at' = "cancelled"
        /\ unfinished' = IF at \in {"analyse", "upload"} THEN unfinished - 1 ELSE unfinished
        /\ UNCHANGED <<queue, batch, answers, shuttingDown, arrived, outcome, failing, drain>>
    BY <1>5 DEF CancelWorker
  <2>2. unfinished' \in Nat
    <3>1. unfinished \in Nat /\ queue \in Seq(Items) /\ batch \in Seq(Items)
      BY <1>1 DEF TypeOK
    <3>2. ASSUME at \in {"analyse", "upload"}
          PROVE  unfinished = Len(queue) + Len(batch) /\ Len(queue) \in Nat /\ Len(batch) \in Nat \ {0}
      <4>1. batch # <<>> /\ at # "cancelled"
        BY <1>1, <3>2 DEF CountInv
      <4>2. QED
        BY <1>1, <3>1, <4>1, LenProperties, HeadTailProperties, EmptySeq DEF CountInv, UnfinishedExact
    <3>3. QED
      BY <2>1, <3>1, <3>2
  <2>3. QED
    BY <1>1, <1>2, <2>1, <2>2 DEF TypeOK, TypeInv, Locations
<1>6. CASE Recover \/ BeginShutdown \/ Joined \/ JoinTimeout \/ UNCHANGED vars
  <2>1. /\ UNCHANGED <<queue, unfinished, batch, answers, at, arrived, outcome, failing>>
        /\ shuttingDown' \in {shuttingDown, TRUE} /\ phase' \in {phase, "join", "cancel"}
        /\ drain' \in {drain, "joined", "timedOut"}
    BY <1>6 DEF Recover, BeginShutdown, Joined, JoinTimeout, vars, work
  <2>2. QED
    BY <1>1, <1>2, <2>1 DEF TypeOK, TypeInv
<1>7. QED
  BY <1>3, <1>4, <1>5, <1>6 DEF Next, Shutdown

\* Queue and batch hold frames that matched, every frame has one of the known
\* outcomes, and the count of unfinished tasks, which task_done would raise on,
\* never goes below zero.
THEOREM TypeCorrect == Spec => []TypeOK
<1>1. Init => TypeInv
  <2> SUFFICES ASSUME Init PROVE TypeInv
    OBVIOUS
  <2>1. CountInv
    BY EmptySeq DEF Init, CountInv, UnfinishedExact
  <2>2. BreakerInv
    BY InitBreaker
  <2>3. TypeOK
    <3>1. \A S : <<>> \in Seq(S)
      BY EmptySeq
    <3>2. breaker \in Breaker /\ log \in Seq(BOOLEAN)
      BY <2>2 DEF BreakerInv
    <3>3. 0 \in 0..MaxItems
      BY PipelineConstants
    <3>4. [i \in Items |-> "none"] \in [Items -> Outcomes]
      BY DEF Outcomes
    <3>5. QED
      BY <3>1, <3>2, <3>3, <3>4 DEF Init, TypeOK, Locations
  <2>4. QED
    BY <2>1, <2>2, <2>3 DEF TypeInv
<1>2. TypeInv => TypeOK
  BY DEF TypeInv
<1>3. QED
  BY <1>1, <1>2, NextTypes, PTL DEF Spec
=============================================================================
