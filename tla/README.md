# Neuro-Pipeline in TLA+

Neuro-Pipeline detects objects on edge devices (C++, `rk3588-edge/`) and
analyses what they see with a vision-language model on a central server
(Python, `mac-central/`); the two speak gRPC (`proto/neuro_pipeline.proto`).
This directory models the parts of it in which threads, asyncio tasks, messages
and failures meet, checks them with TLC on small instances, and proves the
invariants that matter most with TLAPS for every instance.

## 1. Inventory

| Component | State | Operations | Hard behaviours | What makes it correct |
|---|---|---|---|---|
| Detection queue (`detection_queue.cpp`) | deque of serialized results, byte counter, statistics | Enqueue (evicting), Dequeue (parsing), Size, MemoryUsage, GetStats | two limits at once, oversized entries, entries that do not parse, unsigned counter | bounded, newest kept in order, counters exact |
| gRPC client (`grpc_client.cpp`) | `connected_`, `reconnect_attempts_`, channel, detection stream, event stream with its reader thread, cache queue | Connect, Disconnect, StreamDetection, FlushStream, Start/StopEventStream, SendEdgeEvent | the lock is given up to sleep and to use the queue; streams break under it | no result lost without account, none sent twice, every call returns, no stream without a channel |
| Pipeline coordinator and main (`pipeline_coordinator.cpp`, `edge_main.cpp`) | `running_`, sources, lent frames, engine and its mutex, configuration | Initialize, Start, Run, Stop, HandleCommand | three threads, commands executed by the reader thread, ways out of an iteration, the stop sequence | stops when told to; gives every buffer back; serves all cameras; an inference is not disturbed |
| Tracking and deduplication (`temporal_tracker.cpp`, `detection_cache.cpp`) | tracks, cache of recent boxes | Update, DetectBehaviors, IsNovel | identifiers travel by position in lists of different lengths | a box carries its own track identifier |
| Adaptive FPS, video recorder, edge metrics | counters, ring buffer, recording state | Update, PushFrame, TriggerRecording | triggers during a recording | every recording completes |
| Edge memory and threads (`memory_pool.cpp`, `thread_pool.cpp`, `mmap_ipc.cpp`, `zero_copy_buffer.cpp`) | free list, task queue, shared segment | Allocate/Free, Submit/Shutdown, create/open/unlink | double free, shutdown against submission | no block has two owners; accepted tasks run |
| Models on the edge (`multi_model_manager.cpp`, `multi_model_scheduler.cpp`, `npu_scheduler.cpp`, `model_cascade.cpp`) | slots, active model, bindings, loads | Load/Unload/Switch, Bind, InferParallel, SelectCore | reload and switch against a running inference | the engine changes between two inferences only |
| Engine, post-processing, HAL | device handles | vendor calls | I/O | out of scope, except the buffers of the camera |
| Central gRPC server, sessions (`grpc_server.py`, `device_session.py`, `main.py`) | sessions, handlers | StreamDetectionResults, RegisterDevice, BidirectionalEventStream, SendControlCommand, ManageModel, cleanup loop | reconnections that overlap, expiry, the limit of devices | sessions say who is streaming; bounded |
| Start and shutdown (`main.py`, `container.py`) | services, engine, worker, store, server, watcher | initialize, start, stop, the shutdown sequence | an exception or a signal at any step; requests served meanwhile | what serves has all it needs |
| Rate limiter (`rate_limiter.py`) | token buckets | allow, update_limits | refill arithmetic, limits changed meanwhile | at most burst + rate x time |
| Orchestrator, VLM pipeline, breaker (`central_orchestrator.py`, `detection_processor.py`, `vlm_pipeline.py`, `circuit_breaker.py`) | VLM queue, batch, breaker state, command queue | process, worker, shutdown | time-outs, whole-batch failures, cancellation, drain | every queued frame settled, breaker opens and recovers, drain ends |
| Event bus and store (`event_bus.py`, `storage/`, `retry.py`) | recent events, listener queues, tables, open transaction | publish, subscribe, save | slow listeners, a locked database and retries | listeners and tables follow the events in order |
| Typed events (`events.py`) | handlers, wildcard set, history | publish, publish_async, subscribe, unsubscribe | the live list changes while a handler is awaited | every handler once per event |
| Configuration watcher (`hot_reload.py`, `main.py`) | hashes, pending changes, callbacks; the services' limits, rules, routes | watch, check, force_reload, stop; the reload callback; PUT config, PUT log level | callbacks awaited in the middle of a check, debounce, partial reload | each lasting change is reported; a reload leaves what a restart would |
| Alerting (`alerting.py`) | last firing, rules | check_and_fire, update_rules | cooldown against tasks that post | at most one per cooldown |
| Model registry, A/B tests (`model_registry.py`, `ab_test_manager.py`) | records, history; groups, labels in sessions | deploy, undeploy, rollback; assign, reset | rollback against the limit; reset between registrations | limit per device; groups are sticky |
| Plugins (`plugin.py`) | registered plugins, initialized flag | register, initialize, process, shutdown | partial initialisation, plugins that come meanwhile | what counts as initialized is ready |
| Inference engine (`mlx_llm_inference.py`, `reasoning_chain.py`) | loaded models, stub flag, conversations | load, switch, analyse, chain | a load or switch that fails half way | some model that was asked for answers |
| Guidance (`vlm_config_guide.py`) | commands for the edge | recommendations to commands | parameters agreed by name only | a command changes what it names |
| Model download (`download_vlm_model.py`, `vlm_validator.py`) | files of a directory | download, convert, verify, test | interrupted and run again in another mode | a whole model stays whole |
| Re-identification (`reid_engine.py`) | features, tracks | register_feature, prune | timestamps out of order | a track joins different cameras |
| Queries, reports, prompts, dashboard | SQL, text | reading | I/O | out of scope, except the endpoints that change the server |

How they interact. The pipeline thread of an edge process captures, infers,
tracks, filters and calls `StreamDetection`, which owns the reconnection and the
cache queue. A reader thread, started by the pipeline thread, executes the
commands of the event stream; the main thread waits for a signal and joins the
pipeline thread. On the server one asyncio loop runs the handlers of all streams,
the VLM worker, the cleanup loop and the shutdown; they share the session table,
the VLM queue and one command queue for all devices.

## 2. Modules

The edge.

| Module | Models | State and actions against the code |
|---|---|---|
| `LossyBuffer` | the promise of the cache queue | a sequence; `Put` appends after dropping the shortest prefix that makes it fit, `Take` removes the front, delivered or unreadable |
| `DetectionQueue` | `detection_queue.cpp` | one thread at a time holds the queue's mutex, so Enqueue is split only at its eviction loop (`LockEnqueue`, `EvictOldest`, `PushBack`); `Bytes` gives the size of an item |
| `GrpcClient` | `StreamDetection`, `DrainQueue`, `Connect`, `Disconnect`, `FlushStream` | `pc[t]` is the place where thread t last gave up `mu_`: `backoff` (line 188), `drain` and `drainWrite` (262, 263), `resume` (215), `takeOne` and `writeOne` (241, 242), `requeue` and `buffer` (the Enqueue calls). Between two places is one action |
| `EdgeUplink` | the coordinator's use of the client | extends `GrpcClient` with the life of the pipeline; `Send` has the guard of line 388 |
| `EventStream` | event stream, signal, stop, command queue | `edge[d]` is the state of an edge process: main, pipeline and reader thread; `handler[d]` and `pending` are the server's |
| `FrameLoop` | the coordinator's loop (`Run`), RELOAD_MODEL and SWITCH_MODEL_VARIANT | `step` is where the pipeline thread is; `lent` are the mapped buffers of each camera that the driver does not have; `lock` is `engine_mutex_`; the reader thread is `ReloadRelease`, `ReloadInitialize`, `SwitchModel` |
| `VideoRecorder` | `video_recorder.cpp` | operators on a record, used by `FrameLoop` |
| `Tracking` | `temporal_tracker.cpp`, `detection_cache.cpp`, and how `Run` puts boxes together | `Update` is the greedy matching, `Known` and `Expired` the cache; `Detect` is what one frame does |

The central server.

| Module | Models | State and actions against the code |
|---|---|---|
| `CircuitBreaker` | `circuit_breaker.py` | operators on a record; the clock is one bit, `cooled` |
| `VlmPipeline` | queueing, worker, shutdown | `at` is the await the worker is at; `item` is not an await, so nothing else runs there (`LoopFree`) |
| `VlmGuidance` | `vlm_config_guide.py`, `_apply_vlm_guidance`, and what the edge does with the commands | `outgoing` is the command queue, `threshold` the edge's |
| `DeviceSessions` | session manager, detection handlers, cleanup loop | `sessions` is `_sessions` with ages in ticks; stream `<<d, n>>` is the n-th of device d |
| `RateLimiter` | `rate_limiter.py` | tokens in fractions, of which a message costs `Cost`; `idle` is the time since `last_refill` |
| `ModelRegistry` | `model_registry.py`, `model_actions.py` | `models` is `_models`; the lock makes each operation one action |
| `ABGroups` | `ab_test_manager.py` and the labels of sessions | `group` is `_device_groups`, `label` the session's copy |
| `EventStore` | `detection_processor.py`, `event_bus.py`, `storage/`, `retry.py` | publishing awaits nothing, so it is one action over the outcomes of the attempts to save; `opened` are rows of a transaction a failed COMMIT left open |
| `TypedEvents` | `events.py` | `call[p]` is how far a `publish_async` is in the live list and the live set |
| `ConfigWatcher` | `hot_reload.py` | `loop` is where the polling task awaits; `sync` and `async` are the live lists of callbacks, `walking` and `walked` the iterator over one of them, whose callbacks are awaited one by one (`CallNext`); `told` is what each callback knows, `skipped` whom the iterator passed by |
| `ConfigReload` | the callback of `main.py`, the dashboard's endpoints for configuration and log level | the watcher reads the file for its hash (`PollRead`, `read`), the callback reads it again (`PollApply`); what is applied is compared with what a restart would make of the file |
| `ServerLifecycle` | `main.py`, `container.py`, start and stop of server and orchestrator, readiness | `phase` is how far main is; requests come in between |
| `PluginLifecycle` | `plugin.py` | `work` and `left` are the manager's loop, cut at its awaits |
| `Inference` | `mlx_llm_inference.py`, `reasoning_chain.py` | an operation of the engine blocks the event loop and is one action |
| `Alerting` | `alerting.py` | `posting` counts the tasks that await the webhook |
| `ModelDownload` | `download_vlm_model.py`, `vlm_validator.py` | the files of the directory; a run may stop after any of them |
| `ReID` | `reid_engine.py` | features with their own timestamps; cosines from a table |

`*Proofs` and `Induction` hold the theorems and lemmas (section 5), `MC*` the instances for TLC. Components
that interact are composed in one module (`EdgeUplink`, `EventStream`,
`FrameLoop`, `VlmPipeline`, `ServerLifecycle`, `ConfigReload`, `EventStore`,
`ABGroups`, `VlmGuidance`). `MCEdge`, `MCClient` and `MCCentral` are something else: sums,
not products. A behaviour of theirs is run by one component while the others
keep an initial state, so that one run checks several instances at the cost of
their sum.

The definitions marked "Fault" stand directly before the definition they break;
no specification uses them. Each shows that a property notices a plausible bug.

What is abstracted. Results, items, commands, configurations and feature
vectors are numbers, model values or small records. A result "parses back" or
not by a constant set. The time-outs of gRPC, of the batch and of the engine
are actions that may always happen when the code could wait.
`CreateCustomChannel` and the stub never return a null stream (gRPC does
not), command parameters are taken to parse; the rate limiter may say yes or no in
`DeviceSessions`. The `Enqueue` inside `GrpcClient` bounds the queue by its number
of entries only: `DetectionQueue` covers the byte limit, and any eviction is a
`LossyBuffer` step. The engine of the VLM may suspend or block the event loop;
`VlmPipeline` has both, since not interleaving is one of its behaviours. A box of an
image is a place and the overlap of two places a table (`Tracking`); the contents of a
configuration are the sections a reload applies, and whether it is valid (a level
that is no name at all counts as not valid: it raises before anything is applied).

## 3. Runs

| Run | Question | Result |
|---|---|---|
| `edge` | queue: limits, order, counters, return of Enqueue, implements `LossyBuffer`; uplink: is a result lost, is the queue drained, can local mode end; loop: buffers, undisturbed inference, turns of the cameras, end of recordings | holds |
| `grpc_client` | two threads in the client, with Connect, Disconnect, FlushStream by others: duplicates, channel, return of every call; event stream: life and stop of a process, two devices on one command queue | holds |
| `edge_uplink_drains` | "auto-drains on reconnect" (CHANGELOG.md:49) | **violated** |
| `event_stream_signal` | a signal ends the process (edge_main.cpp:16) | **violated** |
| `track_ids` | a box carries the identifier of its track (proto, `track_id`) | **violated** |
| `living_sources` | "Multi-camera round-robin capture" (CHANGELOG.md:167) | **violated** |
| `vlm_pipeline` | counts, breaker, drain, progress | holds |
| `vlm_pipeline_batch` | N failures in a row open the breaker (ARCHITECTURE.md:330) | **violated** |
| `central` | fourteen components of the server, fifteen safety properties | holds |
| `device_sessions_reconnect` | active devices are listed (device_session.py:118) | **violated** |
| `config_put` | PUT /api/v2/config takes effect (docs/API_REFERENCE) | **violated** |
| `guidance` | commands adjust the edge (vlm_config_guide.py:6) | **violated** |

What the properties of `central` say: silent sessions expire and a live stream keeps
its session; no registered callback misses a lasting change of its file, but for
two ways of the code named in the property (section 6); what a reload
leaves is what a restart would (as far as the reload goes, with the known
exceptions spelled out in the property); only rollbacks of undeployed models pass
the limit per device; admitted messages stay under burst + rate x time; tables
and listeners follow the events; every handler subscribed all along gets an
event exactly once; initialized plugins are ready; while the server serves,
store, engine and worker are up; the engine answers with a model that was
asked for; a re-identified track joins different cameras; groups change by a
reset only; alerts keep their cooldown; a whole model on disk stays whole.

Bounds.
- Queue: three entries and four bytes with items of one, two and five
  bytes, so that either limit may be the one that bites, one put can evict two
  entries, and an oversized item stays alone. Six puts are twice the capacity.
- Uplink: three queue slots, eight results, four outages: evictions, two
  reconnections and a failed one, a drain cut short by another outage. Three
  attempts, so that the limit is reached and also reset.
- Frame loop: one or two cameras with two buffers, two models, a recorder of
  two frames before and two after: a camera can run out of buffers after two
  failures that keep one, a trigger can fall on each frame of a recording.
- Client: both threads can be inside any pair of places; two slots, three
  results, two outages, one attempt (so the bound on attempts is tight) and one
  result that does not parse. Event stream: three commands, and either one
  process from start to exit or two devices without main and pipeline threads,
  which do not touch commands.
- `vlm_pipeline`: batches of up to three on a queue of two and five frames: a
  batch can be filled, timed out, fail as a whole; the breaker (threshold two)
  opens, cools down, fails a trial and closes again.
- Sessions: two devices against one session; the first reconnects once;
  expiry after two ticks, cleanup every tick; two valid messages per stream.
- Watcher: two files, six callbacks (one synchronous and two asynchronous for a file, as
  many for any change), two edits and four calls by others: an
  edit, an unwatch, a watch or a force_reload falls between any two awaits of
  a round. Three calls register two asynchronous callbacks and start the task, the
  fourth removes the first while it is awaited, which makes the walk pass the second by;
  without the exception for it the property fails within these bounds. Reload: eight contents
  that differ in every section that is applied, one invalid, one refused by the dashboard, one
  with an unknown severity, one with an unknown level and one with notset.
- Registry: three models, two devices, limit one: the shortest way over the
  limit takes two of them. Groups: three devices for two sessions. Limiter: limits
  below, at and above the cost of a message, windows of three ticks.
- Store: three events for two recent ones and listeners that hold one, one retry.
  Typed bus: two publishers, two handlers, both in list and wildcard set.
- Plugins: three with different priorities, two critical, one disabled. Life: two requests
  at once, with and without dashboard. Engine: two vision models, two turns, two steps.
- Alerts: two types, cooldowns of one and two ticks, two posts under way. Download:
  three runs in either mode, models in one file or two shards. ReID: two cameras,
  three features, times from 0 to 4 with a window of one.
- `track_ids`: three places, neighbours overlapping by 40 %, which is a match for the tracker
  (30 %) and not for the cache (50 %); two detections a frame, three frames.

`CHECK_DEADLOCK FALSE` is set in all runs: each has a bounded history (results,
commands, frames, edits) after which nothing need happen, and processes that exit.

## 4. Fairness

- Every thread inside a call is scheduled: `WF(Continue(t))`, `WF(Reader(d))`,
  `WF(Main(d))`. The lock is not modelled as contended: critical sections end,
  the only waits in them are gRPC calls with deadlines or on a broken stream.
- `Stopping(d)`: a pipeline told to stop leaves its loop, because capturing and
  inferring a frame end. The loop need not end otherwise.
- The frame loop (`LoopFairness`): captures, inferences, outputs and a reload that has
  begun end (weak). Taking `engine_mutex_` is strongly fair: between two commands the reader
  waits for the network, so it does not take the mutex again before the pipeline
  could. Nothing is assumed of cameras and hardware; the liveness properties speak of a state
  after which they work (`Works`).
- The VLM worker's awaits end: the engine calls and the batch have time-outs
  (30 s per item), the upload is assumed to end. Whether the drain itself times
  out is not assumed: `DrainEnds` shows that it does not need to.
- `ServerUp` is fair only in `edge_uplink_drains`, where the point is that the
  queue is not drained even though the server always comes back.
- Nothing is assumed of signals, commands, breaks and server stops.
- `central` has no fairness: its properties are safety.

## 5. Proofs

TLC shows a property for one instance, the theorems for all values of the
constants that satisfy the modules' assumptions. Every invariant, every action property
and the one refinement that a run with result "holds" checks is also a theorem; liveness
is not (last paragraphs).

| Module | Theorem | Property |
|---|---|---|
| `EdgeProofs` | `TypeCorrect`, `Limits`, `OldestFirst`, `Accounting`, `ByteCounter`, `Refinement` | `QueueTypeOK`, `WithinLimits`, `HoldsNewest`, `StatsAccurate`, `BytesExact`, `ImplementsLossyBuffer` |
| | `NoBufferLost`, `EngineExclusive` | `BuffersReturned`, `InferenceUndisturbed` |
| `GrpcClientProofs` | `TypeCorrect`, `NeverDuplicates`, `ChannelStays`, `AttemptsLimited` | `TypeOK`, `NoDuplicate`, `ChannelUnderStream`, `AttemptsBound` |
| | `OneThreadLosesNothing`, `OneThreadDrains`, `LocalModeStays` (of `EdgeUplink`) | `NoSilentLoss`, `DrainedWhenStreaming`, `LocalModeIsFinal` |
| `EventStreamProofs` | `TypeCorrect`, `StreamOutlives`, `Quiet`, `OnceInOrder` | `StreamTypeOK`, `StreamOutlivesReader`, `QuietOnceStopped`, `ExecutedOnceInOrder` |
| `VlmPipelineProofs` | `TypeCorrect`, `CountExact`, `TrialUnderWay`, `OpensExactly`, `Drained` | `TypeOK`, `UnfinishedExact`, `HalfOpenHasTrial`, `OpensOnRecordedFailures`, `DrainedWhenJoined` |
| `DeviceSessionsProofs` | `TypeCorrect`, `Limited`, `SilentExpire`, `SessionKept` | `TypeOK`, `SessionLimit`, `SilentSessionsExpire`, `StreamKeepsSession` |
| `ServicesProofs` | `LimiterTypes`, `EnvelopeHolds`, `LimitKept` | `LimiterTypeOK`, `WithinEnvelope`, `LimitPassedByRollbackOnly` |
| | `GroupsStick`, `CooldownHolds`, `WholeStays` | `GroupsSticky`, `CooldownKept`, `WholeStaysWhole` |
| | `EngineHasAnswers`, `StoreFollows`, `TracksCross` | `EngineAnswers`, `StoreFollowsEvents`, `TracksCrossCameras` |
| `CoreProofs` | `NothingIsMissed`, `ReloadActsAsRestart`, `ServingHasAll` | `NothingMissed`, `ReloadIsRestart`, `ServingNeedsAll` |
| | `InitializedReady`, `OnceForEveryHandler` | `InitializedAreReady`, `EveryHandlerOnce` |

`EdgeProofs` is about the detection queue and the frame loop, `CoreProofs` about what the
server runs on (watcher, reload, life, plugins, typed events), `ServicesProofs` about its
services. `Induction` holds two lemmas the others use: a set of numbers has a least
element, and a set that contains 0 and the successor of each of its elements contains all.
With the second, induction is a matter of sets: what holds of n is stated as
{n \in Nat : ...}, so no operator is passed as a parameter.

Assumptions: only those named in the modules. `QueueConstants` gives items a size
in bytes and allows any limits, zero too; `ClientConstants` wants a finite set of
threads and a positive capacity; `EventStreamConstants` a finite set of devices;
`LoopConstants` at least one camera, buffer and model, `RecorderConstants` any lengths;
`BreakerConstants` and `PipelineConstants` want positive thresholds and sizes;
`SessionConstants` a finite set of devices and positive intervals; `LimiterConstants`
limits in the naturals; `RegistryConstants` a limit in the naturals; `StoreConstants` room
for one recent event; `EngineConstants` a number of turns; `PluginConstants` priorities
in the naturals; `LifeConstants` that only optional services are disabled;
`ReIDConstants` cosines of at most 100 % and a positive threshold;
`WatcherConstants`, `ReloadConstants` and `ABConstants` that the values standing for
"none" are none of the others, that configurations are configurations and INFO a level. The bounds on
histories (`MaxEnqueues`, `MaxResults`, `MaxCommands`, `MaxItems`, ...) may be any number,
so they restrict nothing. Two theorems have a hypothesis of their own: `OneThreadLosesNothing`
wants a single thread in the client, which is what the edge has (with two, a close by one drops
the result the other holds, section 6), `OneThreadDrains` in addition that queued results parse
(what does not parse ends a drain early).

`EdgeProofs`, the queue. `WithinLimits` and the type invariant are not inductive: from a
wrong `current_bytes_` the counter could go below zero. The invariant `IInv` has
the counter equal to the sum of the sizes queued (`BytesExact`). The sum is a recursive function;
`PrefixSumExists` shows by induction over lengths that there is such a function for every
sequence, `TotalOfPrefixSum` that the sum is its last value, and `TotalAppend` and `TotalTail`
what pushing and removing do to it. The refinement maps an eviction and a lock to a
stutter, `PushBack` to `Put` with the entries evicted since the lock as the prefix it drops,
and the two ways of Dequeue to `Take`; `StepRefines` has a case for each. That this prefix is no
longer than it must be is `MustForget`: with any of the victims still there the entry would not fit.

`GrpcClientProofs`. A result moves between four kinds of places: cache queue,
transport, server, and the hands of a thread. `NoDuplicate` is not inductive,
because it does not say what a thread may have in hand at which label, nor that
a new result is new. `IInv` adds `HandsOK` (a thread holds a dequeued result exactly
at `drainWrite`, `writeOne`, `requeue`) and `Distinct` (any two places are apart, also
the hands of two threads; all results have been handed in). Lemma `Move` reduces a
step of one thread to that thread's hands and the shared places, lemma `Pass` a
step of the network to transport and server; there is one lemma per action.
`NoSilentLoss` for one thread (`LossInv`) needs `Distinct`, so that what leaves one place is in
the next one, and that the thread has a stream whenever it has taken a result out of the queue
to write it (`StreamWhileTaking`): the branch that would drop it is then not taken. This in
turn rests on the coordinator flushing only when no call is under way (`FlushedAtRest`).
`DrainedInv` says that a connected client that does not drain has queued results only above a
broken stream. `LocalModeIsFinal` adds that no thread that has given up will connect again.
`ChannelUnderStream` is inductive by itself. `AttemptsBound` needs the number of
threads asleep: `attempts + Cardinality(Sleeping) < MaxAttempts + Cardinality(Threads)`;
a thread that goes to sleep saw `attempts < MaxAttempts`, one that wakes up trades
its place for at most one attempt.

`EventStreamProofs`. That the stream outlives its reader depends on the join before
it is destroyed, and on no reader having been started where the pipeline starts: `Fits`
says both for one process. `QuietOnceStopped` follows, since a stopped
pipeline has no reader at `handle`. `ExecutedOnceInOrder` is about the end of a way that
leads from the queue through a handler, the wire and the hand of a reader; `OrderInv` orders
all the places on it for each device, keeps those of two devices apart, and bounds
every identifier by the number sent. One lemma for each step that moves a command, and
`OrderOther` for those that at most lose some.

`EdgeProofs`, the loop. `BuffersReturned` speaks of the frame in hand; `Held` adds at which steps
there is one, that it is a buffer of a camera there is, and that the pipeline
has the mutex exactly while it infers. `InferenceUndisturbed` needs the last part.

`VlmPipelineProofs`. `CountInv` adds that a worker at an item's await has that item,
and that it has none when it waits for the next: otherwise `Get` would lose a
batch. `BreakerInv` says that the failure count is the number of failures at the
end of the log, which is what `OpensOnRecordedFailures` is about, and that a
breaker cannot be open while an analysis it allowed is under way.
`DrainedWhenJoined` follows from the count: `OpenInv` says that an item whose outcome is
open is in the queue or in the batch, and that an upload is of an item already
settled; `StopInv` that nothing is queued, and the worker not cancelled, while the drain
waits. `TypeCorrect` takes the first two invariants: the count is above zero where `task_done`
lowers it, since there is an item in the batch. The failures in a row after a batch are counted from
its last success, which `LeastNumber` shows to exist.

`DeviceSessionsProofs`. `SilentSessionsExpire` compares an age with the whole
cleanup interval; the invariant compares it with the part that has passed:
no session is older than `Expiry + sinceCleanup`. `StreamKeepsSession` compares the session
with the stream: while a device has opened one stream only, its session is never
older than the silence of the stream, so that the cleanup cannot remove one without
the other being over the limit; before the first message there may be a session
(`RegisterDevice`), but not one that has counted a frame (`KeepInv`).

`ServicesProofs`. Limiter: the messages of a window do not stay under the envelope by
themselves: a bucket left full could pay for more later. `Paid` adds what the bucket
would hold if it were used now.

Registry: the deployed models that no rollback revived are counted;
a deployment asks for the limit and adds at most its own model, and the sets of
other devices only get smaller (`NothingAdded`). It needs that finitely many models
are known.

Groups: the invariant relates labels to groups, so that a step shows the property.
Alerts: the time the manager keeps is that of the last alert, which is the history `quiet`.
Download: one lemma enumerates the layouts a step may come from. Engine: a loaded engine that
is no stub has its text model, and the path it keeps is the one asked for last. Store: rows and
open rows together ascend, the buffer is the newest events (`Newest`), a listener's queue is
ascending from its subscription on (`Box`). Re-identification: that sightings follow each other across
cameras is inductive only together with the second half of the property, that a stored feature is a
sighting of its track; the best match is the one with the greatest cosine, and among equals the
least index, and both exist by `LeastNumber`; that pruning leaves a sequence of stored
features is an induction over its recursive definition (`PrunedFrom`).

`CoreProofs`. Watcher: between reading a content and adopting it the task awaits one callback after
the other while the file changes and the lists do; `Reported` says how far the change under way
has been told, position by position of the list under walk (`Told`), `Watched` that callbacks
are registered for watched files only. A removal shifts the entries of that list
(`RemoveAtIs`), and what moves into a position passed without having been called is in `skipped`
(`DeregisterLeaves`). Reload: the settings are those of the content last adopted,
whatever the file has become since, if the server read that content. Life: what is built
stays built, and requests are served in the phases `Serving` only. Plugins: while they are initialised,
each is settled or still to come; that any finite set of plugins can be put in the
order of its priorities is an induction over its size (`OrderExists`). Typed events: while nobody
leaves, nor joins the wildcard, the list only grows at its end, so a publication has called exactly its
first handlers, and then those of the set whose size it took (`Through`); tasks of one
handler are in the order of their events, after all that the handler was run with (`Ordered`).

Only model-checked: liveness (`EnqueueReturns`, `SourcesTakeTurns`, `RecordingsEnd`,
`CallReturns`, `ExitsOnceServerStops`, `ItemsSettle`, `DrainEnds`), since the prover has no rule
for fairness and ENABLED here; `Tracking` and `VlmGuidance`, of which a run
checks only what the code does not do.

## 6. Where documents and code differ

Eight runs end with a counterexample; each quotes the text it checks
(PROJECT.json, "findings").

1. `BufferDrains`: the coordinator calls `StreamDetection` only while connected
   (pipeline_coordinator.cpp:388), but the reconnection and the drain are inside
   it. After the first failed Write the edge stays in local mode, with one
   buffered result, for ever (`LocalModeIsFinal` holds).
2. `SignalStopsProcess`: `StopEventStream` joins a reader that blocks in `Read`;
   the server ignores the half-close (grpc_server.py:164). A process that got its
   signal waits for a command, a break, or the end of the server
   (`ExitsOnceServerStops` holds).
3. `OpensOnFailures`: failures inside a batch come back as text and are recorded
   as successes (vlm_pipeline.py:177, mlx_llm_inference.py:224).
4. `ActiveDevicesListed`: the handler of the old stream unregisters a device that
   has reconnected (grpc_server.py:117).
5. `PutTakesEffect`: PUT /api/v2/config calls `force_reload`, which stores the new hash
   but calls synchronous callbacks only; main's is asynchronous (main.py:159).
6. `GuidanceTakesEffect`: the guide sends `delta`, the edge reads `sensitivity`
   (pipeline_coordinator.cpp:580).
7. `BoxesCarryOwnTrack`: identifiers are indexed by the position of a detection,
   boxes by the position among the novel ones (pipeline_coordinator.cpp:414).
8. `LivingSourcesServed`: the camera is chosen from `frame_count`, which stands still
   while a camera gives nothing (pipeline_coordinator.cpp:263).

Met while modelling, without a run. On the edge:
- `max_entries` 0, which the configuration allows, makes Enqueue's eviction loop
  endless (detection_queue.cpp:20). The theorems of `DetectionQueue` cover this limit;
  `EnqueueReturns` is checked for a positive one, and `GrpcClient` assumes one.
- A Disconnect between lines 241 and 242 of grpc_client.cpp drops the dequeued
  result (no else branch at 243). `NoSilentLoss` therefore is checked for the
  single streaming thread of the application.
- The SHUTDOWN command ends the pipeline, not the process (edge_main.cpp:154
  waits for a signal only), where the protocol says "Graceful shutdown".
- `PipelineCoordinator::ApplyCommand` only logs. Commands set
  `config_.confidence_threshold` and `fps`, which nothing reads after Initialize, so the
  unlocked write has no effect either; FPS guidance sends `delta` where `fps` is read.
- RELOAD_MODEL with several models reloads `engine_`, which the loop then does not use
  (pipeline_coordinator.cpp:532). A reload that fails after `rknn_init` leaves a context
  that counts as initialised.
- The recorder's ring buffer keeps V4L2 frames whose mapped memory goes back to the camera
  (:359 against :444); nothing reads them yet (video_recorder.cpp:50).
- One tracker and one cache serve all cameras. DetectBehaviors reports a behaviour again on
  every frame.
- AdaptiveFPS starts its way down from `active_fps`, so the first empty frame of an idle
  device raises the rate; `std::clamp` with an upper bound below 5 is undefined.
- tests/test_grpc_client.cpp:75-80 and 96-111 expect `StreamDetection` to return
  false without a server; the code buffers and returns true.

On the server:
- `handle_edge_event` compares the event type with 1 and 2 (central_orchestrator.py:202),
  the protocol numbers HEALTH_UPDATE 3 and SYSTEM_ERROR 1: health updates are dropped.
- `target_device_id` of VLM-guided commands is dropped (vlm_pipeline.py:234), so
  any device may execute them. "Lower the threshold" matches "lower" and becomes a negative
  change (vlm_config_guide.py:304). The container passes no guide.
- A command taken from the queue is lost when the stream breaks before it is
  yielded (grpc_server.py:169).
- A batch goes to the engine before the breaker is asked (vlm_pipeline.py:107),
  also while it is open.
- `shutdown` drains only if the queue is not empty at that moment
  (vlm_pipeline.py:63): a batch the worker is filling is lost.
- The answer of `register` is ignored (grpc_server.py:78): a device over
  `max_devices` is served without a session.
- A rollback of an undeployed model passes the limit per device (model_registry.py:116).
- A reload that fails half way keeps new rules and limits though the log says "keeping
  current" (main.py:156). PUT /logging/level sets levels on all loggers, which a later
  reload does not undo. The watcher re-adds a path that was unwatched while a callback
  was awaited, and a later `watch` of it raises KeyError.
- The watcher iterates its live lists (hot_reload.py:234, :248): when a callback that was called
  already is unregistered during an await (:115, :154), the next one in the list is not called,
  and the content is adopted all the same (:218). `NothingMissed` says that nobody else is
  left out.
- A reload to an unknown level name, which `validate` accepts, or to notset leaves the root's level
  as it is (main.py:129-130); a start gives INFO or NOTSET (main.py:21). `ReloadIsRestart` claims
  the level for names of levels only.
- The callback reads the file again after the watcher hashed it (main.py:127), and the server
  reads it at its start long before it watches it (main.py:70 against :159): after an edit
  in between, the hash and the settings are of different contents until the file changes again.
- A COMMIT on a locked database leaves the transaction open, and each retry adds a row.
- The severity in the alert configuration is ignored (container.py:59).
- The dashboard's routers bind the injected services when they are imported, when
  they are still None (app.py:14), so most of its POSTs do nothing.
- The dashboard is asked to exit and not awaited before the store closes; the 60 s
  limit of the shutdown leaves the store open.
- `download_vlm_model.py` takes a whole model in shards for incomplete and removes it to
  convert again, accepts an incomplete tokenizer, and exits 0 if a test fails.
- `ReasoningChain` reports success when its last step failed. `ReIDEngine` has no upper
  bound on timestamps. A/B metrics are recorded by nothing.

## 7. Not modelled

- `MemoryPool`: the loop takes one block per frame through a guard that frees it in
  its destructor (pipeline_coordinator.cpp:220), so the double free the pool allows cannot happen.
- `ThreadPool`, `MmapIpc`, `ModelCascade`, `MultiModelScheduler`, `VirtualDevice`,
  `CacheAnalysis`: called by tests only.
- `MultiModelManager` beyond the active model: `GetModel` returns a pointer that outlives the
  lock (multi_model_manager.cpp:86), but the application neither loads nor unloads after
  Initialize.
- Post-processing, trajectories, frame rate: floating-point functions of their inputs.
- Vendor calls and device I/O, except the buffers of a camera.
- SQL queries, reports, time series, cloud upload, prompts and retrieval: they read or
  transfer data and keep no state of a protocol. `DetectionStore.cleanup`, which deletes old
  rows, is called by tests only.
- The reading endpoints of the dashboard, and its demonstration data.
- `switch_vlm_model`, the guide, the typed bus, plugins and re-identification are modelled
  from their interface although the running server does not call them.

## 8. Plan

Done: the edge from camera to server, the event stream, the VLM pipeline, the
services of the central server one by one, and the theorems above. What is left:

1. Theorems: what one thread of the edge promises as a
   specification of its own (results arrive at most once and in order of a bounded buffer),
   implemented by `EdgeUplink`.
2. Compositions of the server that today are separate: `ServerLifecycle` with the drain of
   `VlmPipeline`, and `DeviceSessions` with `RateLimiter`.
