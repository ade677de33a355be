# TLA+ models of the VLA vehicle platform

The platform lets several software sources (a navigation stack, a vision-language-action policy,
an operator with a phone) drive one small vehicle, records what happens, and is operated through a
web console. These modules model its own C++, Python and JavaScript code, the parts where threads,
processes, messages, crashes and deadlines meet. Paths below are relative to the repository.

## 1. The system

| part | state it keeps | operations | talks to |
| --- | --- | --- | --- |
| `vehicle_supervisor` | mode, active safety stop, policy ready | mode request, safe stop, safety event, policy status | publishes `/vehicle/system_state` (transient local) |
| `vla_control_mux` | last mode and lease, last command and stamp per source | intake, selection timer | supervisor, gateway, sources → `/control/cmd_vel_selected` |
| `vla_safety_guard` | last selected command, scan, override, active rule | intake, safety timer | mux → `/cmd_vel`; `/vla/safety_event` → supervisor |
| `vehicle_teleop_gateway` | lease, reservation, last command and its number | goal, command, release, timers; one detached thread per goal | page through the HTTP API, supervisor, mux |
| teleop page and API | command counter, last status seen | acquire, renew, send, release, emergency stop | gateway |
| `observation_adapter` | last image, readiness, observation number | image, status, timer | → `/vla/observation` |
| `vla_policy_gateway`, socket transport | last observation, last answered id, ready flag | observation callback, prediction timer, status timer (three threads) | policy runtime; → `/vla/policy_action`, `/vla/policy_status` |
| policy runtime (Python) | loaded model, provider lock, one thread per connection | predict, health, debug | gateway, debug orchestrator |
| `vla_action_runtime` | queue of action samples, validity | action, execution timer | → `/vla/cmd_vel_raw` (a source of the mux) |
| job manager | jobs, active job, worker thread, child process, `status.json` | create, cancel, list, worker, destructor, history | scripts; storage manager through the disk |
| `episode_recorder` | recording flag, state, counts, bag, manifest | start, stop, record, timer, destructor | → `/vehicle/episode_state`; storage manager through the disk |
| `storage_manager` | episode in use | cleanup (check all, then remove), list | recorder, job and episode directories |
| `operation_orchestrator` | component states, recent stops | start, stop, restart of components and profiles, list | systemd; the API waits for its answers, with a timeout |
| HTTP server of the API | connection queue, workers on a condition variable | accept, serve, shut down | every route below and above |
| camera calibration manager | session, samples, result, verification | frame, CameraInfo, start, capture, compute, apply, reset | camera driver through a file; orchestrator for its restart |
| `vla_debug_orchestrator` | snapshots, last mode, command and observation | capture, run, single step | policy runtime, `/vla/cmd_vel_raw` |
| `pipeline_trace_aggregator` | last message of every topic with its age | intake, publish timer | → `/vla/pipeline_trace` |
| active debug session of the API | status, task, steps, last observation | create, pause, resume, stop, timer | aggregator, adapter (through the task) |
| release and model scripts | `current`, `previous`, environment file | activate, roll back, switch | systemd, docker |

What is hard: every node is a process of its own and every message may be late, lost by a keep-last
queue, or overtaken; the gateways read under a lock and act after it; deadlines are checked in
several places and only their sum protects the vehicle; the job manager and the recorder may be
killed between any two writes, and the storage manager removes what they write; every HTTP worker may
be inside a handler of its own, and gives up on services that go on working; systemd moves units while
the orchestrator decides about them. `PROJECT.json` lists each hazard at its line with the property that covers it.

## 2. Modules

`VehicleInterfaces` holds the message constants. Every component module has the variables of one
process and one operator per callback, timer or critical section, named after the method; the
composition modules conjoin them with the topics, sockets and directories between them.

| composition | components | models |
| --- | --- | --- |
| `ControlChain` | `Supervisor`, `ControlMux`, `SafetyGuard` | who may move the vehicle, and when it stops |
| `TeleopSession` | `Supervisor`, `TeleopGateway` | pages, HTTP requests, goals, leases, mode requests |
| `PolicyPipeline` | `ObservationAdapter`, `PolicyGateway`, `PolicyServer`, `ActionRuntime` | from the camera image to the executed sample |
| `JobStore` | `JobManager`, `StorageManager` | jobs, their scripts and their directories |
| `EpisodeStore` | `EpisodeRecorder`, `StorageManager` | recordings and their directories |
| `OperationOrchestrator` | (the node, its callers and systemd) | which units are started and stopped, in which order |
| `CalibrationService` | `HttpServer`, `CameraCalibration` | calibration requests on the API's worker threads |
| `ActiveDebug` | `PipelineTrace` | a session that follows the traces of a task |
| `MCDebug` | `DebugOrchestrator`, `ActiveDebug` | both debuggers, one at a time |

`RequestServer` is an abstract specification: a bounded server that turns a client away only when it
is full, admits the others and serves each of them once, also those admitted before it closes. It has
no threads, queue or condition variable. `HttpServer` instantiates it with a mapping from where a
connection is (queue, worker's hand, closed) to the client's status, and the run `calibration` checks
that `CalibrationService` implements it, fairness included (`ServesClients`).

`MC*` modules give TLC its sets where a configuration cannot write them down; `*Proofs` modules hold theorems. `PROJECT.json` maps every
definition to its source lines. A definition with a suffix (`execute_NoPop`) is a deliberately
wrong variant of the one that follows: the model with it must violate a property, which shows that
the property says something about that code.

How the code was abstracted:

- **Time.** One integer clock per model stands for ROS time and the steady clock, which in the code
  run alike; a clock that is stepped is not modelled. Timers may fire at any time, so nothing
  depends on their period. A timeout of 0 ticks means: valid within the tick, expired in the next.
- **Topics.** Sequences of bounded depth that drop the oldest sample, each delivery an action of
  its own. Transient-local topics of depth one are their last sample.
- **Data.** A twist keeps two axes (with `NaN`), a scan its beams, an observation its number, image
  time and validity, a sample its chunk and place. Names, texts, JSON and model output are left out.
- **History variables** (`born`, `revokedAt`, `lastObeyed`, `sent`, `sentLate`, `took`, `adapterRun`,
  `answered`, `steps`, `counted`, the `at` of a command) are read by properties only.
- **ControlChain.** The senders of commands, scans, leases and requests are the environment.
- **TeleopSession.** One action is one critical section of the gateway's mutex or one call between
  two of them; lease and command deadlines pass at any moment. Commands arrive in any order or never.
  The timer copies the twist under the mutex and publishes the copy after the unlock, as a step of its
  own: a revocation or a newer command can come between the two.
- **PolicyPipeline.** The transport timeout bounds one socket call; a transaction is a series of them
  and lasts as long as it likes (`took` remembers how long), and workers outlive clients that gave up.
  Callbacks of the gateway's reentrant group take observations in order and may store them in another.
  The gateway's check of readiness and its copy of the observation are one step. Restarts: adapter and
  server, not gateway and runtime.
- **JobStore.** `persist` is two steps, truncation and write, with the mutex held. A killed manager
  leaves its child alive; the next start of the unit (`KillMode=mixed`) first ends what is left, and
  `load_history` is one step. Disk errors and reuse of a pid are not modelled.
- **EpisodeStore.** A callback is split where another process or a crash can come between two
  writes. Writing a manifest is one step; removing a directory is one step or fails and changes
  nothing. After the signal that ends the process nothing is published any more.
- **OperationOrchestrator.** The recursion of `control_component` is a stack; each `systemctl` call is
  one step, its return, which may be a failure, and units end, restart by themselves or are touched by
  somebody else between two. `refresh_states` reads one unit per step. Each service has a queue of its
  own, and the executor takes a request from any queue that has one. A remembered stop is forgotten by
  age, whatever is being served. What the ROS graph shows of a component is arbitrary: it lags. A unit
  file wants what the configuration lists as dependencies, as in `deploy/systemd/user`.
- **HttpServer.** A wait is two steps under the queue mutex, the test and the falling asleep.
  `running_` is written without that mutex, as in the code. Reading and parsing a request is one step.
- **CameraCalibration.** An image is its size and the pose of the board; a board is its number of corners
  and the size of its squares; a result is the set of samples it was computed from. Corner search
  succeeds or fails; so does the calibration, and it fails when a sample has another number of corners
  than the session's board. A file name made from the time
  in seconds is the second.
- **DebugOrchestrator.** The node's callbacks share one mutually exclusive callback group, so nothing is
  received while a run waits. Each of its two services has a queue; a worker that was told 408 leaves
  its request there and may send the next at once. `require_shadow_mode` is true as in `phase1_shadow.yaml:61`. Whether the
  mobility plugin yields a command is a free choice.
- **PipelineTrace.** Six of the eleven stages: the others can neither fail nor speak of a completion.
  What is left of a message is whether it reports a fault (of an observation, whether the contract
  accepts its image; the schema is a constant of the adapter), and of its age whether it is within the
  limit; the numbers of observations begin again when the adapter restarts.
- **MCDebug.** The two debuggers share no variable and no property relates them: `part` says which of
  them a behaviour works on while the other stays as it was. The single step's effect on the vehicle
  is the control chain's business: the step is one more sender on a source topic of `ControlMux`.

## 3. Runs

Bounds are chosen so that each case the property is about happens; the mutants confirm it.

| run | instance | shows |
| --- | --- | --- |
| `chain_motion` | two sources, lease on and off, two modes, clock to 3 | `NoStaleMotion`, `StopLatency`: age of what moves the vehicle, and how long a source that lost its authority still moves it |
| `chain_stop` | the policy drives, comes and goes; blocked and clear scans, override on and off, unknown mode; topics of depth 2; timeouts of 0 and a clock to 1; the supervisor may die | `SafetyEventsConverge`, `SafetyStopHolds`: lost events do not leave the supervisor with a wrong view, and a known stop is not left; `SafeStopReachesWheels`: a lasting safe stop silences `/cmd_vel`; `TypeOK` |
| `session_commands` | two controllers, two goals, numbers up to 2, one command under way, which may be copied and delivered again after renewals; the two controllers are interchangeable (symmetry) | `HolderDrives`: the repeated command is the holder's, under the lease in force; `NoReplay`; `LastTwist`: what is published after the unlock is a command that is in force or was when it was copied, a dropped one at most once more and never after one obeyed later |
| `session_progress` | one remote controller, two goals, requests for an unknown mode, safety events, emergency stop, dying supervisor | `GoalsResolve`, `ReservationEnds` |
| `policy_samples` | every deadline of one tick, two observations, two samples per chunk, three threads, crash of the server, clock to 5 | `FreshSight`: the age of the picture behind an executed sample is at most the three deadlines and the time its own transaction took; `SamplesMoveOn` |
| `policy_recovery` | two workers, timeouts and retries, unanswered health checks, debug runs, crashes, an adapter restart | `AnsweredOnce`, `ReadyRecovers`, `LockReturns`, `SilenceStops` |
| `jobs` | two jobs, history of one, cancel, failed fork, crash, cleanup | `LiveIsActive`, `OneScript`, `JoinSafe`, `SuccessIsReal`, `JobsSettle` |
| `operations` | three components whose dependencies form a chain with a shortcut or a cycle, one profile, a caller with two requests that may time out, forced and unforced stops, failing `systemctl`, units that end, restart or are started by others | `DependencyOrder`: a component is started after its dependencies and, in a profile, stopped after the dependents its list names behind it, and a failure ends the request; `UnforcedStopSafe`, `StopNotExternal`, `NothingLeftBehind`: a worker with an answer has no earlier request to the same service left to run; `RequestsEnd`; `TypeOK`: no component is on the call stack twice |
| `calibration` | four connections, two workers, a queue of one, shutdown at any time; every route, boards with two numbers of corners, two poses, one sample enough | `ServesClients`: the refinement; `ResultCurrent`: a result belongs to the samples shown although captures span two locks; `FirstCalibrationVerified` |
| `debug` | snapshots: one kept, two captured, one retry, previews and steps with and without confirmation, stale and moving state, a caller that gives up and sends the next request. Session: two observation numbers, a restart of the adapter, stale and fresh traces, safety events and observations the contract rejects (the other stages fail alike), pauses | `SnapshotsFrozen`: an id stands for one observation; `StepOnce`, `RunEnds`: at most one confirmed step per request, and a stop after it; `StepsNew`: no observation counts twice, none while the session is paused or over; `SessionEnds` |
| `episodes` | two ids, two messages, failing writes and closes, crash, cleanup | `ManifestTrue`, `ProtectionFollows`, `KnownEpisodeKept`, `RecordingEnds` |

The other modules have type invariants too (`TypeOK`, `SnapshotTypeOK`, `SessionTypeOK`); they hold in
these runs when added to the configuration and are not listed, since they say no more than that.

Two controllers, goals, workers, jobs or episodes are enough for one to interfere with another;
one tick per deadline, and a clock that runs past their sum, separates early from late; queues of
depth one or two overflow at once. What a larger instance could add is what the
theorems cover: two commands under way at once, which `session_commands` leaves out, are in
`SessionNoReplay`.

Every step of a composition may also be followed by nothing: clocks, observations, goals and jobs
are bounded, and an idle system is not an error, but in each instance some action (a timer, a
delivery, a restart) is always possible, so deadlock is checked wherever its cfg does not say
otherwise.

### Fairness

- `ControlChain`: deliveries and timers of nodes that are up (executors that spin). Nothing is
  assumed of the sources.
- `TeleopSession`: goal threads, the gateway's callbacks, and a supervisor that serves its queue
  while it lives; no page or network is fair.
- `PolicyPipeline`: timers, threads of a live server and the end of a started inference and of a
  transaction (the socket timeout bounds each `recv`, a message is finite, and every byte that arrives
  brings its end nearer); a health
  check asked again and again of a serving server is answered some time (strong fairness), since
  only finitely many are lost to a busy moment.
- `JobStore`: the worker gets the mutex some time although requests keep taking it (strong fairness;
  requests are finite in number and a mutex is not withheld for ever); a child reaches its own group,
  and one that was signalled ends. Scripts end by themselves in `EndingSpec`, which
  `jobs` uses; `doc_cancel_lost` does not assume it.
- `OperationOrchestrator`: the single thread goes on with the request it serves, and `systemctl` returns.
  The second is an assumption on systemd, not on the code: `run_command` reads and waits without a
  timeout, but the units are `Type=simple`, whose start does not wait for the program, and have
  `TimeoutStopSec=15`, after which a stop kills. Nothing is assumed of the callers or of other units.
- `CalibrationService`: threads that can run do; handlers go on because sockets and services have
  timeouts. No client or camera is fair.
- `MCDebug`: a call of the policy ends, as a transaction of the pipeline does, the sleep of a step ends, the API's timer fires
  and time passes. Nothing is assumed of requests, topics or traces.
- `EpisodeStore`: the recorder's thread goes on and its subscriptions do not starve the timer.

### Where documents and code differ

Each of these runs checks one sentence of a document, message or comment and TLC finds a behaviour
of the code that contradicts it. `PROJECT.json` quotes the sentence and the line.

| run | property | what happens |
| --- | --- | --- |
| `doc_supervisor_exit` | `SupervisorExitStops` | the mux keeps the last mode of a dead supervisor |

Further counterexamples, of the same kind. Where a row names a change, the counterexample is found
with the constants of that configuration so changed and the property in the place of its own; otherwise
`tlc -config doc_x.cfg Module` prints the behaviour.

| configuration | module | property | the sentence | what happens |
| --- | --- | --- | --- | --- |
| `doc_obstacle_override` | `MCControlChain` | `ObstacleStopsAutonomy` | `ARCHITECTURE.md:638` | the operator's override also lets autonomous sources forward |
| the same, `Spec`, `RequireScan = FALSE`, `Candidates <- NaNCandidates` | `MCControlChain` | `WithinLimits` | `ARCHITECTURE.md:308` | a NaN passes the limits of the guard |
| `doc_supervisor_exit`, `MaxTime = 2`, `RequireScan = TRUE` | `MCControlChain` | `PolicyRestartLosesControl` | `ARCHITECTURE.md:642` | a policy that comes back finds itself in the mode it had |
| `doc_stop_undone` | `MCTeleopSession` | `PageLeavesStopAlone` | `ARCHITECTURE.md:468` | the page's automatic renewal leaves an operator's safe stop |
| `doc_renewal_counter` | `MCTeleopSession` | `HolderObeyed` | `docs/MOBILE_TELEOP.md:36` | after a renewal the page counts from one and its commands are dropped |
| the same, `MaxInFlight = 0`, `MaxSequence = 0` | `MCTeleopSession` | `TeleopModeEnds` | `docs/MOBILE_TELEOP.md:40` | a release overtakes a mode request and the teleop mode stays |
| the same | `MCTeleopSession` | `LeaseTopicConverges` | `docs/MOBILE_TELEOP.md:97` | two copies of the lease are published in the wrong order |
| `doc_lease_stolen` | `MCTeleopSession` | `LeaseNotStolen` | `docs/MOBILE_TELEOP.md:35` | a second goal thread of a former holder, delayed past its reservation, takes the lease |
| `policy_samples`, `MaxTime = 4`, `RequireStatus = FALSE` | `PolicyPipeline` | `QueueClearedOnError` | `ARCHITECTURE.md:635` | samples are still executed after the policy has failed |
| the same | `PolicyPipeline` | `ExpiredResponsesDropped` | `ARCHITECTURE.md:279` | a response past its validity is used |
| `policy_samples`, `Threads = 1`, `MaxRuns = 2` | `PolicyPipeline` | `ObservationIdsGrow` | `docs/OBSERVATION_CONTRACT.md:20` | ids start again with the adapter |
| `doc_cancel_lost` | `JobStore` | `CancelStops` | `docs/VEHICLE_OPS_CONSOLE.md:193` | a cancellation between `fork` and `setpgid` is lost |
| `doc_active_job` | `JobStore` | `ActiveJobKept` | `docs/STORAGE_MANAGEMENT.md:17` | a running job is removed while its status file is being rewritten |
| the same | `JobStore` | `SwitchRunsOn` | `job_manager.cpp:427` | a shutdown interrupts a switch that "cannot be cancelled" |
| the same, `MaxJobs = 2`, `HistoryLimit = 2` | `JobStore` | `ListServes` | `docs/VEHICLE_OPS_CONSOLE.md:190` | the job list fails after a listed job was cleaned up |
| `doc_active_episode` | `EpisodeStore` | `ActiveEpisodeKept` | `docs/STORAGE_MANAGEMENT.md:17` | an episode is removed before its first state message arrives |
| the same | `EpisodeStore` | `StartedIsRecording` | `episode_recorder_node.cpp:262` | a start whose first write failed is reported as started |
| `operations`, `Spec`, `MaxCalls = 1`, `Profiles = {}`, `Commands <- ForcedStart` | `MCOperationOrchestrator` | `CardControlsOneUnit` | `docs/COMPONENT_ORCHESTRATION.md:28` | starting one component's unit starts the units it wants (`Wants=` of the unit files) |
| `operations`, `Spec` | `MCOperationOrchestrator` | `NothingOvertaken` | none; the worker was told "Profile operation timed out", `vehicle_ops_api_node.cpp:1466` | a component request is answered before the same worker's timed-out profile request has run |
| `doc_calibration_verified` | `CalibrationService` | `VerifiedIsNew` | `docs/CAMERA_CALIBRATION.md:24`, `:25` | a CameraInfo published before the restart completes the verification when the camera already had a calibration |
| the same, `MaxClients = 5`, `MaxSecond = 1` | `CalibrationService` | `BackupKept` | `docs/CAMERA_CALIBRATION.md:24` | a second application within a second overwrites the backup of the first |
| the same, `MaxClients = 3`, `MaxSecond = 0`, `Factory = {}` | `CalibrationService` | `SamplesOfOneSession` | `camera_calibration_manager.cpp:240` | a capture begun before a reset puts its sample into the next session |
| `doc_workers_join` | `CalibrationService` | `WorkersJoin` | `vehicle_ops_api_node.cpp:799` joins every worker | a worker between the test and the wait misses the only `notify_all`, because `running_` is cleared without the mutex |
| `debug`, its properties replaced | `MCDebug` | `SuccessIsNew` | `docs/ACTIVE_TASK_DEBUG.md:65` | the recorder's "Episode completed" from before the session is in every trace, and the session takes it for its own completion |
| the same | `MCDebug` | `StepInAssisted` | `vla_debug_orchestrator_node.cpp:181` | a step is published after the supervisor left `VLA_ASSISTED`: the run kept the node from hearing of it |
| the same | `MCDebug` | `NoStepAfterTimeout` | `vehicle_ops_api_node.cpp:2193` | a step begins after the operator was told that the stage timed out |

## 4. Proofs

For every value of the constants, under the ASSUMEs of the component modules (timeouts and depths
are natural numbers, limits and sets well formed), checked by TLAPS. Every safety property of the
passing runs, invariant or action property, is a theorem, except the fairness half of `ServesClients`.
Each module has one inductive invariant (several for the chain, the session and the pipeline, where the
arguments are independent); TLC was run on it, on the instance of its run, before it was proved. A
lemma per action says that it keeps the invariant.

- `ControlChainProofs`: `ChainTypeCorrect`; `ChainNoStaleMotion` and `ChainStopLatency` from
  `MotionInv`; `ChainSafetyEventsConverge` and `ChainSafetyStopHolds` from `EventsInv`.
  `NoStaleMotion` speaks of `cmdVel` alone and is not inductive: `MotionInv` carries the same bound
  back along the path, for every message in `selectedTopic` and for the guard's stored command (its
  candidate was fresh when the mux stamped it; its source was authorised then, or lost its authority
  later). `EventsInv` joins the two properties: the last event in flight tells what the supervisor
  will believe, and the mode follows the belief.
- `TeleopSessionProofs`: `SessionHolderDrives` and `SessionNoReplay` from `CommandInv`, which adds to
  `HolderDrives` that the lease id is the counter and that nothing obeyed under the lease in force
  has a number above `lastSequence`. Every step is classified as a grant, an accepted command or one
  that only drops (`StepKinds`), and the argument is made once per kind. `SessionLastTwist` from
  `TwistInv`, which says of the copy between the unlock and its publication how it stands to what was
  obeyed and sent before.
- `PolicyPipelineProofs`: `PipelineFreshSight` from `SightInv`, which says of every observation,
  transaction, action and queued sample how much of the bound is left. The bound has the time of the
  sample's own transaction in it, `SightBound(took)`: no deadline of the code limits that time. Together
  with `ChainNoStaleMotion` it bounds the age of the picture behind a wheel command: `SightBound(took)`
  until the runtime publishes, then `SourceTimeout + CommandTimeout`. `PipelineAnsweredOnce` from
  `AnswerInv`: the observations on their way to the gateway, in whatever order they are stored, are all
  different and none has been answered. `PipelineSamplesMoveOn` from `PlayInv`: chunks arrive in the order they were
  numbered, and a chunk's samples leave the queue in order, so what is queued is later than what was
  played.
- `JobStoreProofs`: `JobTypeCorrect`, `JobListTrue`, `JobOneScript`, `JobJoinSafe`, `JobSuccessIsReal`
  from `JobInv`. `JoinSafe` needs to know where the worker is whenever a job is active or its record is
  being written (`WorkerInv`), `OneScript` that a living child belongs to the active job, or to a
  manager that is down (`ScriptInv`), and `SuccessIsReal`, for the records read back after a restart,
  that no file calls a job a success either that was none (`SuccessInv`). The cleanup, which removes files at any
  time, disturbs none of them.
- `EpisodeStoreProofs`: `EpisodeTypeCorrect`, `EpisodeManifestTrue`, `EpisodeProtectionFollows`,
  `EpisodeKnownKept` from `EpisodeInv`, which says at each place inside `on_start` and `stop_recording`
  what is already on the disk (`StepInv`, `BagInv`), what the last state message says of the recorder
  (`SampleInv`, `HeardInv`), and that a cleanup that has checked its items has none in use among them
  (`TargetInv`): the storage manager hears nothing between the check and the removal.
- `OperationOrchestratorProofs`: `OrchestratorTypeCorrect`, `OrchestratorNothingLeftBehind`,
  `OrchestratorDependencyOrder`, `OrchestratorStopSafe`, `OrchestratorStopNotExternal` from
  `OrchestratorInv`. Everything on the stack has been visited (`CallTypes`), so a recursive call is for
  a component that is not on it, also around a cycle. What has been visited is started or on the stack,
  and what is left of a component's dependencies is in its list (`StartInv`): at `systemctl` the list is
  empty. A stop stands alone on the stack; of its dependents those already read were found down or are
  intruders, and its unit is remembered until the reply unless 15 s pass (`StopInv`). A profile stop goes through its list from the end
  (`ProfileInv`). The
  requests of one service are taken in the order in which they were sent (`QueueInv`).
  `DependencyOrder` used to say that a component is stopped after all its dependents in the list; the
  proof attempt showed that a list that names a component twice, before and behind a dependent, stops it
  at the later place first. The property now speaks of the dependents named behind its last place.
- `CalibrationServiceProofs`: `ServerImplements`, the step simulation: under the mapping of `HttpServer`
  every step of the service is a step of `RequestServer` or leaves the abstract server as it is. It needs
  `HttpInv`: a connection is in the queue, in the hands of one worker, or answered, never in two of
  these places. `ServiceTypeCorrect`, `ServiceResultCurrent` and `ServiceFirstVerified` from
  `ServiceInv`, which adds what a handler between its two locks still relies on (`HandlerInv`) and that
  a calibration reaches the topic only through the file and the camera (`CalibrationInv`).
- `DebugProofs`: `SnapshotTypeCorrect`, `SnapshotIdsFrozen`, `SnapshotStepOnce` from `SnapshotInv`: the
  kept ids are the newest in the order of their capture (`OrderInv`), a run works on what its capture
  saved although the snapshot may be evicted meanwhile (`RunInv`), and a run that may still step has not
  stepped (`StepInv`), whatever is queued behind it. `SessionTypeCorrect`, `SessionStepsNew` from `ActiveInv`: an observation on its way to the
  session is not older than the one counted last (`DeliveryInv`, `CountInv`). The two debuggers are
  proved apart, as `SnapshotSpec` and `ActiveSpec`: they share no variable.

Two definitions were rewritten so that they can be reasoned about, with the same meaning: the history
`load_history` reads is chosen as the sequence of readable jobs that is newest first, instead of being
filtered from a sequence, and the uncalibrated file of the camera is the empty set of samples instead of
a constant.

Only model-checked: liveness (`SafeStopReachesWheels`, `GoalsResolve`, `ReservationEnds`,
`ReadyRecovers`, `LockReturns`, `SilenceStops`, `JobsSettle`, `RecordingEnds`, `RequestsEnd`, `RunEnds`,
`SessionEnds` and the fairness of `ServesClients`), which is out of the prover's reach, and the
counterexamples above, which need no proof.

## 5. Not modelled

Observation monitor, shadow evaluator, replay, dataset exporter and tools: readers or sequential
converters. Model output, adapters, quantization, corner search and calibration arithmetic: floating
point. HTTP parsing, routing, the read-only routes and rendering: input and output. Mock transport and
provider: covered by the answers of `PolicyServer`. Training, compatibility layer, demos and vendored
drivers: not the platform's own control logic.

One hazard has no model yet: a runtime switch is admitted from the mode, recording state and command the
API has cached (`vehicle_ops_api_node.cpp:2220`) and runs later, without the lock.

## 6. Plan

1. Proofs across components: the bound on the age of the picture behind a wheel command, as one theorem
   over `PolicyPipeline` and `ControlChain`; lemmas about the guard's and the mux's operators.
2. The admission of a runtime switch beside `JobStore` and `Supervisor`.
3. `ReleaseActivation` and `ModelActivation`: links, environment file, failing restarts, a crash
   between any two steps (`activate_release.sh:41`, `activate_smolvla_model.sh:71`).
4. The single step (`vla_debug_orchestrator_node.cpp:400`) and the action runtime on their shared topic,
   beside `ControlMux`.
5. `ActionCapture` beside `ControlChain`: which target and rule an executed action is paired with.
6. An abstract vehicle authority (who may move it, since when) implemented by `ControlChain`, and an
   abstract lease implemented by the gateway's state, as refinements.
