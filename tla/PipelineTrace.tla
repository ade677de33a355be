--------------------------- MODULE PipelineTrace ---------------------------
(***************************************************************************)
(* pipeline_trace_aggregator: keeps the last message of every topic of the *)
(* policy pipeline and publishes, on a timer, one trace that describes     *)
(* them all under the id of the last observation.                          *)
(*                                                                         *)
(* Of the eleven stages the trace has, those are kept that can be FAILED   *)
(* or REJECTED or whose text can speak of a completion; the others are     *)
(* WAITING, LIVE, READY or STALE whatever they receive. A trace is         *)
(* received as it is published: a late one is one built from messages that *)
(* were received early, so only the observation, whose order a session     *)
(* depends on, is told apart from its topic.                               *)
(***************************************************************************)
EXTENDS Naturals, Sequences, FiniteSets

CONSTANTS
    Tasks,            \* task texts
    NoTask,           \* the empty text
    FaultStages,      \* the stages that may have a fault
    MaxObservations,  \* bound: observations of one run of the adapter
    MaxRestarts       \* bound: restarts of the adapter

StageOrder == <<"observation_health", "contract_validation", "model_runtime",
                "safety_guard", "shadow_evaluation", "trace_recording">>
Stages == {StageOrder[i] : i \in DOMAIN StageOrder}

ASSUME TraceAssumption ==
    /\ NoTask \notin Tasks
    /\ FaultStages \subseteq Stages
    /\ MaxObservations \in Nat /\ MaxRestarts \in Nat

(* The stages whose outcome depends on the age of a message.               *)
AgeBounded == (FaultStages \ {"safety_guard"}) \cup {"contract_validation"}

(* The stages of components that report their faults themselves.           *)
Reporting == FaultStages \ {"contract_validation", "trace_recording"}

NoObservation == [id |-> 0, run |-> 0, task |-> NoTask]

VARIABLES
    task,         \* the text on /vla/task
    adapterTask,  \* task_ of the adapter
    observation,  \* the last message on /vla/observation
    observed,     \* observation_ of the aggregator
    episode,      \* episode_ : what its last message says
    faults,       \* the stages whose last message reports or has a fault
    trace         \* pipeline_trace_ of the operations API

traceVars == <<task, adapterTask, observation, observed, episode, faults, trace>>

NoTrace == [observation |-> NoObservation, stages |-> << >>]

TraceInit ==
    /\ task = NoTask /\ adapterTask = NoTask
    /\ observation = NoObservation /\ observed = NoObservation
    /\ episode = "other"
    /\ faults = {}
    /\ trace = NoTrace

-----------------------------------------------------------------------------
(* The observation adapter. *)

AdapterReceivesTask ==
    /\ adapterTask' = task
    /\ UNCHANGED <<task, observation, observed, episode, faults, trace>>

publish_observation ==
    /\ observation.id < MaxObservations
    /\ observation' = [observation EXCEPT !.id = @ + 1, !.task = adapterTask]
    /\ UNCHANGED <<task, adapterTask, observed, episode, faults, trace>>

(* The adapter restarts: its numbers begin again, it has no task until it  *)
(* receives the latched one, and /vla/observation is not latched.          *)
AdapterRestarts ==
    /\ observation.run < MaxRestarts
    /\ observation' = [NoObservation EXCEPT !.run = observation.run + 1]
    /\ adapterTask' = NoTask
    /\ UNCHANGED <<task, observed, episode, faults, trace>>

-----------------------------------------------------------------------------
(* The aggregator. *)

(* A subscription keeps the observation, the episode's state or the report *)
(* of another component, that there is a fault or that it has passed. The  *)
(* front image of an observation, which only the contract looks at, has    *)
(* data or is as empty as the camera sent it.                              *)
update_observation(image) ==
    /\ observation.id > 0
    /\ observed' = observation
    /\ faults' = (faults \ {"contract_validation"})
                    \cup (IF image THEN {} ELSE {"contract_validation"})
    /\ UNCHANGED <<task, adapterTask, observation, episode, trace>>

update_episode(message) ==
    /\ message # episode
    /\ episode' = message
    /\ UNCHANGED <<task, adapterTask, observation, observed, faults, trace>>

update_stage(stage) ==
    /\ faults' = IF stage \in faults THEN faults \ {stage} ELSE faults \cup {stage}
    /\ UNCHANGED <<task, adapterTask, observation, observed, episode, trace>>

(* How the stages read, given the stages whose messages are fresh. A stage *)
(* is FAILED or REJECTED by what its component last reported.              *)
Reads(bad) == IF bad THEN "failed" ELSE "ready"

health_status(fresh) == Reads("observation_health" \in faults \cap fresh)

(* The contract wants a schema, an image and a task; the schema is a       *)
(* constant of the adapter.                                                *)
contract_status(fresh) ==
    Reads(/\ "contract_validation" \in fresh /\ observed.id > 0
          /\ observed.task = NoTask \/ "contract_validation" \in faults)

runtime_status(fresh) == Reads("model_runtime" \in faults \cap fresh)

(* An active safety event counts whatever its age.                         *)
safety_status == Reads("safety_guard" \in faults)

shadow_status(fresh) == Reads("shadow_evaluation" \in faults \cap fresh)

(* The episode's text is copied whatever its age, its state is not.        *)
episode_status(fresh) ==
    IF episode = "completed" THEN "completed"
    ELSE Reads(episode = "error" /\ "trace_recording" \in fresh)

Outcomes(fresh) ==
    [observation_health |-> health_status(fresh), contract_validation |-> contract_status(fresh),
     model_runtime |-> runtime_status(fresh), safety_guard |-> safety_status,
     shadow_evaluation |-> shadow_status(fresh), trace_recording |-> episode_status(fresh)]

publish(stale) ==
    /\ trace' = [observation |-> observed, stages |-> Outcomes(Stages \ stale)]
    /\ UNCHANGED <<task, adapterTask, observation, observed, episode, faults>>

-----------------------------------------------------------------------------
(* What /vehicle/episode_state can say: a text with the word "completed",  *)
(* an error, or anything else.                                             *)
EpisodeMessages ==
    {"completed", "other"} \cup (IF "trace_recording" \in FaultStages THEN {"error"} ELSE {})

(* Whether the camera's message in an observation has data.                *)
Images == {TRUE} \cup (IF "contract_validation" \in FaultStages THEN {FALSE} ELSE {})

TraceNext ==
    \/ AdapterReceivesTask
    \/ publish_observation
    \/ AdapterRestarts
    \/ \E image \in Images : update_observation(image)
    \/ \E message \in EpisodeMessages : update_episode(message)
    \/ \E stage \in Reporting : update_stage(stage)
    \/ \E stale \in SUBSET AgeBounded : publish(stale)
=============================================================================
