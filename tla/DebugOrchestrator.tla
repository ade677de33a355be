------------------------- MODULE DebugOrchestrator -------------------------
(***************************************************************************)
(* The snapshot debugger: vla_debug_orchestrator, which freezes an         *)
(* observation, runs a stage of the policy on it and may execute the first *)
(* action as a single step, and the routes of the operations API that call *)
(* it.                                                                     *)
(*                                                                         *)
(* The callbacks of the node share one callback group, so they exclude one *)
(* another although the executor has two threads: while a run waits for    *)
(* the provider or for the end of a step, no message reaches the node and  *)
(* every test it makes is on what it had received before.                  *)
(***************************************************************************)
EXTENDS Integers, Sequences, FiniteSets, SequencesExt

CONSTANTS
    Workers,          \* number of HTTP workers that may wait for the node
    Captures,         \* the capture requests they send
    Runs,             \* the run requests they send, but for the run id
    MaxSnapshots,     \* max_snapshots_
    BusyRetryCount,   \* provider_busy_retry_count_
    MaxRuns,          \* bound: calls of make_run_id
    MaxFrames,        \* bound: observations the node receives
    MaxQueued,        \* bound: requests queued for the two services
    Idle              \* not a request

ASSUME DebugAssumption ==
    /\ Captures \subseteq [upload : {"camera", "jpeg", "other"}, task : BOOLEAN]
    /\ Runs \subseteq [stage : {"preprocess", "inference", "other"},
                       execute : BOOLEAN, confirmed : BOOLEAN]
    /\ Workers \in Nat /\ MaxSnapshots \in Nat \ {0} /\ MaxQueued \in Nat
    /\ BusyRetryCount \in Nat /\ MaxRuns \in Nat /\ MaxFrames \in Nat

Modes == {"VLA_SHADOW", "VLA_ASSISTED", "OTHER"}
RunIds == 1..MaxRuns

(* What is asked of each service. A run may name any id, that of an        *)
(* evicted snapshot included.                                              *)
RunRequests == [id : RunIds, of : Runs]
Services == {"capture", "run"}
Requests == [s \in Services |-> IF s = "run" THEN RunRequests ELSE Captures]

ASSUME IdleAssumption == Idle \notin RunRequests

VARIABLES
    mode,           \* the supervisor's mode, as last published on /vehicle/system_state
    received,       \* the last observation, mode and command the node received
    recent,         \* which of what it received is younger than its timeout
    snapshots,      \* snapshots_ : run ids to observations
    snapshotOrder,  \* snapshot_order_
    sequence,       \* sequence_
    queue,          \* the requests of each service, and whether a worker waits for them
    node,           \* the run callback: where it is, its request and its locals
    artifacts,      \* run/ops/debug/<run id>: the observation and the results in it
    raw,            \* the node's last message on /vla/cmd_vel_raw
    steps           \* history: steps published for the last run request taken

snapshotVars == <<mode, received, recent, snapshots, snapshotOrder, sequence,
                  queue, node, artifacts, raw, steps>>

Resting == [at |-> "idle", request |-> Idle, waited |-> FALSE, snapshot |-> 0, attempt |-> 0]

SnapshotInit ==
    /\ mode = "OTHER"
    /\ received = [observation |-> 0, mode |-> "OTHER", moving |-> FALSE]
    /\ recent = {}
    /\ snapshots = << >> /\ snapshotOrder = << >> /\ sequence = 0
    /\ queue = [s \in Services |-> << >>]
    /\ node = Resting
    /\ artifacts = << >>
    /\ raw = "none"
    /\ steps = 0

-----------------------------------------------------------------------------
(* The topics. *)

(* The supervisor publishes a change of the mode.                          *)
PublishMode(new) ==
    /\ mode # new
    /\ mode' = new
    /\ UNCHANGED <<received, recent, snapshots, snapshotOrder, sequence,
                   queue, node, artifacts, raw, steps>>

(* A subscription callback, when no other callback runs: the adapter's     *)
(* next observation, the supervisor's mode, or a final command that moves  *)
(* the vehicle or does not.                                                *)
Receive(field, message) ==
    /\ node.at = "idle"
    /\ received' = [received EXCEPT ![field] = message]
    /\ recent' = recent \cup {field}
    /\ UNCHANGED <<mode, snapshots, snapshotOrder, sequence,
                   queue, node, artifacts, raw, steps>>

ReceiveObservation ==
    received.observation < MaxFrames /\ Receive("observation", received.observation + 1)

ReceiveMode == Receive("mode", mode)

ReceiveCommand(moving) == Receive("moving", moving)

(* observation_timeout_ or command_timeout_ passes; there is none for the  *)
(* system state.                                                           *)
Ages(field) ==
    /\ field \in recent \ {"mode"}
    /\ recent' = recent \ {field}
    /\ UNCHANGED <<mode, received, snapshots, snapshotOrder, sequence,
                   queue, node, artifacts, raw, steps>>

-----------------------------------------------------------------------------
(* The routes of the operations API. A request the API refuses itself (not *)
(* JSON, no run id, a near-black camera) never reaches the node.           *)

(* The requests of a service that a worker waits for.                      *)
Waited(s) == {i \in DOMAIN queue[s] : queue[s][i].waited}

WaitingWorkers ==
    Cardinality(Waited("capture")) + Cardinality(Waited("run")) + (IF node.waited THEN 1 ELSE 0)

(* A worker that waits for no answer, also one that was just told 408,     *)
(* sends a request and waits.                                              *)
SendRequest(s, r) ==
    /\ WaitingWorkers < Workers
    /\ Len(queue["capture"]) + Len(queue["run"]) < MaxQueued
    /\ queue' = [queue EXCEPT ![s] = Append(@, [request |-> r, waited |-> TRUE])]
    /\ UNCHANGED <<mode, received, recent, snapshots, snapshotOrder, sequence,
                   node, artifacts, raw, steps>>

(* 408 after service_timeout_seconds or debug_timeout_seconds: the worker  *)
(* gives up. Its request stays in the queue, or goes on being served, and  *)
(* the node does not hear of it.                                           *)
RequestTimesOut(s) ==
    /\ \E i \in Waited(s) : queue' = [queue EXCEPT ![s][i].waited = FALSE]
    /\ UNCHANGED <<mode, received, recent, snapshots, snapshotOrder, sequence,
                   node, artifacts, raw, steps>>

RunTimesOut ==
    /\ node.waited
    /\ node' = [node EXCEPT !.waited = FALSE]
    /\ UNCHANGED <<mode, received, recent, snapshots, snapshotOrder, sequence,
                   queue, artifacts, raw, steps>>

-----------------------------------------------------------------------------
(* The node. *)

SafeToDebug(allowMotion) ==
    /\ "mode" \in recent
    /\ received.mode \in {"VLA_SHADOW", "VLA_ASSISTED"}
    /\ allowMotion => received.mode = "VLA_ASSISTED"
    /\ ~("moving" \in recent /\ received.moving)

(* The node takes the oldest request of a service when no callback runs.   *)
Take(s) ==
    /\ node.at = "idle"
    /\ queue[s] # << >>
    /\ queue' = [queue EXCEPT ![s] = Tail(@)]

CaptureAllowed(of) ==
    /\ SafeToDebug(FALSE)
    /\ "observation" \in recent
    /\ of.upload \in {"camera", "jpeg"}
    /\ of.task

(* The snapshots after a capture: the new one and the newest of the others. *)
Kept(id) ==
    LET all == Append(snapshotOrder, id) IN
    IF Len(all) > MaxSnapshots THEN SubSeq(all, Len(all) - MaxSnapshots + 1, Len(all)) ELSE all

Capture ==
    LET id == sequence + 1 IN
    /\ Take("capture")
    /\ IF CaptureAllowed(Head(queue["capture"]).request)
       THEN /\ sequence < MaxRuns
            /\ sequence' = id
            /\ snapshotOrder' = Kept(id)
            /\ snapshots' = [r \in ToSet(Kept(id)) |->
                                IF r = id THEN received.observation ELSE snapshots[r]]
            /\ artifacts' = Append(artifacts, [observation |-> received.observation,
                                               preprocess |-> 0, inference |-> 0])
       ELSE UNCHANGED <<sequence, snapshotOrder, snapshots, artifacts>>
    /\ UNCHANGED <<mode, received, recent, node, raw, steps>>

RunAllowed(r) ==
    /\ r.of.stage \in {"preprocess", "inference"}
    /\ r.of.execute => (r.of.stage = "inference" /\ r.of.confirmed)
    /\ SafeToDebug(r.of.execute)
    /\ r.id \in DOMAIN snapshots

(* Mutant: the run works on the latest observation.                        *)
Frozen_Latest(id) == received.observation

Frozen(id) == snapshots[id]

(* run is called: it refuses, or copies the snapshot and calls the policy. *)
StartRun ==
    LET head == Head(queue["run"]) IN
    /\ Take("run")
    /\ node' = IF RunAllowed(head.request)
               THEN [at |-> "debug", request |-> head.request, waited |-> head.waited,
                     snapshot |-> Frozen(head.request.id), attempt |-> 0]
               ELSE Resting
    /\ steps' = 0
    /\ UNCHANGED <<mode, received, recent, snapshots, snapshotOrder, sequence,
                   artifacts, raw>>

MayRetry == node.attempt < BusyRetryCount

(* The policy fails; only "provider is busy" is tried again.               *)
DebugFails(busy) ==
    /\ node.at = "debug"
    /\ node' = IF busy /\ MayRetry THEN [node EXCEPT !.attempt = @ + 1] ELSE Resting
    /\ UNCHANGED <<mode, received, recent, snapshots, snapshotOrder, sequence,
                   queue, artifacts, raw, steps>>

(* The result of the run goes to the directory of its id.                  *)
SaveResult ==
    artifacts' = [artifacts EXCEPT ![node.request.id][node.request.of.stage] = node.snapshot]

(* The end of the run callback: its answer, if anybody waits for it.       *)
Answer == node' = Resting

(* The policy answers. A preview is saved. A step is published if the      *)
(* mobility plugin accepts the action and the mode the node knows of is    *)
(* still VLA_ASSISTED; otherwise the result is returned and not saved.     *)
DebugAnswers(compatible) ==
    /\ node.at = "debug"
    /\ IF ~node.request.of.execute
       THEN SaveResult /\ Answer /\ UNCHANGED <<raw, steps>>
       ELSE IF compatible /\ received.mode = "VLA_ASSISTED"
       THEN /\ raw' = "step"
            /\ steps' = steps + 1
            /\ node' = [node EXCEPT !.at = "step"]
            /\ UNCHANGED artifacts
       ELSE Answer /\ UNCHANGED <<artifacts, raw, steps>>
    /\ UNCHANGED <<mode, received, recent, snapshots, snapshotOrder, sequence, queue>>

(* Mutant: no command ends the step.                                       *)
PublishStop_Missing == UNCHANGED raw

PublishStop == raw' = "stop"

(* Mutant: the loop over the attempts is not left after a success.         *)
StopStep_Again ==
    /\ node.at = "step"
    /\ PublishStop
    /\ SaveResult
    /\ node' = IF MayRetry THEN [node EXCEPT !.at = "debug", !.attempt = @ + 1] ELSE Resting
    /\ UNCHANGED <<mode, received, recent, snapshots, snapshotOrder, sequence, queue, steps>>

(* The step's 50 to 300 ms are over: execute_command publishes a zero      *)
(* command and run saves the result.                                       *)
StopStep ==
    /\ node.at = "step"
    /\ PublishStop
    /\ SaveResult
    /\ Answer
    /\ UNCHANGED <<mode, received, recent, snapshots, snapshotOrder, sequence, queue, steps>>

-----------------------------------------------------------------------------
Work ==
    \/ \E busy \in BOOLEAN : DebugFails(busy)
    \/ \E compatible \in BOOLEAN : DebugAnswers(compatible)
    \/ StopStep

SnapshotNext ==
    \/ \E new \in Modes : PublishMode(new)
    \/ ReceiveObservation
    \/ ReceiveMode
    \/ \E moving \in BOOLEAN : ReceiveCommand(moving)
    \/ \E field \in DOMAIN received : Ages(field)
    \/ \E s \in Services :
          \/ \E r \in Requests[s] : SendRequest(s, r)
          \/ RequestTimesOut(s)
    \/ RunTimesOut
    \/ Capture
    \/ StartRun
    \/ Work

SnapshotSpec == SnapshotInit /\ [][SnapshotNext]_snapshotVars

-----------------------------------------------------------------------------
(* Properties. *)

(* Type invariant of the snapshot debugger.                                *)
SnapshotTypeOK ==
    /\ mode \in Modes
    /\ received \in [observation : 0..MaxFrames, mode : Modes, moving : BOOLEAN]
    /\ recent \subseteq DOMAIN received
    /\ sequence \in 0..MaxRuns
    /\ \A s \in Services : queue[s] \in Seq([request : Requests[s], waited : BOOLEAN])
    /\ node.at \in {"idle", "debug", "step"}
    /\ node.attempt \in 0..BusyRetryCount
    /\ node.at # "idle" => node.request \in RunRequests

(* A run id stands for one observation: whatever is captured or evicted    *)
(* meanwhile, the snapshot under it and every result saved for it come     *)
(* from the observation its capture saved; and the snapshots kept are the  *)
(* newest max_snapshots.                                                   *)
SnapshotsFrozen ==
    /\ ToSet(snapshotOrder) = DOMAIN snapshots
    /\ DOMAIN snapshots = {r \in 1..sequence : r > sequence - MaxSnapshots}
    /\ \A r \in DOMAIN snapshots : snapshots[r] = artifacts[r].observation
    /\ \A r \in 1..sequence : \A stage \in {"preprocess", "inference"} :
          artifacts[r][stage] \in {0, artifacts[r].observation}

(* However often the provider is busy, and whatever else was sent after a  *)
(* request had timed out, a request moves the vehicle at most once, and    *)
(* only a confirmed one does.                                              *)
StepOnce ==
    steps <= IF node.at # "idle" => (node.request.of.execute /\ node.request.of.confirmed)
             THEN 1 ELSE 0

(* A run ends, with the vehicle stopped: the retries are bounded and every *)
(* step is followed by its zero command.                                   *)
RunEnds == (node.at # "idle") ~> (node.at = "idle" /\ raw # "step")

-----------------------------------------------------------------------------
(* What the code says and does not do.                                     *)

(* "Single-step execution requires VLA_ASSISTED mode": when the node       *)
(* publishes a step, the supervisor is in that mode.                       *)
StepInAssisted ==
    [][(raw' = "step" /\ raw # "step") => mode = "VLA_ASSISTED"]_snapshotVars

(* "VLA debug stage timed out": no step begins after the API has told the  *)
(* operator so.                                                            *)
NoStepAfterTimeout ==
    [][(raw' = "step" /\ raw # "step") => node.waited]_snapshotVars
=============================================================================
