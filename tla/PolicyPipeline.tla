--------------------------- MODULE PolicyPipeline ---------------------------
(***************************************************************************)
(* From the camera to the policy's velocity command: observation adapter,  *)
(* policy gateway, policy server and action runtime, four processes that   *)
(* may each be slow; the adapter and the server may die and come back.     *)
(*                                                                         *)
(*   image -> adapter -> obsTopic -> gateway <-> server                    *)
(*                                      |                                  *)
(*                                 actionTopic -> runtime -> vlaCommand    *)
(***************************************************************************)
EXTENDS PolicyGateway, PolicyServer, ActionRuntime, FiniteSets

CONSTANTS
    TransportTimeout,  \* transport_timeout: how long one socket call may last
    Threads,           \* executor threads of the gateway
    ObsDepth,          \* depth of /vla/observation
    ActionDepth,       \* depth of /vla/policy_action
    Acceptable,        \* whether the mobility adapter takes a chunk
    MaxTime,           \* bound: the clock stops here
    MaxObservations,   \* bound: observations per life of the adapter
    MaxRuns            \* bound: lives of the adapter

ASSUME PipelineAssumption ==
    /\ TransportTimeout \in Nat
    /\ Threads \in Nat
    /\ ObsDepth \in Nat \ {0}
    /\ ActionDepth \in Nat \ {0}
    /\ Acceptable \subseteq BOOLEAN
    /\ MaxTime \in Nat
    /\ MaxObservations \in Nat
    /\ MaxRuns \in Nat

VARIABLES
    now,           \* the clock
    obsTopic,      \* /vla/observation
    taken,         \* the observations whose callbacks wait for observation_mutex_
    actionTopic,   \* /vla/policy_action
    call,          \* the worker that serves the gateway's prediction
    chunks,        \* history: how many policy actions were published
    answered,      \* history: the observations they answer
    vlaCommand     \* history: the last sample sent to /vla/cmd_vel_raw, and when

linkVars == <<now, obsTopic, taken, actionTopic, call, chunks, answered, vlaCommand>>
vars == <<adapterVars, pgVars, serverVars, runtimeVars, linkVars>>

NoCommand == [chunk |-> 0, index |-> 0, imageAt |-> 0, took |-> 0, at |-> 0]

(* What a keep-last topic holds after a publication. *)
Retained(q, depth) ==
    IF Len(q) <= depth THEN q ELSE SubSeq(q, Len(q) - depth + 1, Len(q))

Init ==
    /\ AdapterInit
    /\ PolicyGatewayInit
    /\ ServerInit
    /\ RuntimeInit
    /\ now = 1
    /\ obsTopic = << >>
    /\ taken = {}
    /\ actionTopic = << >>
    /\ call = NoWorker
    /\ chunks = 0
    /\ answered = {}
    /\ vlaCommand = NoCommand

(* Time passes, also during a transaction: its timeout is that of one      *)
(* socket call, and a transaction takes as many as the bytes come in.      *)
Tick ==
    /\ now < MaxTime
    /\ now' = now + 1
    /\ UNCHANGED <<adapterVars, pgVars, serverVars, runtimeVars, obsTopic, taken,
                   actionTopic, call, chunks, answered, vlaCommand>>

-----------------------------------------------------------------------------
(* The adapter. *)

ImageArrives ==
    /\ on_image(now)
    /\ UNCHANGED <<pgVars, serverVars, runtimeVars, linkVars>>

ObservationStatusArrives ==
    /\ \E isReady \in BOOLEAN : on_observation_status(isReady)
    /\ UNCHANGED <<pgVars, serverVars, runtimeVars, linkVars>>

PublishObservation ==
    /\ obsSequence < MaxObservations
    /\ publish_observation(now)
    /\ obsTopic' = Retained(Append(obsTopic, NextObservation(now)), ObsDepth)
    /\ UNCHANGED <<pgVars, serverVars, runtimeVars, now, taken, actionTopic, call,
                   chunks, answered, vlaCommand>>

RestartAdapter ==
    /\ adapterRun < MaxRuns
    /\ AdapterRestart
    /\ UNCHANGED <<pgVars, serverVars, runtimeVars, linkVars>>

-----------------------------------------------------------------------------
(* The gateway. *)

(* An executor thread takes the next observation.  The callback's group is *)
(* reentrant: another thread may take one before this one is stored.       *)
TakeObservation ==
    /\ obsTopic # << >>
    /\ Cardinality(taken) < Threads
    /\ obsTopic' = Tail(obsTopic)
    /\ taken' = taken \cup {Head(obsTopic)}
    /\ UNCHANGED <<adapterVars, pgVars, serverVars, runtimeVars, now, actionTopic,
                   call, chunks, answered, vlaCommand>>

(* Whichever callback gets the mutex next stores its observation.          *)
DeliverObservation ==
    /\ \E o \in taken : on_observation(o, now) /\ taken' = taken \ {o}
    /\ UNCHANGED <<adapterVars, serverVars, runtimeVars, now, obsTopic, actionTopic,
                   call, chunks, answered, vlaCommand>>

(* predict() and a server that takes the connection, or is not there.      *)
RequestPrediction ==
    /\ predict(now)
    /\ \/ \E w \in Workers : Accept(w, observation.validUntil) /\ call' = w
       \/ /\ server = "down" /\ call' = NoWorker
          /\ UNCHANGED serverVars
    /\ UNCHANGED <<adapterVars, runtimeVars, now, obsTopic, taken, actionTopic, chunks,
                   answered, vlaCommand>>

(* The response arrives and is published, whatever time it carries.        *)
PredictionArrives ==
    /\ predicting # NoObservation
    /\ call # NoWorker /\ phase[call] = "done"
    /\ predict_succeeds
    /\ Retire(call)
    /\ call' = NoWorker
    /\ chunks' = chunks + 1
    /\ answered' = answered \cup {<<predicting.run, predicting.id>>}
    /\ \E acceptable \in Acceptable :
          actionTopic' = Retained(Append(actionTopic,
                             PolicyAction(chunks + 1, now, acceptable)), ActionDepth)
    /\ UNCHANGED <<adapterVars, runtimeVars, now, obsTopic, taken, vlaCommand>>

(* An error response, a lost connection, or the timeout.  An unfinished    *)
(* worker is left to itself.                                               *)
PredictionFails ==
    /\ predicting # NoObservation
    /\ predict_fails
    /\ call' = NoWorker
    /\ IF call # NoWorker /\ phase[call] = "error"
       THEN Retire(call)
       ELSE /\ call = NoWorker \/ now - predictSince >= TransportTimeout
            /\ UNCHANGED serverVars
    /\ UNCHANGED <<adapterVars, runtimeVars, now, obsTopic, taken, actionTopic, chunks,
                   answered, vlaCommand>>

(* A health check may also go unanswered for the length of its timeout.    *)
StatusThread ==
    /\ \/ refresh_asks(server = "serving")
       \/ refresh_asks(FALSE)
       \/ refresh_applies
       \/ publish_status
    /\ UNCHANGED <<adapterVars, serverVars, runtimeVars, linkVars>>

-----------------------------------------------------------------------------
(* The server. *)

StartServer ==
    /\ ServerStart
    /\ UNCHANGED <<adapterVars, pgVars, runtimeVars, linkVars>>

CrashServer ==
    /\ ServerCrash
    /\ call' = NoWorker
    /\ UNCHANGED <<adapterVars, pgVars, runtimeVars, now, obsTopic, taken,
                   actionTopic, chunks, answered, vlaCommand>>

WorkerStep(w) ==
    /\ \/ \E wellFormed \in BOOLEAN : BeginInference(w, now, wellFormed)
       \/ \E ok \in BOOLEAN : EndInference(w, now, ok)
       \/ call # w /\ Retire(w)
    /\ UNCHANGED <<adapterVars, pgVars, runtimeVars, linkVars>>

DebugRun ==
    /\ DebugBegins \/ DebugEnds
    /\ UNCHANGED <<adapterVars, pgVars, runtimeVars, linkVars>>

-----------------------------------------------------------------------------
(* The runtime. *)

DeliverAction ==
    /\ actionTopic # << >>
    /\ on_action(Head(actionTopic))
    /\ actionTopic' = Tail(actionTopic)
    /\ UNCHANGED <<adapterVars, pgVars, serverVars, now, obsTopic, taken, call, chunks,
                   answered, vlaCommand>>

(* execute: a sample, or the zero command, which vlaCommand passes over.   *)
Execute ==
    /\ execute(now)
    /\ vlaCommand' = IF SampleDue(now)
                     THEN [chunk |-> Head(actions).chunk, index |-> Head(actions).index,
                           imageAt |-> Head(actions).imageAt,
                           took |-> Head(actions).took, at |-> now]
                     ELSE vlaCommand
    /\ UNCHANGED <<adapterVars, pgVars, serverVars, now, obsTopic, taken, actionTopic,
                   call, chunks, answered>>

-----------------------------------------------------------------------------
Next ==
    \/ Tick
    \/ ImageArrives
    \/ ObservationStatusArrives
    \/ PublishObservation
    \/ RestartAdapter
    \/ TakeObservation
    \/ DeliverObservation
    \/ RequestPrediction
    \/ PredictionArrives
    \/ PredictionFails
    \/ StatusThread
    \/ StartServer
    \/ CrashServer
    \/ \E w \in Workers : WorkerStep(w)
    \/ DebugRun
    \/ DeliverAction
    \/ Execute

Spec == Init /\ [][Next]_vars

(* The gateway's and the runtime's timers fire, transactions end, threads  *)
(* of the server run, a debug run ends, and of health checks asked for     *)
(* ever some are answered.  The clock, the camera and the server's         *)
(* restarts are owed to nobody.                                            *)
Fairness ==
    /\ WF_vars(StatusThread)
    /\ SF_vars(/\ refresh_asks(server = "serving")
               /\ UNCHANGED <<adapterVars, serverVars, runtimeVars, linkVars>>)
    /\ WF_vars(PredictionArrives)
    /\ WF_vars(PredictionFails)
    /\ \A w \in Workers : WF_vars(WorkerStep(w))
    /\ WF_vars(DebugEnds /\ UNCHANGED <<adapterVars, pgVars, runtimeVars, linkVars>>)
    /\ WF_vars(DeliverAction)
    /\ WF_vars(Execute)

FairSpec == Spec /\ Fairness

-----------------------------------------------------------------------------
(* Properties. *)

Sample == [chunk : Nat, index : Nat, imageAt : Nat, took : Nat]
Action == [chunk : Nat, imageAt : Nat, took : Nat, generated : Nat, validUntil : Nat,
           acceptable : BOOLEAN]
Command == [chunk : Nat, index : Nat, imageAt : Nat, took : Nat, at : Nat]

(* Type invariant of the four processes and the topics between them. *)
TypeOK ==
    /\ imageAt \in Nat /\ obsReady \in BOOLEAN /\ obsSequence \in Nat /\ adapterRun \in Nat
    /\ observation \in Observation /\ predicting \in Observation
    /\ observedAt \in Nat /\ lastId \in Nat /\ predictSince \in Nat
    /\ transportReady \in BOOLEAN /\ health \in BOOLEAN
    /\ statusPc \in {"idle", "asked", "applied"}
    /\ policyState \in PolicyStates
    /\ server \in {"down", "serving", "broken"}
    /\ phase \in [Workers -> {"free", "received", "inferring", "error", "done"}]
    /\ obsUntil \in [Workers -> Nat] /\ response \in [Workers -> Nat]
    /\ predictLock \in Workers \cup {NoWorker, Debug}
    /\ actions \in Seq(Sample) /\ actionsUntil \in Nat /\ lastGenerated \in Nat
    /\ now \in Nat
    /\ obsTopic \in Seq(Observation) /\ taken \subseteq Observation
    /\ actionTopic \in Seq(Action)
    /\ call \in Workers \cup {NoWorker}
    /\ chunks \in Nat
    /\ answered \subseteq Nat \X Nat
    /\ vlaCommand \in Command

(* What the deadlines allow beside the time the transaction took.          *)
SightBound(took) == ImageTimeout + ObsValidity + took + ActionValidity

(* How old a picture the policy may drive on: beside the time its own      *)
(* transaction took, which no deadline of the code limits, nothing adds to *)
(* the age of the image behind an executed sample but the image, the       *)
(* observation and the action deadline, however long topics, threads and   *)
(* failed attempts at the observation dawdled.                             *)
FreshSight ==
    vlaCommand.at - vlaCommand.imageAt <= SightBound(vlaCommand.took)

Newer(c, d) == c.chunk > d.chunk \/ (c.chunk = d.chunk /\ c.index > d.index)

(* The samples executed move forward: none is repeated, none is played     *)
(* after a sample of a newer chunk.                                        *)
SamplesMoveOn ==
    [][vlaCommand' # vlaCommand => Newer(vlaCommand', vlaCommand)]_vars

(* Each observation is answered by at most one policy action, however many *)
(* attempts at it failed or timed out before, and although numbers recur   *)
(* when the adapter is restarted.                                          *)
AnsweredOnce ==
    Cardinality(answered) = chunks

(* The gateway recovers: while the server serves, readiness returns after  *)
(* every failed prediction.                                                *)
ReadyRecovers ==
    <>[](server = "serving") => []<>transportReady

(* No prediction, failed inference or debug run keeps the provider busy    *)
(* for ever.                                                               *)
LockReturns ==
    []<>(predictLock = NoWorker)

(* A policy that falls silent stops the vehicle: with the server gone for  *)
(* good the runtime runs out of samples, whatever was still on its way.    *)
SilenceStops ==
    <>[](server = "down") => <>[](actions = << >>)

-----------------------------------------------------------------------------
(* What the documents say of the pipeline and the code does not do; each   *)
(* is the property of a run that finds it violated.                        *)

(* "Out-of-order or expired responses are dropped": a response is used     *)
(* only within the validity it carries.                                    *)
ExpiredResponsesDropped ==
    [][chunks' # chunks => now <= response[call]]_vars

(* "Policy service unresponsive: clear the queue and slow to a stop": no   *)
(* sample is executed while the policy has failed and is reported so.      *)
QueueClearedOnError ==
    [][vlaCommand' # vlaCommand => transportReady \/ policyState # STATE_ERROR]_vars

(* "observation_id: monotonically generated correlation identifier": the   *)
(* observations the gateway receives carry growing ids.                    *)
ObservationIdsGrow ==
    [][observation' # observation => observation'.id > observation.id]_vars
=============================================================================
