---------------------------- MODULE PolicyGateway ----------------------------
(***************************************************************************)
(* vla_policy_gateway and its UnixSocketPolicyTransport.                   *)
(*                                                                         *)
(* Three executor threads: the observation callback, the prediction timer  *)
(* and the status timer.  A prediction and a health check each span a      *)
(* socket transaction, during which the other threads and the clock run    *)
(* on; both write ready_.                                                  *)
(***************************************************************************)
EXTENDS VehicleInterfaces, ObservationAdapter

CONSTANTS
    ObsTimeout,        \* observation_timeout
    ActionValidity     \* control_period * number of vectors + 500 ms

ASSUME GatewayTimeAssumption ==
    /\ ObsTimeout \in Nat
    /\ ActionValidity \in Nat

VARIABLES
    observation,    \* observation_, or NoObservation
    observedAt,     \* observation_received_at_
    lastId,         \* last_observation_id_, 0 for the empty string
    transportReady, \* ready_ of the transport
    predicting,     \* the observation predict() is waiting on, or NoObservation
    predictSince,   \* when that transaction began, 0 without one
    statusPc,       \* the status thread: "idle", "asked" or "applied"
    health,         \* the ready flag the health response carries
    policyState     \* /vla/policy_state, transient local, depth 1

pgVars == <<observation, observedAt, lastId, transportReady, predicting,
            predictSince, statusPc, health, policyState>>

NoObservation == [id |-> 0, run |-> 0, imageAt |-> 0, validUntil |-> 0]

PolicyGatewayInit ==
    /\ observation = NoObservation
    /\ observedAt = 0
    /\ lastId = 0
    /\ transportReady = FALSE
    /\ predicting = NoObservation
    /\ predictSince = 0
    /\ statusPc = "idle"
    /\ health = FALSE
    /\ policyState = STATE_ERROR

on_observation(o, t) ==
    /\ observation' = o
    /\ observedAt' = t
    /\ UNCHANGED <<lastId, transportReady, predicting, predictSince, statusPc,
                   health, policyState>>

CanPredict(t) ==
    /\ transportReady
    /\ observation # NoObservation
    /\ t - observedAt <= ObsTimeout
    /\ t <= observation.validUntil
    /\ observation.id # lastId

(* predict, up to the request. *)
predict(t) ==
    /\ predicting = NoObservation
    /\ CanPredict(t)
    /\ predicting' = observation
    /\ predictSince' = t
    /\ UNCHANGED <<observation, observedAt, lastId, transportReady, statusPc,
                   health, policyState>>

(* Mutant: the observation is not remembered as answered. *)
predict_succeeds_Forgets ==
    /\ predicting # NoObservation
    /\ predicting' = NoObservation /\ predictSince' = 0
    /\ UNCHANGED <<observation, observedAt, lastId, transportReady, statusPc,
                   health, policyState>>

(* predict, after a good response; the action is published by the caller.  *)
predict_succeeds ==
    /\ predicting # NoObservation
    /\ lastId' = predicting.id
    /\ predicting' = NoObservation /\ predictSince' = 0
    /\ UNCHANGED <<observation, observedAt, transportReady, statusPc, health,
                   policyState>>

(* predict, after an exception of the transport. *)
predict_fails ==
    /\ predicting # NoObservation
    /\ transportReady' = FALSE
    /\ predicting' = NoObservation /\ predictSince' = 0
    /\ UNCHANGED <<observation, observedAt, lastId, statusPc, health, policyState>>

(* The message predict() publishes: stamped when the response is in.  took *)
(* (history) is how long the transaction lasted.                           *)
PolicyAction(chunk, t, acceptable) ==
    [chunk |-> chunk, imageAt |-> predicting.imageAt, took |-> t - predictSince,
     generated |-> t, validUntil |-> t + ActionValidity, acceptable |-> acceptable]

(* publish_status: refresh() asks, applies the answer, and ready() is read.*)
refresh_asks(serverReady) ==
    /\ statusPc = "idle"
    /\ health' = serverReady
    /\ statusPc' = "asked"
    /\ UNCHANGED <<observation, observedAt, lastId, transportReady, predicting,
                   predictSince, policyState>>

(* Mutant: a health check only ever clears the flag. *)
refresh_applies_Sticky ==
    /\ statusPc = "asked"
    /\ transportReady' = (health /\ transportReady)
    /\ statusPc' = "applied"
    /\ UNCHANGED <<observation, observedAt, lastId, predicting, predictSince,
                   health, policyState>>

refresh_applies ==
    /\ statusPc = "asked"
    /\ transportReady' = health
    /\ statusPc' = "applied"
    /\ UNCHANGED <<observation, observedAt, lastId, predicting, predictSince,
                   health, policyState>>

publish_status ==
    /\ statusPc = "applied"
    /\ policyState' = IF transportReady THEN STATE_READY ELSE STATE_ERROR
    /\ statusPc' = "idle"
    /\ UNCHANGED <<observation, observedAt, lastId, transportReady, predicting,
                   predictSince, health>>
=============================================================================
