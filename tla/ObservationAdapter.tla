------------------------- MODULE ObservationAdapter -------------------------
(***************************************************************************)
(* observation_adapter: joins the newest camera image with the vehicle     *)
(* state into numbered observations.  Single-threaded.  The state vector   *)
(* and the task are payload and left out; an observation keeps when its    *)
(* image was received, until when it is valid, and (history) which life of *)
(* the adapter numbered it.                                                *)
(***************************************************************************)
EXTENDS Integers

CONSTANTS
    ImageTimeout,      \* image_timeout, in ticks
    ObsValidity,       \* observation_validity
    RequireStatus      \* require_status_ready

ASSUME AdapterAssumption ==
    /\ ImageTimeout \in Nat
    /\ ObsValidity \in Nat
    /\ RequireStatus \in BOOLEAN

VARIABLES
    imageAt,       \* image_received_at_, 0 while image_ is null
    obsReady,      \* observation_ready_
    obsSequence,   \* sequence_
    adapterRun     \* history: how often the adapter was started

adapterVars == <<imageAt, obsReady, obsSequence, adapterRun>>

Observation == [id : Nat, run : Nat, imageAt : Nat, validUntil : Nat]

AdapterInit ==
    /\ imageAt = 0
    /\ obsReady = FALSE
    /\ obsSequence = 0
    /\ adapterRun = 1

on_image(t) ==
    /\ imageAt' = t
    /\ UNCHANGED <<obsReady, obsSequence, adapterRun>>

on_observation_status(isReady) ==
    /\ obsReady' = isReady
    /\ UNCHANGED <<imageAt, obsSequence, adapterRun>>

(* Mutant: an image of any age is good enough. *)
ObservationDue_AnyAge(t) ==
    /\ imageAt > 0
    /\ RequireStatus => obsReady

ObservationDue(t) ==
    /\ imageAt > 0
    /\ t - imageAt <= ImageTimeout
    /\ RequireStatus => obsReady

NextObservation(t) ==
    [id |-> obsSequence + 1, run |-> adapterRun, imageAt |-> imageAt,
     validUntil |-> t + ObsValidity]

publish_observation(t) ==
    /\ ObservationDue(t)
    /\ obsSequence' = obsSequence + 1
    /\ UNCHANGED <<imageAt, obsReady, adapterRun>>

(* The process is started again: every field is back to its initializer.   *)
AdapterRestart ==
    /\ imageAt' = 0
    /\ obsReady' = FALSE
    /\ obsSequence' = 0
    /\ adapterRun' = adapterRun + 1
=============================================================================
