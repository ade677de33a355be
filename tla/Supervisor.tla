----------------------------- MODULE Supervisor -----------------------------
(***************************************************************************)
(* vehicle_supervisor: the authoritative control mode.                     *)
(*                                                                         *)
(* state_.control_source and state_.safe_to_move are functions of the mode *)
(* (control_source_for, set_mode) that no other node reads, and are left   *)
(* out.  set_mode publishes the new mode at once on the transient-local,   *)
(* depth-1 topic /vehicle/system_state and the 500 ms timer republishes    *)
(* the same value, so supMode is also the last sample of that topic, which *)
(* a subscriber can still read after the supervisor has exited.            *)
(***************************************************************************)
EXTENDS VehicleInterfaces

VARIABLES
    supMode,           \* state_.mode
    safetyStopActive,  \* safety_stop_active_
    policyReady,       \* policy_ready_
    supUp              \* the process runs; no launch file respawns it

supervisorVars == <<supMode, safetyStopActive, policyReady, supUp>>

SupervisorTypeOK ==
    /\ supMode \in Modes
    /\ safetyStopActive \in BOOLEAN
    /\ policyReady \in BOOLEAN
    /\ supUp \in BOOLEAN

SupervisorInit ==
    /\ supMode = MODE_MANUAL
    /\ safetyStopActive = FALSE
    /\ policyReady = FALSE
    /\ supUp = TRUE

set_mode(mode) == supMode' = mode

(* on_policy_status: readiness is recorded; the mode is left alone. *)
on_policy_status(state) ==
    /\ supUp
    /\ policyReady' = (state = STATE_READY)
    /\ UNCHANGED <<supMode, safetyStopActive, supUp>>

(* Mutant: only FAULT events stop. *)
IsStop_FaultOnly(event) == event.active /\ event.severity > SEVERITY_STOP

IsStop(event) == event.active /\ event.severity >= SEVERITY_STOP

(* on_safety_event: the last event decides, and an active stop forces      *)
(* SAFE_STOP.                                                              *)
on_safety_event(event) ==
    /\ supUp
    /\ safetyStopActive' = IsStop(event)
    /\ IF IsStop(event) THEN set_mode(MODE_SAFE_STOP) ELSE UNCHANGED supMode
    /\ UNCHANGED <<policyReady, supUp>>

RequiresPolicy(mode) == mode \in {MODE_VLA_ASSISTED, MODE_VLA_AUTONOMOUS}

(* Mutant: the range check of the requested mode is dropped. *)
ModeRequestAccepted_AnyMode(mode) ==
    /\ safetyStopActive => mode \in {MODE_SAFE_STOP, MODE_MANUAL}
    /\ RequiresPolicy(mode) => policyReady

(* Mutant: an active safety stop does not hold the mode. *)
ModeRequestAccepted_IgnoreStop(mode) ==
    mode <= MODE_FAULT /\ (RequiresPolicy(mode) => policyReady)

(* The three early returns of on_mode_request. *)
ModeRequestAccepted(mode) ==
    /\ mode <= MODE_FAULT
    /\ safetyStopActive => mode \in {MODE_SAFE_STOP, MODE_MANUAL}
    /\ RequiresPolicy(mode) => policyReady

on_mode_request(mode) ==
    /\ supUp
    /\ IF ModeRequestAccepted(mode) THEN set_mode(mode) ELSE UNCHANGED supMode
    /\ UNCHANGED <<safetyStopActive, policyReady, supUp>>

(* on_safe_stop always succeeds, and does not set safety_stop_active_. *)
on_safe_stop ==
    /\ supUp
    /\ set_mode(MODE_SAFE_STOP)
    /\ UNCHANGED <<safetyStopActive, policyReady, supUp>>

SupervisorExit ==
    /\ supUp
    /\ supUp' = FALSE
    /\ UNCHANGED <<supMode, safetyStopActive, policyReady>>
=============================================================================
