------------------------- MODULE VehicleInterfaces -------------------------
(***************************************************************************)
(* The message vocabulary shared by the runtime nodes: control modes,      *)
(* safety severities, policy states and velocity commands.                 *)
(*                                                                         *)
(* A Twist keeps the three axes some node reads or writes: linear.x (x),   *)
(* linear.y (y, only ever set by the twist mobility adapter) and angular.z *)
(* (z).  Axis values are integers in an abstract unit, or NaN: the floating*)
(* point value that every comparison rejects and that std::clamp returns   *)
(* unchanged.                                                              *)
(***************************************************************************)
EXTENDS Integers

CONSTANT NaN

ASSUME NaNAssumption == NaN \notin Int

MODE_MANUAL         == 0
MODE_NAV2           == 1
MODE_VLA_SHADOW     == 2
MODE_VLA_ASSISTED   == 3
MODE_VLA_AUTONOMOUS == 4
MODE_MOBILE_TELEOP  == 5
MODE_REMOTE_TELEOP  == 6
MODE_SAFE_STOP      == 7
MODE_FAULT          == 8

Modes == MODE_MANUAL..MODE_FAULT

SEVERITY_INFO    == 0
SEVERITY_WARNING == 1
SEVERITY_STOP    == 2
SEVERITY_FAULT   == 3

Severities == SEVERITY_INFO..SEVERITY_FAULT

STATE_DISCONNECTED == 0
STATE_LOADING      == 1
STATE_READY        == 2
STATE_ERROR        == 3

PolicyStates == STATE_DISCONNECTED..STATE_ERROR

Speed == Int \cup {NaN}

Twist == [x : Speed, y : Speed, z : Speed]

ZeroTwist == [x |-> 0, y |-> 0, z |-> 0]

(* std::clamp: a NaN compares false with both bounds and is returned as is. *)
Clamp(v, lo, hi) ==
    IF v = NaN THEN NaN
    ELSE IF v < lo THEN lo
    ELSE IF hi < v THEN hi
    ELSE v

(* v > 0.0 in floating point: false for NaN. *)
Positive(v) == v # NaN /\ v > 0

(* stamp.nanoseconds() > 0 && (now() - stamp).seconds() <= timeout: the     *)
(* freshness test of the mux and of the guard, against the clock t.        *)
FreshAt(t, stamp, timeout) == stamp > 0 /\ t - stamp <= timeout
=============================================================================
