---------------------------- MODULE SafetyGuard ----------------------------
(***************************************************************************)
(* vla_safety_guard: the only publisher of /cmd_vel.                       *)
(*                                                                         *)
(* A laser scan is abstracted to the set of its beams; of the minimum over *)
(* the beams in the front cone only the comparison with stop_distance is   *)
(* kept (frontBlocked).                                                    *)
(***************************************************************************)
EXTENDS VehicleInterfaces, Sequences

CONSTANTS
    CommandTimeout,       \* command_timeout, in ticks
    ScanTimeout,          \* scan_timeout, in ticks
    MaxLinearVelocity,    \* |max_linear_velocity|
    MaxReverseVelocity,   \* |max_reverse_velocity|
    MaxAngularVelocity,   \* |max_angular_velocity|
    StopDistance,         \* stop_distance
    RequireScan           \* require_scan

ASSUME GuardAssumption ==
    /\ CommandTimeout \in Nat
    /\ ScanTimeout \in Nat
    /\ MaxLinearVelocity \in Nat
    /\ MaxReverseVelocity \in Nat
    /\ MaxAngularVelocity \in Nat
    /\ StopDistance \in Nat
    /\ RequireScan \in BOOLEAN

Rules == {"", "command_timeout", "scan_timeout", "manual_obstacle_override",
          "front_obstacle"}

SafetyEvent == [severity : Severities, rule : Rules, active : BOOLEAN]

VARIABLES
    guardCommand,     \* selected_command_, with the tags of the message
    guardStamp,       \* command_stamp_
    frontBlocked,     \* minimum_front_range_ < stop_distance_
    scanStamp,        \* scan_stamp_
    override,         \* manual_obstacle_override_
    overrideStamp,    \* manual_override_stamp_
    activeRule,       \* active_rule_
    activeSeverity    \* active_severity_

guardVars == <<guardCommand, guardStamp, frontBlocked, scanStamp, override,
               overrideStamp, activeRule, activeSeverity>>

GuardInit ==
    /\ guardCommand = [twist |-> ZeroTwist, stamp |-> 0, src |-> "none", born |-> 0]
    /\ guardStamp = 0
    /\ frontBlocked = FALSE
    /\ scanStamp = 0
    /\ override = FALSE
    /\ overrideStamp = 0
    /\ activeRule = ""
    /\ activeSeverity = SEVERITY_INFO

(* Mutant: the command is stamped when it arrives. *)
on_selected_Restamped(m, t) ==
    /\ guardCommand' = m
    /\ guardStamp' = t
    /\ UNCHANGED <<frontBlocked, scanStamp, override, overrideStamp,
                   activeRule, activeSeverity>>

on_selected(m, t) ==
    /\ guardCommand' = m
    /\ guardStamp' = IF m.stamp = 0 THEN t ELSE m.stamp
    /\ UNCHANGED <<frontBlocked, scanStamp, override, overrideStamp,
                   activeRule, activeSeverity>>

(* A beam [range, front, valid] counts when it lies in the front cone and  *)
(* its range is finite and within the sensor's limits.                     *)
on_scan(beams, t) ==
    /\ frontBlocked' = \E b \in beams : b.front /\ b.valid /\ b.range < StopDistance
    /\ scanStamp' = t
    /\ UNCHANGED <<guardCommand, guardStamp, override, overrideStamp,
                   activeRule, activeSeverity>>

on_manual_override(data, t) ==
    /\ override' = data
    /\ overrideStamp' = t
    /\ UNCHANGED <<guardCommand, guardStamp, frontBlocked, scanStamp,
                   activeRule, activeSeverity>>

ScanFresh(t) == FreshAt(t, scanStamp, ScanTimeout)

OverrideActive(t) == override /\ FreshAt(t, overrideStamp, CommandTimeout)

Limited(twist) ==
    [x |-> Clamp(twist.x, -MaxReverseVelocity, MaxLinearVelocity),
     y |-> 0,
     z |-> Clamp(twist.z, -MaxAngularVelocity, MaxAngularVelocity)]

(* Mutant: the new rule is raised before the old one is cleared. *)
publish_event_RaiseFirst(severity, rule) ==
    IF activeRule = rule /\ activeSeverity = severity THEN << >>
    ELSE (IF rule = "" THEN << >>
          ELSE << [severity |-> severity, rule |-> rule, active |-> TRUE] >>)
         \o
         (IF activeRule = "" THEN << >>
          ELSE << [severity |-> activeSeverity, rule |-> activeRule, active |-> FALSE] >>)

(* publish_event: nothing when the active rule is unchanged; otherwise the *)
(* old rule is cleared and the new one raised, in that order.              *)
publish_event(severity, rule) ==
    IF activeRule = rule /\ activeSeverity = severity THEN << >>
    ELSE (IF activeRule = "" THEN << >>
          ELSE << [severity |-> activeSeverity, rule |-> activeRule, active |-> FALSE] >>)
         \o
         (IF rule = "" THEN << >>
          ELSE << [severity |-> severity, rule |-> rule, active |-> TRUE] >>)

Verdict(severity, rule, twist) == [severity |-> severity, rule |-> rule, twist |-> twist]

(* The early returns of publish_safe_command, in their order: the rule that *)
(* applies at time t and the twist published under it.                      *)
SafetyVerdict(t) ==
    LET limited == Limited(guardCommand.twist) IN
    IF ~FreshAt(t, guardStamp, CommandTimeout)
    THEN Verdict(SEVERITY_WARNING, "command_timeout", ZeroTwist)
    ELSE IF RequireScan /\ ~ScanFresh(t) /\ ~OverrideActive(t)
    THEN Verdict(SEVERITY_STOP, "scan_timeout", ZeroTwist)
    ELSE IF OverrideActive(t)
    THEN Verdict(SEVERITY_WARNING, "manual_obstacle_override", limited)
    ELSE IF Positive(limited.x) /\ ScanFresh(t) /\ frontBlocked
    THEN Verdict(SEVERITY_WARNING, "front_obstacle", ZeroTwist)
    ELSE Verdict(SEVERITY_INFO, "", limited)

(* publish_safe_command at time t: the active rule follows the verdict; the *)
(* events and the twist it publishes are read off by the composition.       *)
publish_safe_command(t) ==
    /\ activeRule' = SafetyVerdict(t).rule
    /\ activeSeverity' = SafetyVerdict(t).severity
    /\ UNCHANGED <<guardCommand, guardStamp, frontBlocked, scanStamp,
                   override, overrideStamp>>
=============================================================================
