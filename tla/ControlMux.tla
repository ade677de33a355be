----------------------------- MODULE ControlMux -----------------------------
(***************************************************************************)
(* vla_control_mux: picks at most one candidate command source by the mode *)
(* and the teleop lease it last received, and republishes its command with *)
(* a stamp of its own, or a zero command when no source qualifies.         *)
(*                                                                         *)
(* The selected message carries two tags the code does not have, for the   *)
(* properties only: src, the source it was taken from, and born, the stamp *)
(* of the candidate.                                                       *)
(***************************************************************************)
EXTENDS VehicleInterfaces

CONSTANT SourceTimeout      \* source_timeout, in ticks

ASSUME SourceTimeoutAssumption == SourceTimeout \in Nat

Source == {"nav", "vla", "mobile"}

NoSource == "none"

VARIABLES
    muxMode,          \* mode_
    muxLeaseActive,   \* teleop_lease_active_
    muxLeaseRemote,   \* teleop_lease_remote_
    candidate,        \* nav_command_, vla_command_, mobile_command_
    candidateStamp    \* nav_stamp_, vla_stamp_, mobile_stamp_

muxVars == <<muxMode, muxLeaseActive, muxLeaseRemote, candidate, candidateStamp>>

MuxTypeOK ==
    /\ muxMode \in Modes
    /\ muxLeaseActive \in BOOLEAN
    /\ muxLeaseRemote \in BOOLEAN
    /\ candidate \in [Source -> Twist]
    /\ candidateStamp \in [Source -> Nat]

MuxInit ==
    /\ muxMode = MODE_MANUAL
    /\ muxLeaseActive = FALSE
    /\ muxLeaseRemote = FALSE
    /\ candidate = [s \in Source |-> ZeroTwist]
    /\ candidateStamp = [s \in Source |-> 0]

on_system_state(mode) ==
    /\ muxMode' = mode
    /\ UNCHANGED <<muxLeaseActive, muxLeaseRemote, candidate, candidateStamp>>

(* A lease that is no longer active also wipes the stored mobile command. *)
on_control_lease(active, remote) ==
    /\ muxLeaseActive' = active
    /\ muxLeaseRemote' = remote
    /\ IF active
       THEN UNCHANGED <<candidate, candidateStamp>>
       ELSE /\ candidate' = [candidate EXCEPT !["mobile"] = ZeroTwist]
            /\ candidateStamp' = [candidateStamp EXCEPT !["mobile"] = 0]
    /\ UNCHANGED muxMode

(* A candidate command arrives.  Nav2 commands carry no stamp and are      *)
(* stamped on arrival; the other two keep the publisher's header stamp.    *)
on_candidate(src, twist, stamp) ==
    /\ candidate' = [candidate EXCEPT ![src] = twist]
    /\ candidateStamp' = [candidateStamp EXCEPT ![src] = stamp]
    /\ UNCHANGED <<muxMode, muxLeaseActive, muxLeaseRemote>>

(* Mutant: the VLA branch tests the mode by range. *)
Authorised_ModeRange(src) ==
    \/ src = "nav" /\ muxMode = MODE_NAV2
    \/ src = "vla" /\ muxMode >= MODE_VLA_ASSISTED
    \/ src = "mobile" /\ muxLeaseActive /\ muxMode = MODE_MOBILE_TELEOP

(* The mode and lease conditions of the three branches of publish_selected.*)
(* They exclude each other, so the order of the branches does not matter.  *)
Authorised(src) ==
    \/ src = "nav" /\ muxMode = MODE_NAV2
    \/ src = "vla" /\ muxMode \in {MODE_VLA_ASSISTED, MODE_VLA_AUTONOMOUS}
    \/ /\ src = "mobile"
       /\ muxLeaseActive
       /\ \/ muxMode = MODE_MOBILE_TELEOP /\ ~muxLeaseRemote
          \/ muxMode = MODE_REMOTE_TELEOP /\ muxLeaseRemote

(* Mutant: the freshness test is dropped. *)
Selectable_AnyAge(src, t) == Authorised(src) /\ candidateStamp[src] > 0

Selectable(src, t) ==
    Authorised(src) /\ FreshAt(t, candidateStamp[src], SourceTimeout)

Selected(twist, t, src, born) ==
    [twist |-> twist, stamp |-> t, src |-> src, born |-> born]

(* publish_selected at time t may publish m. *)
publish_selected(t, m) ==
    \/ \E s \in Source :
          /\ Selectable(s, t)
          /\ m = Selected(candidate[s], t, s, candidateStamp[s])
    \/ /\ \A s \in Source : ~Selectable(s, t)
       /\ m = Selected(ZeroTwist, t, NoSource, t)
=============================================================================
