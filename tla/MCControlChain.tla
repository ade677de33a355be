--------------------------- MODULE MCControlChain ---------------------------
(***************************************************************************)
(* Instances of ControlChain for TLC.  Slices keep the state space small:  *)
(* the motion slice varies who commands the vehicle and in which mode,     *)
(* with the obstacle inputs silent; the policy slice drives with one       *)
(* source and varies its readiness and the scans; the obstacle slice is    *)
(* for the operator's override.                                            *)
(***************************************************************************)
EXTENDS ControlChain

Axis(x, z) == [x |-> x, y |-> 0, z |-> z]

Beam(range, front, valid) == [range |-> range, front |-> front, valid |-> valid]

(* Motion slice: the navigation stack asks for more than the limits allow, *)
(* the operator for a reverse turn.                                        *)
MotionCandidates ==
    [s \in Source |-> CASE s = "nav" -> {Axis(2, 0)}
                        [] s = "vla" -> {}
                        [] OTHER -> {Axis(-1, 1)}]
MotionLeases == {<<TRUE, FALSE>>, <<FALSE, FALSE>>}
MotionModes == {MODE_NAV2, MODE_MOBILE_TELEOP}

(* Policy slice: the policy drives, and comes and goes. *)
PolicyCandidates ==
    [s \in Source |-> IF s = "vla" THEN {Axis(1, 0)} ELSE {}]
ClearScan == { {Beam(1, TRUE, TRUE)} }
PolicyModes == {MODE_VLA_AUTONOMOUS, MODE_FAULT + 1}
PolicyRestarts == {STATE_READY, STATE_DISCONNECTED}

(* Obstacle slice: one source, forward and reverse, with scans and the     *)
(* operator's obstacle override.                                           *)
ObstacleCandidates ==
    [s \in Source |-> IF s = "nav" THEN {Axis(1, 0)} ELSE {}]
ObstacleScans ==
    { {Beam(0, TRUE, TRUE)},
      {Beam(0, FALSE, TRUE), Beam(0, TRUE, FALSE), Beam(1, TRUE, TRUE)} }
ObstacleModes == {MODE_NAV2, MODE_MANUAL}

NaNCandidates ==
    [s \in Source |-> IF s = "nav" THEN {Axis(NaN, 0), Axis(1, 0)} ELSE {}]
=============================================================================
