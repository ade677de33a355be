---------------------------- MODULE ControlChain ----------------------------
(***************************************************************************)
(* The real-time control chain: supervisor, control mux and safety guard,  *)
(* three single-threaded processes joined by topics.                       *)
(*                                                                         *)
(*   candidates, lease --> mux --> selectedTopic --> guard --> cmdVel      *)
(*                          ^                          |                   *)
(*                       supMode <-- supervisor <-- safetyEvents           *)
(*                                                                         *)
(* Every delivery is an action of its own and may be delayed for as long   *)
(* as it likes; topics are keep-last queues, so a slow reader loses the    *)
(* oldest samples.  The senders of candidates, leases, scans, overrides,   *)
(* policy states and mode requests are the environment; the sets of        *)
(* messages they may send are constants.                                   *)
(***************************************************************************)
EXTENDS Supervisor, ControlMux, SafetyGuard

CONSTANTS
    Candidates,     \* the twists each source may send: [Source -> SUBSET Twist]
    Leases,         \* the (active, remote) pairs the teleop gateway may publish
    Scans,          \* the laser scans, as sets of beams
    Overrides,      \* the values of the obstacle override topic
    ModeRequests,   \* the modes asked of /vehicle/request_mode, any uint8
    PolicyReports,  \* the policy states the policy gateway may publish
    QueueDepth,     \* depth of the keep-last topics
    MaxTime,        \* bound: the clock stops here
    MayExit         \* whether the supervisor process may die

ASSUME ChainAssumption ==
    /\ Candidates \in [Source -> SUBSET Twist]
    /\ Leases \subseteq BOOLEAN \X BOOLEAN
    /\ Overrides \subseteq BOOLEAN
    /\ ModeRequests \subseteq Nat
    /\ PolicyReports \subseteq PolicyStates
    /\ QueueDepth \in Nat \ {0}
    /\ MaxTime \in Nat
    /\ MayExit \in BOOLEAN

VARIABLES
    now,             \* the clock all nodes read, in ticks
    selectedTopic,   \* /control/cmd_vel_selected
    safetyEvents,    \* /vla/safety_event
    cmdVel,          \* /cmd_vel: the last sample, with the tags of its origin
    revokedAt        \* history: when the mux last lost each source's authority

chainVars == <<now, selectedTopic, safetyEvents, cmdVel, revokedAt>>
vars == <<supervisorVars, muxVars, guardVars, chainVars>>

Moving(twist) == twist # ZeroTwist

Stopped == [twist |-> ZeroTwist, src |-> NoSource, born |-> 0, at |-> 0]

(* What a keep-last topic of depth QueueDepth holds after a publication. *)
KeepLast(q) ==
    IF Len(q) <= QueueDepth THEN q
    ELSE SubSeq(q, Len(q) - QueueDepth + 1, Len(q))

Init ==
    /\ SupervisorInit
    /\ MuxInit
    /\ GuardInit
    /\ now = 1
    /\ selectedTopic = << >>
    /\ safetyEvents = << >>
    /\ cmdVel = Stopped
    /\ revokedAt = [s \in Source |-> 0]

Tick ==
    /\ now < MaxTime
    /\ now' = now + 1
    /\ UNCHANGED <<supervisorVars, muxVars, guardVars, selectedTopic,
                   safetyEvents, cmdVel, revokedAt>>

-----------------------------------------------------------------------------
(* The supervisor. *)

DeliverPolicyStatus ==
    /\ \E state \in PolicyReports : on_policy_status(state)
    /\ UNCHANGED <<muxVars, guardVars, chainVars>>

DeliverSafetyEvent ==
    /\ safetyEvents # << >>
    /\ on_safety_event(Head(safetyEvents))
    /\ safetyEvents' = Tail(safetyEvents)
    /\ UNCHANGED <<muxVars, guardVars, now, selectedTopic, cmdVel, revokedAt>>

RequestMode ==
    /\ \E mode \in ModeRequests : on_mode_request(mode)
    /\ UNCHANGED <<muxVars, guardVars, chainVars>>

RequestSafeStop ==
    /\ on_safe_stop
    /\ UNCHANGED <<muxVars, guardVars, chainVars>>

ExitSupervisor ==
    /\ MayExit
    /\ SupervisorExit
    /\ UNCHANGED <<muxVars, guardVars, chainVars>>

-----------------------------------------------------------------------------
(* The mux. *)

NoteRevocations ==
    revokedAt' = [s \in Source |->
                    IF Authorised(s) /\ ~Authorised(s)' THEN now ELSE revokedAt[s]]

DeliverSystemState ==
    /\ on_system_state(supMode)
    /\ NoteRevocations
    /\ UNCHANGED <<supervisorVars, guardVars, now, selectedTopic, safetyEvents, cmdVel>>

DeliverLease ==
    /\ \E l \in Leases : on_control_lease(l[1], l[2])
    /\ NoteRevocations
    /\ UNCHANGED <<supervisorVars, guardVars, now, selectedTopic, safetyEvents, cmdVel>>

(* A candidate sent at any time up to now arrives, in any order. *)
DeliverCandidate(src) ==
    /\ \E twist \in Candidates[src], stamp \in 1..now :
          /\ src = "nav" => stamp = now
          /\ on_candidate(src, twist, stamp)
    /\ UNCHANGED <<supervisorVars, guardVars, chainVars>>

PublishSelected ==
    /\ \E m \in {Selected(candidate[s], now, s, candidateStamp[s]) : s \in Source}
                 \cup {Selected(ZeroTwist, now, NoSource, now)} :
          /\ publish_selected(now, m)
          /\ selectedTopic' = KeepLast(Append(selectedTopic, m))
    /\ UNCHANGED <<supervisorVars, muxVars, guardVars, now, safetyEvents, cmdVel, revokedAt>>

-----------------------------------------------------------------------------
(* The guard. *)

DeliverSelected ==
    /\ selectedTopic # << >>
    /\ on_selected(Head(selectedTopic), now)
    /\ selectedTopic' = Tail(selectedTopic)
    /\ UNCHANGED <<supervisorVars, muxVars, now, safetyEvents, cmdVel, revokedAt>>

DeliverScan ==
    /\ \E beams \in Scans : on_scan(beams, now)
    /\ UNCHANGED <<supervisorVars, muxVars, chainVars>>

DeliverOverride ==
    /\ \E data \in Overrides : on_manual_override(data, now)
    /\ UNCHANGED <<supervisorVars, muxVars, chainVars>>

PublishSafeCommand ==
    /\ publish_safe_command(now)
    /\ LET v == SafetyVerdict(now) IN
          /\ safetyEvents' = KeepLast(safetyEvents \o publish_event(v.severity, v.rule))
          /\ cmdVel' = IF Moving(v.twist)
                       THEN [twist |-> v.twist, src |-> guardCommand.src,
                             born |-> guardCommand.born, at |-> now]
                       ELSE Stopped
    /\ UNCHANGED <<supervisorVars, muxVars, now, selectedTopic, revokedAt>>

-----------------------------------------------------------------------------
Next ==
    \/ Tick
    \/ DeliverPolicyStatus
    \/ DeliverSafetyEvent
    \/ RequestMode
    \/ RequestSafeStop
    \/ ExitSupervisor
    \/ DeliverSystemState
    \/ DeliverLease
    \/ \E src \in Source : DeliverCandidate(src)
    \/ PublishSelected
    \/ DeliverSelected
    \/ DeliverScan
    \/ DeliverOverride
    \/ PublishSafeCommand

Spec == Init /\ [][Next]_vars

(* The nodes' timers fire and the middleware delivers what is queued; the  *)
(* operators, the sensors and the clock owe the chain nothing.             *)
Fairness ==
    /\ WF_vars(DeliverSystemState)
    /\ WF_vars(PublishSelected)
    /\ WF_vars(DeliverSelected)
    /\ WF_vars(PublishSafeCommand)
    /\ WF_vars(DeliverSafetyEvent)

FairSpec == Spec /\ Fairness

-----------------------------------------------------------------------------
(* Properties. *)

SelectedMessage == [twist : Twist, stamp : Nat, src : Source \cup {NoSource}, born : Nat]

(* Type invariant of the whole chain: every node's fields and every topic  *)
(* hold values of the message types the nodes exchange.                    *)
TypeOK ==
    /\ SupervisorTypeOK
    /\ MuxTypeOK
    /\ guardCommand \in SelectedMessage
    /\ guardStamp \in Nat
    /\ frontBlocked \in BOOLEAN
    /\ scanStamp \in Nat
    /\ override \in BOOLEAN
    /\ overrideStamp \in Nat
    /\ activeRule \in Rules
    /\ activeSeverity \in Severities
    /\ now \in Nat
    /\ selectedTopic \in Seq(SelectedMessage)
    /\ safetyEvents \in Seq(SafetyEvent)
    /\ cmdVel \in [twist : Twist, src : Source \cup {NoSource}, born : Nat, at : Nat]
    /\ revokedAt \in [Source -> Nat]

(* End-to-end staleness: the vehicle is never told to move by a command    *)
(* its source stamped longer ago than the mux's and the guard's timeouts   *)
(* together allow, however long each topic delayed it.                     *)
NoStaleMotion ==
    Moving(cmdVel.twist) =>
        /\ cmdVel.src \in Source
        /\ cmdVel.born > 0
        /\ cmdVel.at - cmdVel.born <= SourceTimeout + CommandTimeout

(* Stop latency: once the mux has withdrawn a source's authority (mode     *)
(* change or lease loss), nothing that source asked for is executed more   *)
(* than one command timeout later, although selected commands of it may    *)
(* still be queued towards the guard.                                      *)
StopLatency ==
    \A s \in Source :
        (Moving(cmdVel.twist) /\ cmdVel.src = s /\ ~Authorised(s))
            => cmdVel.at <= revokedAt[s] + CommandTimeout

GuardStopping == activeRule # "" /\ activeSeverity >= SEVERITY_STOP

(* The supervisor's view of the guard converges: with no event in flight   *)
(* safety_stop_active_ says whether the guard is stopping the vehicle, and *)
(* otherwise the last event in flight does, even when the topic overflowed *)
(* and lost its oldest events.                                             *)
SafetyEventsConverge ==
    IF safetyEvents = << >>
    THEN safetyStopActive <=> GuardStopping
    ELSE IsStop(safetyEvents[Len(safetyEvents)]) <=> GuardStopping

(* While the supervisor knows of an active stop, its mode gives no software*)
(* source authority, whatever was requested before or since.               *)
SafetyStopHolds ==
    safetyStopActive => supMode \in {MODE_SAFE_STOP, MODE_MANUAL}

(* A safe stop reaches the wheels: if the mode stays SAFE_STOP, the guard  *)
(* eventually publishes nothing but zero commands, whatever the sources    *)
(* and the lease holder go on sending.                                     *)
SafeStopReachesWheels ==
    <>[](supMode = MODE_SAFE_STOP) => <>[]~Moving(cmdVel.twist)

-----------------------------------------------------------------------------
(* What the architecture document says of the chain and the code does not  *)
(* do; each is the property of a run that finds it violated.               *)

(* "Supervisor exits: the real-time control domain enters SafeStop or      *)
(* manual mode": the mux gives up every source's authority.                *)
SupervisorExitStops ==
    ~supUp ~> (\A s \in Source : ~Authorised(s))

(* "Container restart: control is not resumed automatically": a policy     *)
(* that becomes ready (again) does not find itself in a mode that lets it  *)
(* drive.                                                                  *)
PolicyRestartLosesControl ==
    [][policyReady' /\ ~policyReady => ~RequiresPolicy(supMode')]_vars

(* "Lidar safety zone triggered: overrides all software control sources":  *)
(* with an obstacle seen by a fresh scan, no autonomous source is let      *)
(* forward.                                                                *)
ObstacleStopsAutonomy ==
    [][(/\ cmdVel' # cmdVel
        /\ cmdVel'.src \in {"nav", "vla"}
        /\ Positive(cmdVel'.twist.x))
          => ~(ScanFresh(now) /\ frontBlocked)]_vars

(* The guard's rules include "NaN, Inf, dimension, range" checks: what it  *)
(* publishes is within the velocity limits.                                *)
WithinLimits ==
    /\ cmdVel.twist.x \in -MaxReverseVelocity..MaxLinearVelocity
    /\ cmdVel.twist.z \in -MaxAngularVelocity..MaxAngularVelocity
=============================================================================
