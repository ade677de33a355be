--------------------------- MODULE TeleopSession ---------------------------
(***************************************************************************)
(* A teleoperation session: the phone pages of several controllers, the    *)
(* HTTP API that relays them, the teleop gateway and the supervisor.       *)
(*                                                                         *)
(* A page counts its commands.  The lease it believes in is not kept: the  *)
(* API relays a command only when its lease is the one on the lease topic, *)
(* and a release may name any lease ever granted.  One controller may have *)
(* several goals under way: its id is kept in the browser's local storage, *)
(* shared by tabs, and a page retries after an HTTP timeout while the      *)
(* gateway still works on the first goal.  Commands travel on independent  *)
(* HTTP requests and arrive in any order or never.                         *)
(***************************************************************************)
EXTENDS Supervisor, TeleopGateway, FiniteSets

CONSTANTS
    MaxSequence,     \* bound: commands a page sends per counter reset
    MaxInFlight,     \* bound: commands under way
    Deadman,         \* the deadman values a page may send
    OtherModes,      \* modes requested by others than the gateway
    Stops,           \* safety events the guard may send
    MayRenew,        \* whether pages renew leases by themselves
    MayStop,         \* whether the emergency stop may be pressed
    MayExit          \* whether the supervisor process may die

ASSUME SessionAssumption ==
    /\ MaxSequence \in Nat
    /\ MaxInFlight \in Nat
    /\ Deadman \subseteq BOOLEAN
    /\ OtherModes \subseteq Nat
    /\ Stops \subseteq [active : BOOLEAN, severity : Severities]
    /\ MayRenew \in BOOLEAN
    /\ MayStop \in BOOLEAN
    /\ MayExit \in BOOLEAN

VARIABLES
    sequence,   \* state.sequence of each controller's page
    commands,   \* TeleopCommand messages under way
    lastObeyed, \* history: the last command stored as drive
    sent,       \* history: the last command published to the mux
    sentLate    \* history: it was no longer the stored one by then

twistVars == <<sent, sentLate>>
sessionVars == <<sequence, commands, lastObeyed, twistVars>>
vars == <<supervisorVars, gatewayVars, sessionVars>>

Init ==
    /\ SupervisorInit
    /\ GatewayInit
    /\ sequence = [c \in Controllers |-> 0]
    /\ commands = {}
    /\ lastObeyed = NoDrive
    /\ sent = NoDrive
    /\ sentLate = FALSE

Free(g) == pc[g] = "idle"

NextGoal == CHOOSE g \in Goals : Free(g)

-----------------------------------------------------------------------------
(* The pages. *)

(* acquireLease(false): the operator asks for the lease. *)
OperatorAcquires(c) ==
    /\ \E g \in Goals : Free(g)
    /\ handle_goal(NextGoal, c, FALSE)
    /\ UNCHANGED <<supervisorVars, sessionVars>>

(* acquireLease(true), from renderStatus: the status shows a lease of this *)
(* controller close to its end.                                            *)
PageRenews(c) ==
    /\ MayRenew
    /\ leaseTopic.active /\ leaseTopic.holder = c
    /\ \E g \in Goals : Free(g)
    /\ handle_goal(NextGoal, c, TRUE)
    /\ UNCHANGED <<supervisorVars, sessionVars>>

(* The result of goal g reaches the page, whose counter starts over, or    *)
(* comes after the HTTP request has timed out.                             *)
GoalSucceeds(g) ==
    /\ Finish(g)
    /\ sequence' \in {sequence, [sequence EXCEPT ![goal[g].by] = 0]}
    /\ UNCHANGED <<supervisorVars, commands, lastObeyed, twistVars>>

(* sendCommand, as far as the API relays it. *)
PageSends(c) ==
    /\ leaseTopic.active /\ leaseTopic.holder = c
    /\ sequence[c] < MaxSequence
    /\ Cardinality(commands) < MaxInFlight
    /\ sequence' = [sequence EXCEPT ![c] = @ + 1]
    /\ \E deadman \in Deadman :
          commands' = commands \cup {[lease |-> leaseTopic.id, by |-> c,
                                     seq |-> sequence[c] + 1, deadman |-> deadman]}
    /\ UNCHANGED <<supervisorVars, gatewayVars, lastObeyed, twistVars>>

(* A command arrives; it may have been copied on the way. *)
DeliverCommand ==
    /\ \E cmd \in commands :
          /\ on_command(cmd)
          /\ commands' \in {commands, commands \ {cmd}}
          /\ lastObeyed' = IF drive' \in {drive, NoDrive} THEN lastObeyed ELSE drive'
    /\ UNCHANGED <<supervisorVars, sequence, twistVars>>

LoseCommand ==
    /\ \E cmd \in commands : commands' = commands \ {cmd}
    /\ UNCHANGED <<supervisorVars, gatewayVars, sequence, lastObeyed, twistVars>>

(* releaseLease, with a lease the page was once given. *)
PageReleases(c) ==
    /\ \E id \in 1..leaseCounter : on_release(id, c)
    /\ UNCHANGED <<supervisorVars, sessionVars>>

-----------------------------------------------------------------------------
(* The supervisor. *)

(* It serves the gateway's mode requests in order and answers them. *)
ServeModeRequest ==
    /\ modeQueue # << >>
    /\ LET r == Head(modeQueue) IN
          /\ on_mode_request(r.mode)
          /\ reply' = IF r.from = Main \/ pc[r.from] # "await" THEN reply
                      ELSE [reply EXCEPT ![r.from] =
                              IF ModeRequestAccepted(r.mode) THEN "accepted" ELSE "rejected"]
    /\ modeQueue' = Tail(modeQueue)
    /\ UNCHANGED <<leaseVars, pc, goal, copy, output, leaseTopic, sessionVars>>

OtherModeRequest ==
    /\ \E mode \in OtherModes : on_mode_request(mode)
    /\ UNCHANGED <<gatewayVars, sessionVars>>

EmergencyStop ==
    /\ MayStop
    /\ on_safe_stop
    /\ UNCHANGED <<gatewayVars, sessionVars>>

SafetyEventArrives ==
    /\ \E event \in Stops : on_safety_event(event)
    /\ UNCHANGED <<gatewayVars, sessionVars>>

ExitSupervisor ==
    /\ MayExit
    /\ SupervisorExit
    /\ UNCHANGED <<gatewayVars, sessionVars>>

-----------------------------------------------------------------------------
(* The gateway's own steps. *)

GatewayStep(step) == step /\ UNCHANGED <<supervisorVars, sessionVars>>

GoalThread(g) ==
    \/ GatewayStep(Grant(g))
    \/ GatewayStep(SendModeRequest(g, supUp))
    \/ GatewayStep(ModeAnswered(g))
    \/ GatewayStep(ModeTimedOut(g))
    \/ GoalSucceeds(g)

LeaseThread(t) ==
    \/ GatewayStep(Revoke(t))
    \/ GatewayStep(CopyLease(t))
    \/ GatewayStep(PublishLease(t))
    \/ GatewayStep(RequestManual(t, supUp))

SendTwist ==
    /\ PublishTwist
    /\ sent' = output
    /\ sentLate' = (output # drive)
    /\ UNCHANGED <<supervisorVars, sequence, commands, lastObeyed>>

Timers ==
    \/ GatewayStep(on_timer)
    \/ GatewayStep(LeaseDeadline)
    \/ GatewayStep(CommandDeadline)
    \/ SendTwist

Next ==
    \/ \E c \in Controllers :
          \/ OperatorAcquires(c)
          \/ PageRenews(c)
          \/ PageSends(c)
          \/ PageReleases(c)
    \/ DeliverCommand
    \/ LoseCommand
    \/ ServeModeRequest
    \/ OtherModeRequest
    \/ EmergencyStop
    \/ SafetyEventArrives
    \/ ExitSupervisor
    \/ \E g \in Goals : GoalThread(g)
    \/ \E t \in Threads : LeaseThread(t)
    \/ Timers

Spec == Init /\ [][Next]_vars

(* Threads that can run do run, the lease timer fires and a running        *)
(* supervisor serves its queue.                                            *)
Fairness ==
    /\ \A g \in Goals : WF_vars(GoalThread(g))
    /\ \A t \in Threads : WF_vars(LeaseThread(t))
    /\ WF_vars(GatewayStep(on_timer) \/ SendTwist)
    /\ WF_vars(ServeModeRequest)

FairSpec == Spec /\ Fairness

-----------------------------------------------------------------------------
(* Properties. *)

Labels == {"idle", "publish", "grant", "grant_copy", "grant_publish", "request", "await", "finish",
           "revoke", "revoke_copy", "revoke_publish", "revoke_request", "done"}

(* Type invariant of the gateway, its threads and the pages. *)
TypeOK ==
    /\ SupervisorTypeOK
    /\ lease \in Lease
    /\ leaseExpired \in BOOLEAN
    /\ leaseCounter \in Nat
    /\ pending \in Controllers \cup {NoController}
    /\ lastSequence \in Nat
    /\ drive \in Drive /\ output \in Drive
    /\ pc \in [Threads -> Labels]
    /\ goal \in [Goals -> [by : Controllers \cup {NoController}, auto : BOOLEAN]]
    /\ copy \in [Threads -> Lease]
    /\ reply \in [Goals -> {"none", "accepted", "rejected"}]
    /\ leaseTopic \in Lease
    /\ modeQueue \in Seq([mode : Modes, from : Threads, auto : BOOLEAN])
    /\ sequence \in [Controllers -> Nat]
    /\ lastObeyed \in Drive /\ sent \in Drive /\ sentLate \in BOOLEAN
    /\ commands \subseteq [lease : Nat, by : Controllers, seq : Nat, deadman : BOOLEAN]

(* The command the gateway would repeat to the mux is always one of the    *)
(* holder of the lease in force, given under that very lease: no grant,    *)
(* renewal, release, expiry or failed mode request leaves another's behind.*)
HolderDrives ==
    drive # NoDrive =>
        /\ LeaseInForce
        /\ drive.lease = lease.id
        /\ drive.by = lease.holder
        /\ drive.seq = lastSequence

(* Under one lease a command is obeyed at most once and never after a      *)
(* later one, however the requests were reordered or copied and whatever   *)
(* renewals came between.                                                  *)
NoReplay ==
    [][drive' \notin {drive, NoDrive} =>
          \/ drive'.lease > lastObeyed.lease
          \/ drive'.lease = lastObeyed.lease /\ drive'.seq > lastObeyed.seq]_vars

(* The commands c and d in the order they were obeyed. *)
NotAfter(c, d) ==
    \/ c = d
    \/ c.lease < d.lease
    \/ c.lease = d.lease /\ c.seq < d.seq

(* The gateway publishes after the unlock, so a command may still reach    *)
(* the mux after a revocation, another's grant or a newer command has      *)
(* dropped it: but once, and never after one that was obeyed later.        *)
LastTwist ==
    output # NoDrive => NotAfter(sent, output) /\ ~(sentLate /\ sent = output)

(* Every accepted goal ends in a result, even when the supervisor never    *)
(* answers or dies.                                                        *)
GoalsResolve ==
    \A g \in Goals : pc[g] = "grant" ~> pc[g] = "done"

(* The reservation a goal makes is not left behind: no other controller is *)
(* shut out for ever by a goal that is over.                               *)
ReservationEnds ==
    (pending # NoController) ~> (pending = NoController)

-----------------------------------------------------------------------------
(* What the documents say of a session and the code does not do; each is   *)
(* the property of a run that finds it violated.                           *)

Quiet ==
    /\ pc[Main] = "idle"
    /\ \A g \in Goals : pc[g] \in {"idle", "done"}
    /\ modeQueue = << >>

(* "Only one controller holds the teleop lease at a time": a lease in      *)
(* force is not handed to another controller.                              *)
LeaseNotStolen ==
    [][LeaseInForce /\ lease'.active => lease'.holder = lease.holder]_vars

(* "After release or expiry the supervisor returns to MANUAL": with no     *)
(* lease and nothing under way the mode is no teleop mode.                 *)
TeleopModeEnds ==
    Quiet /\ ~lease.active => supMode \notin {MODE_MOBILE_TELEOP, MODE_REMOTE_TELEOP}

(* "/vehicle/control_lease: the current lease state": with nothing under   *)
(* way its last sample is the gateway's lease.                             *)
LeaseTopicConverges ==
    Quiet => leaseTopic = lease

(* "The UI must not move by itself from a lower-privilege mode to a higher *)
(* one": a safe stop is left for teleoperation only by an operator's goal. *)
PageLeavesStopAlone ==
    [][supMode = MODE_SAFE_STOP /\ supMode' \in {MODE_MOBILE_TELEOP, MODE_REMOTE_TELEOP}
          => ~Head(modeQueue).auto]_vars

(* "Teleop command accepted": the newest command of the holder's page,     *)
(* once it reaches the gateway whose lease it names, is not dropped as old.*)
HolderObeyed ==
    \A cmd \in commands :
        (/\ LeaseInForce
         /\ cmd.lease = lease.id
         /\ cmd.by = lease.holder
         /\ cmd.seq = sequence[cmd.by]) => cmd.seq >= lastSequence
=============================================================================
