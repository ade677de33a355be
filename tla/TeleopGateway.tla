--------------------------- MODULE TeleopGateway ---------------------------
(***************************************************************************)
(* vehicle_teleop_gateway: the control lease and the commands of its       *)
(* holder.                                                                 *)
(*                                                                         *)
(* The callbacks run on one executor thread (Main); every accepted goal    *)
(* runs execute() on a detached thread of its own.  One action is one      *)
(* critical section of mutex_, or one call to the outside between two of   *)
(* them, so everything that can happen between an unlock and the next lock *)
(* does.  Deadlines (lease_deadline_, command_deadline_) are abstracted to *)
(* whether they have passed.                                               *)
(***************************************************************************)
EXTENDS VehicleInterfaces, Sequences

CONSTANTS
    Controllers,         \* the controller ids
    RemoteControllers,   \* those whose goals have remote set
    NoController,        \* the empty controller id
    Goals,               \* goal handles, at most one use each
    Main                 \* the executor thread

ASSUME GatewayAssumption ==
    /\ RemoteControllers \subseteq Controllers
    /\ NoController \notin Controllers
    /\ Main \notin Goals

Threads == Goals \cup {Main}

VARIABLES
    lease,          \* lease_: [id, holder, active]; the id 0 is the empty one
    leaseExpired,   \* lease_deadline_ is unset or has passed
    leaseCounter,   \* lease_counter_
    pending,        \* pending_controller_id_
    lastSequence,   \* last_sequence_
    drive,          \* the unexpired deadman command: its [lease, by, seq], or NoDrive
    pc,             \* where each thread is
    goal,           \* the controller and the origin of each accepted goal
    copy,           \* the lease each thread copied in publish_lease
    output,         \* the command on_timer copied and has still to publish, or NoDrive
    reply,          \* what the mode future of each goal thread holds
    leaseTopic,     \* /vehicle/control_lease, transient local, depth 1
    modeQueue       \* requests on their way to /vehicle/request_mode

leaseVars == <<lease, leaseExpired, leaseCounter, pending, lastSequence, drive>>
threadVars == <<pc, goal, copy, output, reply>>
gatewayVars == <<leaseVars, threadVars, leaseTopic, modeQueue>>

NoLease == [id |-> 0, holder |-> NoController, active |-> FALSE]
NoDrive == [lease |-> 0, by |-> NoController, seq |-> 0]
NoGoal == [by |-> NoController, auto |-> FALSE]

Lease == [id : Nat, holder : Controllers \cup {NoController}, active : BOOLEAN]
Drive == [lease : Nat, by : Controllers \cup {NoController}, seq : Nat]

GatewayInit ==
    /\ lease = NoLease
    /\ leaseExpired = TRUE
    /\ leaseCounter = 0
    /\ pending = NoController
    /\ lastSequence = 0
    /\ drive = NoDrive
    /\ pc = [t \in Threads |-> "idle"]
    /\ goal = [g \in Goals |-> NoGoal]
    /\ copy = [t \in Threads |-> NoLease]
    /\ output = NoDrive
    /\ reply = [g \in Goals |-> "none"]
    /\ leaseTopic = NoLease
    /\ modeQueue = << >>

Goto(t, label) == pc' = [pc EXCEPT ![t] = label]

LeaseInForce == lease.active /\ ~leaseExpired

-----------------------------------------------------------------------------
(* The executor thread's callbacks. *)

GoalAccepted(c) ==
    /\ ~(LeaseInForce /\ lease.holder # c)
    /\ pending \in {NoController, c}

(* handle_goal, and handle_accepted when it accepts: goal g of controller c.*)
handle_goal(g, c, auto) ==
    /\ pc[Main] = "idle"
    /\ pc[g] = "idle"
    /\ IF GoalAccepted(c)
       THEN /\ pending' = c
            /\ goal' = [goal EXCEPT ![g] = [by |-> c, auto |-> auto]]
            /\ Goto(g, "grant")
       ELSE /\ Goto(g, "done")
            /\ UNCHANGED <<pending, goal>>
    /\ UNCHANGED <<lease, leaseExpired, leaseCounter, lastSequence, drive,
                   copy, output, reply, leaseTopic, modeQueue>>

CommandAccepted(cmd) ==
    /\ LeaseInForce
    /\ cmd.lease = lease.id
    /\ cmd.by = lease.holder
    /\ cmd.seq > lastSequence

(* on_command.  A command without deadman stores a zero command. *)
on_command(cmd) ==
    /\ pc[Main] = "idle"
    /\ IF CommandAccepted(cmd)
       THEN /\ lastSequence' = cmd.seq
            /\ drive' = IF cmd.deadman
                        THEN [lease |-> cmd.lease, by |-> cmd.by, seq |-> cmd.seq]
                        ELSE NoDrive
       ELSE UNCHANGED <<lastSequence, drive>>
    /\ UNCHANGED <<lease, leaseExpired, leaseCounter, pending, threadVars,
                   leaseTopic, modeQueue>>

(* on_release: the first critical section; the rest is revoke_lease. *)
on_release(id, c) ==
    /\ pc[Main] = "idle"
    /\ IF lease.active /\ lease.id = id /\ lease.holder = c
       THEN Goto(Main, "revoke")
       ELSE UNCHANGED pc
    /\ UNCHANGED <<leaseVars, goal, copy, output, reply, leaseTopic, modeQueue>>

(* on_timer copies a valid command under the lock, or finds the lease      *)
(* expired; with neither it publishes a zero command or nothing.           *)
on_timer ==
    /\ pc[Main] = "idle"
    /\ \/ drive # NoDrive /\ output' = drive /\ Goto(Main, "publish")
       \/ lease.active /\ leaseExpired /\ Goto(Main, "revoke") /\ UNCHANGED output
    /\ UNCHANGED <<leaseVars, goal, copy, reply, leaseTopic, modeQueue>>

(* Mutant: the copy is published over and over without a look at the lease.*)
PublishTwist_Repeats ==
    /\ pc[Main] = "publish"
    /\ UNCHANGED gatewayVars

(* ... and publishes the copy after the unlock, whatever the goal threads  *)
(* did to the lease meanwhile.                                             *)
PublishTwist ==
    /\ pc[Main] = "publish"
    /\ output' = NoDrive
    /\ Goto(Main, "idle")
    /\ UNCHANGED <<leaseVars, goal, copy, reply, leaseTopic, modeQueue>>

(* lease_deadline_ passes: from here on the stored command is not valid.   *)
LeaseDeadline ==
    /\ LeaseInForce
    /\ leaseExpired' = TRUE
    /\ drive' = NoDrive
    /\ UNCHANGED <<lease, leaseCounter, pending, lastSequence, threadVars,
                   leaseTopic, modeQueue>>

(* command_deadline_ passes. *)
CommandDeadline ==
    /\ drive # NoDrive
    /\ drive' = NoDrive
    /\ UNCHANGED <<lease, leaseExpired, leaseCounter, pending, lastSequence,
                   threadVars, leaseTopic, modeQueue>>

-----------------------------------------------------------------------------
(* execute, on the thread of goal g. *)

Renewal(c) == LeaseInForce /\ lease.holder = c

(* Mutant: a renewal starts the sequence numbers over. *)
Grant_ResetsSequence(g) ==
    /\ pc[g] = "grant"
    /\ IF Renewal(goal[g].by)
       THEN UNCHANGED <<lease, leaseCounter>>
       ELSE /\ leaseCounter' = leaseCounter + 1
            /\ lease' = [id |-> leaseCounter + 1, holder |-> goal[g].by, active |-> TRUE]
    /\ lastSequence' = 0
    /\ leaseExpired' = FALSE
    /\ pending' = NoController
    /\ drive' = NoDrive
    /\ Goto(g, "grant_copy")
    /\ UNCHANGED <<goal, copy, output, reply, leaseTopic, modeQueue>>

(* Mutant: the reservation of the goal is never cleared. *)
Grant_KeepsPending(g) ==
    /\ pc[g] = "grant"
    /\ IF Renewal(goal[g].by)
       THEN UNCHANGED <<lease, leaseCounter, lastSequence>>
       ELSE /\ leaseCounter' = leaseCounter + 1
            /\ lease' = [id |-> leaseCounter + 1, holder |-> goal[g].by, active |-> TRUE]
            /\ lastSequence' = 0
    /\ leaseExpired' = FALSE
    /\ drive' = NoDrive
    /\ Goto(g, "grant_copy")
    /\ UNCHANGED <<pending, goal, copy, output, reply, leaseTopic, modeQueue>>

(* The granting section: a renewal keeps the id and the sequence number.   *)
(* Who holds the lease now is not examined again.                          *)
Grant(g) ==
    /\ pc[g] = "grant"
    /\ IF Renewal(goal[g].by)
       THEN UNCHANGED <<lease, leaseCounter, lastSequence>>
       ELSE /\ leaseCounter' = leaseCounter + 1
            /\ lease' = [id |-> leaseCounter + 1, holder |-> goal[g].by, active |-> TRUE]
            /\ lastSequence' = 0
    /\ leaseExpired' = FALSE
    /\ pending' = NoController
    /\ drive' = NoDrive
    /\ Goto(g, "grant_copy")
    /\ UNCHANGED <<goal, copy, output, reply, leaseTopic, modeQueue>>

TeleopMode(c) ==
    IF c \in RemoteControllers THEN MODE_REMOTE_TELEOP ELSE MODE_MOBILE_TELEOP

(* request_mode: no service, or the request is sent and awaited. *)
SendModeRequest(g, serviceReady) ==
    /\ pc[g] = "request"
    /\ IF serviceReady
       THEN /\ modeQueue' = Append(modeQueue,
                   [mode |-> TeleopMode(goal[g].by), from |-> g, auto |-> goal[g].auto])
            /\ Goto(g, "await")
       ELSE Goto(g, "revoke") /\ UNCHANGED modeQueue
    /\ UNCHANGED <<leaseVars, goal, copy, output, reply, leaseTopic>>

(* The future is ready. *)
ModeAnswered(g) ==
    /\ pc[g] = "await"
    /\ reply[g] # "none"
    /\ Goto(g, IF reply[g] = "accepted" THEN "finish" ELSE "revoke")
    /\ reply' = [reply EXCEPT ![g] = "none"]
    /\ UNCHANGED <<leaseVars, goal, copy, output, leaseTopic, modeQueue>>

(* Mutant: the future is awaited without a timeout. *)
ModeTimedOut_Never(g) == FALSE /\ UNCHANGED gatewayVars

(* future.wait_for(2s) gives up; a later answer finds nobody. *)
ModeTimedOut(g) ==
    /\ pc[g] = "await"
    /\ reply[g] = "none"
    /\ Goto(g, "revoke")
    /\ UNCHANGED <<leaseVars, goal, copy, output, reply, leaseTopic, modeQueue>>

(* The last section: the result carries whatever lease_ is by now. *)
Finish(g) ==
    /\ pc[g] = "finish"
    /\ Goto(g, "done")
    /\ goal' = [goal EXCEPT ![g] = NoGoal]
    /\ UNCHANGED <<leaseVars, copy, output, reply, leaseTopic, modeQueue>>

-----------------------------------------------------------------------------
(* publish_lease and revoke_lease, on any thread t. *)

(* The thread is through with revoke_lease: a callback returns, a goal     *)
(* thread aborts its goal and ends.                                        *)
RevokeReturns(t) ==
    IF t = Main
    THEN Goto(t, "idle") /\ UNCHANGED goal
    ELSE Goto(t, "done") /\ goal' = [goal EXCEPT ![t] = NoGoal]

(* Mutant: the stored command survives the revocation. *)
Revoke_KeepsCommand(t) ==
    /\ pc[t] = "revoke"
    /\ IF lease.active
       THEN /\ lease' = [lease EXCEPT !.active = FALSE]
            /\ Goto(t, "revoke_copy")
            /\ UNCHANGED goal
       ELSE /\ RevokeReturns(t)
            /\ UNCHANGED lease
    /\ UNCHANGED <<leaseExpired, leaseCounter, pending, lastSequence, drive,
                   copy, output, reply, leaseTopic, modeQueue>>

(* The critical section of revoke_lease: whatever lease is active goes. *)
Revoke(t) ==
    /\ pc[t] = "revoke"
    /\ IF lease.active
       THEN /\ lease' = [lease EXCEPT !.active = FALSE]
            /\ drive' = NoDrive
            /\ Goto(t, "revoke_copy")
            /\ UNCHANGED goal
       ELSE /\ RevokeReturns(t)
            /\ UNCHANGED <<lease, drive>>
    /\ UNCHANGED <<leaseExpired, leaseCounter, pending, lastSequence,
                   copy, output, reply, leaseTopic, modeQueue>>

(* publish_lease copies under the lock ... *)
CopyLease(t) ==
    /\ pc[t] \in {"grant_copy", "revoke_copy"}
    /\ copy' = [copy EXCEPT ![t] = lease]
    /\ Goto(t, IF pc[t] = "grant_copy" THEN "grant_publish" ELSE "revoke_publish")
    /\ UNCHANGED <<leaseVars, goal, output, reply, leaseTopic, modeQueue>>

(* ... and publishes outside it. *)
PublishLease(t) ==
    /\ pc[t] \in {"grant_publish", "revoke_publish"}
    /\ leaseTopic' = copy[t]
    /\ copy' = [copy EXCEPT ![t] = NoLease]
    /\ Goto(t, IF pc[t] = "grant_publish" THEN "request" ELSE "revoke_request")
    /\ UNCHANGED <<leaseVars, goal, output, reply, modeQueue>>

(* request_mode_async: dropped when the service is not there. *)
RequestManual(t, serviceReady) ==
    /\ pc[t] = "revoke_request"
    /\ modeQueue' = IF serviceReady
                    THEN Append(modeQueue, [mode |-> MODE_MANUAL, from |-> Main, auto |-> TRUE])
                    ELSE modeQueue
    /\ RevokeReturns(t)
    /\ UNCHANGED <<leaseVars, copy, output, reply, leaseTopic>>
=============================================================================
