------------------------ MODULE TeleopSessionProofs ------------------------
(***************************************************************************)
(* Proofs about TeleopSession, for any set of controllers and goals and    *)
(* any interleaving of the gateway's threads: which command is stored, and *)
(* which is still published.                                               *)
(***************************************************************************)
EXTENDS TeleopSession, TLAPS

(* The part of the state the properties rest on, and its types. *)
CommandTypes ==
    /\ lease \in Lease
    /\ leaseCounter \in Nat
    /\ lastSequence \in Nat
    /\ drive \in Drive
    /\ lastObeyed \in Drive
    /\ output \in Drive
    /\ sent \in Drive
    /\ commands \subseteq [lease : Nat, by : Controllers, seq : Nat, deadman : BOOLEAN]
    /\ sequence \in [Controllers -> Nat]
    /\ goal \in [Goals -> [by : Controllers \cup {NoController}, auto : BOOLEAN]]
    /\ leaseTopic \in Lease
    /\ copy \in [Threads -> Lease]

(* Lease ids are handed out in order, and the sequence numbers obeyed under*)
(* the current one are below the gateway's counter.                        *)
SequenceInv ==
    /\ lease.id = leaseCounter
    /\ lastObeyed.lease <= lease.id
    /\ lastObeyed.lease = lease.id => lastObeyed.seq <= lastSequence

CommandInv == CommandTypes /\ SequenceInv /\ HolderDrives

(* What a step may do to the variables of CommandInv. *)
GrantStep ==
    /\ \/ UNCHANGED <<lease, leaseCounter, lastSequence>>
       \/ \E c \in Controllers \cup {NoController} :
             /\ leaseCounter' = leaseCounter + 1
             /\ lease' = [id |-> leaseCounter + 1, holder |-> c, active |-> TRUE]
             /\ lastSequence' = 0
    /\ drive' = NoDrive
    /\ lastObeyed' = lastObeyed

AcceptStep ==
    /\ \E cmd \in commands :
          /\ CommandAccepted(cmd)
          /\ lastSequence' = cmd.seq
          /\ drive' \in {NoDrive, [lease |-> cmd.lease, by |-> cmd.by, seq |-> cmd.seq]}
    /\ lastObeyed' = IF drive' \in {drive, NoDrive} THEN lastObeyed ELSE drive'
    /\ UNCHANGED <<lease, leaseExpired, leaseCounter>>

DropStep ==
    /\ drive' \in {drive, NoDrive}
    /\ drive' # NoDrive => UNCHANGED <<lease, leaseExpired>>
    /\ lease' \in {lease, [lease EXCEPT !.active = FALSE]}
    /\ UNCHANGED <<leaseCounter, lastSequence, lastObeyed>>

(* What granting does to the lease: it stays, or the next one is made out. *)
LEMMA GrantEffect ==
    ASSUME NEW g \in Goals, Grant(g)
    PROVE  \/ UNCHANGED <<lease, leaseCounter, lastSequence>>
           \/ /\ leaseCounter' = leaseCounter + 1
              /\ lease' = [id |-> leaseCounter + 1, holder |-> goal[g].by, active |-> TRUE]
              /\ lastSequence' = 0
  BY Zenon DEF Grant

LEMMA InitCommand == Init => CommandInv
<1> SUFFICES ASSUME Init PROVE CommandInv
  OBVIOUS
<1> USE DEF Init, GatewayInit
<1>1. NoLease \in Lease /\ NoDrive \in Drive
  BY DEF NoLease, NoDrive, Lease, Drive
<1>2. NoGoal \in [by : Controllers \cup {NoController}, auto : BOOLEAN]
  BY DEF NoGoal
<1>3. CommandTypes
  BY <1>1, <1>2 DEF CommandTypes
<1>4. SequenceInv
  BY DEF SequenceInv, NoLease, NoDrive
<1>5. HolderDrives
  BY DEF HolderDrives
<1> QED
  BY <1>3, <1>4, <1>5 DEF CommandInv

LEMMA NextTypes == CommandTypes /\ [Next]_vars => CommandTypes'
<1> SUFFICES ASSUME CommandTypes, [Next]_vars PROVE CommandTypes'
  OBVIOUS
<1>1. NoLease \in Lease /\ NoDrive \in Drive
      /\ NoGoal \in [by : Controllers \cup {NoController}, auto : BOOLEAN]
  BY DEF NoLease, NoDrive, NoGoal, Lease, Drive
<1> USE DEF leaseVars, threadVars, gatewayVars, twistVars, sessionVars, CommandTypes
<1>2. CASE UNCHANGED vars
  BY <1>2 DEF vars
<1>3. ASSUME NEW c \in Controllers, NEW g \in Goals, NEW auto \in BOOLEAN,
             handle_goal(g, c, auto), UNCHANGED sessionVars
      PROVE  CommandTypes'
  BY <1>3 DEF handle_goal
<1>4. ASSUME NEW c \in Controllers, OperatorAcquires(c) \/ PageRenews(c)
      PROVE  CommandTypes'
  <2>1. NextGoal \in Goals
    BY <1>4 DEF NextGoal, OperatorAcquires, PageRenews
  <2> QED
    BY <1>3, <1>4, <2>1 DEF OperatorAcquires, PageRenews
<1>5. ASSUME NEW c \in Controllers, PageSends(c)
      PROVE  CommandTypes'
  <2>1. PICK deadman \in Deadman :
            commands' = commands \cup {[lease |-> leaseTopic.id, by |-> c,
                                        seq |-> sequence[c] + 1, deadman |-> deadman]}
    BY <1>5 DEF PageSends
  <2>2. deadman \in BOOLEAN /\ leaseTopic.id \in Nat /\ sequence[c] + 1 \in Nat
    BY SessionAssumption DEF Lease
  <2>3. sequence' \in [Controllers -> Nat]
    BY <1>5, <2>2 DEF PageSends
  <2> QED
    BY <1>5, <2>1, <2>2, <2>3 DEF PageSends
<1>6. ASSUME NEW c \in Controllers, PageReleases(c)
      PROVE  CommandTypes'
  BY <1>6 DEF PageReleases, on_release
<1>7. CASE DeliverCommand
  <2>1. PICK cmd \in commands :
            /\ on_command(cmd)
            /\ commands' \in {commands, commands \ {cmd}}
            /\ lastObeyed' = IF drive' \in {drive, NoDrive} THEN lastObeyed ELSE drive'
    BY <1>7 DEF DeliverCommand
  <2>2. drive' \in Drive /\ lastSequence' \in Nat
    BY <1>1, <2>1 DEF on_command, Drive
  <2> QED
    BY <1>7, <2>1, <2>2 DEF DeliverCommand, on_command
<1>8. CASE LoseCommand
  BY <1>8 DEF LoseCommand
<1>9. CASE ServeModeRequest \/ OtherModeRequest \/ EmergencyStop \/ SafetyEventArrives
           \/ ExitSupervisor
  BY <1>9 DEF ServeModeRequest, OtherModeRequest, EmergencyStop, SafetyEventArrives,
              ExitSupervisor
<1>10. ASSUME NEW g \in Goals, GoalThread(g)
       PROVE  CommandTypes'
  <2>1. CASE GatewayStep(Grant(g))
    <3>1. lease' \in Lease /\ leaseCounter' \in Nat /\ lastSequence' \in Nat
      <4>1. goal[g].by \in Controllers \cup {NoController} /\ leaseCounter + 1 \in Nat
        OBVIOUS
      <4>2. [id |-> leaseCounter + 1, holder |-> goal[g].by, active |-> TRUE] \in Lease
        BY <4>1 DEF Lease
      <4>3. CASE UNCHANGED <<lease, leaseCounter, lastSequence>>
        BY <4>3
      <4>4. CASE /\ leaseCounter' = leaseCounter + 1
                 /\ lease' = [id |-> leaseCounter + 1, holder |-> goal[g].by, active |-> TRUE]
                 /\ lastSequence' = 0
        BY <4>1, <4>2, <4>4
      <4> QED
        BY <2>1, <4>3, <4>4, GrantEffect, Zenon DEF GatewayStep
    <3> QED
      BY <1>1, <2>1, <3>1 DEF GatewayStep, Grant
  <2>2. CASE GatewayStep(SendModeRequest(g, supUp)) \/ GatewayStep(ModeAnswered(g))
             \/ GatewayStep(ModeTimedOut(g))
    BY <2>2 DEF GatewayStep, SendModeRequest, ModeAnswered, ModeTimedOut
  <2>3. CASE GoalSucceeds(g)
    <3>1. sequence' \in [Controllers -> Nat]
      BY <2>3 DEF GoalSucceeds
    <3> QED
      BY <1>1, <2>3, <3>1 DEF GoalSucceeds, Finish
  <2> QED
    BY <1>10, <2>1, <2>2, <2>3 DEF GoalThread
<1>11. ASSUME NEW t \in Threads, LeaseThread(t)
       PROVE  CommandTypes'
  <2>1. ASSUME RevokeReturns(t)
        PROVE  goal' \in [Goals -> [by : Controllers \cup {NoController}, auto : BOOLEAN]]
    BY <1>1, <2>1 DEF RevokeReturns
  <2>2. CASE GatewayStep(Revoke(t))
    <3>1. lease' \in Lease
      BY <2>2 DEF GatewayStep, Revoke, Lease
    <3> QED
      BY <1>1, <2>1, <2>2, <3>1 DEF GatewayStep, Revoke
  <2>3. CASE GatewayStep(CopyLease(t)) \/ GatewayStep(PublishLease(t))
    BY <1>1, <2>3 DEF GatewayStep, CopyLease, PublishLease
  <2>4. CASE GatewayStep(RequestManual(t, supUp))
    BY <2>1, <2>4 DEF GatewayStep, RequestManual
  <2> QED
    BY <1>11, <2>2, <2>3, <2>4 DEF LeaseThread
<1>12. CASE Timers
  <2>1. CASE GatewayStep(on_timer)
    BY <2>1 DEF GatewayStep, on_timer
  <2>2. CASE GatewayStep(LeaseDeadline) \/ GatewayStep(CommandDeadline)
    BY <1>1, <2>2 DEF GatewayStep, LeaseDeadline, CommandDeadline
  <2>3. CASE SendTwist
    BY <1>1, <2>3 DEF SendTwist, PublishTwist
  <2> QED
    BY <1>12, <2>1, <2>2, <2>3 DEF Timers
<1> QED
  BY <1>2, <1>4, <1>5, <1>6, <1>7, <1>8, <1>9, <1>10, <1>11, <1>12 DEF Next

(* Every step grants a lease, accepts a command, or only takes away. *)
LEMMA StepKinds == CommandTypes /\ [Next]_vars => GrantStep \/ AcceptStep \/ DropStep
<1> SUFFICES ASSUME CommandTypes, [Next]_vars
             PROVE  GrantStep \/ AcceptStep \/ DropStep
  OBVIOUS
<1> USE DEF leaseVars, threadVars, gatewayVars, sessionVars
<1>1. ASSUME UNCHANGED <<lease, leaseExpired, leaseCounter, lastSequence, drive, lastObeyed>>
      PROVE  DropStep
  BY <1>1 DEF DropStep
<1>2. CASE UNCHANGED vars
  BY <1>1, <1>2 DEF vars
<1>3. ASSUME NEW c \in Controllers,
             OperatorAcquires(c) \/ PageRenews(c) \/ PageSends(c) \/ PageReleases(c)
      PROVE  DropStep
  BY <1>1, <1>3 DEF OperatorAcquires, PageRenews, PageSends, PageReleases, handle_goal, on_release
<1>4. CASE DeliverCommand
  <2>1. PICK cmd \in commands :
            /\ on_command(cmd)
            /\ lastObeyed' = IF drive' \in {drive, NoDrive} THEN lastObeyed ELSE drive'
    BY <1>4 DEF DeliverCommand
  <2>2. CASE CommandAccepted(cmd)
    BY <2>1, <2>2 DEF on_command, AcceptStep
  <2>3. CASE ~CommandAccepted(cmd)
    BY <1>1, <2>1, <2>3 DEF on_command
  <2> QED
    BY <2>2, <2>3
<1>5. CASE LoseCommand \/ ServeModeRequest \/ OtherModeRequest \/ EmergencyStop
           \/ SafetyEventArrives \/ ExitSupervisor
  BY <1>1, <1>5 DEF LoseCommand, ServeModeRequest, OtherModeRequest, EmergencyStop,
                    SafetyEventArrives, ExitSupervisor
<1>6. ASSUME NEW g \in Goals, GoalThread(g)
      PROVE  GrantStep \/ DropStep
  <2>1. CASE GatewayStep(Grant(g))
    <3>1. goal[g].by \in Controllers \cup {NoController}
      BY DEF CommandTypes
    <3>2. drive' = NoDrive /\ lastObeyed' = lastObeyed
      BY <2>1 DEF GatewayStep, Grant
    <3> QED
      BY <2>1, <3>1, <3>2, GrantEffect, Zenon DEF GatewayStep, GrantStep
  <2>2. CASE GatewayStep(SendModeRequest(g, supUp)) \/ GatewayStep(ModeAnswered(g))
             \/ GatewayStep(ModeTimedOut(g)) \/ GoalSucceeds(g)
    BY <1>1, <2>2 DEF GatewayStep, SendModeRequest, ModeAnswered, ModeTimedOut,
                      GoalSucceeds, Finish
  <2> QED
    BY <1>6, <2>1, <2>2 DEF GoalThread
<1>7. ASSUME NEW t \in Threads, LeaseThread(t)
      PROVE  DropStep
  <2>1. CASE GatewayStep(Revoke(t))
    <3>1. CASE lease.active
      BY <2>1, <3>1 DEF GatewayStep, Revoke, DropStep, CommandTypes, Lease
    <3>2. CASE ~lease.active
      BY <1>1, <2>1, <3>2 DEF GatewayStep, Revoke
    <3> QED
      BY <3>1, <3>2
  <2>2. CASE GatewayStep(CopyLease(t)) \/ GatewayStep(PublishLease(t))
             \/ GatewayStep(RequestManual(t, supUp))
    BY <1>1, <2>2 DEF GatewayStep, CopyLease, PublishLease, RequestManual
  <2> QED
    BY <1>7, <2>1, <2>2 DEF LeaseThread
<1>8. CASE Timers
  <2>1. CASE GatewayStep(on_timer) \/ SendTwist
    BY <1>1, <2>1 DEF GatewayStep, on_timer, SendTwist, PublishTwist
  <2>2. CASE GatewayStep(CommandDeadline)
    BY <2>2 DEF GatewayStep, CommandDeadline, DropStep
  <2>3. CASE GatewayStep(LeaseDeadline)
    BY <2>3 DEF GatewayStep, LeaseDeadline, DropStep
  <2> QED
    BY <1>8, <2>1, <2>2, <2>3 DEF Timers
<1> QED
  BY <1>2, <1>3, <1>4, <1>5, <1>6, <1>7, <1>8 DEF Next

LEMMA NextCommand == CommandInv /\ [Next]_vars => CommandInv'
<1> SUFFICES ASSUME CommandInv, [Next]_vars PROVE CommandInv'
  OBVIOUS
<1>1. CommandTypes /\ CommandTypes' /\ SequenceInv /\ HolderDrives
  BY NextTypes DEF CommandInv
<1>2. CASE GrantStep
  <2>1. HolderDrives'
    BY <1>2 DEF GrantStep, HolderDrives
  <2>2. SequenceInv'
    <3>1. CASE UNCHANGED <<lease, leaseCounter, lastSequence>>
      BY <1>1, <1>2, <3>1 DEF GrantStep, SequenceInv
    <3>2. CASE ~UNCHANGED <<lease, leaseCounter, lastSequence>>
      <4>1. lease'.id = leaseCounter + 1 /\ leaseCounter' = leaseCounter + 1
            /\ lastObeyed' = lastObeyed
        BY <1>2, <3>2 DEF GrantStep
      <4>2. lastObeyed.lease \in Nat /\ leaseCounter \in Nat /\ lastObeyed.lease <= leaseCounter
        BY <1>1 DEF CommandTypes, Drive, SequenceInv
      <4> QED
        BY <4>1, <4>2 DEF SequenceInv
    <3> QED
      BY <3>1, <3>2
  <2> QED
    BY <1>1, <2>1, <2>2 DEF CommandInv
<1>3. CASE AcceptStep
  <2>1. PICK cmd \in commands :
            /\ CommandAccepted(cmd)
            /\ lastSequence' = cmd.seq
            /\ drive' \in {NoDrive, [lease |-> cmd.lease, by |-> cmd.by, seq |-> cmd.seq]}
    BY <1>3 DEF AcceptStep
  <2>2. UNCHANGED <<lease, leaseExpired, leaseCounter>>
    BY <1>3 DEF AcceptStep
  <2>3. HolderDrives'
    BY <2>1, <2>2 DEF HolderDrives, CommandAccepted, LeaseInForce
  <2>4. SequenceInv'
    <3>1. cmd.seq \in Nat /\ lastSequence \in Nat /\ cmd.seq > lastSequence
          /\ cmd.lease = lease.id /\ lease.id \in Nat
          /\ lastObeyed.seq \in Nat
      BY <1>1, <2>1 DEF CommandTypes, CommandAccepted, Lease, Drive
    <3>2. lastObeyed' \in {lastObeyed, [lease |-> cmd.lease, by |-> cmd.by, seq |-> cmd.seq]}
      BY <1>3, <2>1 DEF AcceptStep
    <3>3. CASE lastObeyed' = lastObeyed
      BY <1>1, <2>1, <2>2, <3>1, <3>3 DEF SequenceInv
    <3>4. CASE lastObeyed' = [lease |-> cmd.lease, by |-> cmd.by, seq |-> cmd.seq]
      <4>1. lastObeyed'.lease = lease.id /\ lastObeyed'.seq = cmd.seq
        BY <3>1, <3>4
      <4> QED
        BY <1>1, <2>1, <2>2, <3>1, <4>1 DEF SequenceInv
    <3> QED
      BY <3>2, <3>3, <3>4
  <2> QED
    BY <1>1, <2>3, <2>4 DEF CommandInv
<1>4. CASE DropStep
  <2>1. lease'.id = lease.id
    BY <1>1, <1>4 DEF DropStep, CommandTypes, Lease
  <2>2. HolderDrives'
    BY <1>1, <1>4 DEF DropStep, HolderDrives, LeaseInForce
  <2>3. SequenceInv'
    BY <1>1, <1>4, <2>1 DEF DropStep, SequenceInv
  <2> QED
    BY <1>1, <2>2, <2>3 DEF CommandInv
<1> QED
  BY <1>1, <1>2, <1>3, <1>4, StepKinds

LEMMA CommandInvariant == Spec => []CommandInv
  BY InitCommand, NextCommand, PTL DEF Spec

(* For any number of controllers, goals and threads, the command the       *)
(* gateway repeats is the holder's, under the lease in force.              *)
THEOREM SessionHolderDrives == Spec => []HolderDrives
<1>1. CommandInv => HolderDrives
  BY DEF CommandInv
<1> QED
  BY <1>1, CommandInvariant, PTL

(* A command that is obeyed anew comes after every one obeyed before.      *)
LEMMA AcceptAdvances ==
    ASSUME CommandInv, [Next]_vars, drive' \notin {drive, NoDrive}
    PROVE  /\ \/ drive'.lease > lastObeyed.lease
              \/ drive'.lease = lastObeyed.lease /\ drive'.seq > lastObeyed.seq
           /\ lastObeyed' = drive'
<1>1. AcceptStep
  BY StepKinds DEF CommandInv, GrantStep, DropStep
<1>2. PICK cmd \in commands :
          /\ CommandAccepted(cmd)
          /\ drive' = [lease |-> cmd.lease, by |-> cmd.by, seq |-> cmd.seq]
  BY <1>1 DEF AcceptStep
<1>3. drive'.lease = lease.id /\ drive'.seq = cmd.seq /\ cmd.seq > lastSequence
  BY <1>2 DEF CommandAccepted
<1>4. /\ lease.id \in Nat /\ lastObeyed.lease \in Nat /\ lastObeyed.seq \in Nat
      /\ cmd.seq \in Nat /\ lastSequence \in Nat
      /\ lastObeyed.lease <= lease.id
      /\ lastObeyed.lease = lease.id => lastObeyed.seq <= lastSequence
  BY DEF CommandInv, CommandTypes, SequenceInv, Lease, Drive
<1>5. lastObeyed' = drive'
  BY <1>1 DEF AcceptStep
<1> QED
  BY <1>3, <1>4, <1>5

(* No reordering, copying or renewal makes the gateway obey a command      *)
(* twice, or after a later one.                                            *)
THEOREM SessionNoReplay == Spec => NoReplay
<1>1. CommandInv /\ [Next]_vars =>
        [drive' \notin {drive, NoDrive} =>
            \/ drive'.lease > lastObeyed.lease
            \/ drive'.lease = lastObeyed.lease /\ drive'.seq > lastObeyed.seq]_vars
  BY AcceptAdvances
<1> QED
  BY <1>1, CommandInvariant, PTL DEF Spec, NoReplay

-----------------------------------------------------------------------------
(* What is still published.                                                *)

(* The inductive invariant behind LastTwist: the stored command is the     *)
(* last one obeyed, what on_timer holds is not after it and not before     *)
(* what was sent, and a command sent late is stored no more.               *)
TwistInv ==
    /\ drive # NoDrive => drive = lastObeyed
    /\ output # NoDrive => NotAfter(output, lastObeyed)
    /\ NotAfter(NoDrive, lastObeyed)
    /\ NotAfter(sent, lastObeyed)
    /\ sentLate /\ drive # NoDrive => sent # drive
    /\ LastTwist

(* The order of commands is one.                                           *)
LEMMA NotAfterTransitive ==
    ASSUME NEW c \in Drive, NEW d \in Drive, NEW e \in Drive, NotAfter(c, d), NotAfter(d, e)
    PROVE  NotAfter(c, e)
BY DEF NotAfter, Drive

(* What becomes of the stored command: it stays, goes, or gives way to one *)
(* obeyed later than all before it.                                        *)
LEMMA DriveStep ==
    ASSUME CommandInv, TwistInv, [Next]_vars
    PROVE  \/ drive' \in {drive, NoDrive} /\ lastObeyed' = lastObeyed
           \/ /\ lastObeyed' = drive' /\ drive' # lastObeyed
              /\ NotAfter(lastObeyed, drive')
<1>1. CASE drive' \in {drive, NoDrive}
  BY <1>1, StepKinds DEF CommandInv, GrantStep, AcceptStep, DropStep
<1>2. CASE drive' \notin {drive, NoDrive}
  <2>1. /\ lastObeyed' = drive'
        /\ \/ drive'.lease > lastObeyed.lease
           \/ drive'.lease = lastObeyed.lease /\ drive'.seq > lastObeyed.seq
    BY <1>2, AcceptAdvances
  <2>2. lastObeyed \in Drive /\ drive' \in Drive
    BY NextTypes DEF CommandInv, CommandTypes
  <2>3. /\ lastObeyed.lease \in Nat /\ lastObeyed.seq \in Nat
        /\ drive'.lease \in Nat /\ drive'.seq \in Nat
    BY <2>2 DEF Drive
  <2>4. NotAfter(lastObeyed, drive') /\ drive' # lastObeyed
    BY <2>1, <2>3 DEF NotAfter
  <2> QED
    BY <2>1, <2>4
<1> QED
  BY <1>1, <1>2

(* The steps that change neither the copy nor what was sent.               *)
LEMMA TwistOther ==
    ASSUME CommandInv, TwistInv, [Next]_vars, UNCHANGED <<output, twistVars>>
    PROVE  TwistInv'
<1>1. /\ output \in Drive /\ sent \in Drive /\ lastObeyed \in Drive
      /\ lastObeyed' \in Drive /\ drive' \in Drive
  BY NextTypes DEF CommandInv, CommandTypes
<1>2. CASE drive' \in {drive, NoDrive} /\ lastObeyed' = lastObeyed
  BY <1>2 DEF TwistInv, LastTwist, twistVars, NotAfter
<1>3. CASE /\ lastObeyed' = drive' /\ drive' # lastObeyed
           /\ NotAfter(lastObeyed, drive')
  <2>0. NotAfter(NoDrive, lastObeyed')
    <3>1. NoDrive \in Drive
      BY DEF NoDrive, Drive
    <3> QED
      BY <1>1, <1>3, <3>1, NotAfterTransitive DEF TwistInv
  <2>1. NotAfter(sent, lastObeyed')
    BY <1>1, <1>3, NotAfterTransitive DEF TwistInv
  <2>2. output # NoDrive => NotAfter(output, lastObeyed')
    BY <1>1, <1>3, NotAfterTransitive DEF TwistInv
  <2>3. sent # drive'
    <3> SUFFICES ASSUME sent = drive' PROVE FALSE
      OBVIOUS
    <3>1. NotAfter(drive', lastObeyed)
      BY DEF TwistInv
    <3> QED
      BY <1>1, <1>3, <3>1 DEF NotAfter, Drive
  <2> QED
    BY <1>3, <2>0, <2>1, <2>2, <2>3 DEF TwistInv, LastTwist, twistVars, NotAfter
<1> QED
  BY <1>2, <1>3, DriveStep

LEMMA TwistNext == CommandInv /\ TwistInv /\ [Next]_vars => TwistInv'
<1> SUFFICES ASSUME CommandInv, TwistInv, [Next]_vars PROVE TwistInv'
  OBVIOUS
<1> USE DEF leaseVars, threadVars, gatewayVars, twistVars, sessionVars
<1>1. CASE UNCHANGED <<output, twistVars>>
  BY <1>1, TwistOther
<1>2. CASE GatewayStep(on_timer)
  <2>1. UNCHANGED <<drive, lastObeyed, sent, sentLate>> /\ output' \in {drive, output}
    BY <1>2 DEF GatewayStep, on_timer
  <2>2. CASE output' = output
    BY <1>1, <2>1, <2>2
  <2>3. CASE output' = drive /\ drive # NoDrive
    BY <2>1, <2>3 DEF TwistInv, LastTwist, NotAfter
  <2> QED
    BY <1>2, <2>1, <2>2, <2>3 DEF GatewayStep, on_timer
<1>3. CASE SendTwist
  <2>1. /\ UNCHANGED <<drive, lastObeyed>> /\ output' = NoDrive /\ sent' = output
        /\ sentLate' = (output # drive)
    BY <1>3 DEF SendTwist, PublishTwist
  <2>2. CASE output # NoDrive
    BY <2>1, <2>2 DEF TwistInv, LastTwist, NotAfter
  <2>3. CASE output = NoDrive
    BY <2>1, <2>3 DEF TwistInv, LastTwist, NotAfter
  <2> QED
    BY <2>2, <2>3
<1>4. CASE DeliverCommand
  BY <1>1, <1>4 DEF DeliverCommand, on_command
<1>5. ASSUME NEW c \in Controllers,
             OperatorAcquires(c) \/ PageRenews(c) \/ PageSends(c) \/ PageReleases(c)
      PROVE  TwistInv'
  BY <1>1, <1>5 DEF OperatorAcquires, PageRenews, PageSends, PageReleases, handle_goal, on_release
<1>6. CASE LoseCommand \/ ServeModeRequest \/ OtherModeRequest \/ EmergencyStop
           \/ SafetyEventArrives \/ ExitSupervisor \/ UNCHANGED vars
  BY <1>1, <1>6 DEF LoseCommand, ServeModeRequest, OtherModeRequest, EmergencyStop,
                    SafetyEventArrives, ExitSupervisor, vars
<1>7. ASSUME NEW g \in Goals, GoalThread(g) PROVE TwistInv'
  BY <1>1, <1>7 DEF GoalThread, GatewayStep, Grant, SendModeRequest, ModeAnswered,
                    ModeTimedOut, GoalSucceeds, Finish
<1>8. ASSUME NEW t \in Threads, LeaseThread(t) PROVE TwistInv'
  BY <1>1, <1>8 DEF LeaseThread, GatewayStep, Revoke, CopyLease, PublishLease, RequestManual
<1>9. CASE GatewayStep(LeaseDeadline) \/ GatewayStep(CommandDeadline)
  BY <1>1, <1>9 DEF GatewayStep, LeaseDeadline, CommandDeadline
<1> QED
  BY <1>2, <1>3, <1>4, <1>5, <1>6, <1>7, <1>8, <1>9 DEF Next, Timers

(* For any controllers, goals and interleaving: what on_timer publishes    *)
(* after its unlock is a command dropped meanwhile at most once, and never *)
(* one obeyed before another that was published.                           *)
THEOREM SessionLastTwist == Spec => []LastTwist
<1>1. Init => TwistInv
  BY DEF Init, GatewayInit, TwistInv, LastTwist, NotAfter
<1>2. TwistInv => LastTwist
  BY DEF TwistInv
<1> QED
  BY <1>1, <1>2, InitCommand, NextCommand, TwistNext, PTL DEF Spec
=============================================================================
