------------------------- MODULE ControlChainProofs -------------------------
(***************************************************************************)
(* Proofs about ControlChain, for every choice of timeouts, limits, queue  *)
(* depth and environment messages.                                         *)
(*                                                                         *)
(* NoStaleMotion and StopLatency speak of /cmd_vel only and are not        *)
(* inductive: what makes them hold is what every selected command on its   *)
(* way to the guard still satisfies (GoodMessage).                         *)
(***************************************************************************)
EXTENDS ControlChain, SequenceTheorems, TLAPS

(* A selected command that would move the vehicle names its source, was    *)
(* fresh when it was selected, and was selected under an authority that    *)
(* still stands or that was withdrawn no earlier.                          *)
GoodMessage(m) ==
    Moving(m.twist) =>
        /\ m.src \in Source
        /\ m.born > 0
        /\ m.stamp - m.born <= SourceTimeout
        /\ m.stamp <= now
        /\ Authorised(m.src) \/ m.stamp <= revokedAt[m.src]

QueueGood ==
    \A i \in 1..Len(selectedTopic) :
        GoodMessage(selectedTopic[i]) /\ selectedTopic[i].stamp > 0

GuardGood == GoodMessage(guardCommand) /\ guardStamp = guardCommand.stamp

WheelsGood ==
    Moving(cmdVel.twist) =>
        /\ cmdVel.src \in Source
        /\ cmdVel.born > 0
        /\ cmdVel.at - cmdVel.born <= SourceTimeout + CommandTimeout
        /\ cmdVel.at <= now
        /\ Authorised(cmdVel.src) \/ cmdVel.at <= revokedAt[cmdVel.src] + CommandTimeout

(* What one step may do to the authority of a source. *)
AuthorityStep ==
    /\ now' >= now
    /\ \A s \in Source :
          \/ Authorised(s)'
          \/ ~Authorised(s) /\ revokedAt'[s] = revokedAt[s]
          \/ revokedAt'[s] = now

-----------------------------------------------------------------------------
(* Facts about the operators. *)

(* The keep-last bound only ever drops a prefix. *)
LEMMA KeepLastFact ==
    ASSUME NEW S, NEW q \in Seq(S)
    PROVE  /\ KeepLast(q) \in Seq(S)
           /\ \A i \in 1..Len(KeepLast(q)) : \E j \in 1..Len(q) : KeepLast(q)[i] = q[j]
           /\ q # << >> => /\ KeepLast(q) # << >>
                           /\ KeepLast(q)[Len(KeepLast(q))] = q[Len(q)]
<1>1. CASE Len(q) <= QueueDepth
  BY <1>1 DEF KeepLast
<1>2. CASE ~(Len(q) <= QueueDepth)
  <2> DEFINE d == Len(q) - QueueDepth
             k == SubSeq(q, d + 1, Len(q))
  <2>1. d \in Nat /\ d >= 1 /\ d < Len(q) /\ Len(q) \in Nat
    BY <1>2, ChainAssumption
  <2>2. k \in Seq(S) /\ Len(k) = Len(q) - d /\ \A i \in 1..Len(k) : k[i] = q[d + i]
    BY <2>1
  <2>3. KeepLast(q) = k
    BY <1>2 DEF KeepLast
  <2> HIDE DEF d, k
  <2>4. \A i \in 1..Len(k) : d + i \in 1..Len(q)
    BY <2>1, <2>2
  <2>5. Len(k) \in 1..Len(k) /\ d + Len(k) = Len(q)
    BY <2>1, <2>2
  <2>6. k[Len(k)] = q[Len(q)]
    BY <2>2, <2>5
  <2> QED
    BY <2>2, <2>3, <2>4, <2>5, <2>6
<1> QED
  BY <1>1, <1>2

(* The guard never turns a zero command into motion. *)
LEMMA LimitedZero == Limited(ZeroTwist) = ZeroTwist
  BY GuardAssumption, NaNAssumption DEF Limited, ZeroTwist, Clamp

LEMMA LimitedType ==
    ASSUME NEW twist \in Twist
    PROVE  Limited(twist) \in Twist
<1>1. ASSUME NEW v \in Speed, NEW lo \in Int, NEW hi \in Int
      PROVE  Clamp(v, lo, hi) \in Speed
  BY <1>1, NaNAssumption DEF Clamp, Speed
<1>2. /\ twist.x \in Speed /\ twist.z \in Speed
      /\ -MaxReverseVelocity \in Int /\ MaxLinearVelocity \in Int
      /\ -MaxAngularVelocity \in Int /\ MaxAngularVelocity \in Int
  BY GuardAssumption DEF Twist
<1>3. /\ Clamp(twist.x, -MaxReverseVelocity, MaxLinearVelocity) \in Speed
      /\ Clamp(twist.z, -MaxAngularVelocity, MaxAngularVelocity) \in Speed
  BY <1>1, <1>2, Zenon
<1>4. 0 \in Speed
  BY DEF Speed
<1> QED
  BY <1>3, <1>4 DEF Limited, Twist

LEMMA VerdictFact ==
    ASSUME TypeOK
    PROVE  /\ SafetyVerdict(now).rule \in Rules
           /\ SafetyVerdict(now).severity \in Severities
           /\ SafetyVerdict(now).twist \in Twist
           /\ Moving(SafetyVerdict(now).twist) =>
                 /\ Moving(guardCommand.twist)
                 /\ FreshAt(now, guardStamp, CommandTimeout)
<1>1. guardCommand.twist \in Twist
  BY DEF TypeOK, SelectedMessage
<1>2. Limited(guardCommand.twist) \in Twist
  BY <1>1, LimitedType
<1>3. ZeroTwist \in Twist
  BY DEF ZeroTwist, Twist, Speed
<1>4. guardCommand.twist = ZeroTwist => Limited(guardCommand.twist) = ZeroTwist
  BY LimitedZero
<1> DEFINE limited == Limited(guardCommand.twist)
           fresh == FreshAt(now, guardStamp, CommandTimeout)
           scan == ScanFresh(now)
           over == OverrideActive(now)
<1>5. \/ SafetyVerdict(now) = Verdict(SEVERITY_WARNING, "command_timeout", ZeroTwist)
      \/ SafetyVerdict(now) = Verdict(SEVERITY_STOP, "scan_timeout", ZeroTwist)
      \/ fresh /\ SafetyVerdict(now) = Verdict(SEVERITY_WARNING, "manual_obstacle_override", limited)
      \/ SafetyVerdict(now) = Verdict(SEVERITY_WARNING, "front_obstacle", ZeroTwist)
      \/ fresh /\ SafetyVerdict(now) = Verdict(SEVERITY_INFO, "", limited)
  BY Zenon DEF SafetyVerdict
<1> HIDE DEF limited, fresh
<1>6. ~Moving(ZeroTwist) /\ (Moving(limited) => Moving(guardCommand.twist))
  BY <1>4 DEF Moving, limited
<1>7. limited \in Twist
  BY <1>2 DEF limited
<1>8. {SEVERITY_INFO, SEVERITY_WARNING, SEVERITY_STOP} \subseteq Severities
  BY DEF Severities, SEVERITY_INFO, SEVERITY_WARNING, SEVERITY_STOP, SEVERITY_FAULT
<1> SUFFICES ASSUME NEW sev \in Severities, NEW rule \in Rules, NEW twist \in Twist,
                    SafetyVerdict(now) = Verdict(sev, rule, twist),
                    Moving(twist) => Moving(guardCommand.twist) /\ fresh
             PROVE  /\ SafetyVerdict(now).rule \in Rules
                    /\ SafetyVerdict(now).severity \in Severities
                    /\ SafetyVerdict(now).twist \in Twist
                    /\ Moving(SafetyVerdict(now).twist) =>
                          Moving(guardCommand.twist) /\ fresh
  BY <1>3, <1>5, <1>6, <1>7, <1>8 DEF Rules, fresh
<1> QED
  BY DEF Verdict
-----------------------------------------------------------------------------
(* Type correctness. *)

LEMMA EventsType ==
    ASSUME TypeOK, NEW sev \in Severities, NEW rule \in Rules
    PROVE  publish_event(sev, rule) \in Seq(SafetyEvent)
<1> DEFINE cleared == [severity |-> activeSeverity, rule |-> activeRule, active |-> FALSE]
           raised == [severity |-> sev, rule |-> rule, active |-> TRUE]
<1>1. cleared \in SafetyEvent /\ raised \in SafetyEvent
  BY DEF TypeOK, SafetyEvent
<1> HIDE DEF cleared, raised
<1>2. /\ << >> \in Seq(SafetyEvent)
      /\ << >> \o << >> \in Seq(SafetyEvent)
      /\ << >> \o <<raised>> \in Seq(SafetyEvent)
      /\ <<cleared>> \o << >> \in Seq(SafetyEvent)
      /\ <<cleared>> \o <<raised>> \in Seq(SafetyEvent)
  BY <1>1
<1> QED
  BY <1>2 DEF publish_event, cleared, raised

LEMMA InitType == Init => TypeOK
<1> SUFFICES ASSUME Init PROVE TypeOK
  OBVIOUS
<1>1. ZeroTwist \in Twist
  BY DEF ZeroTwist, Twist, Speed
<1>2. /\ MODE_MANUAL \in Modes /\ 0 \in Nat
      /\ SEVERITY_INFO \in Severities /\ "" \in Rules
      /\ << >> \in Seq(SelectedMessage) /\ << >> \in Seq(SafetyEvent)
  BY DEF Modes, MODE_MANUAL, MODE_FAULT, Rules, Severities, SEVERITY_INFO, SEVERITY_FAULT
<1>3. SupervisorTypeOK
  BY <1>2, Zenon DEF Init, SupervisorInit, SupervisorTypeOK
<1>4. MuxTypeOK
  <2>1. candidate \in [Source -> Twist] /\ candidateStamp \in [Source -> Nat]
    BY <1>1 DEF Init, MuxInit
  <2> QED
    BY <1>2, <2>1, Zenon DEF Init, MuxInit, MuxTypeOK
<1>5. guardCommand \in SelectedMessage
  BY <1>1 DEF Init, GuardInit, SelectedMessage, NoSource
<1>6. now \in Nat /\ revokedAt \in [Source -> Nat]
  BY DEF Init
<1>7. cmdVel \in [twist : Twist, src : Source \cup {NoSource}, born : Nat, at : Nat]
  BY <1>1 DEF Init, Stopped
<1> QED
  BY <1>2, <1>3, <1>4, <1>5, <1>6, <1>7, Zenon DEF Init, GuardInit, TypeOK

LEMMA NextType == TypeOK /\ [Next]_vars => TypeOK'
<1> SUFFICES ASSUME TypeOK, [Next]_vars PROVE TypeOK'
  OBVIOUS
<1> USE DEF supervisorVars, muxVars, guardVars, chainVars
<1>1. CASE UNCHANGED vars
  BY <1>1 DEF vars, TypeOK, SupervisorTypeOK, MuxTypeOK
<1>2. CASE Tick
  BY <1>2 DEF Tick, TypeOK, SupervisorTypeOK, MuxTypeOK
<1>3. CASE DeliverPolicyStatus
  BY <1>3 DEF DeliverPolicyStatus, on_policy_status, TypeOK, SupervisorTypeOK, MuxTypeOK
<1>4. CASE DeliverSafetyEvent
  <2>1. Head(safetyEvents) \in SafetyEvent /\ safetyEvents' \in Seq(SafetyEvent)
    BY <1>4 DEF DeliverSafetyEvent, TypeOK
  <2>2. SupervisorTypeOK'
    <3>1. supMode' \in Modes
      BY <1>4 DEF DeliverSafetyEvent, on_safety_event, set_mode, TypeOK, SupervisorTypeOK,
                  Modes, MODE_MANUAL, MODE_SAFE_STOP, MODE_FAULT
    <3>2. safetyStopActive' \in BOOLEAN
      BY <1>4, <2>1 DEF DeliverSafetyEvent, on_safety_event, IsStop, SafetyEvent
    <3> QED
      BY <1>4, <3>1, <3>2 DEF DeliverSafetyEvent, on_safety_event, TypeOK, SupervisorTypeOK
  <2> QED
    BY <1>4, <2>1, <2>2 DEF DeliverSafetyEvent, TypeOK, MuxTypeOK
<1>5. CASE RequestMode
  <2>1. supMode' \in Modes
    BY <1>5, ChainAssumption
    DEF RequestMode, on_mode_request, set_mode, ModeRequestAccepted, TypeOK,
        SupervisorTypeOK, Modes, MODE_MANUAL, MODE_FAULT
  <2> QED
    BY <1>5, <2>1 DEF RequestMode, on_mode_request, TypeOK, SupervisorTypeOK, MuxTypeOK
<1>6. CASE RequestSafeStop
  BY <1>6 DEF RequestSafeStop, on_safe_stop, set_mode, TypeOK, SupervisorTypeOK, MuxTypeOK,
              Modes, MODE_MANUAL, MODE_SAFE_STOP, MODE_FAULT
<1>7. CASE ExitSupervisor
  BY <1>7 DEF ExitSupervisor, SupervisorExit, TypeOK, SupervisorTypeOK, MuxTypeOK
<1>8. ASSUME NoteRevocations
      PROVE  revokedAt' \in [Source -> Nat]
  BY <1>8 DEF NoteRevocations, TypeOK
<1>9. CASE DeliverSystemState
  BY <1>8, <1>9 DEF DeliverSystemState, on_system_state, TypeOK, SupervisorTypeOK, MuxTypeOK
<1>10. CASE DeliverLease
  <2>1. ZeroTwist \in Twist
    BY DEF ZeroTwist, Twist, Speed
  <2>2. PICK l \in Leases : on_control_lease(l[1], l[2])
    BY <1>10 DEF DeliverLease
  <2>3. l[1] \in BOOLEAN /\ l[2] \in BOOLEAN
    BY ChainAssumption
  <2>4. muxLeaseActive' \in BOOLEAN /\ muxLeaseRemote' \in BOOLEAN /\ muxMode' = muxMode
    BY <2>2, <2>3, Zenon DEF on_control_lease
  <2>5. candidate' \in [Source -> Twist] /\ candidateStamp' \in [Source -> Nat]
    BY <2>1, <2>2, SMTT(30) DEF on_control_lease, TypeOK, MuxTypeOK
  <2>6. MuxTypeOK'
    BY <2>4, <2>5 DEF TypeOK, MuxTypeOK
  <2> QED
    BY <1>8, <1>10, <2>6 DEF DeliverLease, TypeOK, SupervisorTypeOK
<1>11. ASSUME NEW src \in Source, DeliverCandidate(src)
       PROVE  TypeOK'
  <2>1. MuxTypeOK'
    <3>1. PICK twist \in Candidates[src], stamp \in 1..now : on_candidate(src, twist, stamp)
      BY <1>11 DEF DeliverCandidate
    <3>2. twist \in Twist /\ stamp \in Nat
      BY <3>1, ChainAssumption DEF TypeOK
    <3> QED
      BY <3>1, <3>2 DEF on_candidate, TypeOK, MuxTypeOK
  <2> QED
    BY <1>11, <2>1 DEF DeliverCandidate, TypeOK, SupervisorTypeOK
<1>12. CASE PublishSelected
  <2>1. PICK m \in {Selected(candidate[s], now, s, candidateStamp[s]) : s \in Source}
                    \cup {Selected(ZeroTwist, now, NoSource, now)} :
             selectedTopic' = KeepLast(Append(selectedTopic, m))
    BY <1>12 DEF PublishSelected
  <2>2. m \in SelectedMessage
    <3>1. ZeroTwist \in Twist
      BY DEF ZeroTwist, Twist, Speed
    <3>2. /\ now \in Nat
          /\ \A s \in Source : candidate[s] \in Twist /\ candidateStamp[s] \in Nat
      BY DEF TypeOK, MuxTypeOK
    <3> QED
      BY <3>1, <3>2 DEF Selected, SelectedMessage
  <2>3. Append(selectedTopic, m) \in Seq(SelectedMessage)
    BY <2>2 DEF TypeOK
  <2>4. selectedTopic' \in Seq(SelectedMessage)
    BY <2>1, <2>3, KeepLastFact
  <2> QED
    BY <1>12, <2>4 DEF PublishSelected, TypeOK, SupervisorTypeOK, MuxTypeOK
<1>13. CASE DeliverSelected
  <2>1. Head(selectedTopic) \in SelectedMessage /\ selectedTopic' \in Seq(SelectedMessage)
    BY <1>13 DEF DeliverSelected, TypeOK
  <2>2. guardCommand' \in SelectedMessage /\ guardStamp' \in Nat
    BY <1>13, <2>1 DEF DeliverSelected, on_selected, TypeOK, SelectedMessage
  <2> QED
    BY <1>13, <2>1, <2>2 DEF DeliverSelected, on_selected, TypeOK, SupervisorTypeOK, MuxTypeOK
<1>14. CASE DeliverScan
  BY <1>14 DEF DeliverScan, on_scan, TypeOK, SupervisorTypeOK, MuxTypeOK
<1>15. CASE DeliverOverride
  BY <1>15, ChainAssumption
  DEF DeliverOverride, on_manual_override, TypeOK, SupervisorTypeOK, MuxTypeOK
<1>16. CASE PublishSafeCommand
  <2> DEFINE v == SafetyVerdict(now)
             events == publish_event(v.severity, v.rule)
  <2>1. v.rule \in Rules /\ v.severity \in Severities /\ v.twist \in Twist
    BY VerdictFact
  <2>2. events \in Seq(SafetyEvent)
    BY <2>1, EventsType
  <2>3. /\ safetyEvents' = KeepLast(safetyEvents \o events)
        /\ cmdVel' = IF Moving(v.twist)
                     THEN [twist |-> v.twist, src |-> guardCommand.src,
                           born |-> guardCommand.born, at |-> now]
                     ELSE Stopped
        /\ activeRule' = v.rule /\ activeSeverity' = v.severity
    BY <1>16 DEF PublishSafeCommand, publish_safe_command
  <2> HIDE DEF v, events
  <2>4. safetyEvents \o events \in Seq(SafetyEvent)
    BY <2>2 DEF TypeOK
  <2>5. safetyEvents' \in Seq(SafetyEvent)
    BY <2>3, <2>4, KeepLastFact
  <2>6. cmdVel' \in [twist : Twist, src : Source \cup {NoSource}, born : Nat, at : Nat]
    BY <2>1, <2>3 DEF TypeOK, SelectedMessage, Stopped, ZeroTwist, Twist, Speed
  <2> QED
    BY <1>16, <2>1, <2>3, <2>5, <2>6
    DEF PublishSafeCommand, publish_safe_command, TypeOK, SupervisorTypeOK, MuxTypeOK
<1> QED
  BY <1>1, <1>2, <1>3, <1>4, <1>5, <1>6, <1>7, <1>9, <1>10, <1>11, <1>12, <1>13,
     <1>14, <1>15, <1>16 DEF Next

(* Every field and topic of the three nodes keeps its type in every        *)
(* execution of the chain.                                                 *)
THEOREM ChainTypeCorrect == Spec => []TypeOK
  BY InitType, NextType, PTL DEF Spec

-----------------------------------------------------------------------------
(* Motion: staleness and stop latency. *)

MotionInv == TypeOK /\ now > 0 /\ QueueGood /\ GuardGood /\ WheelsGood

LEMMA InitMotion == Init => MotionInv
<1> SUFFICES ASSUME Init PROVE MotionInv
  OBVIOUS
<1>1. TypeOK
  BY InitType
<1>2. QueueGood
  BY DEF Init, QueueGood
<1>3. GuardGood
  BY DEF Init, GuardInit, GuardGood, GoodMessage, Moving
<1>4. WheelsGood
  BY DEF Init, WheelsGood, Stopped, Moving
<1> QED
  BY <1>1, <1>2, <1>3, <1>4 DEF MotionInv, Init

(* Every step respects the authority relation the invariant rests on. *)
LEMMA StepsKeepAuthority == TypeOK /\ [Next]_vars => AuthorityStep
<1> SUFFICES ASSUME TypeOK, [Next]_vars PROVE AuthorityStep
  OBVIOUS
<1>1. now \in Nat
  BY DEF TypeOK
<1>2. ASSUME UNCHANGED <<muxMode, muxLeaseActive, muxLeaseRemote, revokedAt>>, now' >= now
      PROVE  AuthorityStep
  BY <1>2 DEF AuthorityStep, Authorised
<1>3. ASSUME NoteRevocations, now' = now
      PROVE  AuthorityStep
  BY <1>1, <1>3 DEF AuthorityStep, NoteRevocations
<1> USE DEF supervisorVars, muxVars, guardVars, chainVars
<1>4. CASE DeliverSystemState \/ DeliverLease
  BY <1>3, <1>4 DEF DeliverSystemState, DeliverLease
<1>5. CASE UNCHANGED vars
  BY <1>1, <1>2, <1>5 DEF vars
<1>6. CASE Tick
  BY <1>1, <1>2, <1>6 DEF Tick
<1>7. CASE DeliverPolicyStatus \/ DeliverSafetyEvent \/ RequestMode \/ RequestSafeStop
           \/ ExitSupervisor
  BY <1>1, <1>2, <1>7 DEF DeliverPolicyStatus, DeliverSafetyEvent, RequestMode,
                          RequestSafeStop, ExitSupervisor
<1>8. ASSUME NEW src \in Source, DeliverCandidate(src)
      PROVE  AuthorityStep
  BY <1>1, <1>2, <1>8 DEF DeliverCandidate, on_candidate
<1>9. CASE PublishSelected \/ DeliverSelected \/ DeliverScan \/ DeliverOverride
           \/ PublishSafeCommand
  BY <1>1, <1>2, <1>9 DEF PublishSelected, DeliverSelected, DeliverScan, DeliverOverride,
                          PublishSafeCommand
<1> QED
  BY <1>4, <1>5, <1>6, <1>7, <1>8, <1>9 DEF Next

(* Such a step keeps a message good, and what the wheels obey good. *)
LEMMA GoodMessageStable ==
    ASSUME NEW m \in SelectedMessage, TypeOK, TypeOK', AuthorityStep, GoodMessage(m)
    PROVE  GoodMessage(m)'
<1> SUFFICES ASSUME Moving(m.twist)
             PROVE  /\ m.src \in Source
                    /\ m.born > 0
                    /\ m.stamp - m.born <= SourceTimeout
                    /\ m.stamp <= now'
                    /\ Authorised(m.src)' \/ m.stamp <= revokedAt'[m.src]
  BY DEF GoodMessage
<1>1. /\ m.src \in Source /\ m.born > 0 /\ m.stamp - m.born <= SourceTimeout
      /\ m.stamp <= now
      /\ Authorised(m.src) \/ m.stamp <= revokedAt[m.src]
  BY DEF GoodMessage
<1>2. now \in Nat /\ now' \in Nat /\ m.stamp \in Nat /\ now <= now'
  BY DEF TypeOK, AuthorityStep, SelectedMessage
<1>3. \/ Authorised(m.src)'
      \/ ~Authorised(m.src) /\ revokedAt'[m.src] = revokedAt[m.src]
      \/ revokedAt'[m.src] = now
  BY <1>1 DEF AuthorityStep
<1> QED
  BY <1>1, <1>2, <1>3

LEMMA WheelsStable ==
    ASSUME TypeOK, TypeOK', AuthorityStep, WheelsGood, cmdVel' = cmdVel
    PROVE  WheelsGood'
<1> SUFFICES ASSUME Moving(cmdVel.twist)
             PROVE  /\ cmdVel.src \in Source
                    /\ cmdVel.born > 0
                    /\ cmdVel.at - cmdVel.born <= SourceTimeout + CommandTimeout
                    /\ cmdVel.at <= now'
                    /\ Authorised(cmdVel.src)'
                       \/ cmdVel.at <= revokedAt'[cmdVel.src] + CommandTimeout
  BY DEF WheelsGood, Authorised
<1>1. /\ cmdVel.src \in Source /\ cmdVel.born > 0
      /\ cmdVel.at - cmdVel.born <= SourceTimeout + CommandTimeout
      /\ cmdVel.at <= now
      /\ Authorised(cmdVel.src) \/ cmdVel.at <= revokedAt[cmdVel.src] + CommandTimeout
  BY DEF WheelsGood
<1>2. now \in Nat /\ now' \in Nat /\ cmdVel.at \in Nat /\ now <= now'
  BY DEF TypeOK, AuthorityStep
<1>3. \A t \in Source : \/ Authorised(t)'
                        \/ ~Authorised(t) /\ revokedAt'[t] = revokedAt[t]
                        \/ revokedAt'[t] = now
  BY DEF AuthorityStep
<1>4. \A t \in Source :
          (t = cmdVel.src /\ (Authorised(t) \/ cmdVel.at <= revokedAt[t] + CommandTimeout))
            => Authorised(t)' \/ cmdVel.at <= revokedAt'[t] + CommandTimeout
  BY <1>1, <1>2, <1>3, GuardAssumption
<1> QED
  BY <1>1, <1>2, <1>4 DEF Authorised

LEMMA NextMotion == MotionInv /\ [Next]_vars => MotionInv'
<1> SUFFICES ASSUME MotionInv, [Next]_vars PROVE MotionInv'
  OBVIOUS
<1>1. /\ TypeOK /\ TypeOK' /\ AuthorityStep
      /\ QueueGood /\ GuardGood /\ WheelsGood /\ now > 0 /\ now' > 0
  <2>1. TypeOK /\ QueueGood /\ GuardGood /\ WheelsGood /\ now > 0
    BY DEF MotionInv
  <2>2. TypeOK' /\ AuthorityStep
    BY <2>1, NextType, StepsKeepAuthority
  <2>3. now' > 0
    BY <2>1, <2>2 DEF AuthorityStep, TypeOK
  <2> QED
    BY <2>1, <2>2, <2>3
<1>2. ASSUME selectedTopic' = selectedTopic
      PROVE  QueueGood'
  <2> SUFFICES ASSUME NEW i \in 1..Len(selectedTopic)
               PROVE  GoodMessage(selectedTopic[i])' /\ selectedTopic'[i].stamp > 0
    BY <1>2 DEF QueueGood
  <2> DEFINE m == selectedTopic[i]
  <2>1. m \in SelectedMessage /\ GoodMessage(m) /\ m.stamp > 0
    <3>1. selectedTopic \in Seq(SelectedMessage)
      BY <1>1 DEF TypeOK
    <3>2. GoodMessage(m) /\ m.stamp > 0
      BY <1>1, Zenon DEF QueueGood
    <3> QED
      BY ONLY <3>1, <3>2, i \in 1..Len(selectedTopic)
  <2>2. \A n \in SelectedMessage : GoodMessage(n) => (Moving(n.twist) =>
            /\ n.src \in Source /\ n.born > 0 /\ n.stamp - n.born <= SourceTimeout
            /\ n.stamp <= now'
            /\ Authorised(n.src)' \/ n.stamp <= revokedAt'[n.src])
    BY <1>1, GoodMessageStable DEF GoodMessage
  <2> QED
    BY <1>2, <2>1, <2>2 DEF GoodMessage, Authorised
<1>3. ASSUME UNCHANGED <<guardCommand, guardStamp>>
      PROVE  GuardGood'
  <2>1. guardCommand \in SelectedMessage /\ GoodMessage(guardCommand)
    BY <1>1 DEF GuardGood, TypeOK
  <2>2. \A n \in SelectedMessage : GoodMessage(n) => (Moving(n.twist) =>
            /\ n.src \in Source /\ n.born > 0 /\ n.stamp - n.born <= SourceTimeout
            /\ n.stamp <= now'
            /\ Authorised(n.src)' \/ n.stamp <= revokedAt'[n.src])
    BY <1>1, GoodMessageStable DEF GoodMessage
  <2> QED
    BY <1>1, <1>3, <2>1, <2>2 DEF GuardGood, GoodMessage, Authorised
<1>4. ASSUME UNCHANGED <<selectedTopic, guardCommand, guardStamp, cmdVel>>
      PROVE  MotionInv'
  BY <1>1, <1>2, <1>3, <1>4, WheelsStable DEF MotionInv
<1> USE DEF supervisorVars, muxVars, guardVars, chainVars
<1>5. CASE UNCHANGED vars
  BY <1>4, <1>5 DEF vars
<1>6. CASE Tick \/ DeliverPolicyStatus \/ DeliverSafetyEvent \/ RequestMode
           \/ RequestSafeStop \/ ExitSupervisor
  BY <1>4, <1>6 DEF Tick, DeliverPolicyStatus, DeliverSafetyEvent, RequestMode,
                    RequestSafeStop, ExitSupervisor
<1>7. CASE DeliverSystemState \/ DeliverLease
  BY <1>4, <1>7 DEF DeliverSystemState, DeliverLease
<1>8. ASSUME NEW src \in Source, DeliverCandidate(src)
      PROVE  MotionInv'
  BY <1>4, <1>8 DEF DeliverCandidate
<1>9. CASE DeliverScan \/ DeliverOverride
  BY <1>4, <1>9 DEF DeliverScan, DeliverOverride, on_scan, on_manual_override
<1>10. CASE PublishSelected
  <2>1. PICK m \in {Selected(candidate[s], now, s, candidateStamp[s]) : s \in Source}
                    \cup {Selected(ZeroTwist, now, NoSource, now)} :
             publish_selected(now, m) /\ selectedTopic' = KeepLast(Append(selectedTopic, m))
    BY <1>10 DEF PublishSelected
  <2>2. UNCHANGED <<muxMode, muxLeaseActive, muxLeaseRemote, revokedAt, now, guardCommand,
                    guardStamp, cmdVel>>
    BY <1>10 DEF PublishSelected
  <2>3. m.stamp > 0 /\ GoodMessage(m)
    <3>1. now \in Nat /\ now > 0 /\ \A s \in Source : candidateStamp[s] \in Nat
      BY <1>1 DEF TypeOK, MuxTypeOK
    <3>2. ASSUME NEW s \in Source, Selectable(s, now),
                 m = Selected(candidate[s], now, s, candidateStamp[s])
          PROVE  m.stamp > 0 /\ GoodMessage(m)
      <4>1. Authorised(s) /\ candidateStamp[s] > 0 /\ now - candidateStamp[s] <= SourceTimeout
        BY <3>2 DEF Selectable, FreshAt
      <4>2. m.stamp = now /\ m.src = s /\ m.born = candidateStamp[s]
        BY <3>2 DEF Selected
      <4> QED
        BY <3>1, <4>1, <4>2 DEF GoodMessage
    <3>3. ASSUME m = Selected(ZeroTwist, now, NoSource, now)
          PROVE  m.stamp > 0 /\ GoodMessage(m)
      <4>1. m.stamp = now /\ m.twist = ZeroTwist
        BY <3>3 DEF Selected
      <4> QED
        BY <3>1, <4>1 DEF GoodMessage, Moving
    <3> QED
      BY <2>1, <3>2, <3>3 DEF publish_selected
  <2>4. m \in SelectedMessage
    <3>1. ZeroTwist \in Twist
      BY DEF ZeroTwist, Twist, Speed
    <3>2. /\ now \in Nat
          /\ \A s \in Source : candidate[s] \in Twist /\ candidateStamp[s] \in Nat
      BY <1>1 DEF TypeOK, MuxTypeOK
    <3> QED
      BY <3>1, <3>2 DEF Selected, SelectedMessage
  <2> DEFINE q == Append(selectedTopic, m)
  <2>5. q \in Seq(SelectedMessage) /\ \A i \in 1..Len(q) :
            q[i] = m \/ \E j \in 1..Len(selectedTopic) : q[i] = selectedTopic[j]
    <3>1. selectedTopic \in Seq(SelectedMessage)
      BY <1>1 DEF TypeOK
    <3>2. /\ q \in Seq(SelectedMessage) /\ Len(q) = Len(selectedTopic) + 1
          /\ Len(selectedTopic) \in Nat
          /\ q[Len(selectedTopic) + 1] = m
          /\ \A i \in 1..Len(selectedTopic) : q[i] = selectedTopic[i]
      BY <2>4, <3>1
    <3> QED
      BY <3>2
  <2> HIDE DEF q
  <2>6. \A i \in 1..Len(q) : GoodMessage(q[i]) /\ q[i].stamp > 0
    BY <1>1, <2>3, <2>5 DEF QueueGood
  <2>7. \A i \in 1..Len(KeepLast(q)) : GoodMessage(KeepLast(q)[i]) /\ KeepLast(q)[i].stamp > 0
    <3>1. \A i \in 1..Len(KeepLast(q)) : \E j \in 1..Len(q) : KeepLast(q)[i] = q[j]
      BY <2>5, KeepLastFact
    <3> QED
      BY <2>6, <3>1, Zenon
  <2>8. QueueGood'
    <3>1. selectedTopic' = KeepLast(q)
      BY <2>1 DEF q
    <3> QED
      BY <2>2, <2>7, <3>1 DEF QueueGood, GoodMessage, Authorised
  <2> QED
    BY <1>1, <1>3, <2>2, <2>8, WheelsStable DEF MotionInv
<1>11. CASE DeliverSelected
  <2>1. /\ selectedTopic # << >>
        /\ guardCommand' = Head(selectedTopic)
        /\ guardStamp' = IF Head(selectedTopic).stamp = 0 THEN now ELSE Head(selectedTopic).stamp
        /\ selectedTopic' = Tail(selectedTopic)
        /\ UNCHANGED <<muxMode, muxLeaseActive, muxLeaseRemote, revokedAt, now, cmdVel>>
    BY <1>11 DEF DeliverSelected, on_selected
  <2>2. /\ selectedTopic \in Seq(SelectedMessage) /\ Len(selectedTopic) \in Nat
        /\ Len(selectedTopic) > 0 /\ Head(selectedTopic) = selectedTopic[1]
        /\ Len(selectedTopic') = Len(selectedTopic) - 1
        /\ \A i \in 1..Len(selectedTopic') : selectedTopic'[i] = selectedTopic[i + 1]
    BY <1>1, <2>1 DEF TypeOK
  <2>3. GoodMessage(selectedTopic[1]) /\ selectedTopic[1].stamp > 0
    BY <1>1, <2>2 DEF QueueGood
  <2>4. selectedTopic[1].stamp # 0
    BY <2>3
  <2>5. GuardGood'
    BY <2>1, <2>2, <2>3, <2>4 DEF GuardGood, GoodMessage, Authorised
  <2>6. \A i \in 1..Len(selectedTopic') :
            GoodMessage(selectedTopic[i + 1]) /\ selectedTopic[i + 1].stamp > 0
    <3>1. \A i \in 1..Len(selectedTopic') : i + 1 \in 1..Len(selectedTopic)
      BY <2>2
    <3> QED
      BY <1>1, <3>1 DEF QueueGood
  <2>7. QueueGood'
    BY <2>1, <2>2, <2>6 DEF QueueGood, GoodMessage, Authorised
  <2> QED
    BY <1>1, <2>1, <2>5, <2>7, WheelsStable DEF MotionInv
<1>12. CASE PublishSafeCommand
  <2> DEFINE v == SafetyVerdict(now)
  <2>1. /\ cmdVel' = IF Moving(v.twist)
                     THEN [twist |-> v.twist, src |-> guardCommand.src,
                           born |-> guardCommand.born, at |-> now]
                     ELSE Stopped
        /\ UNCHANGED <<muxMode, muxLeaseActive, muxLeaseRemote, revokedAt, now,
                       selectedTopic, guardCommand, guardStamp>>
    BY <1>12 DEF PublishSafeCommand, publish_safe_command
  <2>2. Moving(v.twist) => /\ Moving(guardCommand.twist)
                           /\ FreshAt(now, guardStamp, CommandTimeout)
    BY <1>1, VerdictFact
  <2> HIDE DEF v
  <2>3. WheelsGood'
    <3>1. CASE ~Moving(v.twist)
      BY <2>1, <3>1 DEF WheelsGood, Stopped, Moving
    <3>2. CASE Moving(v.twist)
      <4>1. /\ cmdVel'.src = guardCommand.src /\ cmdVel'.born = guardCommand.born
            /\ cmdVel'.at = now
        BY <2>1, <3>2
      <4>2. /\ guardCommand.src \in Source /\ guardCommand.born > 0
            /\ guardCommand.stamp - guardCommand.born <= SourceTimeout
            /\ now - guardCommand.stamp <= CommandTimeout
            /\ Authorised(guardCommand.src)
               \/ guardCommand.stamp <= revokedAt[guardCommand.src]
        BY <1>1, <2>2, <3>2 DEF GuardGood, GoodMessage, FreshAt
      <4>3. /\ now \in Nat /\ guardCommand.stamp \in Nat /\ guardCommand.born \in Nat
            /\ revokedAt[guardCommand.src] \in Nat
        BY <1>1, <4>2 DEF TypeOK, SelectedMessage
      <4>4. /\ now - guardCommand.born <= SourceTimeout + CommandTimeout
            /\ now <= now
            /\ Authorised(guardCommand.src)
               \/ now <= revokedAt[guardCommand.src] + CommandTimeout
        BY <4>2, <4>3, SourceTimeoutAssumption, GuardAssumption
      <4> QED
        BY <2>1, <4>1, <4>2, <4>4 DEF WheelsGood, Authorised
    <3> QED
      BY <3>1, <3>2
  <2> QED
    BY <1>1, <1>2, <1>3, <2>1, <2>3 DEF MotionInv
<1> QED
  BY <1>5, <1>6, <1>7, <1>8, <1>9, <1>10, <1>11, <1>12 DEF Next

LEMMA MotionInvariant == Spec => []MotionInv
  BY InitMotion, NextMotion, PTL DEF Spec

(* However long the topics delay a command, the vehicle never moves on one *)
(* older than the two timeouts together.                                   *)
THEOREM ChainNoStaleMotion == Spec => []NoStaleMotion
<1>1. MotionInv => NoStaleMotion
  BY DEF MotionInv, WheelsGood, NoStaleMotion
<1> QED
  BY <1>1, MotionInvariant, PTL

(* A source that loses its authority in the mux is obeyed for at most one  *)
(* command timeout more.                                                   *)
THEOREM ChainStopLatency == Spec => []StopLatency
<1>1. MotionInv => StopLatency
  BY DEF MotionInv, WheelsGood, StopLatency
<1> QED
  BY <1>1, MotionInvariant, PTL

-----------------------------------------------------------------------------
(* Safety events. *)

(* Non-empty queue with its last event given. *)
EndsWith(q, e) == q # << >> /\ q[Len(q)] = e

(* What publish_event sends: nothing when the verdict is unchanged or when *)
(* neither the old nor the new one has a rule; otherwise the last event is *)
(* the clearing of the old rule or the raising of the new one.             *)
LEMMA EventsFact ==
    ASSUME TypeOK, NEW sev \in Severities, NEW rule \in Rules
    PROVE  \/ /\ publish_event(sev, rule) = << >>
              /\ activeRule = rule
              /\ activeRule # "" => activeSeverity = sev
           \/ /\ rule = ""
              /\ EndsWith(publish_event(sev, rule),
                          [severity |-> activeSeverity, rule |-> activeRule, active |-> FALSE])
           \/ /\ rule # ""
              /\ EndsWith(publish_event(sev, rule),
                          [severity |-> sev, rule |-> rule, active |-> TRUE])
<1> DEFINE cleared == [severity |-> activeSeverity, rule |-> activeRule, active |-> FALSE]
           raised == [severity |-> sev, rule |-> rule, active |-> TRUE]
<1>1. cleared \in SafetyEvent /\ raised \in SafetyEvent
  BY DEF TypeOK, SafetyEvent
<1> HIDE DEF cleared, raised
<1>2. /\ << >> \o << >> = << >>
      /\ EndsWith(<< >> \o <<raised>>, raised)
      /\ EndsWith(<<cleared>> \o << >>, cleared)
      /\ EndsWith(<<cleared>> \o <<raised>>, raised)
  BY <1>1 DEF EndsWith
<1> QED
  BY <1>2 DEF publish_event, cleared, raised

(* The keep-last topic still ends with what was published last. *)
LEMMA PublishedLast ==
    ASSUME NEW S, NEW q \in Seq(S), NEW r \in Seq(S), NEW e, EndsWith(r, e)
    PROVE  EndsWith(KeepLast(q \o r), e)
<1>1. q \o r \in Seq(S) /\ Len(q \o r) = Len(q) + Len(r) /\ Len(r) > 0
      /\ Len(q) \in Nat /\ Len(r) \in Nat
  BY DEF EndsWith
<1>2. (q \o r)[Len(q) + Len(r)] = r[Len(r)]
  BY <1>1
<1>3. q \o r # << >>
  BY <1>1
<1> DEFINE k == q \o r
<1>4. k \in Seq(S) /\ k # << >> /\ k[Len(k)] = e
  BY <1>1, <1>2, <1>3 DEF EndsWith
<1> HIDE DEF k
<1>5. KeepLast(k) # << >> /\ KeepLast(k)[Len(KeepLast(k))] = k[Len(k)]
  BY <1>4, KeepLastFact
<1> QED
  BY <1>4, <1>5 DEF EndsWith, k

EventsInv == TypeOK /\ SafetyEventsConverge /\ SafetyStopHolds

LEMMA InitEvents == Init => EventsInv
<1> SUFFICES ASSUME Init PROVE EventsInv
  OBVIOUS
<1>1. TypeOK
  BY InitType
<1>2. safetyStopActive = FALSE /\ activeRule = "" /\ safetyEvents = << >>
  BY DEF Init, SupervisorInit, GuardInit
<1> QED
  BY <1>1, <1>2 DEF EventsInv, SafetyEventsConverge, SafetyStopHolds, GuardStopping

LEMMA NextEvents == EventsInv /\ [Next]_vars => EventsInv'
<1> SUFFICES ASSUME EventsInv, [Next]_vars PROVE EventsInv'
  OBVIOUS
<1>1. TypeOK /\ TypeOK' /\ SafetyEventsConverge /\ SafetyStopHolds
  BY NextType DEF EventsInv
<1>2. ASSUME UNCHANGED <<safetyStopActive, safetyEvents, activeRule, activeSeverity>>
      PROVE  SafetyEventsConverge'
  BY <1>1, <1>2 DEF SafetyEventsConverge, GuardStopping, IsStop
<1>3. ASSUME UNCHANGED <<supMode, safetyStopActive>>
      PROVE  SafetyStopHolds'
  BY <1>1, <1>3 DEF SafetyStopHolds
<1>4. ASSUME UNCHANGED <<supMode, safetyStopActive, safetyEvents, activeRule, activeSeverity>>
      PROVE  EventsInv'
  BY <1>1, <1>2, <1>3, <1>4 DEF EventsInv
<1> USE DEF supervisorVars, muxVars, guardVars, chainVars
<1>5. CASE UNCHANGED vars
  BY <1>4, <1>5 DEF vars
<1>6. CASE Tick \/ DeliverPolicyStatus \/ ExitSupervisor
  BY <1>4, <1>6 DEF Tick, DeliverPolicyStatus, on_policy_status, ExitSupervisor, SupervisorExit
<1>7. CASE DeliverSystemState \/ DeliverLease \/ PublishSelected
  BY <1>4, <1>7 DEF DeliverSystemState, DeliverLease, PublishSelected
<1>8. ASSUME NEW src \in Source, DeliverCandidate(src)
      PROVE  EventsInv'
  BY <1>4, <1>8 DEF DeliverCandidate
<1>9. CASE DeliverSelected \/ DeliverScan \/ DeliverOverride
  BY <1>4, <1>9 DEF DeliverSelected, DeliverScan, DeliverOverride, on_selected, on_scan,
                    on_manual_override
<1>10. CASE RequestMode
  <2>1. PICK mode \in ModeRequests : on_mode_request(mode)
    BY <1>10 DEF RequestMode
  <2>2. SafetyStopHolds'
    BY <1>1, <2>1 DEF on_mode_request, set_mode, ModeRequestAccepted, SafetyStopHolds
  <2> QED
    BY <1>1, <1>2, <1>10, <2>1, <2>2 DEF RequestMode, on_mode_request, EventsInv
<1>11. CASE RequestSafeStop
  <2>1. SafetyStopHolds'
    BY <1>11 DEF RequestSafeStop, on_safe_stop, set_mode, SafetyStopHolds
  <2> QED
    BY <1>1, <1>2, <1>11, <2>1 DEF RequestSafeStop, on_safe_stop, EventsInv
<1>12. CASE DeliverSafetyEvent
  <2>1. /\ safetyEvents # << >>
        /\ safetyStopActive' = IsStop(Head(safetyEvents))
        /\ IF IsStop(Head(safetyEvents)) THEN supMode' = MODE_SAFE_STOP ELSE supMode' = supMode
        /\ safetyEvents' = Tail(safetyEvents)
        /\ UNCHANGED <<activeRule, activeSeverity>>
    BY <1>12 DEF DeliverSafetyEvent, on_safety_event, set_mode
  <2>2. SafetyStopHolds'
    BY <2>1 DEF SafetyStopHolds
  <2>3. /\ safetyEvents \in Seq(SafetyEvent) /\ Len(safetyEvents) \in Nat
        /\ Len(safetyEvents) > 0 /\ Head(safetyEvents) = safetyEvents[1]
        /\ Len(safetyEvents') = Len(safetyEvents) - 1
        /\ \A i \in 1..Len(safetyEvents') : safetyEvents'[i] = safetyEvents[i + 1]
    <3>1. safetyEvents \in Seq(SafetyEvent)
      BY <1>1 DEF TypeOK
    <3> QED
      BY ONLY <2>1, <3>1
  <2>4. IsStop(safetyEvents[Len(safetyEvents)]) <=> GuardStopping
    BY <1>1, <2>1 DEF SafetyEventsConverge
  <2>5. GuardStopping' <=> GuardStopping
    BY <2>1 DEF GuardStopping
  <2>6. CASE safetyEvents' = << >>
    <3>1. Len(safetyEvents) = 1
      BY <2>3, <2>6
    <3> QED
      BY <1>1, <2>1, <2>2, <2>3, <2>4, <2>5, <2>6, <3>1 DEF SafetyEventsConverge, EventsInv
  <2>7. CASE safetyEvents' # << >>
    <3>1. safetyEvents' \in Seq(SafetyEvent) /\ Len(safetyEvents') > 0
      BY <1>1, <2>7 DEF TypeOK
    <3>2. safetyEvents'[Len(safetyEvents')] = safetyEvents[Len(safetyEvents)]
      <4>1. Len(safetyEvents') \in 1..Len(safetyEvents')
            /\ Len(safetyEvents') + 1 = Len(safetyEvents)
        BY <2>3, <3>1
      <4> QED
        BY <2>3, <4>1
    <3>3. SafetyEventsConverge'
      BY <2>4, <2>5, <2>7, <3>2 DEF SafetyEventsConverge, IsStop
    <3> QED
      BY <1>1, <2>2, <3>3 DEF EventsInv
  <2> QED
    BY <2>6, <2>7
<1>13. CASE PublishSafeCommand
  <2> DEFINE v == SafetyVerdict(now)
             events == publish_event(v.severity, v.rule)
             cleared == [severity |-> activeSeverity, rule |-> activeRule, active |-> FALSE]
             raised == [severity |-> v.severity, rule |-> v.rule, active |-> TRUE]
  <2>1. /\ safetyEvents' = KeepLast(safetyEvents \o events)
        /\ activeRule' = v.rule /\ activeSeverity' = v.severity
        /\ UNCHANGED <<supMode, safetyStopActive>>
    BY <1>13 DEF PublishSafeCommand, publish_safe_command
  <2>2. v.rule \in Rules /\ v.severity \in Severities
    BY <1>1, VerdictFact
  <2>3. events \in Seq(SafetyEvent) /\ safetyEvents \in Seq(SafetyEvent)
    BY <1>1, <2>2, EventsType DEF TypeOK
  <2>4. \/ events = << >> /\ activeRule = v.rule /\ (activeRule # "" => activeSeverity = v.severity)
        \/ v.rule = "" /\ EndsWith(events, cleared)
        \/ v.rule # "" /\ EndsWith(events, raised)
    BY <1>1, <2>2, EventsFact
  <2> SUFFICES SafetyEventsConverge'
    BY <1>1, <1>3, <2>1 DEF EventsInv
  <2> HIDE DEF v, events
  <2>5. CASE events = << >> /\ activeRule = v.rule /\ (activeRule # "" => activeSeverity = v.severity)
    <3>1. safetyEvents \o events = safetyEvents
      <4>1. \A q \in Seq(SafetyEvent) : q \o << >> = q
        BY ConcatEmptySeq
      <4> QED
        BY <2>3, <2>5, <4>1
    <3>2. GuardStopping' <=> GuardStopping
      BY <2>1, <2>5 DEF GuardStopping
    <3>3. CASE safetyEvents = << >>
      <4>1. safetyEvents' = << >>
        BY <2>1, <3>1, <3>3, ChainAssumption DEF KeepLast
      <4> QED
        BY <1>1, <2>1, <3>2, <3>3, <4>1 DEF SafetyEventsConverge
    <3>4. CASE safetyEvents # << >>
      <4>1. /\ safetyEvents' # << >>
            /\ safetyEvents'[Len(safetyEvents')] = safetyEvents[Len(safetyEvents)]
        BY <2>1, <2>3, <3>1, <3>4, KeepLastFact
      <4> QED
        BY <1>1, <3>2, <3>4, <4>1 DEF SafetyEventsConverge, IsStop
    <3> QED
      BY <3>3, <3>4
  <2>6. CASE v.rule = "" /\ EndsWith(events, cleared)
    <3>1. EndsWith(safetyEvents', cleared)
      BY <2>1, <2>3, <2>6, PublishedLast
    <3>2. ~IsStop(cleared) /\ ~GuardStopping'
      BY <2>1, <2>6 DEF IsStop, GuardStopping
    <3> QED
      BY <3>1, <3>2 DEF SafetyEventsConverge, EndsWith, IsStop
  <2>7. CASE v.rule # "" /\ EndsWith(events, raised)
    <3>1. EndsWith(safetyEvents', raised)
      BY <2>1, <2>3, <2>7, PublishedLast
    <3>2. IsStop(raised) <=> GuardStopping'
      BY <2>1, <2>7 DEF IsStop, GuardStopping
    <3> QED
      BY <3>1, <3>2 DEF SafetyEventsConverge, EndsWith, IsStop
  <2> QED
    BY <2>4, <2>5, <2>6, <2>7
<1> QED
  BY <1>5, <1>6, <1>7, <1>8, <1>9, <1>10, <1>11, <1>12, <1>13 DEF Next

LEMMA EventsInvariant == Spec => []EventsInv
  BY InitEvents, NextEvents, PTL DEF Spec

(* The supervisor's knowledge of the guard's stop follows the last event   *)
(* published, for every topic depth of at least one, whatever is lost.     *)
THEOREM ChainSafetyEventsConverge == Spec => []SafetyEventsConverge
<1>1. EventsInv => SafetyEventsConverge
  BY DEF EventsInv
<1> QED
  BY <1>1, EventsInvariant, PTL

(* No sequence of mode requests, safe stops and events leaves a software   *)
(* source in charge while the supervisor knows of an active stop.          *)
THEOREM ChainSafetyStopHolds == Spec => []SafetyStopHolds
<1>1. EventsInv => SafetyStopHolds
  BY DEF EventsInv
<1> QED
  BY <1>1, EventsInvariant, PTL

=============================================================================
