-------------------- MODULE OperationOrchestratorProofs --------------------
(***************************************************************************)
(* Proofs about OperationOrchestrator, for any components and any          *)
(* configuration of their dependencies, cycles included, any profiles and  *)
(* requests and any number of HTTP workers.                                *)
(***************************************************************************)
EXTENDS OperationOrchestrator, SequenceTheorems, TLAPS

Told == Outcome \cup {"nothing", "waiting", "timeout", "accepted", "refused"}
Message == [caller : Callers, number : Nat, what : Request]
Frame == [id : Component \cup {c.id : c \in Commands},
          action : {"start", "stop", "restart"} \cup {c.action : c \in Commands},
          force : BOOLEAN, found : BOOLEAN, unread : SUBSET Component, deps : Seq(Component)]
Caller == [number : Nat, service : Service, told : Told]

(* The types behind TypeOK.  Everything on the stack has been visited, so  *)
(* that a recursive call is for a component that is not on it.             *)
CallTypes ==
    /\ requests \in [Service -> Seq(Message)]
    /\ serving = NoRequest \/ serving \in Message
    /\ todo \in Seq(Component)
    /\ stack \in Seq(Frame)
    /\ caller \in [Callers -> Caller]
    /\ \A i \in 1..Len(stack) : stack[i].id \in visited
    /\ serving = NoRequest => stack = << >> /\ todo = << >>
    /\ todo # << >> => serving.what.kind = "profile"

(* A request has one of the numbers its worker has given, the last one     *)
(* only if it went to the service the worker asked last.                   *)
Sent(m, workers) ==
    /\ m.number <= workers[m.caller].number
    /\ m.number = workers[m.caller].number => workers[m.caller].service = m.what.kind

(* Of two requests of a worker to one service, m was sent first.           *)
Before(m, n) == (m.caller = n.caller /\ m.what.kind = n.what.kind) => m.number < n.number

(* A service takes requests in the order a worker numbered them.           *)
QueueInv ==
    /\ \A s \in Service : \A i \in 1..Len(requests[s]) :
          /\ requests[s][i].what.kind = s
          /\ Sent(requests[s][i], caller)
          /\ serving # NoRequest => Before(serving, requests[s][i])
    /\ \A s \in Service : \A i, j \in 1..Len(requests[s]) :
          i < j => Before(requests[s][i], requests[s][j])
    /\ serving # NoRequest => Sent(serving, caller)
    /\ NothingLeftBehind

(* A stop makes no recursive call: it stands alone on the stack.  Of the   *)
(* dependents an unforced stop has read, every managed one has been found, *)
(* or came up since it was read.  Once a stop has returned, its unit is    *)
(* remembered as stopped, although perhaps for too long.                   *)
StopInv ==
    /\ \A i \in 1..Len(stack) :
          /\ stack[i].action = "stop" => Len(stack) = 1 /\ stack[i].deps = << >>
          /\ (stack[i].action = "stop" /\ ~stack[i].force /\ ~stack[i].found) =>
                \A d \in Dependents(stack[i].id) :
                    Managed(unit[d]) => d \in intruders \cup stack[i].unread
    /\ (serving # NoRequest /\ serving.what.kind = "component") =>
          IF stack = << >>
          THEN serving.what.action = "stop" => recently_stopped[serving.what.id] # "none"
          ELSE stack[1].id = serving.what.id
    /\ stack # << >> => stack[1].action = serving.what.action

(* What a call has visited is started or on the stack, and what it has     *)
(* still to visit of a component's dependencies is in its list.            *)
StartInv ==
    /\ stack # << >> => visited \subseteq done \cup {stack[i].id : i \in 1..Len(stack)}
    /\ \A i \in 1..Len(stack) :
          (/\ stack[i].action \in {"start", "restart"} /\ ~stack[i].force
           /\ stack[i].id \in Component) =>
             \A d \in ToSet(dependencies[stack[i].id]) : d \in visited \cup ToSet(stack[i].deps)

(* A profile stop goes through its list from the end: left are the ones it *)
(* has still to call control_component for, in the order it will do so.    *)
StopProgress(list, left, calls, controlled) ==
    /\ Len(left) + Len(calls) <= Len(list) /\ Len(calls) <= 1
    /\ \A k \in 1..Len(left) : left[k] = list[Len(left) - k + 1]
    /\ \A i \in 1..Len(calls) : calls[i].id = list[Len(left) + 1] /\ calls[i].action = "stop"
    /\ \A j \in 1..Len(list) : j > Len(left) + Len(calls) => list[j] \in controlled

ProfileInv ==
    (serving # NoRequest /\ serving.what.kind = "profile" /\ serving.what.action = "stop") =>
        StopProgress(serving.what.list, todo, stack, done)

OrchestratorInv ==
    TypeOK /\ CallTypes /\ QueueInv /\ StopInv /\ StartInv /\ ProfileInv

USE OrchestratorAssumption

-----------------------------------------------------------------------------
(* Requests and units. *)

(* What the kinds of request are made of.                                  *)
LEMMA RequestParts ==
    ASSUME NEW r \in Request
    PROVE  /\ r.kind \in {"list", "component", "profile"}
           /\ r.kind = "component" => /\ r.id \in {c.id : c \in Commands}
                                      /\ r.action \in {c.action : c \in Commands}
                                      /\ r.force \in BOOLEAN
           /\ r.kind = "profile" => /\ r.list \in Seq(Component)
                                    /\ r.action \in {"start", "stop", "restart"}
<1>1. CASE r \in {ListRequest}
  BY <1>1 DEF ListRequest
<1>2. CASE r \in ComponentRequest
  <2>1. PICK c \in Commands :
           r = [kind |-> "component", id |-> c.id, action |-> c.action, force |-> c.force]
    BY <1>2 DEF ComponentRequest
  <2>2. c.force \in BOOLEAN
    OBVIOUS
  <2> QED
    BY <2>1, <2>2
<1>3. CASE r \in ProfileRequest
  BY <1>3 DEF ProfileRequest
<1> QED
  BY <1>1, <1>2, <1>3 DEF Request

LEMMA MessageIsRequest == \A m \in Message : m # NoRequest
<1> SUFFICES ASSUME NEW m \in Message, m = NoRequest PROVE FALSE
  OBVIOUS
<1>1. "caller" \in DOMAIN m
  BY DEF Message
<1>2. DOMAIN m = {"kind"}
  BY DEF NoRequest
<1> QED
  BY <1>1, <1>2

(* What is known of the requests in the queues and of the one served.      *)
LEMMA MessageTypes ==
    ASSUME CallTypes
    PROVE  /\ \A s \in Service :
                 /\ requests[s] \in Seq(Message) /\ Len(requests[s]) \in Nat
                 /\ DOMAIN requests[s] = 1..Len(requests[s])
                 /\ \A i \in 1..Len(requests[s]) :
                       /\ requests[s][i] \in Message
                       /\ requests[s][i].caller \in Callers /\ requests[s][i].number \in Nat
           /\ serving # NoRequest =>
                 serving \in Message /\ serving.caller \in Callers /\ serving.number \in Nat
<1>1. \A s \in Service : requests[s] \in Seq(Message)
  BY DEF CallTypes
<1>2. \A s \in Service : \A i \in 1..Len(requests[s]) : requests[s][i] \in Message
  BY <1>1
<1>3. serving # NoRequest => serving \in Message
  BY DEF CallTypes
<1>4. \A s \in Service : Len(requests[s]) \in Nat /\ DOMAIN requests[s] = 1..Len(requests[s])
  BY <1>1
<1>5. \A m \in Message : m.caller \in Callers /\ m.number \in Nat
  BY DEF Message
<1> QED
  BY <1>1, <1>2, <1>3, <1>4, <1>5

(* A unit that comes up is noted.                                          *)
UnitStep ==
    /\ unit' \in [Component -> ActiveState]
    /\ \A d \in Component : Managed(unit'[d]) => Managed(unit[d]) \/ d \in intruders'
    /\ intruders \subseteq intruders'

LEMMA SetUnitStep ==
    ASSUME NEW new \in [Component -> ActiveState], SetUnit(new) PROVE UnitStep
  BY DEF SetUnit, UnitStep

LEMMA StartUnitStep ==
    ASSUME unit \in [Component -> ActiveState], NEW c, StartUnit(c) PROVE UnitStep
<1>1. PICK up \in SUBSET (Wanted(c) \cap Installed) :
         SetUnit([d \in Component |-> IF d \in up THEN "active" ELSE unit[d]])
  BY DEF StartUnit
<1>2. [d \in Component |-> IF d \in up THEN "active" ELSE unit[d]] \in [Component -> ActiveState]
  BY DEF ActiveState
<1> QED
  BY <1>1, <1>2, SetUnitStep

LEMMA ChangeUnitStep ==
    ASSUME unit \in [Component -> ActiveState], NEW c, NEW u \in ActiveState,
           SetUnit([unit EXCEPT ![c] = u])
    PROVE  UnitStep
<1>1. [unit EXCEPT ![c] = u] \in [Component -> ActiveState]
  OBVIOUS
<1> QED
  BY <1>1, SetUnitStep

LEMMA StopUnitStep ==
    ASSUME unit \in [Component -> ActiveState], NEW c, StopUnit(c) PROVE UnitStep
<1>1. PICK u \in {"inactive", "failed"} : SetUnit([unit EXCEPT ![c] = u])
  BY DEF StopUnit
<1>2. u \in ActiveState
  BY DEF ActiveState
<1> QED
  BY <1>1, <1>2, ChangeUnitStep

(* The units move by themselves: a checked stop still holds up.            *)
LEMMA UnitsKeepInv ==
    ASSUME OrchestratorInv, UnitStep, UNCHANGED <<dependencies, callVars, requests, caller>>
    PROVE  OrchestratorInv'
<1> USE DEF OrchestratorInv, callVars
<1>1. TypeOK'
  BY DEF TypeOK, UnitStep
<1>2. CallTypes' /\ StartInv' /\ ProfileInv'
  BY DEF CallTypes, StartInv, ProfileInv
<1>3. QueueInv'
  BY DEF QueueInv, NothingLeftBehind
<1>4. StopInv'
  <2>1. ASSUME NEW i \in 1..Len(stack), stack[i].action = "stop", ~stack[i].force,
               ~stack[i].found, NEW d \in Dependents(stack[i].id), Managed(unit'[d])
        PROVE  d \in intruders' \cup stack[i].unread
    <3>1. d \in Component /\ (Managed(unit[d]) => d \in intruders \cup stack[i].unread)
      BY <2>1 DEF StopInv, Dependents
    <3> QED
      BY <2>1, <3>1 DEF UnitStep
  <2>2. \A i \in 1..Len(stack) : Dependents(stack[i].id)' = Dependents(stack[i].id)
    BY DEF Dependents
  <2> QED
    BY <2>1, <2>2 DEF StopInv
<1> QED
  BY <1>1, <1>2, <1>3, <1>4

LEMMA SystemdKeepsInv ==
    ASSUME OrchestratorInv,
           \/ \E c \in Unsteady : UnitEnds(c)
           \/ \E c \in Component : AutoRestart(c)
           \/ \E c \in Intrusions : Intrude(c)
    PROVE  OrchestratorInv'
<1>0. unit \in [Component -> ActiveState]
  BY DEF OrchestratorInv, TypeOK
<1>1. ASSUME NEW c, UnitEnds(c) PROVE OrchestratorInv'
  <2>1. PICK u \in {"inactive", "activating", "failed"} : SetUnit([unit EXCEPT ![c] = u])
    BY <1>1 DEF UnitEnds
  <2>2. u \in ActiveState
    BY DEF ActiveState
  <2> QED
    BY <1>0, <1>1, <2>1, <2>2, ChangeUnitStep, UnitsKeepInv DEF UnitEnds
<1>2. ASSUME NEW c, AutoRestart(c) PROVE OrchestratorInv'
  BY <1>0, <1>2, StartUnitStep, UnitsKeepInv DEF AutoRestart
<1>3. ASSUME NEW c, Intrude(c) PROVE OrchestratorInv'
  <2>1. "deactivating" \in ActiveState
    BY DEF ActiveState
  <2>2. UnitStep
    BY <1>0, <1>3, <2>1, StartUnitStep, ChangeUnitStep, StopUnitStep DEF Intrude
  <2> QED
    BY <1>3, <2>2, UnitsKeepInv DEF Intrude
<1> QED
  BY <1>1, <1>2, <1>3

-----------------------------------------------------------------------------
(* The workers of the API. *)

LEMMA OrchestratorInitInv == Init => OrchestratorInv
<1> SUFFICES ASSUME Init PROVE OrchestratorInv
  OBVIOUS
<1> USE DEF Init
<1>1. TypeOK
  BY DEF TypeOK, load_configuration, ActiveState
<1>2. CallTypes
  BY DEF CallTypes, Caller, Service, Told
<1>3. QueueInv
  BY DEF QueueInv, NothingLeftBehind
<1>4. StopInv /\ StartInv /\ ProfileInv
  BY DEF StopInv, StartInv, ProfileInv
<1> QED
  BY <1>1, <1>2, <1>3, <1>4 DEF OrchestratorInv

(* What the invariant says of the calls depends on these only.             *)
LEMMA CallsUnchanged ==
    ASSUME OrchestratorInv, UNCHANGED <<dependencies, systemdVars, callVars>>
    PROVE  StopInv' /\ StartInv' /\ ProfileInv'
  BY DEF OrchestratorInv, StopInv, StartInv, ProfileInv, Dependents, systemdVars, callVars

(* A worker that gives its next number, to whatever service, has sent the  *)
(* earlier requests before.                                                *)
LEMMA SentEarlier ==
    ASSUME caller \in [Callers -> Caller], NEW w \in Callers, NEW k \in Service,
           caller' = [caller EXCEPT ![w] =
                         [number |-> caller[w].number + 1, service |-> k, told |-> "waiting"]],
           NEW m, m.caller \in Callers, m.number \in Nat, Sent(m, caller)
    PROVE  /\ Sent(m, caller')
           /\ m.caller = w => m.number < caller'[w].number
<1>1. caller[w].number \in Nat
  BY DEF Caller
<1>2. CASE m.caller = w
  <2>1. caller'[w].number = caller[w].number + 1 /\ m.number <= caller[w].number
    BY <1>2 DEF Sent
  <2> QED
    BY <1>1, <1>2, <2>1 DEF Sent
<1>3. CASE m.caller # w
  <2>1. caller'[m.caller] = caller[m.caller]
    BY <1>3
  <2> QED
    BY <1>3, <2>1 DEF Sent
<1> QED
  BY <1>2, <1>3

LEMMA SendKeepsInv ==
    ASSUME OrchestratorInv, NEW w \in Callers, SendRequest(w) PROVE OrchestratorInv'
<1> USE DEF OrchestratorInv
<1>0. UNCHANGED <<dependencies, systemdVars, callVars>>
  BY DEF SendRequest
<1> DEFINE n == caller[w].number + 1
<1>1. PICK r \in Request :
         /\ requests' = [requests EXCEPT ![r.kind] =
                            Append(@, [caller |-> w, number |-> n, what |-> r])]
         /\ caller' = [caller EXCEPT ![w] =
                            [number |-> n, service |-> r.kind, told |-> "waiting"]]
  BY DEF SendRequest
<1> DEFINE m == [caller |-> w, number |-> n, what |-> r]
           k == r.kind
<1>2. /\ caller \in [Callers -> Caller] /\ requests \in [Service -> Seq(Message)]
      /\ caller[w].number \in Nat /\ k \in Service
  BY RequestParts DEF CallTypes, Caller, Service
<1>3. m \in Message /\ m.caller = w /\ m.number = n /\ m.what.kind = k
  BY <1>2 DEF Message
<1>4. /\ caller'[w] = [number |-> n, service |-> k, told |-> "waiting"]
      /\ \A v \in Callers : v # w => caller'[v] = caller[v]
      /\ caller' \in [Callers -> Caller]
  <2>1. [number |-> n, service |-> k, told |-> "waiting"] \in Caller
    BY <1>2 DEF Caller, Told
  <2> HIDE DEF n, k
  <2> QED
    BY <1>1, <1>2, <2>1 DEF k
<1>5. /\ requests' \in [Service -> Seq(Message)]
      /\ requests'[k] = Append(requests[k], m)
      /\ \A s \in Service : s # k => requests'[s] = requests[s]
  <2>1. Append(requests[k], m) \in Seq(Message)
    BY <1>2, <1>3
  <2> HIDE DEF m, k
  <2> QED
    BY <1>1, <1>2, <2>1 DEF m, k
<1>6. /\ Len(requests'[k]) = Len(requests[k]) + 1 /\ Len(requests[k]) \in Nat
      /\ requests'[k][Len(requests[k]) + 1] = m
      /\ \A i \in 1..Len(requests[k]) : requests'[k][i] = requests[k][i]
  <2>1. requests[k] \in Seq(Message)
    BY <1>2
  <2> HIDE DEF m, k
  <2> QED
    BY <1>3, <1>5, <2>1
<1>7. TypeOK'
  <2>1. \A v \in Callers : caller'[v].told \in Told
    BY <1>4 DEF Caller
  <2> QED
    BY <1>0, <2>1 DEF TypeOK, systemdVars, callVars, Told
<1>8. CallTypes'
  BY <1>0, <1>4, <1>5 DEF CallTypes, callVars
<1>9. ASSUME NEW a, a.caller \in Callers, a.number \in Nat, Sent(a, caller)
      PROVE  /\ Sent(a, caller')
             /\ Before(a, m)
  <2>1. Sent(a, caller') /\ (a.caller = w => a.number < caller'[w].number)
    BY <1>1, <1>2, <1>9, SentEarlier
  <2> QED
    BY <1>3, <1>4, <2>1 DEF Before
<1>10. /\ \A s \in Service : \A i \in 1..Len(requests[s]) :
            requests[s][i].caller \in Callers /\ requests[s][i].number \in Nat
       /\ serving # NoRequest => serving.caller \in Callers /\ serving.number \in Nat
  BY MessageTypes
<1>11. Sent(m, caller')
  BY <1>2, <1>3, <1>4 DEF Sent
<1> HIDE DEF m, k, n
<1>12. ASSUME NEW s \in Service, NEW i \in 1..Len(requests'[s])
       PROVE  \/ i \in 1..Len(requests[s]) /\ requests'[s][i] = requests[s][i]
              \/ s = k /\ i = Len(requests[s]) + 1 /\ requests'[s][i] = m
  <2>1. CASE s = k
    BY <1>6, <1>12, <2>1
  <2>2. CASE s # k
    BY <1>5, <1>12, <2>2
  <2> QED
    BY <2>1, <2>2
<1>13. QueueInv'
  <2>1. ASSUME NEW s \in Service, NEW i \in 1..Len(requests'[s])
        PROVE  /\ requests'[s][i].what.kind = s
               /\ Sent(requests'[s][i], caller')
               /\ serving' # NoRequest => Before(serving', requests'[s][i])
    <3>1. CASE i \in 1..Len(requests[s]) /\ requests'[s][i] = requests[s][i]
      <4>1. /\ requests[s][i].what.kind = s /\ Sent(requests[s][i], caller)
            /\ serving # NoRequest => Before(serving, requests[s][i])
        BY <3>1 DEF QueueInv
      <4> QED
        BY <1>0, <1>9, <1>10, <3>1, <4>1 DEF callVars
    <3>2. CASE s = k /\ requests'[s][i] = m
      <4>1. serving # NoRequest => Before(serving, m)
        BY <1>9, <1>10 DEF QueueInv
      <4> QED
        BY <1>0, <1>3, <1>11, <3>2, <4>1 DEF callVars
    <3> QED
      BY <1>12, <3>1, <3>2
  <2>2. ASSUME NEW s \in Service, NEW i \in 1..Len(requests'[s]), NEW j \in 1..Len(requests'[s]),
               i < j
        PROVE  Before(requests'[s][i], requests'[s][j])
    <3>1. i \in 1..Len(requests[s]) /\ requests'[s][i] = requests[s][i]
      <4>1. CASE s = k
        BY <1>6, <2>2, <4>1
      <4>2. CASE s # k
        BY <1>5, <2>2, <4>2
      <4> QED
        BY <4>1, <4>2
    <3>2. CASE j \in 1..Len(requests[s]) /\ requests'[s][j] = requests[s][j]
      BY <2>2, <3>1, <3>2 DEF QueueInv
    <3>3. CASE requests'[s][j] = m
      <4>1. Sent(requests[s][i], caller)
        BY <3>1 DEF QueueInv
      <4> QED
        BY <1>9, <1>10, <3>1, <3>3, <4>1
    <3> QED
      BY <1>12, <3>2, <3>3
  <2>3. serving' # NoRequest => Sent(serving', caller')
    BY <1>0, <1>9, <1>10 DEF QueueInv, callVars
  <2>4. NothingLeftBehind'
    <3> SUFFICES ASSUME NEW v \in Callers,
                        caller'[v].told \notin {"nothing", "waiting", "timeout"}
                 PROVE  /\ \A i \in DOMAIN requests'[caller'[v].service] :
                              requests'[caller'[v].service][i].caller # v
                        /\ \/ serving' = NoRequest \/ serving'.caller # v
                           \/ serving'.what.kind # caller'[v].service
      BY DEF NothingLeftBehind
    <3>1. v # w /\ caller'[v] = caller[v]
      BY <1>4
    <3> DEFINE t == caller[v].service
    <3>2. t \in Service
      BY <1>2 DEF Caller
    <3>3. /\ \A i \in DOMAIN requests[t] : requests[t][i].caller # v
          /\ serving = NoRequest \/ serving.caller # v \/ serving.what.kind # t
      BY <3>1 DEF QueueInv, NothingLeftBehind
    <3>4. /\ DOMAIN requests[t] = 1..Len(requests[t])
          /\ DOMAIN requests'[t] = 1..Len(requests'[t])
      <4>1. requests[t] \in Seq(Message) /\ requests'[t] \in Seq(Message)
        BY <1>2, <1>5, <3>2
      <4> QED
        BY <4>1
    <3> HIDE DEF t
    <3>5. \A i \in 1..Len(requests'[t]) : requests'[t][i].caller # v
      BY <1>3, <1>12, <3>1, <3>2, <3>3, <3>4
    <3> QED
      BY <1>0, <3>1, <3>3, <3>4, <3>5 DEF t, callVars
  <2> QED
    BY <2>1, <2>2, <2>3, <2>4 DEF QueueInv
<1> QED
  BY <1>0, <1>7, <1>8, <1>13, CallsUnchanged

(* What the invariant says of the queues when the workers keep the numbers *)
(* and services of their last requests.                                    *)
LEMMA QueuesKept ==
    ASSUME QueueInv, CallTypes, UNCHANGED requests, serving' = serving \/ serving' = NoRequest,
           \A v \in Callers : /\ caller'[v].number = caller[v].number
                              /\ caller'[v].service = caller[v].service,
           NothingLeftBehind'
    PROVE  QueueInv'
<1>1. ASSUME NEW m, m.caller \in Callers, Sent(m, caller) PROVE Sent(m, caller')
  BY <1>1 DEF Sent
<1>2. /\ \A s \in Service : \A i \in 1..Len(requests[s]) : requests[s][i].caller \in Callers
      /\ serving # NoRequest => serving.caller \in Callers
  BY MessageTypes
<1>3. ASSUME NEW s \in Service, NEW i \in 1..Len(requests[s])
      PROVE  /\ requests[s][i].what.kind = s
             /\ Sent(requests[s][i], caller')
             /\ serving' # NoRequest => Before(serving', requests[s][i])
  BY <1>1, <1>2, <1>3 DEF QueueInv
<1>4. serving' # NoRequest => Sent(serving', caller')
  BY <1>1, <1>2 DEF QueueInv
<1> QED
  BY <1>3, <1>4 DEF QueueInv

LEMMA TimeoutKeepsInv ==
    ASSUME OrchestratorInv, NEW w \in Callers, RequestTimesOut(w) PROVE OrchestratorInv'
<1> USE DEF OrchestratorInv
<1>0. UNCHANGED <<dependencies, systemdVars, callVars, requests>>
  BY DEF RequestTimesOut
<1>1. /\ caller' \in [Callers -> Caller]
      /\ \A v \in Callers : /\ caller'[v].number = caller[v].number
                            /\ caller'[v].service = caller[v].service
      /\ \A v \in Callers : caller'[v].told \in {caller[v].told, "timeout"}
  BY DEF RequestTimesOut, CallTypes, Caller, Told
<1>2. TypeOK'
  <2>1. \A v \in Callers : caller'[v].told \in Told
    BY <1>1 DEF Caller
  <2> QED
    BY <1>0, <2>1 DEF TypeOK, systemdVars, callVars, Told
<1>3. CallTypes'
  BY <1>0, <1>1 DEF CallTypes, callVars
<1>4. QueueInv'
  <2>1. NothingLeftBehind'
    <3> SUFFICES ASSUME NEW v \in Callers,
                        caller'[v].told \notin {"nothing", "waiting", "timeout"}
                 PROVE  /\ \A i \in DOMAIN requests[caller[v].service] :
                              requests[caller[v].service][i].caller # v
                        /\ \/ serving = NoRequest \/ serving.caller # v
                           \/ serving.what.kind # caller[v].service
      <4>1. serving' = serving /\ requests' = requests
        BY <1>0 DEF callVars
      <4>2. \A v \in Callers : caller'[v].service = caller[v].service
        BY <1>1
      <4> QED
        BY <4>1, <4>2 DEF NothingLeftBehind
    <3>1. caller[v].told \notin {"nothing", "waiting", "timeout"}
      BY <1>1
    <3> QED
      BY <3>1 DEF QueueInv, NothingLeftBehind
  <2> QED
    BY <1>0, <1>1, <2>1, QueuesKept DEF callVars
<1> QED
  BY <1>0, <1>2, <1>3, <1>4, CallsUnchanged

(* The reply to a request ends it.  A worker that is told the outcome of   *)
(* its last request has no earlier one left.                               *)
LEMMA ReplyKeepsInv ==
    ASSUME OrchestratorInv, serving # NoRequest,
           NEW told \in Outcome \cup {"accepted", "refused"}, Reply(told),
           UNCHANGED <<dependencies, requests>>,
           recently_stopped' \in [Component -> {"none", "young", "old"}],
           unit' \in [Component -> ActiveState]
    PROVE  OrchestratorInv'
<1> USE DEF OrchestratorInv
<1>0. serving' = NoRequest /\ stack' = << >> /\ todo' = << >>
  BY DEF Reply
<1>1. /\ caller \in [Callers -> Caller] /\ serving.caller \in Callers /\ serving.number \in Nat
      /\ \A s \in Service :
            /\ DOMAIN requests[s] = 1..Len(requests[s])
            /\ \A i \in 1..Len(requests[s]) :
                  requests[s][i].caller \in Callers /\ requests[s][i].number \in Nat
  BY MessageTypes DEF CallTypes
<1>2. /\ caller' \in [Callers -> Caller]
      /\ \A v \in Callers : /\ caller'[v].number = caller[v].number
                            /\ caller'[v].service = caller[v].service
  <2>1. told \in Told
    BY DEF Told
  <2> QED
    BY <1>1, <2>1 DEF Reply, Caller
<1>3. ASSUME NEW v \in Callers
      PROVE  \/ caller'[v].told = caller[v].told
             \/ v = serving.caller /\ caller[v].number = serving.number
  BY <1>1 DEF Reply
<1>4. TypeOK'
  <2>1. \A v \in Callers : caller'[v].told \in Told
    BY <1>2 DEF Caller
  <2> QED
    BY <1>0, <2>1 DEF TypeOK, Told
<1>5. CallTypes'
  BY <1>0, <1>2 DEF CallTypes
<1>6. QueueInv'
  <2>1. NothingLeftBehind'
    <3> SUFFICES ASSUME NEW v \in Callers,
                        caller'[v].told \notin {"nothing", "waiting", "timeout"},
                        NEW i \in DOMAIN requests[caller[v].service],
                        requests[caller[v].service][i].caller = v
                 PROVE  FALSE
      BY <1>0, <1>2 DEF NothingLeftBehind
    <3> DEFINE t == caller[v].service
               m == requests[t][i]
    <3>0. t \in Service /\ i \in 1..Len(requests[t]) /\ m.number \in Nat
      <4>1. t \in Service
        BY <1>1 DEF Caller
      <4> QED
        BY <1>1, <4>1
    <3>1. CASE caller'[v].told = caller[v].told
      BY <3>1 DEF QueueInv, NothingLeftBehind
    <3>2. CASE v = serving.caller /\ caller[v].number = serving.number
      <4>1. /\ m.what.kind = t /\ Sent(m, caller) /\ Before(serving, m) /\ Sent(serving, caller)
        BY <3>0 DEF QueueInv
      <4>2. serving.what.kind = t
        BY <3>2, <4>1 DEF Sent
      <4>3. serving.number < m.number /\ m.number <= serving.number
        BY <3>2, <4>1, <4>2 DEF Sent, Before
      <4> QED
        BY <1>1, <3>0, <4>3
    <3> QED
      BY <1>3, <3>1, <3>2
  <2> QED
    BY <1>0, <1>2, <2>1, QueuesKept
<1>7. StopInv' /\ StartInv' /\ ProfileInv'
  BY <1>0 DEF StopInv, StartInv, ProfileInv
<1> QED
  BY <1>4, <1>5, <1>6, <1>7

LEMMA EraseOldTypes ==
    ASSUME TypeOK, NEW read, EraseOld(read)
    PROVE  recently_stopped' \in [Component -> {"none", "young", "old"}]
  BY DEF EraseOld, TypeOK

(* The state inspect reports is one of the outcomes.                       *)
LEMMA InspectOutcome ==
    ASSUME NEW c, NEW view PROVE inspect(c, view) \in Outcome
  BY Zenon DEF inspect, Outcome

LEMMA FinishKeepsInv ==
    ASSUME OrchestratorInv, FinishRequest PROVE OrchestratorInv'
<1>1. PICK view \in GraphView :
         Reply(IF serving.what.kind = "component" THEN inspect(serving.what.id, view)
               ELSE "accepted")
  BY DEF FinishRequest
<1>2. (IF serving.what.kind = "component" THEN inspect(serving.what.id, view) ELSE "accepted")
         \in Outcome \cup {"accepted", "refused"}
  BY InspectOutcome
<1>3. /\ serving # NoRequest /\ UNCHANGED <<dependencies, requests>>
      /\ unit' \in [Component -> ActiveState]
      /\ recently_stopped' \in [Component -> {"none", "young", "old"}]
  BY EraseOldTypes DEF FinishRequest, systemdVars, OrchestratorInv, TypeOK
<1> QED
  BY <1>1, <1>2, <1>3, ReplyKeepsInv

(* An exception, wherever it is thrown.                                    *)
LEMMA ThrowKeepsInv ==
    ASSUME OrchestratorInv, stack # << >>, Throw,
           UNCHANGED <<dependencies, requests, recently_stopped>>,
           unit' \in [Component -> ActiveState]
    PROVE  OrchestratorInv'
<1>1. /\ serving # NoRequest
      /\ recently_stopped' \in [Component -> {"none", "young", "old"}]
  BY DEF OrchestratorInv, CallTypes, TypeOK
<1>2. "refused" \in Outcome \cup {"accepted", "refused"} /\ Reply("refused")
  BY DEF Throw
<1> QED
  BY <1>1, <1>2, ReplyKeepsInv

LEMMA RefusalsKeepInv ==
    ASSUME OrchestratorInv, SystemctlFails \/ RefuseCall \/ CheckDependents PROVE OrchestratorInv'
<1>0. unit \in [Component -> ActiveState]
  BY DEF OrchestratorInv, TypeOK
<1>1. CASE SystemctlFails
  <2> DEFINE c == Last(stack).id
  <2>1. CASE c \in Installed
    <3>1. PICK up \in SUBSET Component, u \in {unit[c], "failed"} :
             SetUnit([d \in Component |-> IF d = c THEN u
                                          ELSE IF d \in up THEN "active" ELSE unit[d]])
      BY <1>1, <2>1 DEF SystemctlFails
    <3>2. [d \in Component |-> IF d = c THEN u ELSE IF d \in up THEN "active" ELSE unit[d]]
             \in [Component -> ActiveState]
      <4>1. u \in ActiveState /\ "active" \in ActiveState
        BY <1>0, <1>1 DEF SystemctlFails, Ready, ActiveState
      <4> HIDE DEF c
      <4> QED
        BY <1>0, <4>1
    <3>3. unit' \in [Component -> ActiveState]
      BY <3>1, <3>2, SetUnitStep DEF UnitStep
    <3> QED
      BY <1>1, <3>3, ThrowKeepsInv DEF SystemctlFails
  <2>2. CASE c \notin Installed
    <3>1. unit' = unit
      BY <1>1, <2>2 DEF SystemctlFails, systemdVars
    <3> QED
      BY <1>0, <1>1, <3>1, ThrowKeepsInv DEF SystemctlFails
  <2> QED
    BY <2>1, <2>2
<1>2. CASE RefuseCall \/ CheckDependents
  BY <1>0, <1>2, ThrowKeepsInv DEF RefuseCall, CheckDependents, systemdVars
<1> QED
  BY <1>1, <1>2

LEMMA AgeKeepsInv ==
    ASSUME OrchestratorInv, NEW c \in Component, StopAges(c) PROVE OrchestratorInv'
<1> USE DEF OrchestratorInv, systemdVars
<1>0. /\ UNCHANGED <<dependencies, unit, intruders, requests, serving, todo, stack, visited, done,
                     caller>>
      /\ recently_stopped' \in [Component -> {"none", "young", "old"}]
      /\ \A d : recently_stopped[d] # "none" => recently_stopped'[d] # "none"
  BY DEF StopAges, TypeOK
<1>1. TypeOK'
  BY <1>0 DEF TypeOK
<1>2. CallTypes'
  BY <1>0 DEF CallTypes
<1>3. QueueInv'
  BY <1>0 DEF QueueInv, NothingLeftBehind
<1>4. StopInv'
  <2>1. \A d : Dependents(d)' = Dependents(d)
    BY <1>0 DEF Dependents
  <2> QED
    BY <1>0, <2>1 DEF StopInv
<1>5. StartInv' /\ ProfileInv'
  BY <1>0 DEF StartInv, ProfileInv
<1> QED
  BY <1>1, <1>2, <1>3, <1>4, <1>5

-----------------------------------------------------------------------------
(* control_component. *)

Ids == Component \cup {c.id : c \in Commands}
Actions == {"start", "stop", "restart"} \cup {c.action : c \in Commands}

(* A new call has all the dependencies before it that it must start.       *)
LEMMA CallFrame ==
    ASSUME dependencies \in Configurations,
           NEW id \in Ids, NEW action \in Actions, NEW force \in BOOLEAN
    PROVE  LET f == Call(id, action, force) IN
           /\ f \in Frame /\ f.id = id /\ f.action = action /\ f.force = force
           /\ (action = "stop" /\ ~force) => f.unread = Component
           /\ action = "stop" => f.deps = << >>
           /\ (action \in {"start", "restart"} /\ ~force /\ id \in Component) =>
                 f.deps = dependencies[id]
<1>1. << >> \in Seq(Component) /\ dependencies \in [Component -> Seq(Component)]
  OBVIOUS
<1>2. (IF action \in {"start", "restart"} /\ ~force /\ id \in Component
       THEN dependencies[id] ELSE << >>) \in Seq(Component)
  BY <1>1
<1> QED
  BY <1>2 DEF Call, Frame, Ids, Actions

(* A call at the bottom of the stack, with a set visited of its own.       *)
LEMMA FirstCall ==
    ASSUME TypeOK, NEW id \in Ids, NEW action \in Actions, NEW force \in BOOLEAN,
           Enter(<< >>, id, action, force), UNCHANGED dependencies
    PROVE  /\ stack' \in Seq(Frame) /\ Len(stack') = 1 /\ stack' # << >>
           /\ stack'[1].id = id /\ stack'[1].action = action
           /\ \A i \in 1..Len(stack') :
                 /\ stack'[i].id \in visited'
                 /\ stack'[i].action = "stop" => Len(stack') = 1 /\ stack'[i].deps = << >>
                 /\ (stack'[i].action = "stop" /\ ~stack'[i].force) => stack'[i].unread = Component
           /\ StartInv'
<1> DEFINE f == Call(id, action, force)
<1>1. /\ f \in Frame /\ f.id = id /\ f.action = action /\ f.force = force
      /\ (action = "stop" /\ ~force) => f.unread = Component
      /\ action = "stop" => f.deps = << >>
      /\ (action \in {"start", "restart"} /\ ~force /\ id \in Component) =>
            f.deps = dependencies[id]
  BY CallFrame DEF TypeOK
<1>2. stack' = Append(<< >>, f) /\ visited' = {id}
  BY DEF Enter
<1> HIDE DEF f
<1>3. stack' \in Seq(Frame) /\ Len(stack') = 1 /\ stack' # << >> /\ stack'[1] = f
  BY <1>1, <1>2
<1>4. \A i \in 1..Len(stack') : i = 1 /\ stack'[i] = f
  BY <1>3
<1>5. StartInv'
  <2>1. visited' \subseteq done' \cup {stack'[i].id : i \in 1..Len(stack')}
    <3>1. 1 \in 1..Len(stack') /\ stack'[1].id = id
      BY <1>1, <1>3
    <3> QED
      BY <1>2, <3>1
  <2>2. ASSUME NEW i \in 1..Len(stack'),
               stack'[i].action \in {"start", "restart"}, ~stack'[i].force,
               stack'[i].id \in Component,
               NEW d \in ToSet(dependencies'[stack'[i].id])
        PROVE  d \in ToSet(stack'[i].deps)
    BY <1>1, <1>4, <2>2
  <2> QED
    BY <2>1, <2>2 DEF StartInv
<1> QED
  BY <1>1, <1>2, <1>3, <1>4, <1>5

LEMMA UniqueIds ==
    ASSUME NEW s \in Seq(Frame), Len(s) = 1 PROVE \A i, j \in DOMAIN s : i = j
  OBVIOUS

(* The next request of a service is its oldest: what its worker sent to    *)
(* this service later comes later.                                         *)
LEMMA TakeKeepsQueue ==
    ASSUME OrchestratorInv, NEW s \in Service, requests[s] # << >>,
           Take(Head(requests[s]), [requests EXCEPT ![s] = Tail(@)])
    PROVE  /\ QueueInv' /\ requests' \in [Service -> Seq(Message)]
           /\ serving' \in Message /\ UNCHANGED caller
<1> DEFINE m == Head(requests[s])
           q == requests[s]
<1> USE DEF OrchestratorInv
<1>0. /\ serving = NoRequest /\ serving' = m
      /\ requests' = [requests EXCEPT ![s] = Tail(q)] /\ UNCHANGED caller
  BY DEF Take
<1>1. requests \in [Service -> Seq(Message)] /\ q \in Seq(Message) /\ q # << >>
  BY DEF CallTypes
<1>2. /\ m \in Message /\ m = q[1] /\ Len(q) \in Nat /\ 1 \in 1..Len(q)
      /\ Tail(q) \in Seq(Message) /\ Len(Tail(q)) = Len(q) - 1
      /\ \A i \in 1..Len(q) - 1 : Tail(q)[i] = q[i + 1]
  <2> HIDE DEF q
  <2> QED
    BY <1>1 DEF q
<1>3. /\ requests' \in [Service -> Seq(Message)] /\ requests'[s] = Tail(q)
      /\ \A t \in Service : t # s => requests'[t] = requests[t]
  <2> HIDE DEF q
  <2> QED
    BY <1>0, <1>1, <1>2
<1> HIDE DEF m
<1>4. \A i \in 1..Len(requests'[s]) :
         i + 1 \in 1..Len(q) /\ 1 < i + 1 /\ requests'[s][i] = q[i + 1]
  <2> HIDE DEF q
  <2> QED
    BY <1>2, <1>3
<1>5. m.what.kind = s /\ Sent(m, caller)
  BY <1>2 DEF QueueInv
<1>6. ASSUME NEW t \in Service, NEW i \in 1..Len(requests'[t])
      PROVE  /\ requests'[t][i].what.kind = t
             /\ Sent(requests'[t][i], caller)
             /\ Before(m, requests'[t][i])
  <2>1. CASE t = s
    <3>1. q[i + 1].what.kind = s /\ Sent(q[i + 1], caller) /\ Before(q[1], q[i + 1])
      BY <1>2, <1>4, <1>6, <2>1 DEF QueueInv
    <3> QED
      BY <1>2, <1>4, <1>6, <2>1, <3>1
  <2>2. CASE t # s
    <3>1. requests'[t] = requests[t]
      BY <1>3, <2>2
    <3>2. requests[t][i].what.kind = t /\ Sent(requests[t][i], caller)
      BY <1>6, <3>1 DEF QueueInv
    <3> QED
      BY <1>5, <2>2, <3>1, <3>2 DEF Before
  <2> QED
    BY <2>1, <2>2
<1>7. ASSUME NEW t \in Service, NEW i \in 1..Len(requests'[t]), NEW j \in 1..Len(requests'[t]),
             i < j
      PROVE  Before(requests'[t][i], requests'[t][j])
  <2>1. CASE t = s
    <3>1. /\ i + 1 < j + 1 /\ i + 1 \in 1..Len(q) /\ j + 1 \in 1..Len(q)
          /\ requests'[s][i] = q[i + 1] /\ requests'[s][j] = q[j + 1]
      BY <1>4, <1>7, <2>1
    <3>2. Before(q[i + 1], q[j + 1])
      BY <3>1 DEF QueueInv
    <3> QED
      BY <2>1, <3>1, <3>2
  <2>2. CASE t # s
    <3>1. requests'[t] = requests[t]
      BY <1>3, <2>2
    <3> QED
      BY <1>7, <3>1 DEF QueueInv
  <2> QED
    BY <2>1, <2>2
<1>8. NothingLeftBehind'
  <2> SUFFICES ASSUME NEW w \in Callers, caller[w].told \notin {"nothing", "waiting", "timeout"}
               PROVE  /\ \A i \in DOMAIN requests'[caller[w].service] :
                            requests'[caller[w].service][i].caller # w
                      /\ m.caller # w \/ m.what.kind # caller[w].service
    BY <1>0 DEF NothingLeftBehind
  <2> DEFINE t == caller[w].service
  <2>0. t \in Service
    BY DEF CallTypes, Caller
  <2>1. /\ \A i \in 1..Len(requests[t]) : requests[t][i].caller # w
        /\ DOMAIN requests'[t] = 1..Len(requests'[t])
    <3>1. requests[t] \in Seq(Message) /\ requests'[t] \in Seq(Message)
      BY <1>1, <1>3, <2>0
    <3>2. DOMAIN requests[t] = 1..Len(requests[t]) /\ DOMAIN requests'[t] = 1..Len(requests'[t])
      BY <3>1
    <3> QED
      BY <3>2 DEF QueueInv, NothingLeftBehind
  <2> HIDE DEF t
  <2>2. CASE t = s
    BY <1>2, <1>4, <2>1, <2>2 DEF t
  <2>3. CASE t # s
    BY <1>3, <1>5, <2>0, <2>1, <2>3 DEF t
  <2> QED
    BY <2>2, <2>3
<1>9. QueueInv'
  <2> HIDE DEF q
  <2>1. \A t \in Service : \A i \in 1..Len(requests'[t]) :
           /\ requests'[t][i].what.kind = t
           /\ Sent(requests'[t][i], caller')
           /\ Before(serving', requests'[t][i])
    BY <1>0, <1>6
  <2>2. Sent(serving', caller')
    BY <1>0, <1>5
  <2> QED
    BY <1>7, <1>8, <2>1, <2>2 DEF QueueInv
<1> QED
  BY <1>0, <1>2, <1>3, <1>9

LEMMA ServeKeepsInv ==
    ASSUME OrchestratorInv, ServeRequest PROVE OrchestratorInv'
<1> DEFINE r == serving'.what
<1> USE DEF OrchestratorInv
<1> PICK s \in Service :
        /\ requests[s] # << >>
        /\ Take(Head(requests[s]), [requests EXCEPT ![s] = Tail(@)])
  BY DEF ServeRequest
<1>0. /\ serving' = Head(requests[s])
      /\ UNCHANGED <<dependencies, systemdVars, recently_stopped, caller>> /\ done' = {}
      /\ stack = << >> /\ todo = << >>
  BY DEF Take, CallTypes
<1>1. /\ QueueInv' /\ requests' \in [Service -> Seq(Message)]
      /\ serving' \in Message /\ UNCHANGED caller
  BY TakeKeepsQueue
<1>2. r \in Request /\ serving' # NoRequest
  BY <1>1, MessageIsRequest DEF Message
<1>3. /\ r.kind \in {"list", "component", "profile"}
      /\ r.kind = "component" => /\ r.id \in Ids /\ r.action \in Actions /\ r.force \in BOOLEAN
      /\ r.kind = "profile" => /\ r.list \in Seq(Component)
                               /\ r.action \in {"start", "stop", "restart"}
  BY <1>2, RequestParts DEF Ids, Actions
<1>4. ASSUME \A i, j \in DOMAIN stack' : i = j PROVE TypeOK'
  BY <1>0, <1>2, <1>4 DEF TypeOK, systemdVars
<1>5. CASE r.kind = "component"
  <2>1. Enter(<< >>, r.id, r.action, r.force) /\ todo' = << >>
    BY <1>0, <1>5 DEF Take
  <2>2. /\ stack' \in Seq(Frame) /\ Len(stack') = 1 /\ stack' # << >>
        /\ stack'[1].id = r.id /\ stack'[1].action = r.action
        /\ \A i \in 1..Len(stack') :
              /\ stack'[i].id \in visited'
              /\ stack'[i].action = "stop" => Len(stack') = 1 /\ stack'[i].deps = << >>
              /\ (stack'[i].action = "stop" /\ ~stack'[i].force) => stack'[i].unread = Component
        /\ StartInv'
    BY <1>0, <1>3, <1>5, <2>1, FirstCall
  <2>3. TypeOK'
    BY <1>4, <2>2, UniqueIds
  <2>4. CallTypes'
    BY <1>1, <1>2, <2>1, <2>2 DEF CallTypes
  <2>5. StopInv'
    <3>1. \A c : Dependents(c)' \subseteq Component
      BY DEF Dependents
    <3> QED
      BY <1>5, <2>2, <3>1 DEF StopInv
  <2>6. ProfileInv'
    BY <1>5 DEF ProfileInv
  <2> QED
    BY <1>1, <2>2, <2>3, <2>4, <2>5, <2>6
<1>6. CASE r.kind = "profile"
  <2>1. todo' = (IF r.action = "stop" THEN Reverse(r.list) ELSE r.list) /\ stack' = << >>
    BY <1>0, <1>6 DEF Take
  <2>2. /\ Reverse(r.list) \in Seq(Component) /\ Len(Reverse(r.list)) = Len(r.list)
        /\ \A k \in 1..Len(r.list) : Reverse(r.list)[k] = r.list[Len(r.list) - k + 1]
    <3>1. r.list \in Seq(Component) /\ Len(r.list) \in Nat
      BY <1>3, <1>6
    <3>2. \A k \in 1..Len(r.list) : (Len(r.list) - k) + 1 \in 1..Len(r.list)
      BY <3>1
    <3> QED
      BY <3>1, <3>2 DEF Reverse
  <2>3. TypeOK'
    BY <1>4, <2>1
  <2>4. CallTypes'
    BY <1>1, <1>2, <1>3, <1>6, <2>1, <2>2 DEF CallTypes
  <2>5. StopInv' /\ StartInv'
    BY <1>6, <2>1 DEF StopInv, StartInv
  <2>6. ProfileInv'
    <3> SUFFICES ASSUME r.action = "stop" PROVE StopProgress(r.list, todo', stack', done')
      BY DEF ProfileInv
    <3>1. todo' = Reverse(r.list) /\ Len(r.list) \in Nat /\ Len(stack') = 0
      BY <1>3, <1>6, <2>1
    <3> HIDE DEF r
    <3>2. Len(todo') = Len(r.list)
      BY <2>2, <3>1
    <3>3. \A k \in 1..Len(todo') : todo'[k] = r.list[Len(todo') - k + 1]
      BY <2>2, <3>1, <3>2
    <3> QED
      BY <3>1, <3>2, <3>3 DEF StopProgress
  <2> QED
    BY <1>1, <2>3, <2>4, <2>5, <2>6
<1>7. CASE r.kind = "list"
  <2>1. stack' = << >> /\ todo' = << >>
    BY <1>0, <1>7 DEF Take
  <2>2. TypeOK'
    BY <1>4, <2>1
  <2>3. CallTypes'
    BY <1>1, <2>1 DEF CallTypes
  <2>4. StopInv' /\ StartInv' /\ ProfileInv'
    BY <1>7, <2>1 DEF StopInv, StartInv, ProfileInv
  <2> QED
    BY <1>1, <2>2, <2>3, <2>4
<1> QED
  BY <1>3, <1>5, <1>6, <1>7

LEMMA ProfileKeepsInv ==
    ASSUME OrchestratorInv, NextOfProfile PROVE OrchestratorInv'
<1> DEFINE r == serving.what
<1> USE DEF OrchestratorInv
<1>0. /\ stack = << >> /\ todo # << >> /\ todo' = Tail(todo)
      /\ Enter(<< >>, Head(todo), r.action, r.action = "stop")
      /\ UNCHANGED <<dependencies, systemdVars, recently_stopped, requests, serving, done, caller>>
  BY DEF NextOfProfile
<1>1. /\ serving # NoRequest /\ serving \in Message /\ r \in Request /\ r.kind = "profile"
  BY <1>0 DEF CallTypes, Message
<1>2. r.list \in Seq(Component) /\ r.action \in {"start", "stop", "restart"} /\ r.action \in Actions
  BY <1>1, RequestParts DEF Actions
<1>3. /\ todo \in Seq(Component) /\ Head(todo) \in Component /\ Head(todo) = todo[1]
      /\ Tail(todo) \in Seq(Component) /\ Len(Tail(todo)) = Len(todo) - 1
      /\ Len(todo) \in Nat /\ 1 \in 1..Len(todo)
      /\ \A k \in 1..Len(todo) - 1 : Tail(todo)[k] = todo[k + 1]
  BY <1>0 DEF CallTypes
<1>4. Head(todo) \in Ids /\ (r.action = "stop") \in BOOLEAN
  BY <1>3 DEF Ids
<1>5. /\ stack' \in Seq(Frame) /\ Len(stack') = 1 /\ stack' # << >>
      /\ stack'[1].id = Head(todo) /\ stack'[1].action = r.action
      /\ \A i \in 1..Len(stack') :
            /\ stack'[i].id \in visited'
            /\ stack'[i].action = "stop" => Len(stack') = 1 /\ stack'[i].deps = << >>
            /\ (stack'[i].action = "stop" /\ ~stack'[i].force) => stack'[i].unread = Component
      /\ StartInv'
  BY <1>0, <1>2, <1>4, FirstCall
<1>6. TypeOK'
  BY <1>0, <1>5, UniqueIds DEF TypeOK, systemdVars
<1>7. CallTypes'
  BY <1>0, <1>1, <1>3, <1>5 DEF CallTypes
<1>8. QueueInv'
  BY <1>0 DEF QueueInv, NothingLeftBehind
<1>9. StopInv'
  <2>1. \A c : Dependents(c)' \subseteq Component
    BY DEF Dependents
  <2> QED
    BY <1>0, <1>1, <1>5, <2>1 DEF StopInv
<1>10. ProfileInv'
  <2> SUFFICES ASSUME r.action = "stop" PROVE StopProgress(r.list, todo', stack', done')
    BY <1>0 DEF ProfileInv
  <2>1. /\ Len(todo) + 0 <= Len(r.list)
        /\ \A k \in 1..Len(todo) : todo[k] = r.list[Len(todo) - k + 1]
        /\ \A j \in 1..Len(r.list) : j > Len(todo) + 0 => r.list[j] \in done
    BY <1>0, <1>1 DEF ProfileInv, StopProgress
  <2>2. Len(todo') = Len(todo) - 1 /\ Len(r.list) \in Nat
    BY <1>0, <1>2, <1>3
  <2>3. Len(todo') + 1 = Len(todo) /\ Len(todo) - 1 + 1 = Len(todo)
    BY <1>3, <2>2
  <2>4. Head(todo) = r.list[Len(todo') + 1]
    BY <1>3, <2>1, <2>3
  <2>5. ASSUME NEW k \in 1..Len(todo') PROVE todo'[k] = r.list[Len(todo') - k + 1]
    <3>1. k + 1 \in 1..Len(todo) /\ todo'[k] = todo[k + 1]
      BY <1>0, <1>3, <2>2
    <3>2. Len(todo) - (k + 1) + 1 = Len(todo') - k + 1
      BY <1>3, <2>2
    <3> QED
      BY <2>1, <3>1, <3>2
  <2>6. \A i \in 1..Len(stack') : stack'[i].id = r.list[Len(todo') + 1] /\ stack'[i].action = "stop"
    BY <1>5, <2>4
  <2>7. \A j \in 1..Len(r.list) : j > Len(todo') + Len(stack') => r.list[j] \in done'
    BY <1>0, <1>3, <1>5, <2>1, <2>2
  <2>8. Len(todo') + Len(stack') <= Len(r.list) /\ Len(stack') <= 1
    BY <1>3, <1>5, <2>1, <2>2
  <2> HIDE DEF r
  <2> QED
    BY <2>5, <2>6, <2>7, <2>8 DEF StopProgress
<1> QED
  BY <1>5, <1>6, <1>7, <1>8, <1>9, <1>10
(* The call in progress.                                                   *)
LEMMA TopCall ==
    ASSUME OrchestratorInv, stack # << >>
    PROVE  /\ Len(stack) \in Nat /\ 1 \in 1..Len(stack) /\ Len(stack) \in 1..Len(stack)
           /\ Last(stack) = stack[Len(stack)]
           /\ \A i \in 1..Len(stack) : stack[i] \in Frame
           /\ serving # NoRequest /\ serving.what \in Request
<1>1. stack \in Seq(Frame) /\ serving # NoRequest
  BY DEF OrchestratorInv, CallTypes
<1>2. Len(stack) \in Nat /\ Len(stack) # 0
  BY <1>1
<1>3. serving.what \in Request
  BY <1>1 DEF OrchestratorInv, TypeOK
<1> QED
  BY <1>1, <1>2, <1>3 DEF Last

(* A call that has dependencies left is no stop, and neither is any below. *)
LEMMA NoStopAbove ==
    ASSUME OrchestratorInv, stack # << >>, Last(stack).deps # << >>
    PROVE  \A i \in 1..Len(stack) : stack[i].action # "stop"
<1> SUFFICES ASSUME NEW i \in 1..Len(stack), stack[i].action = "stop" PROVE FALSE
  OBVIOUS
<1>1. Len(stack) = 1 /\ stack[i].deps = << >>
  BY DEF OrchestratorInv, StopInv
<1> QED
  BY <1>1, TopCall

(* The stack once a dependency has been taken off the list of its top.     *)
LEMMA ShorterList ==
    ASSUME OrchestratorInv, stack # << >>, Last(stack).deps # << >>
    PROVE  LET calls == [stack EXCEPT ![Len(stack)].deps = Tail(@)]
               d     == Head(Last(stack).deps)
           IN /\ calls \in Seq(Frame) /\ Len(calls) = Len(stack) /\ calls # << >>
              /\ \A i \in 1..Len(stack) :
                    /\ calls[i].id = stack[i].id /\ calls[i].action = stack[i].action
                    /\ calls[i].force = stack[i].force
                    /\ ToSet(stack[i].deps) \subseteq ToSet(calls[i].deps) \cup {d}
              /\ d \in Component
<1> DEFINE n     == Len(stack)
           old   == stack[n].deps
           calls == [stack EXCEPT ![n].deps = Tail(@)]
<1>1. /\ n \in Nat /\ n \in 1..n /\ Last(stack) = stack[n] /\ stack \in Seq(Frame)
      /\ \A i \in 1..n : stack[i] \in Frame
  BY TopCall DEF OrchestratorInv, CallTypes
<1>2. old \in Seq(Component) /\ old # << >>
  BY <1>1 DEF Frame
<1>3. /\ Tail(old) \in Seq(Component) /\ Head(old) \in Component
      /\ ToSet(old) \subseteq ToSet(Tail(old)) \cup {Head(old)}
  <2>1. /\ Len(old) \in Nat /\ 1 \in 1..Len(old) /\ Head(old) = old[1]
        /\ Tail(old) \in Seq(Component) /\ Len(Tail(old)) = Len(old) - 1
        /\ \A k \in 1..Len(old) - 1 : Tail(old)[k] = old[k + 1]
        /\ DOMAIN old = 1..Len(old) /\ DOMAIN Tail(old) = 1..Len(old) - 1
    BY <1>2
  <2> HIDE DEF old
  <2>2. ASSUME NEW k \in 1..Len(old), k # 1 PROVE old[k] \in ToSet(Tail(old))
    <3>1. k - 1 \in 1..Len(old) - 1 /\ k - 1 + 1 = k
      BY <2>1, <2>2
    <3>2. Tail(old)[k - 1] = old[k] /\ k - 1 \in DOMAIN Tail(old)
      BY <2>1, <3>1
    <3> QED
      BY <3>2 DEF ToSet
  <2>3. ASSUME NEW e \in ToSet(old) PROVE e \in ToSet(Tail(old)) \cup {Head(old)}
    <3>1. PICK k \in 1..Len(old) : e = old[k]
      BY <2>1 DEF ToSet
    <3> QED
      BY <2>1, <2>2, <3>1
  <2>4. old[1] \in Component
    BY <1>2, <2>1
  <2> QED
    BY <2>1, <2>3, <2>4
<1>4. DOMAIN stack = 1..n /\ DOMAIN calls = 1..n
  BY <1>1
<1>5. calls[n] = [stack[n] EXCEPT !.deps = Tail(old)]
  BY <1>1, <1>4
<1>6. /\ calls[n] \in Frame /\ calls[n].id = stack[n].id /\ calls[n].action = stack[n].action
      /\ calls[n].force = stack[n].force /\ calls[n].deps = Tail(old)
  <2>1. stack[n] \in Frame /\ Tail(old) \in Seq(Component)
    BY <1>1, <1>3
  <2> HIDE DEF calls, old, n
  <2> QED
    BY <1>5, <2>1 DEF Frame
<1>7. \A i \in 1..n : i # n => calls[i] = stack[i]
  BY <1>1, <1>4
<1>8. \A i \in 1..n : calls[i] \in Frame
  BY <1>1, <1>6, <1>7
<1>9. calls \in Seq(Frame) /\ Len(calls) = n /\ calls # << >>
  <2>1. calls = [i \in 1..n |-> calls[i]]
    BY <1>4
  <2> HIDE DEF calls, n
  <2>2. calls \in Seq(Frame)
    BY <1>1, <1>8, <2>1
  <2> QED
    BY <1>1, <1>4, <2>2
<1>10. ASSUME NEW i \in 1..n
       PROVE  /\ calls[i].id = stack[i].id /\ calls[i].action = stack[i].action
              /\ calls[i].force = stack[i].force
              /\ ToSet(stack[i].deps) \subseteq ToSet(calls[i].deps) \cup {Head(old)}
  <2>1. CASE i = n
    BY <1>3, <1>6, <2>1
  <2>2. CASE i # n
    BY <1>7, <2>2
  <2> QED
    BY <2>1, <2>2
<1> QED
  BY <1>1, <1>3, <1>9, <1>10

(* A step among starts that keeps the calls below, apart from their lists, *)
(* and accounts for the dependency taken off.                              *)
LEMMA StartsKeepInv ==
    ASSUME OrchestratorInv, stack # << >>, Last(stack).deps # << >>,
           UNCHANGED <<dependencies, systemdVars, recently_stopped, requests, serving, todo, done, caller>>,
           NEW d \in visited', visited \subseteq visited',
           stack' \in Seq(Frame), Len(stack') >= Len(stack), stack' # << >>,
           \A i \in 1..Len(stack) :
               /\ stack'[i].id = stack[i].id /\ stack'[i].action = stack[i].action
               /\ stack'[i].force = stack[i].force
               /\ ToSet(stack[i].deps) \subseteq ToSet(stack'[i].deps) \cup {d},
           \A i \in 1..Len(stack') : i \notin 1..Len(stack) =>
               /\ stack'[i].action = "start" /\ stack'[i].id \in visited' \ visited
               /\ i = Len(stack) + 1
               /\ \A e \in ToSet(dependencies[stack'[i].id]) : e \in ToSet(stack'[i].deps),
           visited' \subseteq visited \cup {stack'[i].id : i \in 1..Len(stack')}
    PROVE  OrchestratorInv'
<1> USE DEF OrchestratorInv
<1>0. /\ Len(stack) \in Nat /\ 1 \in 1..Len(stack) /\ serving # NoRequest
      /\ Len(stack') \in Nat /\ 1..Len(stack) \subseteq 1..Len(stack')
      /\ DOMAIN stack' = 1..Len(stack') /\ DOMAIN stack = 1..Len(stack)
  BY TopCall DEF CallTypes
<1>1. \A i \in 1..Len(stack') : stack'[i].action # "stop"
  BY NoStopAbove
<1>2. \A i \in 1..Len(stack') : stack'[i].id \in visited'
  BY DEF CallTypes
<1>3. TypeOK'
  <2>1. ASSUME NEW i \in 1..Len(stack'), NEW j \in 1..Len(stack'), stack'[i].id = stack'[j].id
        PROVE  i = j
    <3>1. \A k \in 1..Len(stack) : stack[k].id \in visited
      BY DEF CallTypes
    <3>2. CASE i \in 1..Len(stack) /\ j \in 1..Len(stack)
      <4>1. \A a, b \in 1..Len(stack) : stack[a].id = stack[b].id => a = b
        BY <1>0 DEF TypeOK
      <4> QED
        BY <2>1, <3>2, <4>1
    <3>3. CASE ~(i \in 1..Len(stack) /\ j \in 1..Len(stack))
      BY <2>1, <3>1, <3>3
    <3> QED
      BY <3>2, <3>3
  <2> QED
    BY <1>0, <2>1 DEF TypeOK, systemdVars
<1>4. CallTypes'
  BY <1>0, <1>2 DEF CallTypes
<1>5. QueueInv'
  BY DEF QueueInv, NothingLeftBehind
<1>6. StopInv'
  <2>1. stack'[1].id = stack[1].id /\ stack'[1].action = stack[1].action
    BY <1>0
  <2> QED
    BY <1>0, <1>1, <2>1 DEF StopInv
<1>7. StartInv'
  <2>1. visited' \subseteq done' \cup {stack'[i].id : i \in 1..Len(stack')}
    <3> SUFFICES ASSUME NEW e \in visited, e \notin done
                 PROVE  e \in {stack'[i].id : i \in 1..Len(stack')}
      OBVIOUS
    <3>1. PICK i \in 1..Len(stack) : e = stack[i].id
      BY DEF StartInv
    <3> QED
      BY <1>0, <3>1
  <2>2. ASSUME NEW i \in 1..Len(stack'),
               stack'[i].action \in {"start", "restart"}, ~stack'[i].force,
               stack'[i].id \in Component,
               NEW e \in ToSet(dependencies[stack'[i].id])
        PROVE  e \in visited' \cup ToSet(stack'[i].deps)
    <3>1. CASE i \in 1..Len(stack)
      <4>1. e \in visited \cup ToSet(stack[i].deps)
        BY <2>2, <3>1 DEF StartInv
      <4> QED
        BY <3>1, <4>1
    <3>2. CASE i \notin 1..Len(stack)
      BY <2>2, <3>2
    <3> QED
      BY <3>1, <3>2
  <2> QED
    BY <2>1, <2>2 DEF StartInv
<1>8. ProfileInv'
  <2> SUFFICES ASSUME serving.what.kind = "profile", serving.what.action = "stop" PROVE FALSE
    BY DEF ProfileInv
  <2>1. stack[1].action = "stop"
    BY <1>0 DEF ProfileInv, StopProgress
  <2> QED
    BY <1>0, <2>1, NoStopAbove
<1> QED
  BY <1>3, <1>4, <1>5, <1>6, <1>7, <1>8

LEMMA DependencyKeepsInv ==
    ASSUME OrchestratorInv, StartDependency PROVE OrchestratorInv'
<1> DEFINE calls == [stack EXCEPT ![Len(stack)].deps = Tail(@)]
           d     == Head(Last(stack).deps)
           f     == Call(d, "start", FALSE)
<1>0. /\ stack # << >> /\ Last(stack).deps # << >>
      /\ UNCHANGED <<dependencies, systemdVars, recently_stopped, requests, serving, todo, done, caller>>
  BY DEF StartDependency
<1>1. /\ calls \in Seq(Frame) /\ Len(calls) = Len(stack) /\ calls # << >>
      /\ \A i \in 1..Len(stack) :
            /\ calls[i].id = stack[i].id /\ calls[i].action = stack[i].action
            /\ calls[i].force = stack[i].force
            /\ ToSet(stack[i].deps) \subseteq ToSet(calls[i].deps) \cup {d}
      /\ d \in Component
  BY <1>0, ShorterList
<1>2. IF d \in visited THEN stack' = calls /\ UNCHANGED visited
      ELSE stack' = Append(calls, f) /\ visited' = visited \cup {d}
  BY <1>1 DEF StartDependency, Enter
<1>3. Len(stack) \in Nat
  BY <1>0, TopCall
<1>4. f \in Frame /\ f.id = d /\ f.action = "start" /\ f.deps = dependencies[d]
  <2>1. "start" \in Actions /\ d \in Ids /\ dependencies \in Configurations /\ FALSE \in BOOLEAN
    BY <1>1 DEF Actions, Ids, OrchestratorInv, TypeOK
  <2>2. dependencies[d] \in Seq(Component) /\ d \in Component
    BY <1>1, <2>1
  <2>3. f = [id |-> d, action |-> "start", force |-> FALSE, found |-> FALSE, unread |-> {},
             deps |-> dependencies[d]]
    BY <2>2 DEF Call
  <2> HIDE DEF f
  <2> QED
    BY <2>1, <2>2, <2>3 DEF Frame, Ids, Actions
<1> HIDE DEF calls, d, f
<1>5. CASE d \in visited
  <2>1. /\ stack' = calls /\ d \in visited' /\ visited' = visited
        /\ stack' \in Seq(Frame) /\ Len(stack') >= Len(stack) /\ stack' # << >>
    BY <1>1, <1>2, <1>3, <1>5
  <2>2. \A i \in 1..Len(stack') : i \in 1..Len(stack)
    BY <1>1, <2>1
  <2> QED
    BY <1>0, <1>1, <2>1, <2>2, StartsKeepInv
<1>6. CASE d \notin visited
  <2>1. /\ stack' \in Seq(Frame) /\ Len(stack') = Len(stack) + 1 /\ stack' # << >>
        /\ stack'[Len(stack) + 1] = f
        /\ \A i \in 1..Len(stack) : stack'[i] = calls[i]
    BY <1>1, <1>2, <1>3, <1>4, <1>6
  <2>2. d \in visited' /\ visited \subseteq visited' /\ Len(stack') >= Len(stack)
    BY <1>2, <1>3, <1>6, <2>1
  <2>3. \A i \in 1..Len(stack') : i \notin 1..Len(stack) =>
           /\ stack'[i].action = "start" /\ stack'[i].id \in visited' \ visited
           /\ i = Len(stack) + 1
           /\ \A e \in ToSet(dependencies[stack'[i].id]) : e \in ToSet(stack'[i].deps)
    <3>1. \A i \in 1..Len(stack') : i \notin 1..Len(stack) => i = Len(stack) + 1
      BY <1>3, <2>1
    <3> QED
      BY <1>4, <1>6, <2>1, <2>2, <3>1
  <2>4. visited' \subseteq visited \cup {stack'[i].id : i \in 1..Len(stack')}
    <3>1. Len(stack) + 1 \in 1..Len(stack')
      BY <1>3, <2>1
    <3> QED
      BY <1>2, <1>4, <1>6, <2>1, <3>1
  <2>5. \A i \in 1..Len(stack) :
           /\ stack'[i].id = stack[i].id /\ stack'[i].action = stack[i].action
           /\ stack'[i].force = stack[i].force
           /\ ToSet(stack[i].deps) \subseteq ToSet(stack'[i].deps) \cup {d}
    BY <1>1, <2>1
  <2> QED
    BY <1>0, <2>1, <2>2, <2>3, <2>4, <2>5, StartsKeepInv
<1> QED
  BY <1>5, <1>6
(* A stack of one call after its top was replaced.                         *)
LEMMA ReplacedCall ==
    ASSUME NEW s \in Seq(Frame), Len(s) = 1, NEW g \in Frame
    PROVE  /\ [s EXCEPT ![Len(s)] = g] \in Seq(Frame)
           /\ Len([s EXCEPT ![Len(s)] = g]) = 1
           /\ [s EXCEPT ![Len(s)] = g][1] = g
<1> DEFINE calls == [s EXCEPT ![Len(s)] = g]
<1>1. DOMAIN s = 1..1 /\ Len(s) = 1
  OBVIOUS
<1>2. DOMAIN calls = 1..1 /\ calls[1] = g
  BY <1>1
<1>3. calls = [i \in 1..1 |-> calls[i]]
  BY <1>2
<1> HIDE DEF calls
<1>4. \A i \in 1..1 : calls[i] \in Frame
  BY <1>2
<1>5. calls \in Seq(Frame)
  BY <1>3, <1>4
<1>6. Len(calls) = 1
  BY <1>2, <1>5
<1> QED
  BY <1>2, <1>5, <1>6 DEF calls

(* A dependent that is managed when it is read is found.                   *)
LEMMA ReadKeepsInv ==
    ASSUME OrchestratorInv, NEW d \in Component, refresh_states(d) PROVE OrchestratorInv'
<1> USE DEF OrchestratorInv
<1> DEFINE found == stack[1].found \/ (d \in Dependents(stack[1].id) /\ Managed(unit[d]))
<1>0. /\ stack # << >> /\ intruders' = intruders \ {d} /\ Last(stack).action = "stop"
      /\ UNCHANGED <<dependencies, unit, requests, serving, todo, visited, done, caller>>
      /\ EraseOld({d})
  BY DEF refresh_states, ReadUnit
<1>1. /\ Len(stack) = 1 /\ Last(stack) = stack[1] /\ stack[1] \in Frame /\ stack \in Seq(Frame)
      /\ serving # NoRequest
  BY <1>0, TopCall DEF StopInv, CallTypes
<1>2. found \in BOOLEAN
  BY <1>1 DEF Frame
<1>3. stack' = [stack EXCEPT ![Len(stack)] =
                   [stack[1] EXCEPT !.unread = stack[1].unread \ {d}, !.found = found]]
  BY <1>1 DEF refresh_states, ReadUnit
<1> HIDE DEF found
<1>4. /\ stack' \in Seq(Frame) /\ Len(stack') = 1 /\ stack' # << >>
      /\ stack'[1].id = stack[1].id /\ stack'[1].action = stack[1].action
      /\ stack'[1].force = stack[1].force /\ stack'[1].deps = stack[1].deps
      /\ stack'[1].unread = stack[1].unread \ {d} /\ stack'[1].found = found
  <2> DEFINE g == [stack[1] EXCEPT !.unread = stack[1].unread \ {d}, !.found = found]
  <2>1. /\ g \in Frame /\ g.id = stack[1].id /\ g.action = stack[1].action
        /\ g.force = stack[1].force /\ g.deps = stack[1].deps
        /\ g.unread = stack[1].unread \ {d} /\ g.found = found
    BY <1>1, <1>2 DEF Frame
  <2>2. stack' = [stack EXCEPT ![Len(stack)] = g]
    BY <1>3
  <2> HIDE DEF g
  <2>3. stack' \in Seq(Frame) /\ Len(stack') = 1 /\ stack'[1] = g
    BY <1>1, <2>1, <2>2, ReplacedCall
  <2>4. stack' # << >>
    <3>1. stack' = << >> => Len(stack') = 0
      OBVIOUS
    <3>2. Len(stack') = 1
      BY <2>3
    <3> QED
      BY <3>1, <3>2
  <2> QED
    BY <2>1, <2>3, <2>4
<1>5. \A i \in 1..Len(stack') : i = 1
  BY <1>4
<1>6. TypeOK'
  <2>1. recently_stopped' \in [Component -> {"none", "young", "old"}]
    BY <1>0, EraseOldTypes
  <2>2. \A i, j \in DOMAIN stack' : i = j
    BY <1>4, UniqueIds
  <2> QED
    BY <1>0, <2>1, <2>2 DEF TypeOK
<1>7. CallTypes'
  <2>1. stack[1].id \in visited
    BY <1>1 DEF CallTypes
  <2> QED
    BY <1>0, <1>1, <1>4, <1>5, <2>1 DEF CallTypes
<1>8. QueueInv'
  BY <1>0 DEF QueueInv, NothingLeftBehind
<1>9. StopInv'
  <2>1. ASSUME ~stack[1].force, ~found, NEW e \in Dependents(stack[1].id), Managed(unit[e])
        PROVE  e \in intruders' \cup (stack[1].unread \ {d})
    <3>1. ~stack[1].found /\ e # d
      BY <2>1 DEF found
    <3>2. e \in intruders \cup stack[1].unread
      BY <1>0, <1>1, <2>1, <3>1 DEF StopInv
    <3> QED
      BY <1>0, <3>1, <3>2
  <2>2. \A c : Dependents(c)' = Dependents(c)
    BY <1>0 DEF Dependents
  <2>3. /\ stack[1].deps = << >>
        /\ serving.what.kind = "component" => stack[1].id = serving.what.id
        /\ stack[1].action = serving.what.action
    BY <1>0, <1>1 DEF StopInv
  <2>4. \A i \in 1..Len(stack') :
           /\ stack'[i].action = "stop" => Len(stack') = 1 /\ stack'[i].deps = << >>
           /\ (stack'[i].action = "stop" /\ ~stack'[i].force /\ ~stack'[i].found) =>
                 \A e \in Dependents(stack'[i].id) :
                     Managed(unit'[e]) => e \in intruders' \cup stack'[i].unread
    BY <1>0, <1>4, <1>5, <2>1, <2>3
  <2>5. /\ serving'.what.kind = "component" => stack'[1].id = serving'.what.id
        /\ stack'[1].action = serving'.what.action
    BY <1>0, <1>4, <2>3
  <2> QED
    BY <1>0, <1>4, <2>2, <2>4, <2>5 DEF StopInv
<1>10. StartInv'
  <2>1. 1 \in 1..Len(stack) /\ 1 \in 1..Len(stack') /\ 1..Len(stack) = 1..Len(stack')
    BY <1>1, <1>4
  <2>2. {stack'[i].id : i \in 1..Len(stack')} = {stack[i].id : i \in 1..Len(stack)}
    BY <1>4, <1>5, <2>1
  <2>3. visited' \subseteq done' \cup {stack'[i].id : i \in 1..Len(stack')}
    BY <1>0, <2>2 DEF StartInv
  <2>4. \A i \in 1..Len(stack') : stack'[i].action = "stop"
    BY <1>0, <1>1, <1>4, <1>5
  <2> QED
    BY <2>3, <2>4 DEF StartInv
<1>11. ProfileInv'
  <2> SUFFICES ASSUME StopProgress(serving.what.list, todo, stack, done)
               PROVE  StopProgress(serving.what.list, todo, stack', done)
    BY <1>0 DEF ProfileInv
  <2>1. 1 \in 1..Len(stack) /\ Len(stack') = Len(stack)
    BY <1>1, <1>4
  <2> QED
    BY <1>4, <1>5, <2>1 DEF StopProgress
<1> QED
  BY <1>6, <1>7, <1>8, <1>9, <1>10, <1>11

LEMMA FrontCalls ==
    ASSUME NEW s \in Seq(Frame), s # << >>
    PROVE  /\ Front(s) \in Seq(Frame) /\ Len(Front(s)) = Len(s) - 1
           /\ \A i \in 1..Len(s) - 1 : Front(s)[i] = s[i] /\ i \in 1..Len(s)
           /\ DOMAIN Front(s) = 1..Len(s) - 1 /\ DOMAIN s = 1..Len(s)
<1>1. Len(s) \in Nat /\ Len(s) # 0 /\ DOMAIN s = 1..Len(s)
  OBVIOUS
<1>2. \A i \in 1..Len(s) - 1 : i \in 1..Len(s)
  BY <1>1
<1>3. Front(s) = SubSeq(s, 1, Len(s) - 1)
  BY DEF Front
<1> QED
  BY <1>1, <1>2, <1>3, SubSeqProperties

(* The call at the top returns.                                            *)
LEMMA SystemctlKeepsInv ==
    ASSUME OrchestratorInv, RunSystemctl PROVE OrchestratorInv'
<1> DEFINE n   == Len(stack)
           top == stack[n]
<1> USE DEF OrchestratorInv
<1>0. /\ stack # << >> /\ Ready(top) /\ Last(stack) = top /\ stack' = Front(stack)
      /\ n \in Nat /\ 1 \in 1..n /\ n \in 1..n /\ serving # NoRequest
      /\ UNCHANGED <<dependencies, requests, serving, todo, visited, caller>>
  BY TopCall DEF RunSystemctl
<1>1. /\ done' = done \cup {top.id} /\ top.id \in Component
      /\ recently_stopped' = [recently_stopped EXCEPT ![top.id] =
                                  IF top.action = "stop" THEN "young" ELSE "none"]
      /\ IF top.action = "stop" THEN StopUnit(top.id) ELSE StartUnit(top.id)
  BY <1>0 DEF RunSystemctl, Ready
<1>2. UnitStep
  BY <1>1, StartUnitStep, StopUnitStep DEF TypeOK
<1>3. /\ stack' \in Seq(Frame) /\ Len(stack') = n - 1
      /\ \A i \in 1..n - 1 : stack'[i] = stack[i] /\ i \in 1..n
      /\ DOMAIN stack' = 1..n - 1 /\ DOMAIN stack = 1..n
  <2>1. stack \in Seq(Frame) /\ stack # << >>
    BY <1>0 DEF CallTypes
  <2> QED
    BY <1>0, <2>1, FrontCalls
<1>4. stack' = << >> <=> n = 1
  BY <1>0, <1>3
<1> HIDE DEF n
<1>5. TypeOK'
  <2>1. \A i, j \in DOMAIN stack' : stack'[i].id = stack'[j].id => i = j
    BY <1>3 DEF TypeOK
  <2>2. /\ unit' \in [Component -> ActiveState]
        /\ recently_stopped' \in [Component -> {"none", "young", "old"}]
    BY <1>1, <1>2 DEF UnitStep, TypeOK
  <2> HIDE DEF top
  <2> QED
    BY <1>0, <2>1, <2>2 DEF TypeOK
<1>6. CallTypes'
  <2>1. \A i \in 1..Len(stack') : stack'[i].id \in visited
    BY <1>3 DEF CallTypes, n
  <2> QED
    BY <1>0, <1>3, <2>1 DEF CallTypes
<1>7. QueueInv'
  BY <1>0 DEF QueueInv, NothingLeftBehind
<1>8. StopInv'
  <2>1. ASSUME NEW i \in 1..Len(stack') PROVE stack'[i].action # "stop"
    <3>1. i \in 1..n - 1 /\ stack'[i] = stack[i] /\ i \in 1..n /\ n # 1
      BY <1>0, <1>3
    <3> QED
      BY <3>1 DEF StopInv, n
  <2>2. ASSUME serving.what.kind = "component", n = 1, serving.what.action = "stop"
        PROVE  recently_stopped'[serving.what.id] # "none"
    <3>1. top.id = serving.what.id /\ top.action = "stop"
      BY <1>0, <2>2 DEF StopInv
    <3> QED
      BY <1>1, <3>1 DEF TypeOK
  <2>3. ASSUME n # 1
        PROVE  /\ serving.what.kind = "component" => stack'[1].id = serving.what.id
               /\ stack'[1].action = serving.what.action
    <3>1. 1 \in 1..n - 1
      BY <1>0, <2>3
    <3> QED
      BY <1>0, <1>3, <2>3, <3>1 DEF StopInv
  <2> QED
    BY <1>0, <1>4, <2>1, <2>2, <2>3 DEF StopInv
<1>9. StartInv'
  <2>1. ASSUME NEW e \in visited
        PROVE  e \in done' \cup {stack'[i].id : i \in 1..Len(stack')}
    <3>1. e \in done \/ \E i \in 1..n : e = stack[i].id
      BY <1>0 DEF StartInv, n
    <3>2. ASSUME NEW i \in 1..n, e = stack[i].id
          PROVE  e \in done' \cup {stack'[k].id : k \in 1..Len(stack')}
      <4>1. CASE i = n
        BY <1>1, <3>2, <4>1
      <4>2. CASE i # n
        <5>1. i \in 1..Len(stack') /\ stack'[i] = stack[i]
          BY <1>0, <1>3, <4>2
        <5> QED
          BY <3>2, <5>1
      <4> QED
        BY <4>1, <4>2
    <3> QED
      BY <1>1, <3>1, <3>2
  <2>2. ASSUME NEW i \in 1..Len(stack'),
               stack'[i].action \in {"start", "restart"}, ~stack'[i].force,
               stack'[i].id \in Component,
               NEW e \in ToSet(dependencies[stack'[i].id])
        PROVE  e \in visited \cup ToSet(stack'[i].deps)
    <3>1. stack'[i] = stack[i] /\ i \in 1..n
      BY <1>3
    <3> QED
      BY <2>2, <3>1 DEF StartInv, n
  <2> QED
    BY <1>0, <2>1, <2>2 DEF StartInv
<1>10. ProfileInv'
  <2> DEFINE list == serving.what.list
  <2> SUFFICES ASSUME serving.what.kind = "profile", serving.what.action = "stop"
               PROVE  StopProgress(list, todo, stack', done')
    BY <1>0 DEF ProfileInv
  <2>1. StopProgress(list, todo, stack, done) /\ Len(list) \in Nat /\ Len(todo) \in Nat
    <3>1. serving.what \in Request /\ todo \in Seq(Component)
      BY <1>0 DEF TypeOK, CallTypes
    <3>2. list \in Seq(Component)
      BY <3>1, RequestParts
    <3> QED
      BY <1>0, <3>1, <3>2 DEF ProfileInv
  <2> HIDE DEF list
  <2>2. /\ n = 1 /\ top.id = list[Len(todo) + 1] /\ Len(todo) + 1 <= Len(list)
        /\ \A k \in 1..Len(todo) : todo[k] = list[Len(todo) - k + 1]
        /\ \A j \in 1..Len(list) : j > Len(todo) + 1 => list[j] \in done
    <3>1. /\ Len(todo) + n <= Len(list) /\ n <= 1
          /\ \A k \in 1..Len(todo) : todo[k] = list[Len(todo) - k + 1]
          /\ \A i \in 1..n : stack[i].id = list[Len(todo) + 1]
          /\ \A j \in 1..Len(list) : j > Len(todo) + n => list[j] \in done
      BY <2>1 DEF StopProgress, n
    <3>2. n = 1
      BY <1>0, <3>1
    <3>3. top.id = list[Len(todo) + 1]
      BY <1>0, <3>1
    <3> QED
      BY <3>1, <3>2, <3>3
  <2>3. \A j \in 1..Len(list) : j > Len(todo) + 0 => list[j] \in done'
    <3> SUFFICES ASSUME NEW j \in 1..Len(list), j > Len(todo) PROVE list[j] \in done'
      BY <2>1
    <3>1. CASE j = Len(todo) + 1
      BY <1>1, <2>2, <3>1
    <3>2. CASE j > Len(todo) + 1
      BY <1>1, <2>2, <3>2
    <3> QED
      BY <2>1, <3>1, <3>2
  <2>4. Len(stack') = 0
    BY <1>3, <2>2
  <2> QED
    BY <2>1, <2>2, <2>3, <2>4 DEF StopProgress
<1> QED
  BY <1>5, <1>6, <1>7, <1>8, <1>9, <1>10
LEMMA OrchestratorStepInv == OrchestratorInv /\ [Next]_vars => OrchestratorInv'
<1> SUFFICES ASSUME OrchestratorInv, [Next]_vars PROVE OrchestratorInv'
  OBVIOUS
<1>1. CASE Work
  BY <1>1, ServeKeepsInv, ProfileKeepsInv, DependencyKeepsInv, RefusalsKeepInv DEF Work
<1>2. CASE SystemctlReturns
  BY <1>2, ReadKeepsInv, SystemctlKeepsInv, RefusalsKeepInv, FinishKeepsInv DEF SystemctlReturns
<1>3. CASE \/ \E c \in Unsteady : UnitEnds(c)
           \/ \E c \in Component : AutoRestart(c)
           \/ \E c \in Intrusions : Intrude(c)
  BY <1>3, SystemdKeepsInv
<1>4. CASE \/ \E w \in Callers : SendRequest(w) \/ RequestTimesOut(w)
           \/ \E c \in Component : StopAges(c)
  BY <1>4, SendKeepsInv, TimeoutKeepsInv, AgeKeepsInv
<1>5. CASE UNCHANGED vars
  <2>1. UNCHANGED <<dependencies, callVars, requests, caller, unit, intruders>>
    BY <1>5 DEF vars, systemdVars
  <2>2. UnitStep
    BY <2>1 DEF UnitStep, OrchestratorInv, TypeOK
  <2> QED
    BY <2>1, <2>2, UnitsKeepInv
<1> QED
  BY <1>1, <1>2, <1>3, <1>4, <1>5 DEF Next

LEMMA OrchestratorInvariant == Spec => []OrchestratorInv
  BY OrchestratorInitInv, OrchestratorStepInv, PTL DEF Spec

-----------------------------------------------------------------------------
(* What the orchestrator promises. *)

(* The steps of the node and of its workers keep the types, and            *)
(* control_component never calls itself for a component it is already      *)
(* working on, whatever cycles the configured dependencies have.           *)
THEOREM OrchestratorTypeCorrect == Spec => []TypeOK
<1>1. OrchestratorInv => TypeOK
  BY DEF OrchestratorInv
<1> QED
  BY <1>1, OrchestratorInvariant, PTL

(* A request that timed out in the API is not carried out behind the back  *)
(* of a later one to the same service that was answered.                   *)
THEOREM OrchestratorNothingLeftBehind == Spec => []NothingLeftBehind
<1>1. OrchestratorInv => NothingLeftBehind
  BY DEF OrchestratorInv, QueueInv
<1> QED
  BY <1>1, OrchestratorInvariant, PTL

(* A component is controlled in one way only: by the systemctl of the call *)
(* at the top of the stack.                                                *)
LEMMA ControlledBySystemctl ==
    ASSUME OrchestratorInv, [Next]_vars, NEW c \in done' \ done
    PROVE  /\ RunSystemctl /\ stack # << >> /\ Ready(Last(stack)) /\ c = Last(stack).id
           /\ Len(stack) \in 1..Len(stack) /\ Last(stack) = stack[Len(stack)]
           /\ Last(stack) \in Frame /\ c \in Component
<1>1. RunSystemctl
  <2>1. CASE Work
    <3>1. ~ServeRequest
      BY DEF ServeRequest, Take
    <3>2. ~NextOfProfile /\ ~StartDependency
      BY DEF NextOfProfile, StartDependency
    <3>3. ~CheckDependents /\ ~RefuseCall
      BY DEF CheckDependents, RefuseCall, Throw
    <3> QED
      BY <2>1, <3>1, <3>2, <3>3 DEF Work
  <2>8. CASE SystemctlReturns
    <3>1. ~SystemctlFails /\ ~FinishRequest /\ \A d \in Component : ~refresh_states(d)
      BY DEF SystemctlFails, FinishRequest, refresh_states, ReadUnit, Throw
    <3> QED
      BY <2>8, <3>1 DEF SystemctlReturns
  <2>2. CASE UNCHANGED callVars
    BY <2>2 DEF callVars
  <2>3. CASE \E d \in Component : StopAges(d)
    BY <2>3 DEF StopAges
  <2>4. CASE UNCHANGED vars
    BY <2>2, <2>4 DEF vars
  <2>5. CASE (\E d \in Unsteady : UnitEnds(d)) \/ \E d \in Component : AutoRestart(d)
    BY <2>2, <2>5 DEF UnitEnds, AutoRestart
  <2>6. CASE \E d \in Intrusions : Intrude(d)
    BY <2>2, <2>6 DEF Intrude
  <2>7. CASE \E w \in Callers : SendRequest(w) \/ RequestTimesOut(w)
    BY <2>2, <2>7 DEF SendRequest, RequestTimesOut
  <2> QED
    BY <2>1, <2>3, <2>4, <2>5, <2>6, <2>7, <2>8 DEF Next
<1>2. stack # << >> /\ Ready(Last(stack)) /\ c = Last(stack).id
  BY <1>1 DEF RunSystemctl
<1> QED
  BY <1>1, <1>2, TopCall DEF Ready

(* A start or restart reaches systemctl after all dependencies of the      *)
(* component, and a profile is stopped dependents first.                   *)
THEOREM OrchestratorDependencyOrder == Spec => DependencyOrder
<1> DEFINE Ordered ==
      \A c \in done' \ done :
          LET top == Last(stack) IN
          /\ (top.action # "stop" /\ ~top.force) =>
                \A d \in ToSet(dependencies[c]) :
                    d \in done \/ \E i \in DOMAIN stack : stack[i].id = d
          /\ (serving.what.kind = "profile" /\ top.action = "stop") =>
                LET list == serving.what.list IN
                \A j \in DOMAIN list :
                    (/\ list[j] \in Dependents(c)
                     /\ \A i \in DOMAIN list : list[i] = c => i < j) => list[j] \in done
<1>1. ASSUME OrchestratorInv, [Next]_vars PROVE [Ordered]_vars
  <2> SUFFICES ASSUME NEW c \in done' \ done
               PROVE  /\ (Last(stack).action # "stop" /\ ~Last(stack).force) =>
                            \A d \in ToSet(dependencies[c]) :
                                d \in done \/ \E i \in DOMAIN stack : stack[i].id = d
                      /\ (serving.what.kind = "profile" /\ Last(stack).action = "stop") =>
                            \A j \in DOMAIN serving.what.list :
                                (\A i \in DOMAIN serving.what.list :
                                     serving.what.list[i] = c => i < j)
                                => serving.what.list[j] \in done
    OBVIOUS
  <2>0. /\ stack # << >> /\ Ready(Last(stack)) /\ c = Last(stack).id
        /\ Len(stack) \in 1..Len(stack) /\ Last(stack) = stack[Len(stack)]
        /\ Last(stack) \in Frame /\ c \in Component
        /\ stack \in Seq(Frame) /\ DOMAIN stack = 1..Len(stack) /\ Len(stack) \in Nat
    BY <1>1, ControlledBySystemctl DEF OrchestratorInv, CallTypes
  <2>1. ASSUME Last(stack).action # "stop", ~Last(stack).force,
               NEW d \in ToSet(dependencies[c])
        PROVE  d \in done \/ \E i \in DOMAIN stack : stack[i].id = d
    <3>1. Last(stack).action \in {"start", "restart"} /\ Last(stack).deps = << >>
      BY <2>0, <2>1 DEF Ready
    <3>2. d \in visited \cup ToSet(<< >>)
      BY <1>1, <2>0, <2>1, <3>1 DEF OrchestratorInv, StartInv
    <3>3. d \in visited
      BY <3>2 DEF ToSet
    <3> QED
      BY <1>1, <2>0, <3>3 DEF OrchestratorInv, StartInv
  <2>2. ASSUME serving.what.kind = "profile", Last(stack).action = "stop",
               NEW j \in DOMAIN serving.what.list,
               \A i \in DOMAIN serving.what.list : serving.what.list[i] = c => i < j
        PROVE  serving.what.list[j] \in done
    <3> DEFINE list == serving.what.list
    <3>1. serving # NoRequest /\ serving.what \in Request /\ todo \in Seq(Component)
      BY <1>1, <2>0, TopCall DEF OrchestratorInv, CallTypes
    <3>2. list \in Seq(Component)
      BY <2>2, <3>1, RequestParts
    <3>3. Len(stack) = 1 /\ serving.what.action = "stop"
      BY <1>1, <2>0, <2>2 DEF OrchestratorInv, StopInv
    <3>4. StopProgress(list, todo, stack, done)
      BY <1>1, <2>2, <3>1, <3>3 DEF OrchestratorInv, ProfileInv
    <3> DEFINE k == Len(todo) + 1
    <3>5. Len(list) \in Nat /\ Len(todo) \in Nat /\ DOMAIN list = 1..Len(list)
      BY <3>1, <3>2
    <3>6. /\ k <= Len(list) /\ c = list[k]
          /\ \A i \in 1..Len(list) : i > k => list[i] \in done
      BY <2>0, <3>3, <3>4 DEF StopProgress
    <3>7. k < j
      <4>1. k \in DOMAIN list
        BY <3>5, <3>6
      <4> QED
        BY <2>2, <3>6, <4>1
    <3> QED
      BY <2>2, <3>5, <3>6, <3>7
  <2> QED
    BY <2>1, <2>2
<1>2. OrchestratorInv /\ [Next]_vars => [Ordered]_vars
  BY <1>1
<1> QED
  BY <1>2, OrchestratorInvariant, PTL DEF Spec, DependencyOrder
(* Between the check of an unforced stop and its systemctl, units move: no *)
(* dependent is left running except one that came up in between.           *)
THEOREM OrchestratorStopSafe == Spec => UnforcedStopSafe
<1> DEFINE Safe ==
      \A c \in Component :
          (c \in done' \ done /\ Last(stack).action = "stop" /\ ~Last(stack).force)
              => {d \in Dependents(c) : Managed(unit[d])} \subseteq intruders
<1>1. ASSUME OrchestratorInv, [Next]_vars PROVE [Safe]_vars
  <2> SUFFICES ASSUME NEW c \in done' \ done, Last(stack).action = "stop", ~Last(stack).force,
                      NEW d \in Dependents(c), Managed(unit[d])
               PROVE  d \in intruders
    OBVIOUS
  <2>1. /\ Ready(Last(stack)) /\ c = Last(stack).id
        /\ Len(stack) \in 1..Len(stack) /\ Last(stack) = stack[Len(stack)]
    BY <1>1, ControlledBySystemctl
  <2>2. stack[Len(stack)].unread = {} /\ ~stack[Len(stack)].found
    BY <2>1 DEF Ready
  <2> QED
    BY <1>1, <2>1, <2>2 DEF OrchestratorInv, StopInv
<1>2. OrchestratorInv /\ [Next]_vars => [Safe]_vars
  BY <1>1
<1> QED
  BY <1>2, OrchestratorInvariant, PTL DEF Spec, UnforcedStopSafe

(* A unit whose stop is remembered is never reported as external.          *)
LEMMA RecentNotExternal ==
    ASSUME NEW c, recently_stopped[c] = "young", NEW view PROVE inspect(c, view) # "external"
<1>1. CASE c \notin Installed
  BY <1>1, Zenon DEF inspect
<1>2. CASE c \in Installed
  BY <1>2, Zenon DEF inspect
<1> QED
  BY <1>1, <1>2

(* The reply to a stop is sent while the stop is remembered, unless 15 s   *)
(* have passed since.                                                      *)
THEOREM OrchestratorStopNotExternal == Spec => StopNotExternal
<1> DEFINE Known ==
      \A w \in Callers :
          (/\ caller[w].told = "waiting" /\ caller'[w].told = "external"
           /\ serving.what.action = "stop")
              => recently_stopped[serving.what.id] = "old"
<1>1. ASSUME OrchestratorInv, [Next]_vars PROVE [Known]_vars
  <2> SUFFICES ASSUME NEW w \in Callers, caller[w].told = "waiting", caller'[w].told = "external",
                      serving.what.action = "stop", recently_stopped[serving.what.id] # "old"
               PROVE  FALSE
    OBVIOUS
  <2>0. caller \in [Callers -> Caller] /\ caller' # caller
    BY <1>1 DEF OrchestratorInv, CallTypes
  <2>1. ASSUME NEW told, Reply(told) PROVE told = "external"
    BY <2>0, <2>1 DEF Reply
  <2>2. ~Throw
    BY <2>1 DEF Throw
  <2>3. ~FinishRequest
    <3> SUFFICES ASSUME FinishRequest PROVE FALSE
      OBVIOUS
    <3>1. PICK view \in GraphView :
             Reply(IF serving.what.kind = "component" THEN inspect(serving.what.id, view)
                   ELSE "accepted")
      BY DEF FinishRequest
    <3>2. (IF serving.what.kind = "component" THEN inspect(serving.what.id, view)
           ELSE "accepted") = "external"
      BY <2>1, <3>1
    <3>3. serving.what.kind = "component" /\ inspect(serving.what.id, view) = "external"
      BY <3>2
    <3>4. recently_stopped[serving.what.id] # "none" /\ serving.what.id \in Component
      <4>1. stack = << >> /\ serving # NoRequest /\ recently_stopped[serving.what.id] # "none"
        BY <1>1, <3>3 DEF OrchestratorInv, StopInv, FinishRequest
      <4>2. serving.what.id \in Installed
        BY <3>3, Zenon DEF inspect
      <4> QED
        BY <4>1, <4>2
    <3>5. recently_stopped[serving.what.id] = "young"
      BY <1>1, <3>4 DEF OrchestratorInv, TypeOK
    <3> QED
      BY <3>3, <3>5, RecentNotExternal
  <2>4. ~Work
    BY <2>0, <2>2 DEF Work, ServeRequest, Take, NextOfProfile, StartDependency,
       CheckDependents, RefuseCall
  <2>8. ~SystemctlReturns
    <3>1. ~RunSystemctl /\ ~SystemctlFails
      BY <2>0, <2>2 DEF RunSystemctl, SystemctlFails
    <3>2. \A d \in Component : ~refresh_states(d)
      BY <2>0 DEF refresh_states, ReadUnit
    <3> QED
      BY <2>3, <3>1, <3>2 DEF SystemctlReturns
  <2>5. \A c : ~UnitEnds(c) /\ ~AutoRestart(c) /\ ~Intrude(c) /\ ~StopAges(c)
    BY <2>0 DEF UnitEnds, AutoRestart, Intrude, StopAges
  <2>6. \A v \in Callers : ~SendRequest(v) /\ ~RequestTimesOut(v)
    <3>1. ASSUME NEW v \in Callers, SendRequest(v) PROVE FALSE
      <4>1. PICK r \in Request :
               caller' = [caller EXCEPT ![v] = [number |-> caller[v].number + 1,
                                                service |-> r.kind, told |-> "waiting"]]
        BY <3>1 DEF SendRequest
      <4>2. caller'[w] = caller[w] \/ caller'[w].told = "waiting"
        BY <2>0, <4>1
      <4> QED
        BY <4>2
    <3>2. ASSUME NEW v \in Callers, RequestTimesOut(v) PROVE FALSE
      BY <2>0, <3>2 DEF RequestTimesOut
    <3> QED
      BY <3>1, <3>2
  <2>7. ~UNCHANGED vars
    BY <2>0 DEF vars
  <2> QED
    BY <1>1, <2>4, <2>5, <2>6, <2>7, <2>8 DEF Next
<1>2. OrchestratorInv /\ [Next]_vars => [Known]_vars
  BY <1>1
<1> QED
  BY <1>2, OrchestratorInvariant, PTL DEF Spec, StopNotExternal
=============================================================================
