------------------------ MODULE OperationOrchestrator ------------------------
(***************************************************************************)
(* operation_orchestrator: starts, stops and restarts the managed          *)
(* components by calling systemctl on their units, one request at a time,  *)
(* and the handlers of the operations API that relay the console's         *)
(* requests and give up waiting after a while.                             *)
(*                                                                         *)
(* control_component calls itself for the dependencies of the component it *)
(* starts; the calls in progress are the sequence stack, the set visited   *)
(* is its argument of that name.  Every systemctl call is one step, and    *)
(* the units move on their own between two of them.  run_command waits for *)
(* systemctl without a limit; that it returns is an assumption on systemd. *)
(* What get_node_names shows of a component (GraphView) may be anything at *)
(* any time: the ROS graph lags behind the processes, and they may be      *)
(* started elsewhere.  Each service has a queue of its own; the executor   *)
(* of the node takes from any that is not empty.                           *)
(* states_, which only carries the result of refresh_states to the reply   *)
(* of the same request, is not kept.                                       *)
(***************************************************************************)
EXTENDS Naturals, Sequences, FiniteSets, SequencesExt

CONSTANTS
    Component,       \* component_ids
    Configurations,  \* the dependency lists the node may be configured with
    Profiles,        \* the component lists of the profiles
    Installed,       \* the components whose unit systemd has loaded
    Callers,         \* the HTTP workers that relay requests
    Commands,        \* the control_component requests they may send: [id, action, force]
    Unsteady,        \* the units that end by themselves
    Intrusions,      \* the units somebody else starts or stops with systemctl
    MaxCalls         \* bound: requests sent per caller

NoRequest == [kind |-> "none"]

ListRequest == [kind |-> "list"]
ComponentRequest == {[kind |-> "component", id |-> c.id, action |-> c.action, force |-> c.force] :
                        c \in Commands}
ProfileRequest == [kind : {"profile"}, list : Profiles, action : {"start", "stop", "restart"}]
Request == {ListRequest} \cup ComponentRequest \cup ProfileRequest

(* A service is named after the kind of its requests.                      *)
Service == {"list", "component", "profile"}

GraphView == {"absent", "nodes", "healthy"}
ActiveState == {"inactive", "activating", "active", "deactivating", "failed"}

ASSUME OrchestratorAssumption ==
    /\ IsFiniteSet(Component)
    /\ Configurations \subseteq [Component -> Seq(Component)]
    /\ Profiles \subseteq Seq(Component)
    /\ \A c \in Commands : c.force \in BOOLEAN
    /\ Installed \subseteq Component
    /\ Unsteady \subseteq Component
    /\ Intrusions \subseteq Component
    /\ MaxCalls \in Nat

VARIABLES
    dependencies,  \* components_[id].dependencies
    unit,          \* ActiveState of each component's unit
    recently_stopped,  \* the entry of that map: none, younger than 15 s, or older
    requests,      \* per service, the requests not taken yet, with caller and number
    serving,       \* the request being handled
    todo,          \* components the profile handler has still to control
    stack,         \* calls of control_component in progress, innermost last
    visited,       \* the argument of that name
    caller,        \* the HTTP worker: its request's number and service, and what it was told
    done,          \* history: components this request has controlled
    intruders      \* history: units that became managed since they were last read

systemdVars == <<unit, intruders>>
callVars == <<serving, todo, stack, visited, done, recently_stopped>>
vars == <<dependencies, systemdVars, callVars, requests, caller>>

Managed(u) == u \in {"active", "activating", "deactivating"}

(* The state inspect reports for a component, given what the graph shows.  *)
inspect(c, view) ==
    CASE c \notin Installed                              -> "unavailable"
      [] c \in Installed /\ ~Managed(unit[c]) /\ view # "absent" ->
            IF recently_stopped[c] = "young" THEN "stopping" ELSE "external"
      [] unit[c] = "activating"                          -> "starting"
      [] unit[c] = "deactivating"                        -> "stopping"
      [] unit[c] = "active"                              ->
            IF view = "healthy" THEN "running" ELSE "degraded"
      [] unit[c] = "failed" /\ view = "absent"           -> "failed"
      [] OTHER                                           -> "stopped"

(* load_configuration refuses unknown dependencies and profile members, and *)
(* nothing else: a cycle of dependencies is accepted.                       *)
load_configuration == dependencies \in Configurations

Init ==
    /\ load_configuration
    /\ unit = [c \in Component |-> "inactive"]
    /\ recently_stopped = [c \in Component |-> "none"]
    /\ requests = [s \in Service |-> << >>]
    /\ serving = NoRequest
    /\ todo = << >>
    /\ stack = << >>
    /\ visited = {}
    /\ caller = [w \in Callers |-> [number |-> 0, service |-> "list", told |-> "nothing"]]
    /\ done = {}
    /\ intruders = {}

-----------------------------------------------------------------------------
(* systemd, as the orchestrator uses it.                                    *)

(* The units a start of c pulls in: the unit files want what the           *)
(* configuration lists as dependencies.                                    *)
Wanted(c) ==
    {d \in Component :
        \A S \in SUBSET Component :
            (c \in S /\ \A e \in S : ToSet(dependencies[e]) \subseteq S) => d \in S}

SetUnit(new) ==
    /\ unit' = new
    /\ intruders' = intruders \cup
           {c \in Component : ~Managed(unit[c]) /\ Managed(new[c])}

(* Starting c; a wanted unit may fail to come up.                          *)
StartUnit(c) ==
    \E up \in SUBSET (Wanted(c) \cap Installed) :
        /\ c \in up
        /\ SetUnit([d \in Component |-> IF d \in up THEN "active" ELSE unit[d]])

StopUnit(c) == \E u \in {"inactive", "failed"} : SetUnit([unit EXCEPT ![c] = u])

(* An active unit ends: cleanly, or it waits for its automatic restart, or  *)
(* it has failed too often.                                                *)
UnitEnds(c) ==
    /\ unit[c] = "active"
    /\ \E u \in {"inactive", "activating", "failed"} : SetUnit([unit EXCEPT ![c] = u])
    /\ UNCHANGED <<dependencies, callVars, requests, caller>>

AutoRestart(c) ==
    /\ unit[c] = "activating"
    /\ StartUnit(c)
    /\ UNCHANGED <<dependencies, callVars, requests, caller>>

(* Somebody else runs systemctl on a unit.                                 *)
Intrude(c) ==
    /\ \/ ~Managed(unit[c]) /\ c \in Installed /\ StartUnit(c)
       \/ unit[c] = "active" /\ SetUnit([unit EXCEPT ![c] = "deactivating"])
       \/ unit[c] = "deactivating" /\ StopUnit(c)
    /\ UNCHANGED <<dependencies, callVars, requests, caller>>

-----------------------------------------------------------------------------
(* The API: component_control, profile_control and components_list.        *)

SendRequest(w) ==
    /\ caller[w].told # "waiting"
    /\ caller[w].number < MaxCalls
    /\ \E r \in Request :
          LET n == caller[w].number + 1 IN
          /\ requests' = [requests EXCEPT ![r.kind] =
                            Append(@, [caller |-> w, number |-> n, what |-> r])]
          /\ caller' = [caller EXCEPT ![w] =
                            [number |-> n, service |-> r.kind, told |-> "waiting"]]
    /\ UNCHANGED <<dependencies, systemdVars, callVars>>

(* The future is not ready in time: the browser is told 408, the request   *)
(* stays where it is.                                                      *)
RequestTimesOut(w) ==
    /\ caller[w].told = "waiting"
    /\ caller' = [caller EXCEPT ![w].told = "timeout"]
    /\ UNCHANGED <<dependencies, systemdVars, callVars, requests>>

-----------------------------------------------------------------------------
(* The services.                                                           *)

(* The reply reaches the worker if it still waits for this request.        *)
Reply(told) ==
    /\ caller' = [w \in Callers |->
          IF w = serving.caller /\ caller[w].number = serving.number
                /\ caller[w].told = "waiting"
          THEN [caller[w] EXCEPT !.told = told] ELSE caller[w]]
    /\ serving' = NoRequest
    /\ stack' = << >>
    /\ todo' = << >>

(* An exception ends the request wherever control_component stands; what   *)
(* it has done stays done.                                                 *)
Throw == Reply("refused") /\ UNCHANGED <<visited, done>>

(* Mutant: a restart does not start the dependencies. *)
Call_RestartAlone(id, action, force) ==
    [id |-> id, action |-> action, force |-> force, found |-> FALSE,
     unread |-> IF action = "stop" /\ ~force THEN Component ELSE {},
     deps |-> IF action = "start" /\ ~force /\ id \in Component THEN dependencies[id] ELSE << >>]

(* A call of control_component, with the dependencies it starts first or   *)
(* the units an unforced stop has still to read, and whether it has found  *)
(* a managed dependent among those read.                                   *)
Call(id, action, force) ==
    [id |-> id, action |-> action, force |-> force, found |-> FALSE,
     unread |-> IF action = "stop" /\ ~force THEN Component ELSE {},
     deps |-> IF action \in {"start", "restart"} /\ ~force /\ id \in Component
              THEN dependencies[id] ELSE << >>]

Enter(calls, id, action, force) ==
    /\ stack' = Append(calls, Call(id, action, force))
    /\ visited' = (IF calls = << >> THEN {} ELSE visited) \cup {id}

Take(request, rest) ==
    /\ serving = NoRequest
    /\ requests' = rest
    /\ serving' = request
    /\ done' = {}
    /\ LET r == request.what IN
          CASE r.kind = "component" ->
                  Enter(<< >>, r.id, r.action, r.force) /\ todo' = << >>
            [] r.kind = "profile" ->
                  /\ todo' = IF r.action = "stop" THEN Reverse(r.list) ELSE r.list
                  /\ UNCHANGED <<stack, visited>>
            [] r.kind = "list" -> UNCHANGED <<todo, stack, visited>>
    /\ UNCHANGED <<dependencies, systemdVars, recently_stopped, caller>>

(* Mutant: the newest request of a service first. *)
ServeRequest_NewestFirst ==
    \E s \in Service :
        /\ requests[s] # << >>
        /\ Take(Last(requests[s]), [requests EXCEPT ![s] = Front(@)])

(* The executor takes a request of any service that has one: requests of   *)
(* one service in their order, those of different services in any.         *)
ServeRequest ==
    \E s \in Service :
        /\ requests[s] # << >>
        /\ Take(Head(requests[s]), [requests EXCEPT ![s] = Tail(@)])

(* The loop of the profile service: the next component, with a new visited. *)
NextOfProfile ==
    /\ stack = << >>
    /\ todo # << >>
    /\ Enter(<< >>, Head(todo), serving.what.action, serving.what.action = "stop")
    /\ todo' = Tail(todo)
    /\ UNCHANGED <<dependencies, systemdVars, recently_stopped, requests, serving, done, caller>>

(* Mutant: the test of visited is missing. *)
StartDependency_Unvisited ==
    /\ stack # << >>
    /\ Last(stack).deps # << >>
    /\ Enter([stack EXCEPT ![Len(stack)].deps = Tail(@)], Head(Last(stack).deps), "start", FALSE)
    /\ UNCHANGED <<dependencies, systemdVars, recently_stopped, requests, serving, todo, done, caller>>

(* control_component calls itself for the next dependency not yet visited. *)
StartDependency ==
    /\ stack # << >>
    /\ Last(stack).deps # << >>
    /\ LET d     == Head(Last(stack).deps)
           calls == [stack EXCEPT ![Len(stack)].deps = Tail(@)]
       IN IF d \in visited
          THEN stack' = calls /\ UNCHANGED visited
          ELSE Enter(calls, d, "start", FALSE)
    /\ UNCHANGED <<dependencies, systemdVars, recently_stopped, requests, serving, todo, done, caller>>

Dependents(c) == {d \in Component : c \in ToSet(dependencies[d])}

(* inspect forgets a stop that is more than 15 s old.                      *)
EraseOld(read) ==
    recently_stopped' = [c \in Component |->
        IF c \in read /\ recently_stopped[c] = "old" THEN "none" ELSE recently_stopped[c]]

(* The stop at the top of the stack reads the unit of d.                   *)
ReadUnit(d, managed) ==
    /\ stack # << >>
    /\ LET top == Last(stack) IN
          /\ top.action = "stop" /\ ~top.force
          /\ top.id \in Component
          /\ d \in top.unread
          /\ stack' = [stack EXCEPT ![Len(stack)] =
                         [top EXCEPT !.unread = top.unread \ {d},
                                     !.found = top.found \/ (d \in Dependents(top.id) /\ managed)]]
    /\ EraseOld({d})
    /\ intruders' = intruders \ {d}
    /\ UNCHANGED <<dependencies, unit, requests, serving, todo, visited, done, caller>>

(* Mutant: a dependent that waits for its restart does not count. *)
refresh_states_ActiveOnly(d) == ReadUnit(d, unit[d] = "active")

(* An unforced stop reads the units one after another.                     *)
refresh_states(d) == ReadUnit(d, Managed(unit[d]))

(* Mutant: the stop reads the units again until no dependent is managed. *)
CheckDependents_Again ==
    /\ stack # << >>
    /\ Last(stack).unread = {} /\ Last(stack).found
    /\ stack' = [stack EXCEPT ![Len(stack)] = Call(@.id, @.action, @.force)]
    /\ UNCHANGED <<dependencies, systemdVars, recently_stopped, requests, serving, todo,
                   visited, done, caller>>

(* All units are read and a dependent was found managed: the stop is       *)
(* refused.                                                                *)
CheckDependents ==
    /\ stack # << >>
    /\ Last(stack).id \in Component
    /\ Last(stack).unread = {} /\ Last(stack).found
    /\ Throw
    /\ UNCHANGED <<dependencies, systemdVars, recently_stopped, requests>>

(* The call at the top of the stack is about to run systemctl.             *)
Ready(top) ==
    /\ top.deps = << >>
    /\ top.id \in Component
    /\ top.action \in {"start", "stop", "restart"}
    /\ top.unread = {} /\ ~top.found

(* Mutant: the stop is not remembered. *)
RunSystemctl_ForgetsStop ==
    /\ stack # << >>
    /\ Ready(Last(stack))
    /\ Last(stack).id \in Installed
    /\ IF Last(stack).action = "stop" THEN StopUnit(Last(stack).id) ELSE StartUnit(Last(stack).id)
    /\ done' = done \cup {Last(stack).id}
    /\ stack' = Front(stack)
    /\ UNCHANGED <<dependencies, recently_stopped, requests, serving, todo, visited, caller>>

(* systemctl succeeds: the stop is remembered for 15 s, and the call       *)
(* returns.                                                                *)
RunSystemctl ==
    /\ stack # << >>
    /\ Ready(Last(stack))
    /\ LET top == Last(stack) IN
          /\ top.id \in Installed
          /\ IF top.action = "stop" THEN StopUnit(top.id) ELSE StartUnit(top.id)
          /\ recently_stopped' = [recently_stopped EXCEPT ![top.id] =
                                    IF top.action = "stop" THEN "young" ELSE "none"]
          /\ done' = done \cup {top.id}
    /\ stack' = Front(stack)
    /\ UNCHANGED <<dependencies, requests, serving, todo, visited, caller>>

(* systemctl exits with an error.  The units a failed start wants may have *)
(* come up, and the unit itself may be left in the failed state.           *)
SystemctlFails ==
    /\ stack # << >>
    /\ Ready(Last(stack))
    /\ LET c      == Last(stack).id
           pulled == IF Last(stack).action = "stop" THEN {} ELSE Wanted(c) \cap Installed
       IN IF c \in Installed
          THEN \E up \in SUBSET (pulled \ {c}), u \in {unit[c], "failed"} :
                  SetUnit([d \in Component |-> IF d = c THEN u
                                              ELSE IF d \in up THEN "active" ELSE unit[d]])
          ELSE UNCHANGED systemdVars
    /\ Throw
    /\ UNCHANGED <<dependencies, recently_stopped, requests>>

(* Unknown component or unsupported action.                                *)
RefuseCall ==
    /\ stack # << >>
    /\ LET top == Last(stack) IN
          \/ top.id \notin Component
          \/ top.action \notin {"start", "stop", "restart"}
    /\ Throw
    /\ UNCHANGED <<dependencies, systemdVars, recently_stopped, requests>>

(* All calls have returned: the states are read again and sent back.       *)
FinishRequest ==
    /\ serving # NoRequest
    /\ stack = << >>
    /\ todo = << >>
    /\ \E view \in GraphView :
          Reply(IF serving.what.kind = "component" THEN inspect(serving.what.id, view)
                ELSE "accepted")
    /\ EraseOld(Component)
    /\ UNCHANGED <<dependencies, systemdVars, requests, visited, done>>

(* 15 s have passed since the stop of c, whatever is served meanwhile.     *)
StopAges(c) ==
    /\ recently_stopped[c] = "young"
    /\ recently_stopped' = [recently_stopped EXCEPT ![c] = "old"]
    /\ UNCHANGED <<dependencies, systemdVars, requests, serving, todo, stack, visited, done, caller>>

-----------------------------------------------------------------------------
(* What the thread does between two systemctl calls.                       *)
Work ==
    \/ ServeRequest
    \/ NextOfProfile
    \/ StartDependency
    \/ CheckDependents
    \/ RefuseCall

(* What ends with a systemctl that has returned.                           *)
SystemctlReturns ==
    \/ \E d \in Component : refresh_states(d)
    \/ RunSystemctl
    \/ SystemctlFails
    \/ FinishRequest

Next ==
    \/ Work
    \/ SystemctlReturns
    \/ \E c \in Unsteady : UnitEnds(c)
    \/ \E c \in Component : AutoRestart(c)
    \/ \E c \in Intrusions : Intrude(c)
    \/ \E w \in Callers : SendRequest(w)
    \/ \E w \in Callers : RequestTimesOut(w)
    \/ \E c \in Component : StopAges(c)

Spec == Init /\ [][Next]_vars

(* The orchestrator's thread goes on with the request it serves.  The      *)
(* second conjunct is an assumption on systemd: run_command has no timeout *)
(* (it waits in read and waitpid), so a systemctl that hangs blocks the    *)
(* node.  The units are of Type=simple, which start at once, and stop      *)
(* within their TimeoutStopSec.                                            *)
FairSpec == Spec /\ WF_vars(Work) /\ WF_vars(SystemctlReturns)

-----------------------------------------------------------------------------
(* Properties. *)

Outcome == {"unavailable", "stopping", "external", "starting", "running", "degraded",
            "failed", "stopped"}

(* Type invariant: also, no component is on the stack twice, so that the   *)
(* recursion of control_component is bounded even for cyclic dependencies. *)
TypeOK ==
    /\ dependencies \in Configurations
    /\ unit \in [Component -> ActiveState]
    /\ recently_stopped \in [Component -> {"none", "young", "old"}]
    /\ serving = NoRequest \/ serving.what \in Request
    /\ \A i, j \in DOMAIN stack : stack[i].id = stack[j].id => i = j
    /\ \A w \in Callers : caller[w].told \in Outcome \cup
          {"nothing", "waiting", "timeout", "accepted", "refused"}

(* Order of a start: systemctl starts or restarts a component only after   *)
(* the same request started every dependency of it with success, or is     *)
(* itself waiting for it around a cycle; a dependency that failed stops    *)
(* the whole request.  In a profile stop, whose list names dependencies    *)
(* first, a component is stopped after the dependents named behind it.     *)
DependencyOrder ==
    [][\A c \in done' \ done :
          LET top == Last(stack) IN
          /\ (top.action # "stop" /\ ~top.force) =>
                \A d \in ToSet(dependencies[c]) :
                    d \in done \/ \E i \in DOMAIN stack : stack[i].id = d
          /\ (serving.what.kind = "profile" /\ top.action = "stop") =>
                LET list == serving.what.list IN
                \A j \in DOMAIN list :
                    (/\ list[j] \in Dependents(c)
                     /\ \A i \in DOMAIN list : list[i] = c => i < j) => list[j] \in done]_vars

(* An unforced stop takes no unit away from a dependent: the dependents    *)
(* that systemd runs, or is about to run again, when the stop is carried   *)
(* out all came up after each of them was read.                            *)
UnforcedStopSafe ==
    [][\A c \in Component :
          (c \in done' \ done /\ Last(stack).action = "stop" /\ ~Last(stack).force)
              => {d \in Dependents(c) : Managed(unit[d])} \subseteq intruders]_vars

(* A component the orchestrator has just stopped is not reported as run by *)
(* somebody else, although its nodes linger in the graph: only when the    *)
(* rest of the request took more than 15 s.                                *)
StopNotExternal ==
    [][\A w \in Callers :
          (/\ caller[w].told = "waiting" /\ caller'[w].told = "external"
           /\ serving.what.action = "stop")
              => recently_stopped[serving.what.id] = "old"]_vars

(* The requests a worker sends to one service are carried out in order:    *)
(* once it has an answer to one, no earlier one to this service, which it  *)
(* was told had timed out, is left to run.                                 *)
NothingLeftBehind ==
    \A w \in Callers :
        caller[w].told \notin {"nothing", "waiting", "timeout"} =>
            LET s == caller[w].service IN
            /\ \A i \in DOMAIN requests[s] : requests[s][i].caller # w
            /\ serving = NoRequest \/ serving.caller # w \/ serving.what.kind # s

(* What the code does not promise: requests to different services overtake *)
(* each other.  A profile operation that timed out is carried out after a  *)
(* later request for a component was answered, and may undo it.            *)
NothingOvertaken ==
    \A w \in Callers :
        (caller[w].told \notin {"nothing", "waiting", "timeout"} /\ caller[w].service = "component")
            => \A i \in DOMAIN requests["profile"] : requests["profile"][i].caller # w

(* Every request comes to an end, whatever systemctl answers and whatever  *)
(* the dependencies are, as long as systemctl returns.                     *)
RequestsEnd == []<>(serving = NoRequest)

(* "Start, stop and restart on a component's card control only that        *)
(* component": no other unit comes up.                                     *)
CardControlsOneUnit ==
    [][(serving # NoRequest /\ serving.what.kind = "component" /\ done' # done)
          => \A c \in Component :
                (~Managed(unit[c]) /\ Managed(unit'[c])) => c = serving.what.id]_vars
=============================================================================
