----------------------- MODULE MCOperationOrchestrator -----------------------
(***************************************************************************)
(* Instances of OperationOrchestrator for TLC: a chain of components as in *)
(* components.yaml, and the same components with a cycle.                  *)
(***************************************************************************)
EXTENDS OperationOrchestrator

CONSTANTS camera, observation, debug

Chain == (camera :> << >>) @@ (observation :> <<camera>>) @@ (debug :> <<observation, camera>>)
Cycle == (camera :> <<observation>>) @@ (observation :> <<camera>>) @@ (debug :> << >>)

ChainOrCycle == {Chain, Cycle}
FullProfile == {<<camera, observation, debug>>}

Command(c, a, f) == [id |-> c, action |-> a, force |-> f]

CardCommands ==
    {Command(camera, "stop", TRUE), Command(camera, "stop", FALSE),
     Command(observation, "restart", FALSE), Command("unknown", "start", FALSE),
     Command(debug, "start", FALSE), Command(debug, "status", TRUE)}

(* The component card of the console always forces. *)
ForcedStart == {Command(observation, "start", TRUE)}
=============================================================================
