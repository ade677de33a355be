------------------------------ MODULE MCDebug ------------------------------
(***************************************************************************)
(* Instances of the two debuggers for TLC.                                 *)
(*                                                                         *)
(* The snapshot debugger and the active debug session share no variable    *)
(* and no property relates them, so their interleavings show nothing new:  *)
(* a behaviour works on one of them and leaves the other in its initial    *)
(* state.                                                                  *)
(***************************************************************************)
EXTENDS DebugOrchestrator, ActiveDebug

VARIABLE part

vars == <<snapshotVars, activeVars, part>>

Init == SnapshotInit /\ ActiveInit /\ part \in {"snapshot", "active"}

Next ==
    \/ part = "snapshot" /\ SnapshotNext /\ UNCHANGED <<activeVars, part>>
    \/ part = "active" /\ ActiveNext /\ UNCHANGED <<snapshotVars, part>>

Spec == Init /\ [][Next]_vars

(* A call of the policy ends, because each of its finitely many socket     *)
(* calls returns or times out, a step's sleep ends, and the API's timer    *)
(* fires as time passes.                                                   *)
Fairness ==
    /\ WF_vars(part = "snapshot" /\ Work /\ UNCHANGED <<activeVars, part>>)
    /\ WF_vars(part = "active" /\ TimePasses /\ UNCHANGED <<snapshotVars, part>>)
    /\ WF_vars(/\ part = "active"
               /\ \E due \in BOOLEAN : active_debug_tick(due)
               /\ UNCHANGED <<snapshotVars, part>>)

FairSpec == Spec /\ Fairness

-----------------------------------------------------------------------------
(* The capture and run requests the API passes on.                         *)
SomeCaptures == {[upload |-> "camera", task |-> TRUE]}

SomeRuns ==
    {[stage |-> "preprocess", execute |-> FALSE, confirmed |-> FALSE],
     [stage |-> "inference", execute |-> TRUE, confirmed |-> TRUE],
     [stage |-> "inference", execute |-> TRUE, confirmed |-> FALSE]}
=============================================================================
