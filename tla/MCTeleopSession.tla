--------------------------- MODULE MCTeleopSession ---------------------------
(***************************************************************************)
(* Instances of TeleopSession for TLC.                                     *)
(***************************************************************************)
EXTENDS TeleopSession, TLC

CONSTANTS a, b

Pair == {a, b}
Single == {a}

(* The controllers are alike; goals are not, they are taken in order. *)
Symmetry == Permutations(Pair)

(* A request for a value that is no mode. *)
UnknownMode == {MODE_FAULT + 1}

StopRaised == {[active |-> TRUE, severity |-> SEVERITY_STOP]}
=============================================================================
