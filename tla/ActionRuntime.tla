---------------------------- MODULE ActionRuntime ----------------------------
(***************************************************************************)
(* vla_action_runtime: holds the newest chunk of action samples and plays  *)
(* one sample per timer period.  Whether the mobility adapter accepts a    *)
(* chunk (schema, features present, values finite) is a flag of the        *)
(* message; a sample is known by its chunk and its place in it.            *)
(***************************************************************************)
EXTENDS Integers, Sequences

CONSTANT Horizon       \* samples in a chunk; the transport lets no empty one pass

ASSUME HorizonAssumption == Horizon \in Nat \ {0}

VARIABLES
    actions,         \* actions_
    actionsUntil,    \* valid_until_
    lastGenerated    \* last_generated_at_

runtimeVars == <<actions, actionsUntil, lastGenerated>>

RuntimeInit ==
    /\ actions = << >>
    /\ actionsUntil = 0
    /\ lastGenerated = 0

SamplesFrom(m) ==
    [i \in 1..Horizon |-> [chunk |-> m.chunk, index |-> i, imageAt |-> m.imageAt,
                           took |-> m.took]]

ActionAccepted(m) ==
    /\ m.acceptable
    /\ m.generated >= lastGenerated

(* Mutant: a new chunk is queued behind the old one. *)
on_action_Appends(m) ==
    IF ActionAccepted(m)
    THEN /\ actions' = actions \o SamplesFrom(m)
         /\ actionsUntil' = m.validUntil
         /\ lastGenerated' = m.generated
    ELSE UNCHANGED runtimeVars

on_action(m) ==
    IF ActionAccepted(m)
    THEN /\ actions' = SamplesFrom(m)
         /\ actionsUntil' = m.validUntil
         /\ lastGenerated' = m.generated
    ELSE UNCHANGED runtimeVars

SampleDue(t) == t <= actionsUntil /\ actions # << >>

(* Mutant: the sample stays in the queue. *)
execute_NoPop(t) ==
    /\ actions' = IF SampleDue(t) THEN actions ELSE << >>
    /\ UNCHANGED <<actionsUntil, lastGenerated>>

(* execute: the caller publishes Head(actions), or a zero command. *)
execute(t) ==
    /\ actions' = IF SampleDue(t) THEN Tail(actions) ELSE << >>
    /\ UNCHANGED <<actionsUntil, lastGenerated>>
=============================================================================
