--------------------------- MODULE StorageManager ---------------------------
(***************************************************************************)
(* storage_manager: removes directories the operator selected, unless they *)
(* are in use.  Single-threaded, but a process of its own: the recorder    *)
(* and the job manager write the same directories meanwhile.               *)
(*                                                                         *)
(* A cleanup first checks every item, one after another, and then removes  *)
(* them one after another.  Which items exist and which are protected is   *)
(* the composition's to say.  Dry runs, the other categories and item      *)
(* names that are refused change nothing and are left out.                 *)
(***************************************************************************)
EXTENDS Integers, FiniteSets

CONSTANT MaxItems  \* items of one cleanup (100)

ASSUME StorageAssumption == MaxItems \in Nat \ {0}

NoItem == ""       \* no episode is in use

VARIABLES
    inUseEpisode,  \* active_episode_id_
    unchecked,     \* items of the request still to be checked
    targets        \* items checked and still to be removed

storageVars == <<inUseEpisode, unchecked, targets>>

StorageInit ==
    /\ inUseEpisode = NoItem
    /\ unchecked = {}
    /\ targets = {}

StorageIdle == unchecked = {} /\ targets = {}

(* Mutant: the subscription is served in the middle of a cleanup. *)
on_episode_state_Concurrent(inUse, id) ==
    /\ inUseEpisode' = IF inUse THEN id ELSE NoItem
    /\ UNCHANGED <<unchecked, targets>>

on_episode_state(inUse, id) ==
    /\ StorageIdle
    /\ inUseEpisode' = IF inUse THEN id ELSE NoItem
    /\ UNCHANGED <<unchecked, targets>>

on_cleanup(items) ==
    /\ StorageIdle
    /\ items # {} /\ Cardinality(items) <= MaxItems
    /\ unchecked' = items
    /\ UNCHANGED <<inUseEpisode, targets>>

(* One item is checked; the first that is missing or in use ends it all.   *)
CheckItem(i, exists, isProtected) ==
    /\ i \in unchecked
    /\ IF exists /\ ~isProtected
       THEN unchecked' = unchecked \ {i} /\ targets' = targets \cup {i}
       ELSE unchecked' = {} /\ targets' = {}
    /\ UNCHANGED inUseEpisode

(* One item is removed, the others to follow unless an error ends it.      *)
RemoveItem(i, ok) ==
    /\ unchecked = {} /\ i \in targets
    /\ targets' = IF ok THEN targets \ {i} ELSE {}
    /\ UNCHANGED <<inUseEpisode, unchecked>>

StorageRestart ==
    /\ inUseEpisode' = NoItem
    /\ unchecked' = {}
    /\ targets' = {}
=============================================================================
