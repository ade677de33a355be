---------------------------- MODULE EpisodeStore ----------------------------
(***************************************************************************)
(* The episode recorder and the storage manager around the directory of    *)
(* episodes.  The recorder tells what it records in EpisodeState messages  *)
(* (depth 1, reliable, transient local): heard says whether the storage    *)
(* manager has received the last one.                                      *)
(***************************************************************************)
EXTENDS EpisodeRecorder, StorageManager

VARIABLE heard

vars == <<recorderVars, storageVars, heard>>

Init == RecorderInit /\ StorageInit /\ heard = TRUE

(* A step of the recorder; a new message has not been received yet.        *)
Recorder(A) ==
    /\ A
    /\ heard' = (heard /\ sample' = sample)
    /\ UNCHANGED storageVars

StartEpisode == \E e \in Episode, outcome \in {"open", "none", "torn"} : Recorder(on_start(e, outcome))

Record == \E ok \in BOOLEAN : Recorder(record_message(ok))

StartEnds == Recorder(on_start_ends)

StopEpisode == Recorder(on_stop)

Timer == Recorder(on_timer)

Close == \E ok \in BOOLEAN : Recorder(close(ok))

Finish == Recorder(finish)

Lifecycle == Recorder(ShutDown \/ Crash \/ Start)

Clock == Recorder(Tick)

Hear ==
    /\ ~heard
    /\ heard' = TRUE
    /\ IF sample.published THEN on_episode_state(sample.inUse, sample.id)
                           ELSE UNCHANGED storageVars
    /\ UNCHANGED recorderVars

(* is_protected_item: only what the last message said counts. *)
EpisodeProtected(e) == inUseEpisode = e

CleanEpisodes ==
    /\ \E items \in SUBSET {e \in Episode : bag[e] # "none"} : on_cleanup(items)
    /\ UNCHANGED <<recorderVars, heard>>

CheckEpisode ==
    /\ \E e \in Episode : CheckItem(e, bag[e] # "none", EpisodeProtected(e))
    /\ UNCHANGED <<recorderVars, heard>>

RemoveEpisode ==
    /\ \E e \in Episode, ok \in BOOLEAN :
          /\ RemoveItem(e, ok)
          /\ IF ok THEN /\ bag' = [bag EXCEPT ![e] = "none"]
                        /\ stored' = [stored EXCEPT ![e] = 0]
                        /\ manifest' = [manifest EXCEPT ![e] = NoManifest]
                   ELSE UNCHANGED diskVars
    /\ UNCHANGED <<step, returnTo, recording, state, episode_id, message_count, elapsed,
                   sample, heard>>

(* A restarted storage manager receives the kept message again. *)
StorageRestarts ==
    /\ StorageRestart
    /\ heard' = FALSE
    /\ UNCHANGED recorderVars

Next ==
    \/ StartEpisode
    \/ Record
    \/ StartEnds
    \/ StopEpisode
    \/ Timer
    \/ Close
    \/ Finish
    \/ Lifecycle
    \/ Clock
    \/ Hear
    \/ CleanEpisodes
    \/ CheckEpisode
    \/ RemoveEpisode
    \/ StorageRestarts

Spec == Init /\ [][Next]_vars

(* Time passes, and the recorder's one thread gets on with its callbacks;  *)
(* its subscriptions do not starve the timer.                              *)
Fairness ==
    /\ WF_vars(Clock)
    /\ WF_vars(Timer /\ elapsed >= MaxDuration)
    /\ WF_vars(Close)
    /\ WF_vars(Finish)
    /\ WF_vars(StartEnds)
    /\ WF_vars(step = "opened" /\ Record)

FairSpec == Spec /\ Fairness

-----------------------------------------------------------------------------
(* Properties. *)

(* Type invariant. *)
TypeOK ==
    /\ step \in {"down", "idle", "opened", "written", "closing", "closed"}
    /\ returnTo \in {"idle", "written", "down"}
    /\ recording \in BOOLEAN /\ heard \in BOOLEAN
    /\ state \in {"idle", "recording", "finalizing", "error"}
    /\ episode_id \in Episode \cup {NoItem}
    /\ message_count \in 0..MaxMessages
    /\ elapsed \in 0..MaxDuration
    /\ bag \in [Episode -> {"none", "open", "closed", "torn"}]
    /\ stored \in [Episode -> 0..MaxMessages]
    /\ manifest \in [Episode -> [written : BOOLEAN, finished : BOOLEAN,
                                 messages : 0..MaxMessages]]
    /\ sample \in [published : BOOLEAN, inUse : BOOLEAN, id : Episode \cup {NoItem}]
    /\ inUseEpisode \in Episode \cup {NoItem}
    /\ unchecked \subseteq Episode /\ targets \subseteq Episode

(* A manifest that says finished describes a closed bag and counts the     *)
(* messages that are in it, whatever failed, ended or was removed on the   *)
(* way.                                                                    *)
ManifestTrue ==
    \A e \in Episode :
        manifest[e].finished => bag[e] = "closed" /\ manifest[e].messages = stored[e]

(* A storage manager that has heard the last message protects exactly the  *)
(* episode that is being recorded.                                         *)
ProtectionFollows ==
    heard /\ step = "idle" => inUseEpisode = (IF recording THEN episode_id ELSE NoItem)

(* The episode the storage manager knows to be in use is not removed, also *)
(* when its check came first.                                              *)
KnownEpisodeKept ==
    [][\A e \in Episode : bag[e] # "none" /\ bag'[e] = "none" => e # inUseEpisode]_vars

(* A recording ends, at the latest when its longest duration is over.      *)
RecordingEnds == recording ~> ~recording

-----------------------------------------------------------------------------
(* What the documents say and the code does not do. *)

(* "An Episode being recorded or finalised must not be deleted."           *)
ActiveEpisodeKept ==
    [][\A e \in Episode :
          bag[e] # "none" /\ bag'[e] = "none" => ~(recording /\ episode_id = e)]_vars

(* "Episode recording started" is what on_start replies at its end.        *)
StartedIsRecording == [][step = "written" /\ step' = "idle" => recording]_vars
=============================================================================
