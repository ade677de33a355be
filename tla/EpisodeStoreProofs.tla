------------------------- MODULE EpisodeStoreProofs -------------------------
(***************************************************************************)
(* Proofs about EpisodeStore, for any set of episodes, any length of a     *)
(* recording and any cleanup of the storage manager.                       *)
(***************************************************************************)
EXTENDS EpisodeStore, TLAPS

(* Where the callback is tells whether the recorder records, and in which  *)
(* of its states it is.                                                    *)
StepInv ==
    /\ step \in {"opened", "closing"} => recording
    /\ step \in {"down", "closed"} => ~recording
    /\ recording \/ step \in {"written", "closed"} => episode_id \in Episode
    /\ step \in {"idle", "opened", "written"} =>
           /\ state = "recording" <=> recording
           /\ state # "finalizing"

(* The bag of the episode in progress: open until it is closed, and as     *)
(* long as nobody removed it, the counter counts what is in it.            *)
BagInv ==
    /\ recording => bag[episode_id] \in {"none", "open"}
    /\ step = "closed" => bag[episode_id] \in {"none", "closed"}
    /\ (recording \/ step = "closed") /\ bag[episode_id] # "none" =>
           message_count = stored[episode_id]

(* An idle recorder has told the truth. *)
SampleInv ==
    step = "idle" =>
        /\ sample.published
        /\ sample.inUse <=> recording
        /\ recording => sample.id = episode_id

(* Who has heard the last message believes what it says. *)
HeardInv ==
    heard /\ sample.published =>
        inUseEpisode = IF sample.inUse THEN sample.id ELSE NoItem

(* Nothing that passed the check is in use.                                *)
TargetInv == inUseEpisode \notin targets

EpisodeInv ==
    /\ TypeOK
    /\ StepInv
    /\ BagInv
    /\ ManifestTrue
    /\ SampleInv
    /\ HeardInv
    /\ TargetInv

LEMMA NoOne == NoEpisode = NoItem /\ NoItem \notin Episode
  BY RecorderAssumption, Zenon DEF NoEpisode, NoItem

LEMMA Bounds == MaxMessages \in Nat /\ MaxDuration \in Nat /\ MaxDuration > 0
<1>1. MaxMessages \in Nat \ {0} /\ MaxDuration \in Nat \ {0}
  BY RecorderAssumption, Zenon
<1> QED
  BY <1>1

LEMMA EpisodeInit == Init => EpisodeInv
<1> SUFFICES ASSUME Init PROVE EpisodeInv
  OBVIOUS
<1>0. 0 \in 0..MaxMessages /\ 0 \in 0..MaxDuration
  BY Bounds
<1> USE DEF Init, RecorderInit, StorageInit, NoManifest, NoSample
<1> USE NoOne
<1>1. TypeOK
  <2>1. heard \in BOOLEAN /\ recording \in BOOLEAN
    BY Zenon
  <2>2. NoSample \in [published : BOOLEAN, inUse : BOOLEAN, id : Episode \cup {NoItem}]
    OBVIOUS
  <2>3. manifest \in [Episode -> [written : BOOLEAN, finished : BOOLEAN,
                                  messages : 0..MaxMessages]]
    BY <1>0
  <2>4. stored \in [Episode -> 0..MaxMessages] /\ elapsed \in 0..MaxDuration
        /\ message_count \in 0..MaxMessages
    BY <1>0
  <2> QED
    BY <2>1, <2>2, <2>3, <2>4 DEF TypeOK
<1>2. StepInv /\ BagInv /\ ManifestTrue
  BY DEF StepInv, BagInv, ManifestTrue
<1>3. SampleInv /\ HeardInv /\ TargetInv
  BY DEF SampleInv, HeardInv, TargetInv
<1> QED
  BY <1>1, <1>2, <1>3 DEF EpisodeInv

-----------------------------------------------------------------------------
(* The recorder.  Its steps leave the storage manager alone; a message it  *)
(* publishes has not been heard.                                           *)

Unheard ==
    /\ heard' = (heard /\ sample' = sample)
    /\ UNCHANGED storageVars

Sample == [published : BOOLEAN, inUse : BOOLEAN, id : Episode \cup {NoItem}]

RecorderType ==
    /\ step' \in {"down", "idle", "opened", "written", "closing", "closed"}
    /\ returnTo' \in {"idle", "written", "down"}
    /\ recording' \in BOOLEAN
    /\ state' \in {"idle", "recording", "finalizing", "error"}
    /\ episode_id' \in Episode \cup {NoItem}
    /\ message_count' \in 0..MaxMessages
    /\ elapsed' \in 0..MaxDuration
    /\ bag' \in [Episode -> {"none", "open", "closed", "torn"}]
    /\ stored' \in [Episode -> 0..MaxMessages]
    /\ manifest' \in [Episode -> [written : BOOLEAN, finished : BOOLEAN,
                                  messages : 0..MaxMessages]]
    /\ sample' \in Sample

(* What is left to show of a step of the recorder.                         *)
LEMMA RecorderFrame ==
    ASSUME EpisodeInv, Unheard, RecorderType, StepInv', BagInv', ManifestTrue', SampleInv'
    PROVE  EpisodeInv'
<1>1. TypeOK'
  BY DEF EpisodeInv, TypeOK, Unheard, storageVars, RecorderType, Sample
<1>2. HeardInv' /\ TargetInv'
  BY DEF EpisodeInv, HeardInv, TargetInv, Unheard, storageVars
<1> QED
  BY <1>1, <1>2 DEF EpisodeInv

(* What publish_state publishes. *)
LEMMA SampleType ==
    ASSUME NEW s, NEW e \in Episode \cup {NoItem}
    PROVE  /\ Published(s, e) \in Sample
           /\ Published(s, e).published
           /\ Published(s, e).inUse <=> s \in {"recording", "finalizing"}
           /\ Published(s, e).id = e
<1>1. (s \in {"recording", "finalizing"}) \in BOOLEAN
  OBVIOUS
<1> QED
  BY <1>1 DEF Published, Sample

LEMMA NoSampleType == NoSample \in Sample /\ ~NoSample.published
  BY NoOne DEF NoSample, Sample

(* stop_recording, whoever calls it: the bag is still open.                *)
LEMMA StopKeeps ==
    ASSUME EpisodeInv, Unheard, recording, step \in {"idle", "opened"},
           NEW after \in {"idle", "written", "down"}, stop_recording(after)
    PROVE  EpisodeInv'
<1>1. /\ state' = "finalizing" /\ returnTo' = after /\ step' = "closing"
      /\ UNCHANGED <<recording, episode_id, message_count, elapsed, bag, stored, manifest>>
      /\ sample' = IF after = "down" THEN NoSample ELSE Published("finalizing", episode_id)
  BY DEF stop_recording, diskVars
<1>2. sample' \in Sample
  BY <1>1, SampleType, NoSampleType DEF EpisodeInv, TypeOK
<1>3. RecorderType
  BY <1>1, <1>2 DEF RecorderType, EpisodeInv, TypeOK
<1>4. StepInv' /\ BagInv' /\ ManifestTrue' /\ SampleInv'
  BY <1>1 DEF EpisodeInv, StepInv, BagInv, ManifestTrue, SampleInv
<1> QED
  BY <1>3, <1>4, RecorderFrame

(* close: the bag of the episode is closed or torn, and its manifest does  *)
(* not say finished yet.                                                   *)
LEMMA CloseKeeps ==
    ASSUME EpisodeInv, Unheard, NEW ok \in BOOLEAN, close(ok)
    PROVE  EpisodeInv'
<1>1. /\ step = "closing" /\ recording /\ episode_id \in Episode /\ recording' = FALSE
      /\ bag[episode_id] \in {"none", "open"} /\ ~manifest[episode_id].finished
      /\ UNCHANGED <<returnTo, episode_id, message_count, elapsed, stored, manifest>>
  BY DEF close, EpisodeInv, TypeOK, StepInv, BagInv, ManifestTrue
<1>2. /\ bag' \in [Episode -> {"none", "open", "closed", "torn"}]
      /\ \A e \in Episode : e # episode_id => bag'[e] = bag[e]
      /\ ok => bag'[episode_id] \in {"none", "closed"}
      /\ bag'[episode_id] # "none" => bag[episode_id] # "none"
  BY <1>1 DEF close, EpisodeInv, TypeOK
<1>3. ManifestTrue'
  BY <1>1, <1>2 DEF ManifestTrue, EpisodeInv
<1>4. CASE ok
  <2>1. step' = "closed" /\ UNCHANGED <<state, sample>>
    BY <1>4 DEF close
  <2>2. RecorderType
    BY <1>1, <1>2, <2>1 DEF RecorderType, EpisodeInv, TypeOK, Sample
  <2>3. StepInv' /\ BagInv' /\ SampleInv'
    BY <1>1, <1>2, <1>4, <2>1 DEF EpisodeInv, StepInv, BagInv, SampleInv
  <2> QED
    BY <1>3, <2>2, <2>3, RecorderFrame
<1>5. CASE ~ok
  <2>1. /\ step' = returnTo /\ state' = "error"
        /\ sample' = IF returnTo = "down" THEN NoSample ELSE Published("error", episode_id)
        /\ returnTo \in {"idle", "written", "down"}
    BY <1>5 DEF close, EpisodeInv, TypeOK
  <2>2. sample' \in Sample
    BY <1>1, <2>1, SampleType, NoSampleType
  <2>3. RecorderType
    BY <1>1, <1>2, <2>1, <2>2 DEF RecorderType, EpisodeInv, TypeOK
  <2>4. StepInv' /\ BagInv' /\ SampleInv'
    BY <1>1, <2>1, SampleType DEF StepInv, BagInv, SampleInv
  <2> QED
    BY <1>3, <2>3, <2>4, RecorderFrame
<1> QED
  BY <1>4, <1>5

(* write_manifest changes the manifest of the episode in progress alone.   *)
LEMMA ManifestWritten ==
    ASSUME EpisodeInv, NEW finished \in BOOLEAN, episode_id \in Episode
    PROVE  /\ WithManifest(finished) \in [Episode -> [written : BOOLEAN, finished : BOOLEAN,
                                                      messages : 0..MaxMessages]]
           /\ \A e \in Episode :
                 \/ WithManifest(finished)[e] = manifest[e]
                 \/ /\ e = episode_id /\ bag[e] # "none"
                    /\ WithManifest(finished)[e].finished = finished
                    /\ WithManifest(finished)[e].messages = message_count
  BY DEF WithManifest, EpisodeInv, TypeOK

(* The rest of stop_recording: the bag is closed and the counter is right. *)
LEMMA FinishKeeps ==
    ASSUME EpisodeInv, Unheard, finish
    PROVE  EpisodeInv'
<1>1. /\ step = "closed" /\ ~recording /\ episode_id \in Episode
      /\ manifest' = WithManifest(TRUE) /\ state' = "idle" /\ step' = returnTo
      /\ sample' = IF returnTo = "down" THEN NoSample ELSE Published("idle", episode_id)
      /\ returnTo \in {"idle", "written", "down"}
      /\ UNCHANGED <<returnTo, recording, episode_id, message_count, elapsed, bag, stored>>
  BY DEF finish, EpisodeInv, TypeOK, StepInv
<1>2. sample' \in Sample
  BY <1>1, SampleType, NoSampleType
<1>3. RecorderType
  BY <1>1, <1>2, ManifestWritten DEF RecorderType, EpisodeInv, TypeOK
<1>4. ManifestTrue'
  BY <1>1, ManifestWritten DEF EpisodeInv, ManifestTrue, BagInv
<1>5. StepInv' /\ BagInv' /\ SampleInv'
  BY <1>1, SampleType DEF StepInv, BagInv, SampleInv
<1> QED
  BY <1>3, <1>4, <1>5, RecorderFrame

(* on_start: the id it picks has no directory, so no manifest either.      *)
LEMMA StartEpisodeKeeps ==
    ASSUME EpisodeInv, Unheard, NEW e \in Episode, NEW outcome \in {"open", "none", "torn"},
           on_start(e, outcome)
    PROVE  EpisodeInv'
<1>1. /\ step = "idle" /\ ~recording /\ bag[e] = "none" /\ ~manifest[e].finished
      /\ episode_id' = e /\ bag' = [bag EXCEPT ![e] = outcome]
      /\ UNCHANGED <<returnTo, manifest>>
  BY DEF on_start, EpisodeInv, ManifestTrue
<1>2. /\ bag' \in [Episode -> {"none", "open", "closed", "torn"}]
      /\ bag'[e] = outcome /\ \A d \in Episode : d # e => bag'[d] = bag[d]
  BY <1>1 DEF EpisodeInv, TypeOK
<1>3. CASE outcome = "open"
  <2>1. /\ stored' = [stored EXCEPT ![e] = 0]
        /\ recording' = TRUE /\ state' = "recording"
        /\ message_count' = 0 /\ elapsed' = 0 /\ step' = "opened"
        /\ UNCHANGED sample
    BY <1>3 DEF on_start
  <2>2. /\ stored' \in [Episode -> 0..MaxMessages]
        /\ stored'[e] = 0 /\ \A d \in Episode : d # e => stored'[d] = stored[d]
    BY <2>1, Bounds DEF EpisodeInv, TypeOK
  <2>3. RecorderType
    BY <1>1, <1>2, <2>1, <2>2, Bounds DEF RecorderType, EpisodeInv, TypeOK, Sample
  <2>4. ManifestTrue'
    BY <1>1, <1>2, <2>2 DEF ManifestTrue, EpisodeInv
  <2>5. StepInv' /\ BagInv' /\ SampleInv'
    BY <1>1, <1>2, <1>3, <2>1, <2>2 DEF StepInv, BagInv, SampleInv
  <2> QED
    BY <2>3, <2>4, <2>5, RecorderFrame
<1>4. CASE outcome # "open"
  <2>1. /\ state' = "error" /\ sample' = Published("error", e)
        /\ UNCHANGED <<stored, recording, message_count, elapsed, step>>
    BY <1>4 DEF on_start
  <2>2. RecorderType
    BY <1>1, <1>2, <2>1, SampleType DEF RecorderType, EpisodeInv, TypeOK
  <2>3. ManifestTrue'
    BY <1>1, <1>2, <2>1 DEF ManifestTrue, EpisodeInv
  <2>4. StepInv' /\ BagInv' /\ SampleInv'
    BY <1>1, <2>1, SampleType DEF StepInv, BagInv, SampleInv
  <2> QED
    BY <2>2, <2>3, <2>4, RecorderFrame
<1> QED
  BY <1>3, <1>4

(* record_message: the counter and the bag grow together.                  *)
LEMMA RecordKeeps ==
    ASSUME EpisodeInv, Unheard, NEW ok \in BOOLEAN, record_message(ok)
    PROVE  EpisodeInv'
<1>1. /\ recording /\ step \in {"idle", "opened"} /\ message_count < MaxMessages
      /\ episode_id \in Episode
  BY DEF record_message, EpisodeInv, StepInv
<1>2. CASE ~ok
  <2>1. stop_recording(IF step = "opened" THEN "written" ELSE "idle")
    BY <1>2 DEF record_message
  <2> QED
    BY <1>1, <2>1, StopKeeps
<1>3. CASE ok
  <2>1. /\ message_count' = message_count + 1
        /\ stored' = [stored EXCEPT ![episode_id] = IF bag[episode_id] = "none" THEN @ ELSE @ + 1]
        /\ step' = IF step = "opened" THEN "written" ELSE step
        /\ UNCHANGED <<returnTo, recording, state, episode_id, elapsed, bag, manifest, sample>>
    BY <1>3 DEF record_message
  <2>2. /\ message_count \in Nat /\ message_count' \in 0..MaxMessages
        /\ bag[episode_id] # "none" => stored[episode_id] = message_count
    BY <1>1, <2>1, Bounds DEF EpisodeInv, TypeOK, BagInv
  <2>3. /\ stored' \in [Episode -> 0..MaxMessages]
        /\ bag[episode_id] # "none" => stored'[episode_id] = message_count'
        /\ \A e \in Episode : e # episode_id => stored'[e] = stored[e]
    BY <1>1, <2>1, <2>2 DEF EpisodeInv, TypeOK
  <2>4. RecorderType
    BY <1>1, <2>1, <2>2, <2>3 DEF RecorderType, EpisodeInv, TypeOK, Sample
  <2>5. ManifestTrue'
    BY <1>1, <2>1, <2>3 DEF ManifestTrue, EpisodeInv, BagInv
  <2>6. StepInv' /\ BagInv' /\ SampleInv'
    BY <1>1, <2>1, <2>3 DEF EpisodeInv, StepInv, BagInv, SampleInv
  <2> QED
    BY <2>4, <2>5, <2>6, RecorderFrame
<1> QED
  BY <1>2, <1>3

LEMMA StartEndsKeeps ==
    ASSUME EpisodeInv, Unheard, on_start_ends
    PROVE  EpisodeInv'
<1>1. /\ step = "written" /\ episode_id \in Episode /\ step' = "idle"
      /\ manifest' = WithManifest(FALSE) /\ sample' = Published(state, episode_id)
      /\ UNCHANGED <<returnTo, recording, state, episode_id, message_count, elapsed, bag, stored>>
  BY DEF on_start_ends, EpisodeInv, StepInv
<1>2. RecorderType
  BY <1>1, ManifestWritten, SampleType DEF RecorderType, EpisodeInv, TypeOK
<1>3. ManifestTrue'
  BY <1>1, ManifestWritten DEF EpisodeInv, ManifestTrue
<1>4. StepInv' /\ BagInv'
  BY <1>1 DEF EpisodeInv, StepInv, BagInv
<1>5. SampleInv'
  BY <1>1, SampleType DEF EpisodeInv, StepInv, TypeOK, SampleInv
<1> QED
  BY <1>2, <1>3, <1>4, <1>5, RecorderFrame

LEMMA TimerKeeps ==
    ASSUME EpisodeInv, Unheard, on_timer
    PROVE  EpisodeInv'
<1>1. CASE recording /\ elapsed >= MaxDuration
  BY <1>1, StopKeeps DEF on_timer
<1>2. CASE ~(recording /\ elapsed >= MaxDuration)
  <2>1. /\ step = "idle" /\ sample' = Published(state, episode_id)
        /\ episode_id \in Episode \cup {NoItem}
        /\ UNCHANGED <<step, returnTo, recording, state, episode_id, message_count,
                       elapsed, bag, stored, manifest>>
    BY <1>2 DEF on_timer, diskVars, EpisodeInv, TypeOK
  <2>2. RecorderType
    BY <2>1, SampleType DEF RecorderType, EpisodeInv, TypeOK
  <2>3. StepInv' /\ BagInv' /\ ManifestTrue'
    BY <2>1 DEF EpisodeInv, StepInv, BagInv, ManifestTrue
  <2>4. SampleInv'
    BY <2>1, SampleType DEF EpisodeInv, StepInv, TypeOK, SampleInv
  <2> QED
    BY <2>2, <2>3, <2>4, RecorderFrame
<1> QED
  BY <1>1, <1>2

(* The process ends, or starts: what is on the disk stays true.            *)
LEMMA LifecycleKeeps ==
    ASSUME EpisodeInv, Unheard, ShutDown \/ Crash \/ Start
    PROVE  EpisodeInv'
<1>1. CASE ShutDown /\ recording
  BY <1>1, StopKeeps DEF ShutDown
<1>2. CASE ShutDown /\ ~recording
  <2>1. /\ step' = "down" /\ sample' = NoSample
        /\ UNCHANGED <<returnTo, recording, state, episode_id, message_count, elapsed,
                       bag, stored, manifest>>
    BY <1>2 DEF ShutDown, diskVars
  <2>2. RecorderType
    BY <2>1, NoSampleType DEF RecorderType, EpisodeInv, TypeOK
  <2>3. StepInv' /\ BagInv' /\ ManifestTrue' /\ SampleInv'
    BY <1>2, <2>1 DEF EpisodeInv, StepInv, BagInv, ManifestTrue, SampleInv
  <2> QED
    BY <2>2, <2>3, RecorderFrame
<1>3. CASE Crash
  <2>1. /\ step' = "down" /\ recording' = FALSE /\ sample' = NoSample
        /\ bag' = [e \in Episode |-> IF bag[e] = "open" THEN "torn" ELSE bag[e]]
        /\ UNCHANGED <<returnTo, state, episode_id, message_count, elapsed, stored, manifest>>
    BY <1>3 DEF Crash
  <2>2. /\ bag' \in [Episode -> {"none", "open", "closed", "torn"}]
        /\ \A e \in Episode : bag[e] = "closed" => bag'[e] = "closed"
    BY <2>1 DEF EpisodeInv, TypeOK
  <2>3. RecorderType
    BY <2>1, <2>2, NoSampleType DEF RecorderType, EpisodeInv, TypeOK
  <2>4. StepInv' /\ BagInv' /\ ManifestTrue' /\ SampleInv'
    BY <2>1, <2>2 DEF EpisodeInv, StepInv, BagInv, ManifestTrue, SampleInv
  <2> QED
    BY <2>3, <2>4, RecorderFrame
<1>4. CASE Start
  <2>1. /\ ~recording /\ step' = "idle" /\ state' = "idle" /\ episode_id' = NoItem
        /\ message_count' = 0 /\ elapsed' = 0 /\ sample' = Published("idle", NoItem)
        /\ UNCHANGED <<returnTo, recording, bag, stored, manifest>>
    BY <1>4, NoOne DEF Start, diskVars, EpisodeInv, StepInv
  <2>2. RecorderType
    BY <2>1, SampleType, Bounds DEF RecorderType, EpisodeInv, TypeOK
  <2>3. StepInv' /\ BagInv' /\ ManifestTrue' /\ SampleInv'
    BY <2>1, SampleType DEF EpisodeInv, StepInv, BagInv, ManifestTrue, SampleInv
  <2> QED
    BY <2>2, <2>3, RecorderFrame
<1> QED
  BY <1>1, <1>2, <1>3, <1>4

LEMMA TickKeeps ==
    ASSUME EpisodeInv, Unheard, Tick
    PROVE  EpisodeInv'
<1>1. /\ elapsed' \in 0..MaxDuration
      /\ UNCHANGED <<step, returnTo, recording, state, episode_id, message_count,
                     bag, stored, manifest, sample>>
  BY Bounds DEF Tick, diskVars, EpisodeInv, TypeOK
<1>2. RecorderType
  BY <1>1 DEF RecorderType, EpisodeInv, TypeOK, Sample
<1>3. StepInv' /\ BagInv' /\ ManifestTrue' /\ SampleInv'
  BY <1>1 DEF EpisodeInv, StepInv, BagInv, ManifestTrue, SampleInv
<1> QED
  BY <1>2, <1>3, RecorderFrame

-----------------------------------------------------------------------------
(* The storage manager. *)

(* What is left to show of a step that touches neither recorder nor disk.  *)
LEMMA StorageFrame ==
    ASSUME EpisodeInv, UNCHANGED recorderVars, heard' \in BOOLEAN,
           inUseEpisode' \in Episode \cup {NoItem},
           unchecked' \subseteq Episode, targets' \subseteq Episode,
           HeardInv', TargetInv'
    PROVE  EpisodeInv'
<1>1. UNCHANGED <<step, returnTo, recording, state, episode_id, message_count, elapsed,
                  bag, stored, manifest, sample>>
  BY DEF recorderVars, diskVars
<1>2. TypeOK'
  BY <1>1 DEF EpisodeInv, TypeOK
<1>3. StepInv' /\ BagInv' /\ ManifestTrue' /\ SampleInv'
  BY <1>1 DEF EpisodeInv, StepInv, BagInv, ManifestTrue, SampleInv
<1> QED
  BY <1>2, <1>3 DEF EpisodeInv

(* A message is heard between two cleanups, when nothing awaits removal.   *)
LEMMA HearKeeps ==
    ASSUME EpisodeInv, Hear
    PROVE  EpisodeInv'
<1>1. UNCHANGED recorderVars /\ sample' = sample /\ heard' = TRUE
  BY DEF Hear, recorderVars
<1>2. CASE sample.published
  <2>1. /\ targets = {} /\ UNCHANGED <<unchecked, targets>>
        /\ inUseEpisode' = IF sample.inUse THEN sample.id ELSE NoItem
    BY <1>2 DEF Hear, on_episode_state, StorageIdle
  <2>2. inUseEpisode' \in Episode \cup {NoItem} /\ unchecked' \subseteq Episode
    BY <2>1 DEF EpisodeInv, TypeOK
  <2> QED
    BY <1>1, <2>1, <2>2, StorageFrame DEF HeardInv, TargetInv
<1>3. CASE ~sample.published
  <2>1. UNCHANGED <<inUseEpisode, unchecked, targets>>
    BY <1>3 DEF Hear, storageVars
  <2>2. HeardInv' /\ TargetInv'
    BY <1>1, <1>3, <2>1 DEF EpisodeInv, HeardInv, TargetInv
  <2> QED
    BY <1>1, <2>1, <2>2, StorageFrame DEF EpisodeInv, TypeOK
<1> QED
  BY <1>2, <1>3

LEMMA CleanupKeeps ==
    ASSUME EpisodeInv, CleanEpisodes \/ CheckEpisode
    PROVE  EpisodeInv'
<1>1. UNCHANGED recorderVars /\ UNCHANGED <<sample, heard, inUseEpisode>>
  BY DEF CleanEpisodes, CheckEpisode, on_cleanup, CheckItem, recorderVars
<1>2. unchecked' \subseteq Episode /\ targets' \subseteq Episode /\ TargetInv'
  <2>1. CASE CleanEpisodes
    BY <2>1 DEF CleanEpisodes, on_cleanup, EpisodeInv, TypeOK, TargetInv
  <2>2. CASE CheckEpisode
    BY <2>2 DEF CheckEpisode, CheckItem, EpisodeProtected, EpisodeInv, TypeOK, TargetInv
  <2> QED
    BY <2>1, <2>2
<1>3. HeardInv'
  BY <1>1 DEF EpisodeInv, HeardInv
<1> QED
  BY <1>1, <1>2, <1>3, StorageFrame DEF EpisodeInv, TypeOK

(* A directory goes, and its manifest with it.                             *)
LEMMA RemoveKeeps ==
    ASSUME EpisodeInv, RemoveEpisode
    PROVE  EpisodeInv'
<1>1. PICK e \in Episode, ok \in BOOLEAN :
          /\ RemoveItem(e, ok)
          /\ IF ok THEN /\ bag' = [bag EXCEPT ![e] = "none"]
                        /\ stored' = [stored EXCEPT ![e] = 0]
                        /\ manifest' = [manifest EXCEPT ![e] = NoManifest]
                   ELSE UNCHANGED diskVars
  BY DEF RemoveEpisode
<1>2. /\ UNCHANGED <<step, returnTo, recording, state, episode_id, message_count, elapsed,
                     sample, heard, inUseEpisode, unchecked>>
      /\ targets' \subseteq targets
  BY <1>1 DEF RemoveEpisode, RemoveItem
<1>3. /\ bag' \in [Episode -> {"none", "open", "closed", "torn"}]
      /\ stored' \in [Episode -> 0..MaxMessages]
      /\ manifest' \in [Episode -> [written : BOOLEAN, finished : BOOLEAN,
                                    messages : 0..MaxMessages]]
      /\ \A d \in Episode :
            \/ bag'[d] = bag[d] /\ stored'[d] = stored[d] /\ manifest'[d] = manifest[d]
            \/ bag'[d] = "none" /\ ~manifest'[d].finished
  <2>1. NoManifest \in [written : BOOLEAN, finished : BOOLEAN, messages : 0..MaxMessages]
        /\ ~NoManifest.finished /\ 0 \in 0..MaxMessages
    BY Bounds DEF NoManifest
  <2>2. CASE ok
    BY <1>1, <2>1, <2>2 DEF EpisodeInv, TypeOK
  <2>3. CASE ~ok
    BY <1>1, <2>3 DEF diskVars, EpisodeInv, TypeOK
  <2> QED
    BY <2>2, <2>3
<1>4. TypeOK'
  BY <1>2, <1>3 DEF EpisodeInv, TypeOK
<1>5. ManifestTrue'
  BY <1>3 DEF EpisodeInv, ManifestTrue
<1>6. StepInv' /\ SampleInv' /\ HeardInv' /\ TargetInv'
  BY <1>2 DEF EpisodeInv, StepInv, SampleInv, HeardInv, TargetInv
<1>7. BagInv'
  BY <1>2, <1>3 DEF EpisodeInv, StepInv, BagInv
<1> QED
  BY <1>4, <1>5, <1>6, <1>7 DEF EpisodeInv

LEMMA EpisodeNext == EpisodeInv /\ [Next]_vars => EpisodeInv'
<1> SUFFICES ASSUME EpisodeInv, [Next]_vars PROVE EpisodeInv'
  OBVIOUS
<1>1. CASE StartEpisode
  BY <1>1, StartEpisodeKeeps DEF StartEpisode, Recorder, Unheard
<1>2. CASE Record
  BY <1>2, RecordKeeps DEF Record, Recorder, Unheard
<1>3. CASE StartEnds
  BY <1>3, StartEndsKeeps DEF StartEnds, Recorder, Unheard
<1>4. CASE StopEpisode
  BY <1>4, StopKeeps DEF StopEpisode, on_stop, Recorder, Unheard
<1>5. CASE Timer
  BY <1>5, TimerKeeps DEF Timer, Recorder, Unheard
<1>6. CASE Close
  BY <1>6, CloseKeeps DEF Close, Recorder, Unheard
<1>7. CASE Finish
  BY <1>7, FinishKeeps DEF Finish, Recorder, Unheard
<1>8. CASE Lifecycle
  BY <1>8, LifecycleKeeps DEF Lifecycle, Recorder, Unheard
<1>9. CASE Clock
  BY <1>9, TickKeeps DEF Clock, Recorder, Unheard
<1>10. CASE Hear
  BY <1>10, HearKeeps
<1>11. CASE CleanEpisodes \/ CheckEpisode
  BY <1>11, CleanupKeeps
<1>12. CASE RemoveEpisode
  BY <1>12, RemoveKeeps
<1>13. CASE StorageRestarts
  <2>1. /\ UNCHANGED recorderVars /\ heard' = FALSE
        /\ inUseEpisode' = NoItem /\ unchecked' = {} /\ targets' = {}
    BY <1>13 DEF StorageRestarts, StorageRestart
  <2> QED
    BY <2>1, StorageFrame DEF HeardInv, TargetInv
<1>14. CASE UNCHANGED vars
  <2>1. /\ UNCHANGED recorderVars /\ UNCHANGED <<sample, heard, inUseEpisode, unchecked, targets>>
    BY <1>14 DEF vars, recorderVars, storageVars
  <2>2. HeardInv' /\ TargetInv'
    BY <2>1 DEF EpisodeInv, HeardInv, TargetInv
  <2> QED
    BY <2>1, <2>2, StorageFrame DEF EpisodeInv, TypeOK
<1> QED
  BY <1>1, <1>2, <1>3, <1>4, <1>5, <1>6, <1>7, <1>8, <1>9, <1>10, <1>11, <1>12,
     <1>13, <1>14 DEF Next

-----------------------------------------------------------------------------
(* The theorems. *)

LEMMA EpisodeInvHolds == Spec => []EpisodeInv
  BY EpisodeInit, EpisodeNext, PTL DEF Spec

(* Type correctness of the episode store.                                  *)
THEOREM EpisodeTypeCorrect == Spec => []TypeOK
<1>1. EpisodeInv => TypeOK
  BY DEF EpisodeInv
<1> QED
  BY <1>1, EpisodeInvHolds, PTL

(* A manifest that write_manifest marked finished is true of its bag for   *)
(* as long as it exists, however recordings, crashes and cleanups          *)
(* interleave.                                                             *)
THEOREM EpisodeManifestTrue == Spec => []ManifestTrue
<1>1. EpisodeInv => ManifestTrue
  BY DEF EpisodeInv
<1> QED
  BY <1>1, EpisodeInvHolds, PTL

(* The storage manager that has heard the recorder's last message protects *)
(* the episode being recorded and no other.                                *)
THEOREM EpisodeProtectionFollows == Spec => []ProtectionFollows
<1>1. EpisodeInv => ProtectionFollows
  BY DEF EpisodeInv, SampleInv, HeardInv, ProtectionFollows
<1> QED
  BY <1>1, EpisodeInvHolds, PTL

(* No step removes the episode the storage manager knows to be in use: the *)
(* check of on_cleanup is still true when remove_all runs.                 *)
THEOREM EpisodeKnownKept == Spec => KnownEpisodeKept
<1>1. ASSUME EpisodeInv, Next,
             NEW e \in Episode, bag[e] # "none", bag'[e] = "none"
      PROVE  e # inUseEpisode
  <2>1. CASE RemoveEpisode
    <3>1. e \in targets
      BY <1>1, <2>1 DEF RemoveEpisode, RemoveItem, diskVars, EpisodeInv, TypeOK
    <3> QED
      BY <1>1, <3>1 DEF EpisodeInv, TargetInv
  <2>2. CASE ~RemoveEpisode
    <3>1. CASE StartEpisode
      BY <1>1, <3>1 DEF StartEpisode, Recorder, on_start, EpisodeInv, TypeOK
    <3>2. CASE Close
      BY <1>1, <3>2 DEF Close, Recorder, close, EpisodeInv, TypeOK
    <3>3. CASE Record \/ StopEpisode \/ Timer
      BY <1>1, <3>3 DEF Record, StopEpisode, Timer, Recorder, record_message, on_stop,
         on_timer, stop_recording, diskVars
    <3>4. CASE StartEnds \/ Finish \/ Clock
      BY <1>1, <3>4 DEF StartEnds, Finish, Clock, Recorder, on_start_ends, finish, Tick, diskVars
    <3>5. CASE Lifecycle
      BY <1>1, <3>5 DEF Lifecycle, Recorder, ShutDown, Crash, Start, stop_recording, diskVars,
         EpisodeInv, TypeOK
    <3>6. CASE Hear \/ CleanEpisodes \/ CheckEpisode \/ StorageRestarts
      BY <1>1, <3>6 DEF Hear, CleanEpisodes, CheckEpisode, StorageRestarts, recorderVars, diskVars
    <3> QED
      BY <1>1, <2>2, <3>1, <3>2, <3>3, <3>4, <3>5, <3>6 DEF Next
  <2> QED
    BY <2>1, <2>2
<1>2. EpisodeInv /\ [Next]_vars =>
          [\A e \in Episode : bag[e] # "none" /\ bag'[e] = "none" => e # inUseEpisode]_vars
  BY <1>1
<1> QED
  BY <1>2, EpisodeInvHolds, PTL DEF Spec, KnownEpisodeKept
=============================================================================
