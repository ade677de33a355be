-------------------------- MODULE EpisodeRecorder ---------------------------
(***************************************************************************)
(* episode_recorder: records the vehicle's topics into one rosbag          *)
(* directory per episode and describes it in a manifest.                   *)
(*                                                                         *)
(* Single-threaded, but other processes see the disk between two writes of *)
(* one callback, and the process can end there: step is where the callback *)
(* is.  stop_recording runs inside several callbacks, and returnTo is what *)
(* its caller does next.  The image count goes the way of message_count;   *)
(* it, the operator's verdict and the texts are left out.                  *)
(***************************************************************************)
EXTENDS Integers

CONSTANTS
    Episode,       \* episode ids
    MaxMessages,   \* bound: messages of one episode
    MaxDuration    \* max_episode_duration_, in ticks

ASSUME RecorderAssumption ==
    /\ "" \notin Episode
    /\ MaxMessages \in Nat \ {0}
    /\ MaxDuration \in Nat \ {0}

NoEpisode == ""

VARIABLES
    step,          \* "down", "idle", "opened", "written", "closing" or "closed"
    returnTo,      \* the step after stop_recording
    recording,     \* recording_
    state,         \* state_
    episode_id,
    message_count,
    elapsed,       \* ticks since start_time_
    bag,           \* each directory: "none", "open", "closed" or "torn"
    stored,        \* messages in each bag
    manifest,      \* each manifest
    sample         \* the last EpisodeState published, kept for late joiners

diskVars == <<bag, stored, manifest>>
recorderVars == <<step, returnTo, recording, state, episode_id, message_count,
                  elapsed, diskVars, sample>>

NoManifest == [written |-> FALSE, finished |-> FALSE, messages |-> 0]
NoSample == [published |-> FALSE, inUse |-> FALSE, id |-> NoEpisode]

(* publish_state, as far as its readers look at it. *)
Published(s, e) ==
    [published |-> TRUE, inUse |-> s \in {"recording", "finalizing"}, id |-> e]

RecorderInit ==
    /\ step = "down"
    /\ returnTo = "idle"
    /\ recording = FALSE
    /\ state = "idle"
    /\ episode_id = NoEpisode
    /\ message_count = 0
    /\ elapsed = 0
    /\ bag = [e \in Episode |-> "none"]
    /\ stored = [e \in Episode |-> 0]
    /\ manifest = [e \in Episode |-> NoManifest]
    /\ sample = NoSample

(* write_manifest: a directory that is gone is left alone. *)
WithManifest(finished) ==
    IF bag[episode_id] = "none" THEN manifest
    ELSE [manifest EXCEPT ![episode_id] =
              [written |-> TRUE, finished |-> finished, messages |-> message_count]]

(* Mutant: the manifest is finished before the bag is closed. *)
stop_recording_ManifestFirst(after) ==
    /\ state' = "finalizing"
    /\ sample' = IF after = "down" THEN NoSample ELSE Published("finalizing", episode_id)
    /\ manifest' = WithManifest(TRUE)
    /\ returnTo' = after
    /\ step' = "closing"
    /\ UNCHANGED <<recording, episode_id, message_count, elapsed, bag, stored>>

(* stop_recording, up to the first publish_state.  After the signal that   *)
(* ends the process nothing is published any more.                         *)
stop_recording(after) ==
    /\ state' = "finalizing"
    /\ sample' = IF after = "down" THEN NoSample ELSE Published("finalizing", episode_id)
    /\ returnTo' = after
    /\ step' = "closing"
    /\ UNCHANGED <<recording, episode_id, message_count, elapsed, diskVars>>

(* writer_->close; its exception ends stop_recording in the error state.   *)
close(ok) ==
    /\ step = "closing"
    /\ recording' = FALSE
    /\ IF ok
       THEN /\ bag' = [bag EXCEPT ![episode_id] = IF @ = "none" THEN @ ELSE "closed"]
            /\ step' = "closed"
            /\ UNCHANGED <<state, sample>>
       ELSE /\ bag' = [bag EXCEPT ![episode_id] = IF @ = "none" THEN @ ELSE "torn"]
            /\ step' = returnTo
            /\ state' = "error"
            /\ sample' = IF returnTo = "down" THEN NoSample ELSE Published("error", episode_id)
    /\ UNCHANGED <<returnTo, episode_id, message_count, elapsed, stored, manifest>>

(* The rest of stop_recording. *)
finish ==
    /\ step = "closed"
    /\ manifest' = WithManifest(TRUE)
    /\ state' = "idle"
    /\ sample' = IF returnTo = "down" THEN NoSample ELSE Published("idle", episode_id)
    /\ step' = returnTo
    /\ UNCHANGED <<returnTo, recording, episode_id, message_count, elapsed, bag, stored>>

(* on_start with enough space and ready inputs, to the opened bag; opening *)
(* may fail, with or without a directory left behind.  unique_episode_id   *)
(* never picks an id whose directory exists.                               *)
on_start(e, outcome) ==
    /\ step = "idle" /\ ~recording
    /\ bag[e] = "none"
    /\ episode_id' = e
    /\ bag' = [bag EXCEPT ![e] = outcome]
    /\ IF outcome = "open"
       THEN /\ stored' = [stored EXCEPT ![e] = 0]
            /\ recording' = TRUE /\ state' = "recording"
            /\ message_count' = 0 /\ elapsed' = 0
            /\ step' = "opened"
            /\ UNCHANGED sample
       ELSE /\ state' = "error"
            /\ sample' = Published("error", e)
            /\ UNCHANGED <<stored, recording, message_count, elapsed, step>>
    /\ UNCHANGED <<returnTo, manifest>>

(* record_message, called by on_start for the task and later by every      *)
(* subscription.                                                           *)
record_message(ok) ==
    /\ recording /\ step \in {"idle", "opened"}
    /\ message_count < MaxMessages
    /\ IF ok
       THEN /\ message_count' = message_count + 1
            /\ stored' = [stored EXCEPT ![episode_id] = IF bag[episode_id] = "none" THEN @ ELSE @ + 1]
            /\ step' = IF step = "opened" THEN "written" ELSE step
            /\ UNCHANGED <<returnTo, recording, state, episode_id, elapsed, bag, manifest, sample>>
       ELSE stop_recording(IF step = "opened" THEN "written" ELSE "idle")

(* Mutant: the new recording is not announced. *)
on_start_ends_Silent ==
    /\ step = "written"
    /\ manifest' = WithManifest(FALSE)
    /\ step' = "idle"
    /\ UNCHANGED <<returnTo, recording, state, episode_id, message_count, elapsed, bag,
                   stored, sample>>

(* The end of on_start: manifest, publish_state and the reply "Episode     *)
(* recording started".                                                     *)
on_start_ends ==
    /\ step = "written"
    /\ manifest' = WithManifest(FALSE)
    /\ sample' = Published(state, episode_id)
    /\ step' = "idle"
    /\ UNCHANGED <<returnTo, recording, state, episode_id, message_count, elapsed, bag, stored>>

on_stop == step = "idle" /\ recording /\ stop_recording("idle")

(* Mutant: the timer only publishes. *)
on_timer_PublishOnly ==
    /\ step = "idle"
    /\ sample' = Published(state, episode_id)
    /\ UNCHANGED <<step, returnTo, recording, state, episode_id, message_count, elapsed, diskVars>>

on_timer ==
    /\ step = "idle"
    /\ IF recording /\ elapsed >= MaxDuration
       THEN stop_recording("idle")
       ELSE /\ sample' = Published(state, episode_id)
            /\ UNCHANGED <<step, returnTo, recording, state, episode_id, message_count,
                           elapsed, diskVars>>

-----------------------------------------------------------------------------
(* The process and its clock. *)

(* The node is destroyed after the signal that ends spin.                  *)
ShutDown ==
    /\ step = "idle"
    /\ IF recording THEN stop_recording("down")
       ELSE /\ step' = "down" /\ sample' = NoSample
            /\ UNCHANGED <<returnTo, recording, state, episode_id, message_count, elapsed, diskVars>>

Crash ==
    /\ step # "down"
    /\ step' = "down" /\ recording' = FALSE
    /\ sample' = NoSample
    /\ bag' = [e \in Episode |-> IF bag[e] = "open" THEN "torn" ELSE bag[e]]
    /\ UNCHANGED <<returnTo, state, episode_id, message_count, elapsed, stored, manifest>>

Start ==
    /\ step = "down"
    /\ step' = "idle"
    /\ state' = "idle" /\ episode_id' = NoEpisode
    /\ message_count' = 0 /\ elapsed' = 0
    /\ sample' = Published("idle", NoEpisode)
    /\ UNCHANGED <<returnTo, recording, diskVars>>

Tick ==
    /\ recording /\ elapsed < MaxDuration
    /\ elapsed' = elapsed + 1
    /\ UNCHANGED <<step, returnTo, recording, state, episode_id, message_count, diskVars, sample>>
=============================================================================
