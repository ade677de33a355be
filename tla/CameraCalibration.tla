-------------------------- MODULE CameraCalibration --------------------------
(***************************************************************************)
(* CameraCalibrationManager: the calibration session, its samples and its  *)
(* result, the calibration file, and the check of the camera's CameraInfo  *)
(* after a calibration was applied.  Every critical section of mutex_ is   *)
(* one step; capture has two, with the search for the corners in between.  *)
(*                                                                         *)
(* An image is its size and the pose of the board in it.  A sample also    *)
(* records the board it was searched with and, as history, the session it  *)
(* was begun in.  A calibration is the set of samples it was computed      *)
(* from; the placeholder that comes with the repository rests on none.     *)
(***************************************************************************)
EXTENDS Naturals, FiniteSets

CONSTANTS
    Corners,         \* numbers of inner corners of the boards an operator may enter
    Squares,         \* sizes of their squares
    Poses,           \* poses of the board that is_duplicate tells apart
    Sizes,           \* image sizes of the camera
    MinimumSamples,  \* minimum_samples
    Factory,         \* calibrations the camera may have had before
    NoBoard, NoImage,
    MaxSecond        \* bound: the wall clock, in seconds, stops here

Boards == [corners : Corners, square : Squares]

ASSUME CalibrationAssumption ==
    /\ MinimumSamples \in Nat \ {0}
    /\ MaxSecond \in Nat
    /\ NoBoard \notin Boards
    /\ NoImage \notin Sizes

Placeholder == {}    \* the uncalibrated file (fx = fy = 0)

NoSession ==
    [active |-> FALSE, board |-> NoBoard, size |-> NoImage, samples |-> {}, ready |-> FALSE,
     result |-> {}, epoch |-> 0]

VARIABLES
    session,      \* session_
    epochs,       \* history: sessions started
    latestFrame,  \* latest_frame_: size of the last image
    pending,      \* verification_pending_
    verified,     \* verified_
    calibration,  \* contents of the calibration file
    backups,      \* contents of the backup written in each second
    second,       \* the wall clock timestamp_token reads
    loaded,       \* the calibration the camera driver runs with
    infoTopic     \* /camera/camera_info: the sample in flight, by calibration

calibrationVars == <<session, epochs, latestFrame, pending, verified, calibration, backups,
                     second, loaded, infoTopic>>
fileVars == <<calibration, backups, second>>
cameraVars == <<loaded, infoTopic>>

Calibrated(content) == content # Placeholder

CalibrationInit ==
    /\ session = NoSession
    /\ epochs = 0
    /\ latestFrame = NoImage
    /\ pending = FALSE
    /\ verified = FALSE
    /\ calibration \in {Placeholder} \cup Factory
    /\ backups = [s \in 0..MaxSecond |-> {}]
    /\ second = 0
    /\ loaded = calibration
    /\ infoTopic = {}

-----------------------------------------------------------------------------
(* ROS callbacks, the camera and the clock.                                *)

update_frame ==
    /\ latestFrame' \in Sizes
    /\ UNCHANGED <<session, epochs, pending, verified, fileVars, cameraVars>>

(* Mutant: the focal lengths are not looked at. *)
InfoMatches_AnyFocal(content) == session.size \in Sizes

(* What update_camera_info asks of a CameraInfo; its number is always      *)
(* greater than the one noted by apply.  All images of the model's camera  *)
(* have the size its CameraInfo states.                                    *)
InfoMatches(content) == Calibrated(content) /\ session.size \in Sizes

update_camera_info ==
    /\ \E content \in infoTopic :
          /\ verified' = (verified \/ (pending /\ InfoMatches(content)))
          /\ pending' = (pending /\ ~InfoMatches(content))
    /\ infoTopic' = {}
    /\ UNCHANGED <<session, epochs, latestFrame, fileVars, loaded>>

CameraPublishes ==
    /\ infoTopic' = {loaded}
    /\ UNCHANGED <<session, epochs, latestFrame, pending, verified, fileVars, loaded>>

(* The camera driver is started again and reads the file.                  *)
CameraRestarts ==
    /\ loaded' = calibration
    /\ UNCHANGED <<session, epochs, latestFrame, pending, verified, fileVars, infoTopic>>

SecondPasses ==
    /\ second < MaxSecond
    /\ second' = second + 1
    /\ UNCHANGED <<session, epochs, latestFrame, pending, verified, calibration, backups, cameraVars>>

-----------------------------------------------------------------------------
(* The operations.                                                         *)

SessionChanges == UNCHANGED <<latestFrame, fileVars, cameraVars>>

start(board) ==
    /\ latestFrame # NoImage
    /\ session' = [NoSession EXCEPT !.active = TRUE, !.board = board, !.size = latestFrame,
                                    !.epoch = epochs + 1]
    /\ epochs' = epochs + 1
    /\ pending' = FALSE
    /\ verified' = FALSE
    /\ SessionChanges

reset ==
    /\ session' = NoSession
    /\ pending' = FALSE
    /\ verified' = FALSE
    /\ UNCHANGED epochs
    /\ SessionChanges

(* The first critical section of capture: what it copies, or why not.      *)
CaptureAllowed == session.active /\ latestFrame = session.size

Copied == [board |-> session.board, size |-> latestFrame, epoch |-> session.epoch]

(* Mutant: the result of the samples before stays. *)
WithSample_KeepsResult(sample) == [session EXCEPT !.samples = @ \cup {sample}]

(* push_back and clear_result. *)
WithSample(sample) ==
    [session EXCEPT !.samples = @ \cup {sample}, !.ready = FALSE, !.result = {}]

is_duplicate(pose) == \E s \in session.samples : s.pose = pose

(* The second critical section, with the board found in the copied image.  *)
StoreSample(copied, pose) ==
    /\ ~is_duplicate(pose)
    /\ session' = WithSample([board |-> copied.board, size |-> copied.size,
                              epoch |-> copied.epoch, pose |-> pose])
    /\ UNCHANGED <<epochs, pending, verified>>
    /\ SessionChanges

(* calibrateCamera wants as many image points of every sample as the       *)
(* session's board has corners, whatever the size of the squares the       *)
(* sample was taken with; its result may still be unusable.                *)
ComputeAllowed ==
    /\ session.active
    /\ Cardinality(session.samples) >= MinimumSamples
    /\ \A s \in session.samples : s.board.corners = session.board.corners

compute ==
    /\ ComputeAllowed
    /\ \E ready \in BOOLEAN :
          session' = [session EXCEPT !.ready = ready,
                                     !.result = IF ready THEN session.samples ELSE {}]
    /\ UNCHANGED <<epochs, pending, verified>>
    /\ SessionChanges

(* A copy of the old file, named after the second, replaces an earlier one *)
(* of that name.                                                           *)
BackUp == backups' = [backups EXCEPT ![second] = {calibration}]

(* apply up to its end: both files are written and the check is armed.     *)
apply ==
    /\ session.ready
    /\ BackUp
    /\ calibration' = session.result
    /\ pending' = TRUE
    /\ verified' = FALSE
    /\ UNCHANGED <<session, epochs, latestFrame, second, cameraVars>>

(* A file operation throws: nothing, the backup or both are done.          *)
ApplyFails ==
    /\ session.ready
    /\ \/ UNCHANGED <<backups, calibration>>
       \/ BackUp /\ calibration' \in {calibration, session.result}
    /\ UNCHANGED <<session, epochs, latestFrame, pending, verified, second, cameraVars>>
=============================================================================
