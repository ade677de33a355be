------------------------- MODULE CalibrationService -------------------------
(***************************************************************************)
(* The calibration routes of the operations API on its HTTP workers: every *)
(* worker may be in the middle of a request of its own, and the camera is  *)
(* restarted through the operation orchestrator while the worker waits.    *)
(***************************************************************************)
EXTENDS HttpServer, CameraCalibration

CONSTANT Routes     \* the requests clients may send

VARIABLE handler    \* where each worker is in its request

vars == <<httpVars, calibrationVars, handler>>

At(w, phase) == thread[w] = "handle" /\ handler[w].phase = phase

Goes(w, phase) ==
    /\ handler' = [handler EXCEPT ![w] = [phase |-> phase]]
    /\ UNCHANGED httpVars

(* The handler returns its response, which is sent before the connection   *)
(* is closed.                                                              *)
Answers(w) ==
    /\ handler' = [handler EXCEPT ![w] = [phase |-> "read"]]
    /\ CloseClient(w)

Init ==
    /\ HttpInit
    /\ CalibrationInit
    /\ handler = [w \in HttpWorkers |-> [phase |-> "read"]]

Routed(w, route) == At(w, "read") /\ route \in Routes

(* A request that does not get past its checks changes nothing.            *)
Refuse(w) == Answers(w) /\ UNCHANGED calibrationVars

camera_calibration_start(w) ==
    /\ Routed(w, "start")
    /\ \/ latestFrame = NoImage /\ Refuse(w)
       \/ \E board \in Boards : start(board) /\ Answers(w)

camera_calibration_reset(w) == Routed(w, "reset") /\ reset /\ Answers(w)

camera_calibration_compute(w) ==
    /\ Routed(w, "compute")
    /\ \/ compute /\ Answers(w)
       \/ ~ComputeAllowed /\ Refuse(w)

camera_calibration_capture(w) ==
    /\ Routed(w, "capture")
    /\ \/ ~CaptureAllowed /\ Refuse(w)
       \/ /\ CaptureAllowed
          /\ handler' = [handler EXCEPT ![w] = [phase |-> "search", copied |-> Copied]]
          /\ UNCHANGED <<httpVars, calibrationVars>>

(* The search for the corners ends: none, a known pose, or a new sample.   *)
CaptureEnds(w) ==
    /\ At(w, "search")
    /\ \/ Refuse(w)
       \/ \E pose \in Poses : StoreSample(handler[w].copied, pose) /\ Answers(w)

camera_calibration_apply(w) ==
    /\ Routed(w, "apply")
    /\ \/ ~session.ready /\ Refuse(w)
       \/ ApplyFails /\ Answers(w)
       \/ apply /\ Goes(w, "restart")

(* The orchestrator's answer to the restart request: the camera was        *)
(* restarted, or the request was refused, or nobody answered in time.      *)
RestartAnswered(w) ==
    /\ At(w, "restart")
    /\ \/ CameraRestarts /\ Goes(w, "verify")
       \/ Refuse(w)

(* wait_for_verification returns what verified_ is, now or at its timeout; *)
(* the reply says so.                                                      *)
WaitEnds(w) ==
    /\ At(w, "verify")
    /\ Answers(w)
    /\ UNCHANGED calibrationVars

(* Status, images and every other route that leaves the session alone; a   *)
(* connection whose request cannot be read is answered with an error.      *)
OtherRoute(w) == At(w, "read") /\ Refuse(w)

Handle(w) ==
    \/ camera_calibration_start(w)
    \/ camera_calibration_reset(w)
    \/ camera_calibration_compute(w)
    \/ camera_calibration_capture(w)
    \/ CaptureEnds(w)
    \/ camera_calibration_apply(w)
    \/ RestartAnswered(w)
    \/ WaitEnds(w)
    \/ OtherRoute(w)

Camera ==
    /\ \/ update_frame
       \/ update_camera_info
       \/ CameraPublishes
       \/ CameraRestarts
       \/ SecondPasses
    /\ UNCHANGED <<httpVars, handler>>

Next ==
    \/ HttpStep /\ UNCHANGED <<calibrationVars, handler>>
    \/ \E w \in HttpWorkers : Handle(w)
    \/ Camera

Spec == Init /\ [][Next]_vars

(* Threads that can run do; sockets and services have timeouts, so that    *)
(* every handler goes on.                                                  *)
Fairness ==
    /\ WF_vars(NotifyOne /\ UNCHANGED <<calibrationVars, handler>>)
    /\ WF_vars(NotifyAll /\ UNCHANGED <<calibrationVars, handler>>)
    /\ \A w \in HttpWorkers :
          /\ WF_vars((TestQueue(w) \/ FallAsleep(w)) /\ UNCHANGED <<calibrationVars, handler>>)
          /\ WF_vars(Handle(w))

FairSpec == Spec /\ Fairness

-----------------------------------------------------------------------------
(* Properties. *)

Sample == [board : Boards, size : Sizes, epoch : 1..epochs, pose : Poses]

(* Type invariant of the service.                                          *)
TypeOK ==
    /\ HttpTypeOK
    /\ epochs \in Nat
    /\ session.board \in Boards \cup {NoBoard}
    /\ session.samples \subseteq Sample
    /\ latestFrame \in Sizes \cup {NoImage}
    /\ pending \in BOOLEAN /\ verified \in BOOLEAN
    /\ \A w \in HttpWorkers :
          handler[w].phase \in {"read", "search", "restart", "verify"}

(* A result that may be applied was computed, in an active session, from   *)
(* exactly the samples the session shows, however many requests add        *)
(* samples, compute and reset at the same time.                            *)
ResultCurrent ==
    session.ready =>
        /\ session.active
        /\ session.result = session.samples
        /\ Cardinality(session.result) >= MinimumSamples

(* A first calibration is verified only by a camera that has read it: if   *)
(* the camera came without one, verified_ says that a calibration computed *)
(* by this service has been in use.                                        *)
FirstCalibrationVerified ==
    (verified /\ Factory = {}) => loaded # Placeholder

-----------------------------------------------------------------------------
(* What the documents say and the code does not do.                        *)

(* "Restarts front_camera and verifies the new CameraInfo": the CameraInfo *)
(* that completes the verification comes from the calibration just saved.  *)
VerifiedIsNew ==
    [][(verified' /\ ~verified) => infoTopic = {calibration}]_vars

(* "Backs up the old file": a calibration that was in use is still in the  *)
(* file or in a backup.                                                    *)
BackupKept ==
    [][\A content \in {calibration} \cup UNION {backups[s] : s \in DOMAIN backups} :
          content \in {calibration'} \cup UNION {backups'[s] : s \in DOMAIN backups}]_vars

(* "After the resolution changed, reset the session and capture again":    *)
(* a reset or a new session separates the samples.                         *)
SamplesOfOneSession ==
    \A s \in session.samples : s.epoch = session.epoch
=============================================================================
