------------------------------ MODULE JobStore ------------------------------
(***************************************************************************)
(* Job manager, its children and the storage manager around the directory  *)
(* of job records.                                                         *)
(***************************************************************************)
EXTENDS JobManager, StorageManager

vars == <<jobVars, storageVars>>

Init == JobManagerInit /\ StorageInit

Create == \E cancellable \in BOOLEAN : create(cancellable) /\ UNCHANGED storageVars

Cancel == \E j \in Job : cancel(j) /\ UNCHANGED storageVars

WorkerStep ==
    /\ \/ \E ok \in BOOLEAN : fork(ok)
       \/ run_begins
       \/ waitpid
       \/ run_ends
    /\ UNCHANGED storageVars

Persist == PersistWrites /\ UNCHANGED storageVars

ChildStarts == \E j \in Job : child_setpgid(j) /\ UNCHANGED storageVars

ChildEnds ==
    \E j \in Job, ending \in Endings : child_ends(j, ending) /\ UNCHANGED storageVars

Lifecycle ==
    /\ ShutDown \/ Exit \/ Start
    /\ UNCHANGED storageVars

(* is_protected_item: the file is searched for a live state; an empty one  *)
(* shows none.                                                             *)
JobProtected(j) == status[j] \in LiveStates

CleanJobs ==
    /\ \E items \in SUBSET {j \in Job : status[j] # "absent"} : on_cleanup(items)
    /\ UNCHANGED jobVars

CheckJob ==
    /\ \E j \in Job : CheckItem(j, status[j] # "absent", JobProtected(j))
    /\ UNCHANGED jobVars

RemoveJob ==
    /\ \E j \in Job, ok \in BOOLEAN :
          /\ RemoveItem(j, ok)
          /\ status' = IF ok THEN [status EXCEPT ![j] = "absent"] ELSE status
    /\ UNCHANGED <<manager, jobs, created, record, protectedJob, active, worker,
                   child, signalled, writing>>

Next ==
    \/ Create
    \/ Cancel
    \/ WorkerStep
    \/ Persist
    \/ ChildStarts
    \/ ChildEnds
    \/ Lifecycle
    \/ CleanJobs
    \/ CheckJob
    \/ RemoveJob

Spec == Init /\ [][Next]_vars

(* The worker gets the mutex in the end, however often requests take it; a *)
(* child reaches its own group, and one that was told to end does; a       *)
(* script left alone may run for ever.                                     *)
Fairness ==
    /\ SF_vars(WorkerStep)
    /\ WF_vars(Persist)
    /\ WF_vars(ChildStarts)
    /\ \A j \in Job : WF_vars(/\ j \in signalled
                              /\ \E ending \in Endings : child_ends(j, ending)
                              /\ UNCHANGED storageVars)

FairSpec == Spec /\ Fairness

(* As FairSpec, with scripts that end by themselves. *)
EndingSpec == FairSpec /\ WF_vars(ChildEnds)

-----------------------------------------------------------------------------
(* Properties. *)

(* Type invariant. *)
TypeOK ==
    /\ manager \in {"up", "stopping", "down"}
    /\ jobs \in Seq(Job) /\ Len(jobs) <= HistoryLimit
    /\ created \in 0..MaxJobs
    /\ record \in [Job -> [state : LiveStates \cup FinalStates, pid : BOOLEAN, cancel : BOOLEAN]]
    /\ protectedJob \subseteq Job
    /\ active \in Job \cup {NoJob}
    /\ worker \in {"none", "forking", "forked", "waiting", "reaped", "failed", "ended"}
    /\ child \in [Job -> {"none", "forked", "running"} \cup Endings]
    /\ signalled \subseteq Job
    /\ status \in [Job -> {"absent", "empty"} \cup LiveStates \cup FinalStates]
    /\ writing \in Job \cup {NoJob}
    /\ inUseEpisode = NoItem
    /\ unchecked \subseteq Job /\ targets \subseteq Job

(* The list tells the truth: the one job shown as queued or running is the *)
(* one the manager works on, also after a restart in the middle of a job.  *)
LiveIsActive ==
    manager # "down" =>
        \A i \in 1..Len(jobs) : record[jobs[i]].state \in LiveStates <=> jobs[i] = active

(* No two scripts run at once, also when the manager was killed and the    *)
(* child outlived it.                                                      *)
OneScript == Cardinality({j \in Job : Alive(j)}) <= 1

(* create joins the last worker while it holds the mutex: that worker must *)
(* not need the mutex any more.                                            *)
JoinSafe ==
    manager # "down" /\ active = NoJob /\ writing = NoJob => worker \in {"none", "ended"}

(* A job that succeeded ran to exit status zero. *)
SuccessIsReal ==
    \A i \in 1..Len(jobs) : record[jobs[i]].state = "succeeded" => child[jobs[i]] = "exit0"

(* Every job comes to an end, if its script does and the manager is not    *)
(* taken down first.                                                       *)
JobsSettle ==
    \A j \in Job : (active = j) ~> (active # j)

-----------------------------------------------------------------------------
(* What the documents say and the code does not do. *)

(* "POST /api/jobs/<job-id>/cancel: cancel the running job": a job whose   *)
(* cancellation was accepted stops, if the manager lives to see it.        *)
CancelStops ==
    \A j \in Job : (active = j /\ record[j].cancel) ~> (~Alive(j) \/ manager # "up")

(* "Jobs that are queued or running must not be deleted."                  *)
ActiveJobKept ==
    [][\A j \in Job : status[j] # "absent" /\ status'[j] = "absent" => j # active]_vars

(* "GET /api/jobs: list the recent jobs": list parses every job's file and *)
(* one it cannot parse makes it fail.                                      *)
ListServes ==
    MutexFree => \A i \in 1..Len(jobs) : status[jobs[i]] \notin {"absent", "empty"}

(* "Policy Runtime switch and model activation jobs cannot be cancelled."  *)
SwitchRunsOn == signalled \cap protectedJob = {}
=============================================================================
