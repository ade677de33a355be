----------------------------- MODULE JobManager -----------------------------
(***************************************************************************)
(* The job manager of the operations API: one whitelisted script at a time *)
(* in a child process of its own group, a worker thread that waits for it, *)
(* and a status.json per job.                                              *)
(*                                                                         *)
(* Every critical section of mutex_ is one action.  It ends with persist,  *)
(* which truncates the file and then writes it while the mutex is still    *)
(* held: writing is the job whose file is empty meanwhile.  Job types are  *)
(* abstracted to whether a job may be cancelled; a job's number is its id. *)
(***************************************************************************)
EXTENDS Integers, Sequences, FiniteSets, SequencesExt

CONSTANTS
    MaxJobs,       \* bound: jobs ever created
    HistoryLimit   \* jobs kept in jobs_ (50)

ASSUME JobAssumption ==
    /\ MaxJobs \in Nat \ {0}
    /\ HistoryLimit \in Nat \ {0}

Job == 1..MaxJobs
NoJob == 0

VARIABLES
    manager,     \* "up", "stopping" (in the destructor) or "down"
    jobs,        \* jobs_, newest first
    created,     \* how many jobs were ever created
    record,      \* each job in memory: state, pid set, cancel_requested
    protectedJob,\* the jobs whose type refuses to be cancelled
    active,      \* active_job_
    worker,      \* where worker_ is: "none", "forking", "forked", "waiting",
                 \* "reaped", "failed" or "ended"
    child,       \* each job's process: "none", "forked", "running", or how it ended
    signalled,   \* the jobs whose process group received SIGTERM
    status,      \* each status.json: "absent" with its directory, "empty", or a state
    writing      \* the job persist is writing, mutex_ being held

jobVars == <<manager, jobs, created, record, protectedJob, active, worker,
             child, signalled, status, writing>>

LiveStates == {"queued", "running"}
FinalStates == {"succeeded", "failed", "cancelled"}
Endings == {"exit0", "exit1", "killed"}
Alive(j) == child[j] \in {"forked", "running"}

NewRecord == [state |-> "queued", pid |-> FALSE, cancel |-> FALSE]

JobManagerInit ==
    /\ manager = "down"
    /\ jobs = << >>
    /\ created = 0
    /\ record = [j \in Job |-> NewRecord]
    /\ protectedJob = {}
    /\ active = NoJob
    /\ worker = "none"
    /\ child = [j \in Job |-> "none"]
    /\ signalled = {}
    /\ status = [j \in Job |-> "absent"]
    /\ writing = NoJob

MutexFree == manager # "down" /\ writing = NoJob

(* persist, first half: a file whose directory is gone is not created.     *)
Truncated(s, j) == IF s[j] = "absent" THEN s ELSE [s EXCEPT ![j] = "empty"]

(* persist, second half, and the mutex is released. *)
PersistWrites ==
    /\ writing # NoJob
    /\ status' = IF status[writing] = "absent" THEN status
                 ELSE [status EXCEPT ![writing] = record[writing].state]
    /\ writing' = NoJob
    /\ UNCHANGED <<manager, jobs, created, record, protectedJob, active, worker,
                   child, signalled>>

(* kill(-pid, SIGTERM): there is no such group before the child's setpgid. *)
KillGroup(j) ==
    signalled' = IF child[j] = "running" THEN signalled \cup {j} ELSE signalled

(* Mutant: a job is created while another is active. *)
create_Concurrent(cancellable) ==
    /\ manager = "up" /\ MutexFree
    /\ created < MaxJobs
    /\ created' = created + 1
    /\ jobs' = SubSeq(<<created'>> \o jobs, 1,
                      IF Len(jobs) < HistoryLimit THEN Len(jobs) + 1 ELSE HistoryLimit)
    /\ record' = [record EXCEPT ![created'] = NewRecord]
    /\ protectedJob' = IF cancellable THEN protectedJob ELSE protectedJob \cup {created'}
    /\ active' = created'
    /\ worker' = "forking"
    /\ status' = [status EXCEPT ![created'] = "empty"]
    /\ writing' = created'
    /\ UNCHANGED <<manager, child, signalled>>

(* create, for a request that passed the whitelist.  While the mutex is    *)
(* held the previous worker is joined.                                     *)
create(cancellable) ==
    /\ manager = "up" /\ MutexFree
    /\ created < MaxJobs
    /\ active = NoJob
    /\ worker \in {"none", "ended"}
    /\ created' = created + 1
    /\ jobs' = SubSeq(<<created'>> \o jobs, 1,
                      IF Len(jobs) < HistoryLimit THEN Len(jobs) + 1 ELSE HistoryLimit)
    /\ record' = [record EXCEPT ![created'] = NewRecord]
    /\ protectedJob' = IF cancellable THEN protectedJob ELSE protectedJob \cup {created'}
    /\ active' = created'
    /\ worker' = "forking"
    /\ status' = [status EXCEPT ![created'] = "empty"]
    /\ writing' = created'
    /\ UNCHANGED <<manager, child, signalled>>

-----------------------------------------------------------------------------
(* run: the worker thread of the active job. *)

fork(ok) ==
    /\ manager # "down" /\ worker = "forking"
    /\ worker' = IF ok THEN "forked" ELSE "failed"
    /\ child' = IF ok THEN [child EXCEPT ![active] = "forked"] ELSE child
    /\ UNCHANGED <<manager, jobs, created, record, protectedJob, active,
                   signalled, status, writing>>

(* Its first critical section, once the parent knows the pid. *)
run_begins ==
    /\ worker = "forked" /\ MutexFree
    /\ record' = [record EXCEPT ![active].pid = TRUE, ![active].state = "running"]
    /\ IF record[active].cancel THEN KillGroup(active) ELSE UNCHANGED signalled
    /\ worker' = "waiting"
    /\ status' = Truncated(status, active)
    /\ writing' = active
    /\ UNCHANGED <<manager, jobs, created, protectedJob, active, child>>

(* Mutant: only a script that exited is reaped, not one ended by a signal. *)
waitpid_ExitedOnly ==
    /\ manager # "down" /\ worker = "waiting"
    /\ child[active] \in {"exit0", "exit1"}
    /\ worker' = "reaped"
    /\ UNCHANGED <<manager, jobs, created, record, protectedJob, active, child,
                   signalled, status, writing>>

waitpid ==
    /\ manager # "down" /\ worker = "waiting"
    /\ child[active] \in Endings
    /\ worker' = "reaped"
    /\ UNCHANGED <<manager, jobs, created, record, protectedJob, active, child,
                   signalled, status, writing>>

(* Mutant: how the script ended is not looked at. *)
Verdict_AnyEnd(j) ==
    IF worker = "failed" THEN "failed"
    ELSE IF record[j].cancel THEN "cancelled" ELSE "succeeded"

Verdict(j) ==
    IF worker = "failed" THEN "failed"
    ELSE IF record[j].cancel THEN "cancelled"
    ELSE IF child[j] = "exit0" THEN "succeeded" ELSE "failed"

(* Mutant: the job is settled first and persisted in a critical section of *)
(* its own.                                                                *)
run_ends_PersistsLater ==
    /\ worker \in {"reaped", "failed"} /\ MutexFree
    /\ record' = [record EXCEPT ![active].pid = FALSE, ![active].state = Verdict(active)]
    /\ active' = NoJob
    /\ UNCHANGED <<manager, jobs, created, protectedJob, worker, child, signalled,
                   status, writing>>

(* Its last critical section, after waitpid or a failed fork. *)
run_ends ==
    /\ worker \in {"reaped", "failed"} /\ MutexFree
    /\ record' = [record EXCEPT ![active].pid = FALSE, ![active].state = Verdict(active)]
    /\ status' = Truncated(status, active)
    /\ writing' = active
    /\ active' = NoJob
    /\ worker' = "ended"
    /\ UNCHANGED <<manager, jobs, created, protectedJob, child, signalled>>

cancel(j) ==
    /\ manager = "up" /\ MutexFree
    /\ Contains(jobs, j)
    /\ record[j].state \in LiveStates
    /\ j \notin protectedJob
    /\ record' = [record EXCEPT ![j].cancel = TRUE]
    /\ IF record[j].pid THEN KillGroup(j) ELSE UNCHANGED signalled
    /\ status' = Truncated(status, j)
    /\ writing' = j
    /\ UNCHANGED <<manager, jobs, created, protectedJob, active, worker, child>>

-----------------------------------------------------------------------------
(* The child process. *)

child_setpgid(j) ==
    /\ child[j] = "forked"
    /\ child' = [child EXCEPT ![j] = "running"]
    /\ UNCHANGED <<manager, jobs, created, record, protectedJob, active, worker,
                   signalled, status, writing>>

child_ends(j, ending) ==
    /\ child[j] = "running"
    /\ ending = "killed" => j \in signalled
    /\ child' = [child EXCEPT ![j] = ending]
    /\ UNCHANGED <<manager, jobs, created, record, protectedJob, active, worker,
                   signalled, status, writing>>

-----------------------------------------------------------------------------
(* The end of the process and its next start. *)

(* The destructor: no request is served any more. *)
ShutDown ==
    /\ manager = "up" /\ MutexFree
    /\ manager' = "stopping"
    /\ IF active # NoJob /\ record[active].pid
       THEN /\ record' = [record EXCEPT ![active].cancel = TRUE]
            /\ KillGroup(active)
       ELSE UNCHANGED <<record, signalled>>
    /\ UNCHANGED <<jobs, created, protectedJob, active, worker, child, status, writing>>

(* The join of the destructor returns, or the process is killed: a file    *)
(* being written stays empty, a child runs on.                             *)
Exit ==
    /\ manager # "down"
    /\ manager' = "down"
    /\ active' = NoJob
    /\ worker' = "none"
    /\ writing' = NoJob
    /\ jobs' = << >>
    /\ UNCHANGED <<created, record, protectedJob, child, signalled, status>>

(* The stored jobs that can be read. *)
Readable == {j \in 1..created : status[j] \notin {"absent", "empty"}}

NewestFirst(history) ==
    \A a, b \in DOMAIN history : a < b => history[a] > history[b]

(* Mutant: the stored state is believed. *)
Restored_AsStored(j) == status[j]

(* What load_history makes of a stored state. *)
Restored(j) == IF status[j] \in LiveStates THEN "failed" ELSE status[j]

(* The unit is started, what was left of its processes having been killed, *)
(* and load_history runs.                                                  *)
Start ==
    /\ manager = "down"
    /\ manager' = "up"
    /\ \E history \in [1..Cardinality(Readable) -> Readable] :
          /\ NewestFirst(history)
          /\ jobs' = SubSeq(history, 1, IF Len(history) < HistoryLimit THEN Len(history)
                                        ELSE HistoryLimit)
    /\ record' = [j \in Job |-> IF Contains(jobs', j)
                                THEN [NewRecord EXCEPT !.state = Restored(j)]
                                ELSE record[j]]
    /\ status' = [j \in Job |-> IF Contains(jobs', j) THEN Restored(j) ELSE status[j]]
    /\ child' = [j \in Job |-> IF Alive(j) THEN "exit1" ELSE child[j]]
    /\ UNCHANGED <<created, protectedJob, active, worker, signalled, writing>>
=============================================================================
