--------------------------- MODULE JobStoreProofs ---------------------------
(***************************************************************************)
(* Proofs about JobStore, for any number of jobs, any length of the        *)
(* history and any cleanup of the storage manager.                         *)
(***************************************************************************)
EXTENDS JobStore, FiniteSetTheorems, SequenceTheorems, TLAPS

(* Where the worker is tells whether there is an active job.               *)
AtWork == {"forking", "forked", "waiting", "reaped", "failed"}

WorkerInv ==
    /\ worker \in AtWork <=> active # NoJob
    /\ manager = "down" => active = NoJob
    /\ active <= created
    /\ \A i \in 1..Len(jobs) : jobs[i] <= created

(* The active job is live, in memory and as far as its file is written.    *)
ActiveInv ==
    active # NoJob =>
        /\ record[active].state \in LiveStates
        /\ status[active] \notin FinalStates

(* A process that lives belongs to the active job of a worker that knows   *)
(* of it, or was left behind by a manager that is gone.                    *)
ScriptInv ==
    /\ \A j, k \in Job : Alive(j) /\ Alive(k) => j = k
    /\ manager # "down" =>
           \A j \in Job : Alive(j) => j = active /\ worker \in {"forked", "waiting"}

(* Nothing, in memory or on the disk, calls a job a success that was none. *)
SuccessInv ==
    \A j \in Job :
        record[j].state = "succeeded" \/ status[j] = "succeeded" => child[j] = "exit0"

JobInv ==
    /\ TypeOK
    /\ WorkerInv
    /\ ActiveInv
    /\ LiveIsActive
    /\ ScriptInv
    /\ SuccessInv

-----------------------------------------------------------------------------
(* The two ways jobs_ gets a new value.                                    *)

(* A job put in front of the list, the list cut to its limit.              *)
Pushed(c, old) ==
    SubSeq(<<c>> \o old, 1, IF Len(old) < HistoryLimit THEN Len(old) + 1 ELSE HistoryLimit)

(* What create leaves in jobs_: the new job and jobs that were there, no   *)
(* more of them than the limit.                                            *)
LEMMA PushedList ==
    ASSUME NEW c \in Job, NEW old \in Seq(Job)
    PROVE  /\ Pushed(c, old) \in Seq(Job)
           /\ Len(Pushed(c, old)) <= HistoryLimit
           /\ \A i \in 1..Len(Pushed(c, old)) :
                 Pushed(c, old)[i] = c \/ \E k \in 1..Len(old) : Pushed(c, old)[i] = old[k]
<1> DEFINE list == Pushed(c, old)
<1> HIDE DEF list
<1> DEFINE n == IF Len(old) < HistoryLimit THEN Len(old) + 1 ELSE HistoryLimit
           all == <<c>> \o old
<1>1. n \in Nat /\ n <= HistoryLimit /\ n <= Len(old) + 1 /\ Len(old) \in Nat
  BY JobAssumption
<1>2. <<c>> \in Seq(Job) /\ Len(<<c>>) = 1 /\ <<c>>[1] = c
  OBVIOUS
<1>3. \A i \in 1..(Len(old) + 1) : all[i] = IF i <= 1 THEN c ELSE old[i - 1]
  BY <1>2, ConcatProperties
<1>4. \A i \in 1..n : all[i] \in Job
  BY <1>1, <1>3, ElementOfSeq
<1> HIDE DEF n, all
<1>5. /\ SubSeq(all, 1, n) \in Seq(Job)
      /\ Len(SubSeq(all, 1, n)) = IF 1 <= n THEN n ELSE 0
      /\ \A i \in 1..n : SubSeq(all, 1, n)[i] = all[i]
  <2>1. /\ SubSeq(all, 1, n) \in Seq(Job)
        /\ Len(SubSeq(all, 1, n)) = IF 1 <= n THEN n - 1 + 1 ELSE 0
        /\ \A i \in 1..(n - 1 + 1) : SubSeq(all, 1, n)[i] = all[1 + i - 1]
    BY <1>1, <1>4, SubSeqProperties
  <2> QED
    BY <2>1, <1>1
<1>6. list = SubSeq(all, 1, n)
  BY DEF list, Pushed, all, n
<1>7. list \in Seq(Job) /\ Len(list) = n
  <2>1. list \in Seq(Job) /\ Len(list) = IF 1 <= n THEN n ELSE 0
    BY ONLY <1>5, <1>6, Zenon
  <2> QED
    BY ONLY <2>1, <1>1
<1>8. ASSUME NEW i \in 1..Len(list)
      PROVE  list[i] = c \/ \E k \in 1..Len(old) : list[i] = old[k]
  <2>1. i \in 1..n /\ i \in 1..(Len(old) + 1)
    BY <1>1, <1>7
  <2>4. list[i] = all[i]
    BY <2>1, <1>5, <1>6
  <2>2. CASE i <= 1
    BY <2>1, <2>4, <2>2, <1>3
  <2>3. CASE i > 1
    <3>1. i - 1 \in 1..Len(old)
      BY <2>1, <2>3, <1>1
    <3>2. list[i] = old[i - 1]
      BY ONLY <2>1, <2>4, <2>3, <1>3, <1>1
    <3> QED
      BY ONLY <3>1, <3>2, Zenon
  <2> QED
    BY ONLY <1>1, <2>1, <2>2, <2>3
<1> QED
  BY <1>1, <1>7, <1>8 DEF list

(* The history load_history keeps of the jobs it can read.                 *)
Loaded(history) ==
    SubSeq(history, 1, IF Len(history) < HistoryLimit THEN Len(history) ELSE HistoryLimit)

(* What load_history leaves in jobs_: jobs it could read, no more of them  *)
(* than the limit.                                                         *)
LEMMA LoadedList ==
    ASSUME NEW R, IsFiniteSet(R), NEW history \in [1..Cardinality(R) -> R]
    PROVE  /\ Loaded(history) \in Seq(R)
           /\ Len(Loaded(history)) <= HistoryLimit
<1>1. Cardinality(R) \in Nat
  BY FS_CardinalityType
<1>2. history \in Seq(R) /\ Len(history) = Cardinality(R)
  BY <1>1, SeqDef
<1> DEFINE n == IF Len(history) < HistoryLimit THEN Len(history) ELSE HistoryLimit
<1>3. n \in Nat /\ n <= HistoryLimit /\ n <= Len(history)
  BY <1>1, <1>2, JobAssumption
<1> HIDE DEF n
<1>4. \A i \in 1..n : history[i] \in R
  BY <1>1, <1>2, <1>3
<1>5. /\ SubSeq(history, 1, n) \in Seq(R)
      /\ Len(SubSeq(history, 1, n)) = IF 1 <= n THEN n - 1 + 1 ELSE 0
  BY <1>3, <1>4, SubSeqProperties
<1>6. Loaded(history) = SubSeq(history, 1, n)
  BY DEF Loaded, n
<1> QED
  BY <1>3, <1>5, <1>6, JobAssumption

-----------------------------------------------------------------------------
(* The invariant. *)

LEMMA JobFacts == NoJob \notin Job /\ Job \subseteq Nat /\ NoJob \in Nat /\ \A j \in Job : j > 0
  BY JobAssumption DEF NoJob, Job

LEMMA JobInit == Init => JobInv
<1> SUFFICES ASSUME Init PROVE JobInv
  OBVIOUS
<1> USE JobFacts DEF Init, JobManagerInit, StorageInit
<1>1. TypeOK
  BY JobAssumption DEF TypeOK, LiveStates, NewRecord
<1>2. WorkerInv /\ ActiveInv /\ LiveIsActive
  BY DEF WorkerInv, AtWork, ActiveInv, LiveIsActive, NoJob
<1>3. ScriptInv /\ SuccessInv
  BY DEF ScriptInv, SuccessInv, Alive, NewRecord
<1> QED
  BY <1>1, <1>2, <1>3 DEF JobInv

(* The variables of the manager, all but the writer of the file and the    *)
(* storage manager.                                                        *)
coreVars == <<manager, jobs, created, record, active, worker, child>>

(* What is left to show of a step that disturbs none of those. *)
LEMMA CoreUnchanged ==
    ASSUME JobInv, TypeOK', UNCHANGED coreVars,
           active # NoJob => status'[active] \notin FinalStates,
           \A j \in Job : status'[j] = "succeeded" => child[j] = "exit0"
    PROVE  JobInv'
  BY DEF JobInv, coreVars, WorkerInv, ActiveInv, LiveIsActive, ScriptInv, SuccessInv, Alive

(* create: the new job is the one live job of the list.                    *)
LEMMA CreateKeeps ==
    ASSUME JobInv, NEW cancellable \in BOOLEAN, create(cancellable), UNCHANGED storageVars
    PROVE  JobInv'
<1> USE JobFacts
<1> DEFINE c == created + 1
<1>1. /\ manager = "up" /\ active = NoJob /\ created \in Nat /\ c \in Job
      /\ created' = c /\ active' = c /\ worker' = "forking"
      /\ record' = [record EXCEPT ![c] = NewRecord]
      /\ status' = [status EXCEPT ![c] = "empty"]
      /\ writing' = c
      /\ UNCHANGED <<manager, child, signalled>>
  BY JobAssumption DEF JobInv, TypeOK, create, Job
<1>2. jobs' = Pushed(c, jobs)
  BY DEF create, Pushed
<1> HIDE DEF c
<1>3. /\ jobs' \in Seq(Job) /\ Len(jobs') <= HistoryLimit
      /\ \A i \in 1..Len(jobs') : jobs'[i] = c \/ \E k \in 1..Len(jobs) : jobs'[i] = jobs[k]
  <2>1. jobs \in Seq(Job)
    BY DEF JobInv, TypeOK
  <2> QED
    BY <1>1, <1>2, <2>1, PushedList
<1>4. TypeOK'
  <2>1. protectedJob' \subseteq Job
    BY <1>1 DEF create, JobInv, TypeOK
  <2>2. record' \in [Job -> [state : LiveStates \cup FinalStates, pid : BOOLEAN, cancel : BOOLEAN]]
    BY <1>1 DEF JobInv, TypeOK, NewRecord, LiveStates
  <2>3. created' \in 0..MaxJobs
    BY <1>1, JobAssumption DEF Job
  <2> QED
    BY <1>1, <1>3, <2>1, <2>2, <2>3 DEF JobInv, TypeOK, storageVars
<1>5. ASSUME NEW k \in 1..Len(jobs)
      PROVE  jobs[k] \in Job /\ jobs[k] # c /\ jobs[k] <= c /\ record[jobs[k]].state \notin LiveStates
  <2>1. jobs[k] \in Job /\ jobs[k] <= created
    BY DEF JobInv, TypeOK, WorkerInv
  <2>2. record[jobs[k]].state \notin LiveStates
    BY <1>1, <2>1 DEF JobInv, LiveIsActive
  <2>3. jobs[k] \in Nat
    BY <2>1
  <2>4. jobs[k] # c /\ jobs[k] <= c
    BY <1>1, <2>1, <2>3 DEF c
  <2> QED
    BY <2>1, <2>2, <2>4
<1>6. record'[c] = NewRecord /\ \A j \in Job : j # c => record'[j] = record[j]
  BY <1>1 DEF JobInv, TypeOK
<1>7. ASSUME NEW i \in 1..Len(jobs')
      PROVE  /\ jobs'[i] <= c
             /\ record'[jobs'[i]].state \in LiveStates <=> jobs'[i] = c
  <2>1. CASE jobs'[i] = c
    BY <1>1, <1>6, <2>1 DEF NewRecord, LiveStates
  <2>2. CASE \E k \in 1..Len(jobs) : jobs'[i] = jobs[k]
    BY <1>5, <1>6, <2>2
  <2> QED
    BY <1>3, <2>1, <2>2
<1>8. WorkerInv' /\ LiveIsActive'
  BY <1>1, <1>7 DEF WorkerInv, AtWork, LiveIsActive
<1>9. ActiveInv'
  BY <1>1, <1>6 DEF ActiveInv, NewRecord, LiveStates, FinalStates, JobInv, TypeOK
<1>10. ScriptInv'
  BY <1>1 DEF JobInv, ScriptInv, Alive
<1>11. SuccessInv'
  BY <1>1, <1>6 DEF JobInv, TypeOK, SuccessInv, NewRecord
<1> QED
  BY <1>4, <1>8, <1>9, <1>10, <1>11 DEF JobInv

(* The worker: a child is forked for the active job alone.                 *)
LEMMA ForkKeeps ==
    ASSUME JobInv, NEW ok \in BOOLEAN, fork(ok), UNCHANGED storageVars
    PROVE  JobInv'
<1> USE JobFacts
<1>1. active \in Job /\ manager # "down" /\ worker = "forking"
  BY DEF fork, JobInv, TypeOK, WorkerInv, AtWork
<1>2. /\ worker' = IF ok THEN "forked" ELSE "failed"
      /\ child' = IF ok THEN [child EXCEPT ![active] = "forked"] ELSE child
      /\ UNCHANGED <<manager, jobs, created, record, protectedJob, active,
                     signalled, status, writing>>
  BY DEF fork
<1>3. \A j \in Job : ~Alive(j)
  BY <1>1 DEF JobInv, ScriptInv
<1>4. TypeOK'
  BY <1>1, <1>2 DEF JobInv, TypeOK, storageVars
<1>5. WorkerInv' /\ ActiveInv' /\ LiveIsActive'
  BY <1>1, <1>2 DEF JobInv, WorkerInv, AtWork, ActiveInv, LiveIsActive
<1>6. ScriptInv'
  BY <1>1, <1>2, <1>3 DEF JobInv, TypeOK, ScriptInv, Alive
<1>7. SuccessInv'
  BY <1>1, <1>2 DEF JobInv, TypeOK, SuccessInv, ActiveInv, LiveStates, FinalStates
<1> QED
  BY <1>4, <1>5, <1>6, <1>7 DEF JobInv

LEMMA RunBeginsKeeps ==
    ASSUME JobInv, run_begins, UNCHANGED storageVars
    PROVE  JobInv'
<1> USE JobFacts
<1>1. active \in Job /\ manager # "down" /\ worker = "forked"
  BY DEF run_begins, MutexFree, JobInv, TypeOK, WorkerInv, AtWork
<1>2. /\ record' = [record EXCEPT ![active].pid = TRUE, ![active].state = "running"]
      /\ worker' = "waiting" /\ writing' = active
      /\ status' = Truncated(status, active)
      /\ UNCHANGED <<manager, jobs, created, protectedJob, active, child>>
  BY DEF run_begins
<1>3. /\ record'[active].state = "running"
      /\ \A j \in Job : j # active => record'[j] = record[j]
      /\ record' \in [Job -> [state : LiveStates \cup FinalStates, pid : BOOLEAN, cancel : BOOLEAN]]
  BY <1>1, <1>2 DEF JobInv, TypeOK, LiveStates
<1>4. /\ \A j \in Job : status'[j] \in {status[j], "empty"}
      /\ status' \in [Job -> {"absent", "empty"} \cup LiveStates \cup FinalStates]
  BY <1>1, <1>2 DEF JobInv, TypeOK, Truncated
<1>5. signalled' \subseteq Job
  BY <1>1 DEF run_begins, KillGroup, JobInv, TypeOK
<1>6. TypeOK'
  BY <1>1, <1>2, <1>3, <1>4, <1>5 DEF JobInv, TypeOK, storageVars
<1>7. WorkerInv' /\ ActiveInv'
  BY <1>1, <1>2, <1>3, <1>4 DEF JobInv, WorkerInv, AtWork, ActiveInv, LiveStates, FinalStates
<1>8. LiveIsActive'
  <2>1. ASSUME NEW i \in 1..Len(jobs)
        PROVE  record'[jobs[i]].state \in LiveStates <=> jobs[i] = active
    <3>1. jobs[i] \in Job
      BY DEF JobInv, TypeOK
    <3> QED
      BY <1>1, <1>3, <3>1 DEF JobInv, LiveIsActive, LiveStates
  <2> QED
    BY <1>2, <2>1 DEF LiveIsActive
<1>9. ScriptInv'
  BY <1>1, <1>2 DEF JobInv, ScriptInv, Alive
<1>10. SuccessInv'
  BY <1>1, <1>2, <1>3, <1>4 DEF JobInv, SuccessInv
<1> QED
  BY <1>6, <1>7, <1>8, <1>9, <1>10 DEF JobInv

LEMMA WaitpidKeeps ==
    ASSUME JobInv, waitpid, UNCHANGED storageVars
    PROVE  JobInv'
<1>1. TypeOK'
  BY DEF waitpid, JobInv, TypeOK, storageVars
<1>2. WorkerInv' /\ ActiveInv' /\ LiveIsActive' /\ SuccessInv'
  BY DEF waitpid, JobInv, WorkerInv, AtWork, ActiveInv, LiveIsActive, SuccessInv
<1>3. ScriptInv'
  <2>1. \A j \in Job : ~Alive(j)
    BY DEF waitpid, JobInv, ScriptInv, Alive, Endings
  <2> QED
    BY <2>1 DEF waitpid, ScriptInv, Alive
<1> QED
  BY <1>1, <1>2, <1>3 DEF JobInv

(* run, at its end: the verdict is a success only if the script's was.     *)
LEMMA RunEndsKeeps ==
    ASSUME JobInv, run_ends, UNCHANGED storageVars
    PROVE  JobInv'
<1> USE JobFacts
<1> DEFINE a == active
<1>1. a \in Job /\ manager # "down" /\ worker \in {"reaped", "failed"}
  BY DEF run_ends, MutexFree, JobInv, TypeOK, WorkerInv, AtWork
<1>2. /\ record' = [record EXCEPT ![a].pid = FALSE, ![a].state = Verdict(a)]
      /\ worker' = "ended" /\ writing' = a /\ active' = NoJob
      /\ status' = Truncated(status, a)
      /\ UNCHANGED <<manager, jobs, created, protectedJob, child, signalled>>
  BY DEF run_ends
<1>3. Verdict(a) \in FinalStates /\ (Verdict(a) = "succeeded" => child[a] = "exit0")
  BY DEF Verdict, FinalStates
<1>4. /\ record'[a].state = Verdict(a)
      /\ \A j \in Job : j # a => record'[j] = record[j]
      /\ record' \in [Job -> [state : LiveStates \cup FinalStates, pid : BOOLEAN, cancel : BOOLEAN]]
  BY <1>1, <1>2, <1>3 DEF JobInv, TypeOK
<1>5. /\ \A j \in Job : status'[j] \in {status[j], "empty"}
      /\ status' \in [Job -> {"absent", "empty"} \cup LiveStates \cup FinalStates]
  BY <1>1, <1>2 DEF JobInv, TypeOK, Truncated
<1>6. TypeOK'
  BY <1>1, <1>2, <1>4, <1>5 DEF JobInv, TypeOK, storageVars
<1>7. WorkerInv' /\ ActiveInv'
  BY <1>1, <1>2 DEF JobInv, TypeOK, WorkerInv, AtWork, ActiveInv, NoJob
<1>8. LiveIsActive'
  <2>1. ASSUME NEW i \in 1..Len(jobs)
        PROVE  record'[jobs[i]].state \notin LiveStates /\ jobs[i] # NoJob
    <3>1. jobs[i] \in Job
      BY DEF JobInv, TypeOK
    <3> QED
      BY <1>1, <1>3, <1>4, <3>1 DEF JobInv, LiveIsActive, LiveStates, FinalStates
  <2> QED
    BY <1>2, <2>1 DEF LiveIsActive
<1>9. ScriptInv'
  <2>1. \A j \in Job : ~Alive(j)
    BY <1>1 DEF JobInv, ScriptInv
  <2> QED
    BY <1>2, <2>1 DEF ScriptInv, Alive
<1>10. SuccessInv'
  BY <1>1, <1>2, <1>3, <1>4, <1>5 DEF JobInv, SuccessInv
<1> QED
  BY <1>6, <1>7, <1>8, <1>9, <1>10 DEF JobInv

(* persist, at its end: the file says what memory says.                    *)
LEMMA PersistKeeps ==
    ASSUME JobInv, PersistWrites, UNCHANGED storageVars
    PROVE  JobInv'
<1>1. writing \in Job
  BY DEF PersistWrites, JobInv, TypeOK
<1>2. /\ UNCHANGED coreVars
      /\ UNCHANGED <<protectedJob, signalled>> /\ writing' = NoJob
      /\ \A j \in Job : status'[j] = status[j] \/ (j = writing /\ status'[j] = record[j].state)
      /\ status' \in [Job -> {"absent", "empty"} \cup LiveStates \cup FinalStates]
  BY <1>1 DEF PersistWrites, JobInv, TypeOK, coreVars
<1>3. TypeOK'
  BY <1>2 DEF coreVars, JobInv, TypeOK, storageVars
<1>4. active # NoJob => status'[active] \notin FinalStates
  BY <1>2 DEF JobInv, TypeOK, ActiveInv, LiveStates, FinalStates
<1>5. \A j \in Job : status'[j] = "succeeded" => child[j] = "exit0"
  BY <1>2 DEF JobInv, SuccessInv
<1> QED
  BY <1>2, <1>3, <1>4, <1>5, CoreUnchanged

(* A flag set in the record of the active job tells nothing of its end.    *)
LEMMA FlagKeeps ==
    ASSUME JobInv, TypeOK', NEW a \in Job,
           record' = [record EXCEPT ![a].cancel = TRUE],
           manager # "down", manager' # "down",
           UNCHANGED <<jobs, created, active, worker, child>>,
           \A j \in Job : status'[j] \in {status[j], "empty"}
    PROVE  JobInv'
<1> USE JobFacts
<1>1. \A j \in Job : record'[j].state = record[j].state
  BY DEF JobInv, TypeOK
<1>2. \A i \in 1..Len(jobs) : jobs[i] \in Job
  BY DEF JobInv, TypeOK
<1>3. WorkerInv' /\ ScriptInv'
  BY DEF JobInv, WorkerInv, ScriptInv, Alive
<1>4. ActiveInv'
  BY <1>1 DEF JobInv, TypeOK, ActiveInv, FinalStates
<1>5. LiveIsActive'
  BY <1>1, <1>2 DEF JobInv, LiveIsActive
<1>6. SuccessInv'
  BY <1>1 DEF JobInv, SuccessInv
<1> QED
  BY <1>3, <1>4, <1>5, <1>6 DEF JobInv

LEMMA CancelKeeps ==
    ASSUME JobInv, NEW j \in Job, cancel(j), UNCHANGED storageVars
    PROVE  JobInv'
<1>1. /\ manager = "up" /\ manager' = "up"
      /\ record' = [record EXCEPT ![j].cancel = TRUE]
      /\ status' = Truncated(status, j) /\ writing' = j
      /\ UNCHANGED <<jobs, created, protectedJob, active, worker, child>>
  BY DEF cancel
<1>2. /\ \A k \in Job : status'[k] \in {status[k], "empty"}
      /\ status' \in [Job -> {"absent", "empty"} \cup LiveStates \cup FinalStates]
  BY <1>1 DEF JobInv, TypeOK, Truncated
<1>3. record' \in [Job -> [state : LiveStates \cup FinalStates, pid : BOOLEAN, cancel : BOOLEAN]]
  BY <1>1 DEF JobInv, TypeOK
<1>4. signalled' \subseteq Job
  BY DEF cancel, KillGroup, JobInv, TypeOK
<1>5. TypeOK'
  BY <1>1, <1>2, <1>3, <1>4 DEF JobInv, TypeOK, storageVars
<1> QED
  BY <1>1, <1>2, <1>5, FlagKeeps

LEMMA ShutDownKeeps ==
    ASSUME JobInv, ShutDown, UNCHANGED storageVars
    PROVE  JobInv'
<1>1. /\ manager = "up" /\ manager' = "stopping"
      /\ UNCHANGED <<jobs, created, protectedJob, active, worker, child, status, writing>>
  BY DEF ShutDown
<1>2. CASE active # NoJob /\ record[active].pid
  <2>1. /\ active \in Job
        /\ record' = [record EXCEPT ![active].cancel = TRUE]
        /\ signalled' \subseteq Job
    BY <1>2 DEF ShutDown, KillGroup, JobInv, TypeOK
  <2>2. record' \in [Job -> [state : LiveStates \cup FinalStates, pid : BOOLEAN, cancel : BOOLEAN]]
    BY <2>1 DEF JobInv, TypeOK
  <2>3. TypeOK'
    BY <1>1, <2>1, <2>2 DEF JobInv, TypeOK, storageVars
  <2> QED
    BY <1>1, <2>1, <2>3, FlagKeeps
<1>3. CASE ~(active # NoJob /\ record[active].pid)
  <2>1. UNCHANGED <<record, signalled>>
    BY <1>3 DEF ShutDown
  <2> QED
    BY <1>1, <2>1 DEF JobInv, TypeOK, storageVars, WorkerInv, ActiveInv, LiveIsActive,
       ScriptInv, SuccessInv, Alive
<1> QED
  BY <1>2, <1>3

(* The child process: it lives on or ends, whoever waits for it.           *)
LEMMA ChildKeeps ==
    ASSUME JobInv, NEW j \in Job, Alive(j), NEW next \in {"running"} \cup Endings,
           child' = [child EXCEPT ![j] = next],
           UNCHANGED <<manager, jobs, created, record, protectedJob, active, worker,
                       signalled, status, writing, storageVars>>
    PROVE  JobInv'
<1>1. TypeOK'
  BY DEF JobInv, TypeOK, storageVars
<1>2. WorkerInv' /\ ActiveInv' /\ LiveIsActive'
  BY DEF JobInv, WorkerInv, ActiveInv, LiveIsActive
<1>3. \A k \in Job : Alive(k)' => Alive(k)
  BY DEF JobInv, TypeOK, Alive
<1>4. ScriptInv'
  BY <1>3 DEF JobInv, ScriptInv
<1>5. SuccessInv'
  BY DEF JobInv, TypeOK, SuccessInv, Alive
<1> QED
  BY <1>1, <1>2, <1>4, <1>5 DEF JobInv

(* The process ends: what it leaves behind is one child at most.           *)
LEMMA ExitKeeps ==
    ASSUME JobInv, Exit, UNCHANGED storageVars
    PROVE  JobInv'
<1>1. TypeOK'
  BY JobAssumption DEF Exit, JobInv, TypeOK, storageVars
<1>2. WorkerInv' /\ ActiveInv' /\ LiveIsActive'
  BY DEF Exit, JobInv, TypeOK, WorkerInv, AtWork, ActiveInv, LiveIsActive, NoJob
<1>3. ScriptInv' /\ SuccessInv'
  BY DEF Exit, JobInv, ScriptInv, SuccessInv, Alive
<1> QED
  BY <1>1, <1>2, <1>3 DEF JobInv

(* The process starts: load_history believes no live state it finds.       *)
LEMMA StartKeeps ==
    ASSUME JobInv, Start, UNCHANGED storageVars
    PROVE  JobInv'
<1> USE JobFacts
<1>1. /\ manager = "down" /\ active = NoJob /\ manager' = "up"
      /\ record' = [j \in Job |-> IF Contains(jobs', j)
                                  THEN [NewRecord EXCEPT !.state = Restored(j)]
                                  ELSE record[j]]
      /\ status' = [j \in Job |-> IF Contains(jobs', j) THEN Restored(j) ELSE status[j]]
      /\ child' = [j \in Job |-> IF Alive(j) THEN "exit1" ELSE child[j]]
      /\ UNCHANGED <<created, protectedJob, active, worker, signalled, writing>>
  BY DEF Start, JobInv, WorkerInv
<1>2. Readable \subseteq Job /\ Readable \subseteq 1..created /\ IsFiniteSet(Readable)
  <2>1. Readable \subseteq 1..created /\ created \in Nat /\ 1..created \subseteq Job
    BY JobAssumption DEF JobInv, TypeOK, Readable, Job
  <2>2. IsFiniteSet(1..created)
    BY <2>1, FS_Interval
  <2>3. IsFiniteSet(Readable)
    BY <2>1, <2>2, FS_Subset
  <2> QED
    BY <2>1, <2>3
<1>3. /\ jobs' \in Seq(Readable) /\ jobs' \in Seq(Job) /\ Len(jobs') <= HistoryLimit
      /\ \A i \in 1..Len(jobs') : jobs'[i] \in Readable
  <2>1. PICK history \in [1..Cardinality(Readable) -> Readable] : jobs' = Loaded(history)
    BY DEF Start, Loaded
  <2>2. jobs' \in Seq(Readable) /\ Len(jobs') <= HistoryLimit
    BY <1>2, <2>1, LoadedList
  <2> QED
    BY <1>2, <2>2, SeqMonotonic, ElementOfSeq
<1>4. \A j \in Job : Contains(jobs', j) => j \in Readable
  BY <1>3 DEF Contains
<1>5. \A j \in Readable : Restored(j) \in FinalStates
                           /\ (Restored(j) = "succeeded" => status[j] = "succeeded")
  BY <1>2 DEF JobInv, TypeOK, Readable, Restored, LiveStates, FinalStates
<1>6. ASSUME NEW j \in Job
      PROVE  /\ record'[j] = record[j]
                \/ /\ record'[j].state \in FinalStates
                   /\ record'[j].state = "succeeded" => status[j] = "succeeded"
             /\ record'[j] \in [state : LiveStates \cup FinalStates, pid : BOOLEAN, cancel : BOOLEAN]
             /\ status'[j] \in {"absent", "empty"} \cup LiveStates \cup FinalStates
             /\ status'[j] = "succeeded" => status[j] = "succeeded"
             /\ child'[j] \in Endings \cup {"none"}
             /\ child[j] = "exit0" => child'[j] = "exit0"
  BY <1>1, <1>4, <1>5 DEF JobInv, TypeOK, NewRecord, Alive, Endings
<1>7. TypeOK'
  <2>1. /\ record' \in [Job -> [state : LiveStates \cup FinalStates, pid : BOOLEAN, cancel : BOOLEAN]]
        /\ status' \in [Job -> {"absent", "empty"} \cup LiveStates \cup FinalStates]
        /\ child' \in [Job -> {"none", "forked", "running"} \cup Endings]
    BY <1>1, <1>6
  <2> QED
    BY <1>1, <1>3, <2>1 DEF JobInv, TypeOK, storageVars
<1>8. WorkerInv' /\ ActiveInv'
  <2>1. \A i \in 1..Len(jobs') : jobs'[i] <= created
    <3>1. \A j \in Readable : j <= created
      BY DEF Readable, JobInv, TypeOK
    <3> QED
      BY <1>3, <3>1
  <2> QED
    BY <1>1, <2>1 DEF JobInv, WorkerInv, ActiveInv
<1>9. LiveIsActive'
  <2>1. ASSUME NEW i \in 1..Len(jobs')
        PROVE  record'[jobs'[i]].state \notin LiveStates /\ jobs'[i] # NoJob
    <3>1. jobs'[i] \in Readable /\ jobs'[i] \in Job /\ Contains(jobs', jobs'[i])
      BY <1>2, <1>3 DEF Contains
    <3>2. record'[jobs'[i]].state = Restored(jobs'[i])
      BY <1>1, <3>1 DEF NewRecord
    <3> QED
      BY <1>5, <3>1, <3>2 DEF LiveStates, FinalStates
  <2> QED
    BY <1>1, <2>1 DEF LiveIsActive
<1>10. ScriptInv'
  BY <1>6 DEF ScriptInv, Alive, Endings
<1>11. SuccessInv'
  BY <1>6 DEF JobInv, SuccessInv
<1> QED
  BY <1>7, <1>8, <1>9, <1>10, <1>11 DEF JobInv

(* The storage manager: a record may be lost, at any time, not changed.    *)
LEMMA StorageKeeps ==
    ASSUME JobInv, CleanJobs \/ CheckJob \/ RemoveJob
    PROVE  JobInv'
<1>1. /\ UNCHANGED coreVars
      /\ UNCHANGED <<protectedJob, signalled, writing, inUseEpisode>>
  BY DEF CleanJobs, CheckJob, RemoveJob, on_cleanup, CheckItem, RemoveItem, coreVars, jobVars
<1>2. /\ \A j \in Job : status'[j] \in {status[j], "absent"}
      /\ status' \in [Job -> {"absent", "empty"} \cup LiveStates \cup FinalStates]
  <2>1. CASE CleanJobs \/ CheckJob
    BY <2>1 DEF CleanJobs, CheckJob, jobVars, JobInv, TypeOK
  <2>2. CASE RemoveJob
    BY <2>2 DEF RemoveJob, JobInv, TypeOK
  <2> QED
    BY <2>1, <2>2
<1>3. unchecked' \subseteq Job /\ targets' \subseteq Job
  <2>1. CASE CleanJobs
    BY <2>1 DEF CleanJobs, on_cleanup, JobInv, TypeOK
  <2>2. CASE CheckJob
    BY <2>2 DEF CheckJob, CheckItem, JobInv, TypeOK
  <2>3. CASE RemoveJob
    BY <2>3 DEF RemoveJob, RemoveItem, JobInv, TypeOK
  <2> QED
    BY <2>1, <2>2, <2>3
<1>4. TypeOK'
  BY <1>1, <1>2, <1>3 DEF coreVars, JobInv, TypeOK
<1>5. active # NoJob => status'[active] \notin FinalStates
  BY <1>2 DEF JobInv, TypeOK, ActiveInv, FinalStates
<1>6. \A j \in Job : status'[j] = "succeeded" => child[j] = "exit0"
  BY <1>2 DEF JobInv, SuccessInv
<1> QED
  BY <1>1, <1>4, <1>5, <1>6, CoreUnchanged

LEMMA JobNext == JobInv /\ [Next]_vars => JobInv'
<1> SUFFICES ASSUME JobInv, [Next]_vars PROVE JobInv'
  OBVIOUS
<1>1. CASE Create
  BY <1>1, CreateKeeps DEF Create
<1>2. CASE Cancel
  BY <1>2, CancelKeeps DEF Cancel
<1>3. CASE WorkerStep
  BY <1>3, ForkKeeps, RunBeginsKeeps, WaitpidKeeps, RunEndsKeeps DEF WorkerStep
<1>4. CASE Persist
  BY <1>4, PersistKeeps DEF Persist
<1>5. CASE ChildStarts
  <2>1. PICK j \in Job : child_setpgid(j) /\ UNCHANGED storageVars
    BY <1>5 DEF ChildStarts
  <2> QED
    BY <2>1, ChildKeeps DEF child_setpgid, Alive
<1>6. CASE ChildEnds
  <2>1. PICK j \in Job, ending \in Endings : child_ends(j, ending) /\ UNCHANGED storageVars
    BY <1>6 DEF ChildEnds
  <2> QED
    BY <2>1, ChildKeeps DEF child_ends, Alive
<1>7. CASE Lifecycle
  BY <1>7, ShutDownKeeps, ExitKeeps, StartKeeps DEF Lifecycle
<1>8. CASE CleanJobs \/ CheckJob \/ RemoveJob
  BY <1>8, StorageKeeps
<1>9. CASE UNCHANGED vars
  BY <1>9 DEF vars, jobVars, storageVars, JobInv, TypeOK, WorkerInv, ActiveInv,
     LiveIsActive, ScriptInv, SuccessInv, Alive
<1> QED
  BY <1>1, <1>2, <1>3, <1>4, <1>5, <1>6, <1>7, <1>8, <1>9 DEF Next

-----------------------------------------------------------------------------
(* The theorems. *)

LEMMA JobInvHolds == Spec => []JobInv
  BY JobInit, JobNext, PTL DEF Spec

(* Type correctness of the job store.                                      *)
THEOREM JobTypeCorrect == Spec => []TypeOK
<1>1. JobInv => TypeOK
  BY DEF JobInv
<1> QED
  BY <1>1, JobInvHolds, PTL

(* The list served by the API tells the truth about the job the manager    *)
(* works on, after any sequence of crashes, restarts and cleanups.         *)
THEOREM JobListTrue == Spec => []LiveIsActive
<1>1. JobInv => LiveIsActive
  BY DEF JobInv
<1> QED
  BY <1>1, JobInvHolds, PTL

(* There is never more than one script, a child left behind by a manager   *)
(* that was killed included.                                               *)
THEOREM JobOneScript == Spec => []OneScript
<1>1. JobInv => OneScript
  <2> SUFFICES ASSUME JobInv PROVE OneScript
    OBVIOUS
  <2> DEFINE S == {j \in Job : Alive(j)}
  <2>1. \A j, k \in S : j = k
    BY DEF JobInv, ScriptInv
  <2>2. CASE S = {}
    BY <2>2, FS_EmptySet DEF OneScript
  <2>3. CASE S # {}
    <3>1. PICK j : S = {j}
      BY <2>1, <2>3
    <3> QED
      BY <3>1, FS_Singleton DEF OneScript
  <2> QED
    BY <2>2, <2>3
<1> QED
  BY <1>1, JobInvHolds, PTL

(* The join of create never waits for a worker that waits for the mutex.   *)
THEOREM JobJoinSafe == Spec => []JoinSafe
<1>1. JobInv => JoinSafe
  BY DEF JobInv, TypeOK, WorkerInv, AtWork, JoinSafe
<1> QED
  BY <1>1, JobInvHolds, PTL

(* No job is listed as a success whose script did not end with status      *)
(* zero, also when it is read back from the disk.                          *)
THEOREM JobSuccessIsReal == Spec => []SuccessIsReal
<1>1. JobInv => SuccessIsReal
  BY DEF JobInv, TypeOK, SuccessInv, SuccessIsReal
<1> QED
  BY <1>1, JobInvHolds, PTL
=============================================================================
