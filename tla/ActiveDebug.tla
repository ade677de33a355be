---------------------------- MODULE ActiveDebug ----------------------------
(***************************************************************************)
(* The active debug session of the operations API: it publishes a task,    *)
(* waits for an observation that carries it and then follows the pipeline  *)
(* traces, on a timer, until a stage reports completion or failure or a    *)
(* limit is reached.                                                       *)
(*                                                                         *)
(* Everything is under mutex_, so each handler and each tick is one step.  *)
(***************************************************************************)
EXTENDS PipelineTrace, SequencesExt

CONSTANTS
    MaxSteps,      \* max_steps of a session
    MaxDuration,   \* max_duration_seconds, in units of time
    TaskTimeout    \* task_observation_timeout_seconds, in the same units

ASSUME SessionAssumption ==
    MaxSteps \in Nat \ {0} /\ MaxDuration \in Nat \ {0} /\ TaskTimeout \in Nat \ {0}

VARIABLES
    session,    \* active_debug_
    elapsed,    \* time since active_debug_.started while it is active
    counted,    \* history: the observation the session last counted as a step
    reported    \* history: the last message of the recorder was there when the session
                \* began, and is a completion

sessionVars == <<session, elapsed, counted, reported>>
activeVars == <<traceVars, sessionVars>>

Active == {"RUNNING", "PAUSED"}
Ended == {"STOPPED", "TIMED_OUT", "FAILED", "SUCCEEDED"}

SessionInit ==
    /\ session = [status |-> "IDLE", task |-> NoTask, baseline |-> 0,
                  waiting |-> FALSE, last |-> 0, steps |-> 0]
    /\ elapsed = 0
    /\ counted = NoObservation
    /\ reported = FALSE

ActiveInit == TraceInit /\ SessionInit

-----------------------------------------------------------------------------
(* The routes. *)

PublishTask(t) ==
    /\ task' = t
    /\ UNCHANGED <<adapterTask, observation, observed, episode, faults, trace>>

active_debug_create(t) ==
    /\ session.status \notin Active
    /\ session' = [status |-> "RUNNING", task |-> t, baseline |-> trace.observation.id,
                   waiting |-> TRUE, last |-> 0, steps |-> 0]
    /\ elapsed' = 0
    /\ counted' = NoObservation
    /\ reported' = (episode = "completed")
    /\ PublishTask(t)

active_debug_control(from, to) ==
    /\ session.status \in from
    /\ session' = [session EXCEPT !.status = to]
    /\ elapsed' = IF to \in Active THEN elapsed ELSE 0
    /\ reported' = (reported /\ to \in Active)
    /\ UNCHANGED <<traceVars, counted>>

(* POST /api/task, by anyone, while a session runs or not.                 *)
OtherTask(t) == PublishTask(t) /\ UNCHANGED sessionVars

-----------------------------------------------------------------------------
(* The timer. *)

End(status) == session' = [session EXCEPT !.status = status] /\ UNCHANGED counted

(* The trace shows a new observation that carries the task.                *)
Synchronised ==
    /\ trace.observation.id \notin {0, session.baseline}
    /\ trace.observation.task = session.task

(* The first stage that reports an end decides.                            *)
Verdict ==
    LET reports == SelectSeq(StageOrder, LAMBDA s : trace.stages[s] # "ready") IN
    IF reports = << >> THEN "RUNNING"
    ELSE IF trace.stages[Head(reports)] = "completed" THEN "SUCCEEDED" ELSE "FAILED"

(* Mutant: the observation of the step is not remembered.                  *)
Step_Forgets ==
    /\ session' = [session EXCEPT !.waiting = FALSE, !.steps = @ + 1, !.status = Verdict]
    /\ counted' = trace.observation

Step ==
    /\ session' = [session EXCEPT !.waiting = FALSE, !.last = trace.observation.id,
                                  !.steps = @ + 1, !.status = Verdict]
    /\ counted' = trace.observation

(* The trace is looked at: due says whether the step period has passed.    *)
Look(due) ==
    IF session.waiting /\ (trace = NoTrace \/ ~Synchronised)
    THEN IF elapsed >= TaskTimeout THEN End("FAILED") ELSE UNCHANGED <<session, counted>>
    ELSE IF trace # NoTrace /\ due /\ trace.observation.id \notin {0, session.last}
    THEN Step
    ELSE /\ session' = [session EXCEPT !.waiting = FALSE]
         /\ UNCHANGED counted

(* Mutant: nothing is done before a trace.                                 *)
Ticking_TraceFirst == session.status = "RUNNING" /\ trace # NoTrace

Ticking == session.status = "RUNNING"

StepLimit == session.steps >= MaxSteps

active_debug_tick(due) ==
    /\ Ticking
    /\ session.steps = 0 => due
    /\ CASE elapsed >= MaxDuration -> End("TIMED_OUT")
         [] elapsed < MaxDuration /\ StepLimit -> End("STOPPED")
         [] OTHER -> Look(due)
    /\ elapsed' = IF session'.status \in Active THEN elapsed ELSE 0
    /\ reported' = (reported /\ session'.status \in Active)
    /\ UNCHANGED traceVars

TimePasses ==
    /\ session.status \in Active /\ elapsed < MaxDuration
    /\ elapsed' = elapsed + 1
    /\ UNCHANGED <<traceVars, session, counted, reported>>

(* The pipeline goes on.                                                   *)
PipelineStep ==
    /\ TraceNext
    /\ reported' = (reported /\ episode' = episode)
    /\ UNCHANGED <<session, elapsed, counted>>

-----------------------------------------------------------------------------
ActiveNext ==
    \/ \E t \in Tasks : active_debug_create(t) \/ OtherTask(t)
    \/ active_debug_control({"RUNNING"}, "PAUSED")
    \/ active_debug_control({"PAUSED"}, "RUNNING")
    \/ active_debug_control(Active, "STOPPED")
    \/ \E due \in BOOLEAN : active_debug_tick(due)
    \/ TimePasses
    \/ PipelineStep

ActiveSpec == ActiveInit /\ [][ActiveNext]_activeVars

-----------------------------------------------------------------------------
(* Properties. *)

(* Type invariant of the session.                                          *)
SessionTypeOK ==
    /\ session \in [status : {"IDLE"} \cup Active \cup Ended, task : Tasks \cup {NoTask},
                    baseline : 0..MaxObservations, waiting : BOOLEAN,
                    last : 0..MaxObservations, steps : 0..MaxSteps]
    /\ elapsed \in 0..MaxDuration
    /\ observed.id \in 0..MaxObservations /\ trace.observation.id \in 0..MaxObservations
    /\ trace # NoTrace => DOMAIN trace.stages = Stages

Later(a, b) == b.run > a.run \/ (b.run = a.run /\ b.id > a.id)

(* A session counts no observation twice and never goes back to an older   *)
(* one, and its first step is on an observation that carries its task,     *)
(* also when the adapter restarts and its numbers begin again; while it is *)
(* paused, and after it has ended, it counts nothing.                      *)
StepsNew ==
    [][session'.steps > session.steps =>
          /\ session.status = "RUNNING"
          /\ session.steps > 0 => Later(counted, counted')
          /\ session.steps = 0 => counted'.task = session.task]_activeVars

(* A session does not run for ever: the timer ends it unless the operator  *)
(* pauses it, even when no trace arrives at all.                           *)
SessionEnds == (session.status = "RUNNING") ~> (session.status # "RUNNING")

-----------------------------------------------------------------------------
(* What the documents say and the code does not do.                        *)

(* "Old traces left from before the task was published do not trigger the  *)
(* failure or completion conditions": a session does not succeed while the *)
(* recorder has said nothing since it began.                               *)
SuccessIsNew ==
    [][(session'.status = "SUCCEEDED" /\ session.status # "SUCCEEDED") => ~reported]_activeVars
=============================================================================
