---------------------------- MODULE JobSchedules ----------------------------
(***************************************************************************)
(* The schedule of one background job (backend/src/orchestration/          *)
(* job_schedule.py, job_schedule_store.py, the scheduled-job endpoints of  *)
(* api/routes/system.py, observability/scheduler_registry.py and           *)
(* scheduled_job_history.py, and the start of the schedulers in main.py).  *)
(*                                                                         *)
(* The code registers the job with a schedule of its own.  An              *)
(* administrator's choice is put on the live job first, then saved; a      *)
(* restart puts the saved choice on again.                                 *)
(***************************************************************************)
EXTENDS Naturals, FiniteSets

CONSTANTS
    Schedule,       \* schedules an administrator may choose, of the kind of the job
    ScheduleReq,    \* requests that may overlap
    MaxRunsKept,    \* _MAX_RUNS_PER_JOB
    MaxBoots        \* restarts (bound)

ASSUME JobAssumption == MaxRunsKept \in Nat \ {0} /\ MaxBoots \in Nat /\ {"code", "none", "unfit"} \cap Schedule = {}

VARIABLES
    trigger,        \* the live job's schedule: the code's or a chosen one
    default_trigger,\* the remembered default, or none
    override,       \* the saved choice, or none
    schedule_req,   \* what each request is doing
    job_due, job_running,   \* moved to now; being run
    job_runs,       \* runs on record
    boots,
    undisturbed     \* history: no two changes overlapped and none failed half-way

jobVars == <<trigger, default_trigger, override, schedule_req, job_due, job_running, job_runs,
             boots, undisturbed>>
runVars == <<job_due, job_running, job_runs>>

NoChange == [at |-> "idle"]
Unsaved == {r \in ScheduleReq : schedule_req[r] # NoChange}

\* The defaults are recorded before a saved choice is put on; a choice that cannot be read
\* leaves the code's schedule.
JobsInit ==
    /\ trigger = "code" /\ default_trigger = "code" /\ override = "none"
    /\ schedule_req = [r \in ScheduleReq |-> NoChange]
    /\ job_due = FALSE /\ job_running = FALSE /\ job_runs = 0
    /\ boots = 0 /\ undisturbed = TRUE

SetChange(r, job) == schedule_req' = [schedule_req EXCEPT ![r] = job]
Began == undisturbed' = (undisturbed /\ Unsaved = {})
-----------------------------------------------------------------------------
(* Changing the schedule.                                                  *)

remember_default == default_trigger' = IF default_trigger = "none" THEN trigger ELSE default_trigger

\* A choice must be of the kind of the job's trigger and within its range.
check_schedule(s) == s # "unfit"

\* The live job is rescheduled before the choice is saved.
update_scheduled_job_schedule(r, s) ==
    /\ schedule_req[r] = NoChange /\ check_schedule(s) /\ remember_default /\ trigger' = s
    /\ SetChange(r, [at |-> "save", to |-> s]) /\ Began
    /\ UNCHANGED <<override, runVars, boots>>

\* What is saved, and what the default is, is read first.
restore_scheduled_job_schedule(r) ==
    /\ schedule_req[r] = NoChange /\ override # "none" /\ default_trigger # "none"
    /\ SetChange(r, [at |-> "restore", to |-> default_trigger]) /\ Began
    /\ UNCHANGED <<trigger, default_trigger, override, runVars, boots>>

restore_reschedules(r) ==
    /\ schedule_req[r].at = "restore" /\ trigger' = schedule_req[r].to
    /\ SetChange(r, [at |-> "save", to |-> "none"])
    /\ UNCHANGED <<default_trigger, override, runVars, boots, undisturbed>>

\* The change is saved with its audit entry, in one transaction.
save_override(r) ==
    /\ schedule_req[r].at = "save" /\ override' = schedule_req[r].to /\ SetChange(r, NoChange)
    /\ UNCHANGED <<trigger, default_trigger, runVars, boots, undisturbed>>

change_not_saved(r) ==
    /\ schedule_req[r].at = "save" /\ SetChange(r, NoChange) /\ undisturbed' = FALSE
    /\ UNCHANGED <<trigger, default_trigger, override, runVars, boots>>
-----------------------------------------------------------------------------
(* Restart.                                                                *)

\* Mutant: the defaults are recorded when the choice is already on the job.
apply_stored_overrides_Late ==
    /\ trigger' = IF override = "none" THEN "code" ELSE override
    /\ default_trigger' = trigger' /\ UNCHANGED undisturbed

apply_stored_overrides ==
    /\ default_trigger' = "code"
    /\ \/ trigger' = (IF override = "none" THEN "code" ELSE override) /\ UNCHANGED undisturbed
       \/ override # "none" /\ trigger' = "code" /\ undisturbed' = FALSE

\* The process ends, with its requests and its running job, and starts again.
Reboot ==
    /\ boots < MaxBoots /\ boots' = boots + 1
    /\ apply_stored_overrides
    /\ schedule_req' = [r \in ScheduleReq |-> NoChange]
    /\ job_due' = FALSE /\ job_running' = FALSE /\ UNCHANGED <<override, job_runs>>
-----------------------------------------------------------------------------
(* Running.                                                                *)

JobKept == UNCHANGED <<trigger, default_trigger, override, schedule_req, boots, undisturbed>>

run_scheduled_job_now == ~job_due /\ job_due' = TRUE /\ JobKept /\ UNCHANGED <<job_running, job_runs>>

\* One instance at a time; a firing that comes while it runs is skipped.
JobFires ==
    /\ job_running' = TRUE /\ job_due' = FALSE /\ (job_due \/ ~job_running)
    /\ JobKept /\ UNCHANGED job_runs

\* Mutant: nothing is removed.
_record_run_NeverTrims(written) ==
    /\ job_running /\ job_running' = FALSE
    /\ job_runs' = IF written /\ job_runs <= MaxRunsKept THEN job_runs + 1 ELSE job_runs
    /\ JobKept /\ UNCHANGED job_due

\* Its outcome is written down and the oldest beyond the limit goes; the write may fail.
_record_run(written) ==
    /\ job_running /\ job_running' = FALSE
    /\ job_runs' = IF written /\ job_runs < MaxRunsKept THEN job_runs + 1 ELSE job_runs
    /\ JobKept /\ UNCHANGED job_due

JobsNext ==
    \/ \E r \in ScheduleReq :
          \/ \E s \in Schedule \cup {"unfit"} : update_scheduled_job_schedule(r, s)
          \/ restore_scheduled_job_schedule(r) \/ restore_reschedules(r)
          \/ save_override(r) \/ change_not_saved(r)
    \/ Reboot
    \/ run_scheduled_job_now \/ JobFires \/ \E written \in BOOLEAN : _record_run(written)
-----------------------------------------------------------------------------
JobsTypeOK ==
    /\ trigger \in Schedule \cup {"code"} /\ override \in Schedule \cup {"none"}
    /\ default_trigger \in Schedule \cup {"code", "none"} /\ job_runs \in 0 .. MaxRunsKept

(* "Reschedules a live job in place and keeps the choice, so a restart applies it again":  *)
(* the schedule a job can be restored to is always the code's, and, unless two changes     *)
(* overlapped or one failed between its two halves, the job runs on the saved choice, or   *)
(* on the code's schedule when there is none, across restarts at any point between         *)
(* changes.                                                                                *)
ScheduleSurvives ==
    /\ default_trigger \in {"code", "none"}
    /\ undisturbed /\ Unsaved = {} => trigger = IF override = "none" THEN "code" ELSE override
=============================================================================
