----------------------------- MODULE TaskEngine -----------------------------
(***************************************************************************)
(* One organisation run of backend/src/orchestration: its plan, its tasks, *)
(* the driver coroutines that dispatch them, the operator's controls, and  *)
(* process crashes.  The modelled code is task_engine, dependencies,       *)
(* planner.create_plan, run_control, transitions and recovery.             *)
(*                                                                         *)
(* An action is one committed database transaction, or one read whose      *)
(* result the code acts on in a later transaction: exactly the points at   *)
(* which another coroutine (or a crash) can get in between.  A conditional *)
(* UPDATE ... WHERE status = s is one action that leaves the row alone     *)
(* when the status is another one.  Postgres runs at READ COMMITTED: a     *)
(* transaction sees its own writes and what the others have committed.     *)
(*                                                                         *)
(* Runs share no rows, so one run is modelled; rerun_run starts another    *)
(* instance of this module.                                                *)
(***************************************************************************)
EXTENDS Naturals

CONSTANTS
    Task,             \* the tasks of the plan the planner proposes
    Deps,             \* its edges: <<t, u>> when t depends on u
    Typed,            \* the edges that ask for u's artefact, not only its success
    Produces,         \* the tasks that record an artefact of the type asked for
    ConcurrencySafe,  \* tasks whose capability may run beside others
    TransientProne,   \* tasks whose capability can time out or fail transiently
    PermanentProne,   \* tasks whose capability can fail for good
    Driver,           \* drive_run_to_quiescence coroutines alive at once (bound)
    Retrier,          \* retry_run requests in flight at once (bound)
    MaxPlanAttempts,  \* planner.MAX_PLAN_ATTEMPTS
    MaxPauses,        \* bound on the operator's pauses
    MaxRetries,       \* bound on the operator's retries
    MaxCrashes        \* bound on process crashes

\* What validate_plan_graph guarantees of an accepted plan (planner.py): edges
\* join known tasks and form no cycle.
ASSUME PlanAssumption ==
    /\ Deps \subseteq Task \X Task
    /\ Typed \subseteq Deps
    /\ \A S \in SUBSET Task : S # {} =>
          \E t \in S : \A u \in S : <<t, u>> \notin Deps

ASSUME BoundAssumption ==
    /\ MaxPlanAttempts \in Nat \ {0}
    /\ MaxPauses \in Nat /\ MaxRetries \in Nat /\ MaxCrashes \in Nat
    /\ Driver # {}

VARIABLES
    runStatus,    \* organization_runs.status
    runFailure,   \* organization_runs.failure_class
    planner,      \* is create_plan still at work: "planning" or "done"
    attempt,      \* its attempt number
    status,       \* tasks.status, "absent" before the plan is materialised
    failure,      \* tasks.failure_class
    satisfied,    \* the task_dependencies rows with satisfied = TRUE
    artefacts,    \* the tasks with a result_artefacts row
    exec,         \* where the coroutine executing a task stands
    owner,        \* the driver that awaits that coroutine
    wake,         \* dependents a resolving task found fully satisfied
    driver,       \* where a driver coroutine stands
    todo,         \* the rest of its batch: selected READY, not yet claimed
    verdict,      \* the outcome it read, not yet recorded
    cancel,       \* where cancel_run stands
    retrier,      \* where a retry_run request stands
    up,           \* is the process alive
    pauses, retries, crashes

runVars    == <<runStatus, runFailure>>
planVars   == <<planner, attempt>>
taskVars   == <<status, failure, satisfied, artefacts>>
execVars   == <<exec, owner, wake>>
driverVars == <<driver, todo, verdict>>
counters   == <<pauses, retries, crashes>>
vars == <<runVars, planVars, taskVars, execVars, driverVars,
          cancel, retrier, up, counters>>

RunStatus  == {"planning", "cannot_plan", "running", "paused",
               "completed", "failed", "cancelled"}
TaskStatus == {"absent", "pending", "ready", "claimed", "running",
               "succeeded", "failed", "unsatisfiable", "cancelled"}
Unfinished == {"pending", "ready", "claimed", "running"}
FailureClass == {"none", "transient", "permanent"}

\* models/organization_run.py; PENDING is never stored by create_run.
NON_TERMINAL_STATUSES == {"planning", "running"}
CANCELLABLE_STATUSES  == NON_TERMINAL_STATUSES \cup {"paused"}

Nobody == "nobody"

Upstream(t)  == {u \in Task : <<t, u>> \in Deps}
EdgesInto(t) == {e \in Deps : e[1] = t}

Init ==
    /\ runStatus = "planning" /\ runFailure = "none"
    /\ planner = "planning"   /\ attempt = 1
    /\ status    = [t \in Task |-> "absent"]
    /\ failure   = [t \in Task |-> "none"]
    /\ satisfied = {} /\ artefacts = {}
    /\ exec  = [t \in Task |-> "idle"]
    /\ owner = [t \in Task |-> Nobody]
    /\ wake  = [t \in Task |-> {}]
    /\ driver  = [d \in Driver |-> "off"]
    /\ todo    = [d \in Driver |-> {}]
    /\ verdict = [d \in Driver |-> "none"]
    /\ cancel = "none"
    /\ retrier = [r \in Retrier |-> "idle"]
    /\ up = TRUE
    /\ pauses = 0 /\ retries = 0 /\ crashes = 0

-----------------------------------------------------------------------------
(* Planning: planner.create_plan, called by create_run and rerun_run.       *)

AttemptsLeft_OneMore == attempt <= MaxPlanAttempts + 1

AttemptsLeft == attempt <= MaxPlanAttempts

\* A plan that fails validation is recorded as rejected.
create_plan_reject ==
    /\ up /\ planner = "planning" /\ AttemptsLeft
    /\ attempt' = attempt + 1
    /\ UNCHANGED <<runVars, planner, taskVars, execVars, driverVars,
                   cancel, retrier, up, counters>>

\* A valid plan is materialised in the transaction that flips the run to
\* RUNNING; create_run then drives it.
create_plan_accept(d) ==
    /\ up /\ planner = "planning" /\ AttemptsLeft
    /\ runStatus = "planning" /\ driver[d] = "off"
    /\ planner' = "done"
    /\ runStatus' = "running"
    /\ status' = [t \in Task |-> IF Upstream(t) = {} THEN "ready" ELSE "pending"]
    /\ driver' = [driver EXCEPT ![d] = "status"]
    /\ UNCHANGED <<runFailure, attempt, failure, satisfied, artefacts, execVars,
                   todo, verdict, cancel, retrier, up, counters>>

\* The run was cancelled meanwhile: the conditional flip finds no row and the
\* plan is rolled back (RunNoLongerPlannableError).
create_plan_overtaken ==
    /\ up /\ planner = "planning"
    /\ runStatus # "planning"
    /\ planner' = "done"
    /\ UNCHANGED <<runVars, attempt, taskVars, execVars, driverVars,
                   cancel, retrier, up, counters>>

\* Every attempt was rejected (CannotPlanError).
create_plan_give_up ==
    /\ up /\ planner = "planning" /\ ~AttemptsLeft
    /\ runStatus = "planning"
    /\ planner' = "done"
    /\ runStatus' = "cannot_plan"
    /\ UNCHANGED <<runFailure, attempt, taskVars, execVars, driverVars,
                   cancel, retrier, up, counters>>

create_plan == \/ create_plan_reject
               \/ create_plan_overtaken
               \/ create_plan_give_up
               \/ \E d \in Driver : create_plan_accept(d)

-----------------------------------------------------------------------------
(* Executing a task: claim_task, execute_claimed_task, _mark_task_failed,    *)
(* resolve_dependencies_on_success, propagate_unsatisfiable.                 *)

\* The coroutine executing t returns to the driver that awaits it.
Return(t) == /\ exec'  = [exec EXCEPT ![t] = "idle"]
             /\ owner' = [owner EXCEPT ![t] = Nobody]

Goto(t, pc) == /\ exec' = [exec EXCEPT ![t] = pc]
               /\ UNCHANGED owner

ControlUnchanged == UNCHANGED <<runVars, planVars, cancel, retrier, up, counters>>

\* Concurrency-safe tasks of a batch are gathered; the others are awaited one
\* at a time once the gathered ones have returned.
Dispatchable(d, t) ==
    /\ driver[d] = "dispatch" /\ t \in todo[d]
    /\ \/ t \in ConcurrencySafe
       \/ /\ todo[d] \cap ConcurrencySafe = {}
          /\ \A u \in Task : owner[u] # d

\* UPDATE ... WHERE status = READY under the task's advisory lock: the loser
\* of a race finds no row and its coroutine returns at once.
claim_task(d, t) ==
    /\ up /\ Dispatchable(d, t)
    /\ todo' = [todo EXCEPT ![d] = @ \ {t}]
    /\ IF status[t] = "ready"
       THEN /\ status' = [status EXCEPT ![t] = "claimed"]
            /\ exec'   = [exec EXCEPT ![t] = "claimed"]
            /\ owner'  = [owner EXCEPT ![t] = d]
       ELSE UNCHANGED <<status, exec, owner>>
    /\ ControlUnchanged
    /\ UNCHANGED <<failure, satisfied, artefacts, wake, driver, verdict>>

\* UPDATE ... WHERE status = CLAIMED: a task cancelled since never starts.
start_task(t) ==
    /\ up /\ exec[t] = "claimed"
    /\ IF status[t] = "claimed"
       THEN status' = [status EXCEPT ![t] = "running"] /\ Goto(t, "running")
       ELSE Return(t) /\ UNCHANGED status
    /\ ControlUnchanged
    /\ UNCHANGED <<failure, satisfied, artefacts, wake, driverVars>>

ResultCounts_Always(t) == TRUE

\* UPDATE ... WHERE status = RUNNING: the result of a task cancelled while its
\* capability ran is discarded.
ResultCounts(t) == status[t] = "running"

\* The capability returned: SUCCEEDED and the artefact are one transaction.
finish_task(t) ==
    /\ up /\ exec[t] = "running"
    /\ IF ResultCounts(t)
       THEN /\ status' = [status EXCEPT ![t] = "succeeded"]
            /\ artefacts' = artefacts \cup ({t} \cap Produces)
            /\ Goto(t, "succeeded")
       ELSE Return(t) /\ UNCHANGED <<status, artefacts>>
    /\ ControlUnchanged
    /\ UNCHANGED <<failure, satisfied, wake, driverVars>>

Cascades_Always(class) == TRUE
Cascades_Swapped(class) == class = "transient"

\* _mark_task_failed cascades for a permanent failure only.
Cascades(class) == class = "permanent"

\* The capability raised, or timed out (transient).
mark_task_failed(t, class) ==
    /\ up /\ exec[t] = "running"
    /\ \/ class = "transient" /\ t \in TransientProne
       \/ class = "permanent" /\ t \in PermanentProne
    /\ IF ResultCounts(t)
       THEN /\ status'  = [status EXCEPT ![t] = "failed"]
            /\ failure' = [failure EXCEPT ![t] = class]
            /\ IF Cascades(class) THEN Goto(t, "failed") ELSE Return(t)
       ELSE Return(t) /\ UNCHANGED <<status, failure>>
    /\ ControlUnchanged
    /\ UNCHANGED <<satisfied, artefacts, wake, driverVars>>

\* The edges t's success satisfies: a typed edge also needs the artefact.
Satisfies(t) == {e \in Deps : e[2] = t /\ (e \in Typed => t \in artefacts)}

FullySatisfied_CommittedOnly(u, flags) == EdgesInto(u) \subseteq satisfied
FullySatisfied_Any(u, flags) == EdgesInto(u) \cap flags # {}

\* _promote_if_fully_satisfied: every dependency row of u is satisfied.
FullySatisfied(u, flags) == EdgesInto(u) \subseteq flags

\* resolve_dependencies_on_success, up to its commit: t's own edges are flushed
\* and each dependent's flags are read, together with what OTHER transactions
\* have committed so far.
resolve_read(t) ==
    /\ up /\ exec[t] = "succeeded"
    /\ LET flags == satisfied \cup Satisfies(t)
       IN  wake' = [wake EXCEPT ![t] =
                       {u \in {e[1] : e \in Satisfies(t)} : FullySatisfied(u, flags)}]
    /\ Goto(t, "resolving")
    /\ ControlUnchanged
    /\ UNCHANGED <<taskVars, driverVars>>

\* Its commit: the flags, and the conditional PENDING -> READY.
resolve_commit(t) ==
    /\ up /\ exec[t] = "resolving"
    /\ satisfied' = satisfied \cup Satisfies(t)
    /\ status' = [u \in Task |-> IF u \in wake[t] /\ status[u] = "pending"
                                 THEN "ready" ELSE status[u]]
    /\ wake' = [wake EXCEPT ![t] = {}]
    /\ Return(t)
    /\ ControlUnchanged
    /\ UNCHANGED <<failure, artefacts, driverVars>>

\* The frontier loop of propagate_unsatisfiable: the least set that holds every
\* PENDING or READY dependent of t and of its own members.
Cascade(t) ==
    LET Closed(S) == \A e \in Deps : /\ e[2] \in S \cup {t}
                                     /\ status[e[1]] \in {"pending", "ready"}
                                     => e[1] \in S
    IN  {u \in Task : \A S \in SUBSET Task : Closed(S) => u \in S}

propagate_unsatisfiable(t) ==
    /\ up /\ exec[t] = "failed"
    /\ status' = [u \in Task |-> IF u \in Cascade(t) THEN "unsatisfiable" ELSE status[u]]
    /\ Return(t)
    /\ ControlUnchanged
    /\ UNCHANGED <<failure, satisfied, artefacts, wake, driverVars>>

\* asyncio.wait_for bounds the capability, so its coroutine always moves on.
execute_claimed_task(t) ==
    \/ start_task(t) \/ finish_task(t)
    \/ mark_task_failed(t, "transient") \/ mark_task_failed(t, "permanent")
    \/ resolve_read(t) \/ resolve_commit(t) \/ propagate_unsatisfiable(t)

-----------------------------------------------------------------------------
(* drive_run_to_quiescence and claim_and_execute_ready_tasks.                *)

DriverStep(d, pc) == driver' = [driver EXCEPT ![d] = pc]

\* The loop's test on the run: a driver whose run left RUNNING stops.
drive_check_status(d) ==
    /\ up /\ driver[d] = "status"
    /\ DriverStep(d, IF runStatus = "running" THEN "work" ELSE "off")
    /\ ControlUnchanged
    /\ UNCHANGED <<taskVars, execVars, todo, verdict>>

HasPendingWork_NotPending == \E t \in Task : status[t] \in Unfinished \ {"pending"}

HasPendingWork == \E t \in Task : status[t] \in Unfinished

run_has_pending_work(d) ==
    /\ up /\ driver[d] = "work"
    /\ DriverStep(d, IF HasPendingWork THEN "select" ELSE "outcome")
    /\ ControlUnchanged
    /\ UNCHANGED <<taskVars, execVars, todo, verdict>>

\* The batch is whatever is READY at this read.
select_ready_tasks(d) ==
    /\ up /\ driver[d] = "select"
    /\ todo' = [todo EXCEPT ![d] = {t \in Task : status[t] = "ready"}]
    /\ DriverStep(d, "dispatch")
    /\ ControlUnchanged
    /\ UNCHANGED <<taskVars, execVars, verdict>>

\* Every coroutine of the batch has returned: around the loop again.
batch_done(d) ==
    /\ up /\ driver[d] = "dispatch"
    /\ todo[d] = {} /\ \A t \in Task : owner[t] # d
    /\ DriverStep(d, "status")
    /\ ControlUnchanged
    /\ UNCHANGED <<taskVars, execVars, todo, verdict>>

GivenUp == {t \in Task : \/ status[t] = "failed" /\ failure[t] = "permanent"
                         \/ status[t] = "unsatisfiable"}

Outcome_IgnoresGivenUp ==
    IF \E t \in Task : status[t] = "failed" /\ failure[t] = "transient"
    THEN "transient" ELSE "completed"

\* determine_run_outcome's three answers.
Outcome ==
    IF GivenUp # {} THEN "permanent"
    ELSE IF \E t \in Task : status[t] = "failed" /\ failure[t] = "transient"
         THEN "transient" ELSE "completed"

\* The run's status is read again and the outcome computed ...
determine_run_outcome(d) ==
    /\ up /\ driver[d] = "outcome"
    /\ IF runStatus = "running"
       THEN DriverStep(d, "record") /\ verdict' = [verdict EXCEPT ![d] = Outcome]
       ELSE DriverStep(d, "off") /\ UNCHANGED verdict
    /\ ControlUnchanged
    /\ UNCHANGED <<taskVars, execVars, todo>>

StillRunning_Unchecked == TRUE

StillRunning == runStatus = "running"

\* ... and recorded by an UPDATE ... WHERE status = RUNNING.
record_outcome(d) ==
    /\ up /\ driver[d] = "record"
    /\ IF StillRunning
       THEN IF verdict[d] = "completed"
            THEN runStatus' = "completed" /\ runFailure' = "none"
            ELSE runStatus' = "failed" /\ runFailure' = verdict[d]
       ELSE UNCHANGED runVars
    /\ DriverStep(d, "off")
    /\ verdict' = [verdict EXCEPT ![d] = "none"]
    /\ UNCHANGED <<planVars, taskVars, execVars, todo, cancel, retrier, up, counters>>

drive_run_to_quiescence(d) ==
    \/ drive_check_status(d) \/ run_has_pending_work(d) \/ select_ready_tasks(d)
    \/ \E t \in Task : claim_task(d, t)
    \/ batch_done(d) \/ determine_run_outcome(d) \/ record_outcome(d)

-----------------------------------------------------------------------------
(* The operator's controls: run_control, through conditional_transition.     *)

pause_run ==
    /\ up /\ pauses < MaxPauses
    /\ runStatus = "running"
    /\ runStatus' = "paused"
    /\ pauses' = pauses + 1
    /\ UNCHANGED <<runFailure, planVars, taskVars, execVars, driverVars,
                   cancel, retrier, up, retries, crashes>>

\* Back to RUNNING, with a driver of its own: nothing waits for the driver that
\* was at work when the run was paused.
continue_run(d) ==
    /\ up /\ driver[d] = "off"
    /\ runStatus = "paused"
    /\ runStatus' = "running"
    /\ DriverStep(d, "status")
    /\ UNCHANGED <<runFailure, planVars, taskVars, execVars, todo, verdict,
                   cancel, retrier, up, counters>>

\* cancel_run's first transaction decides every race ...
cancel_run ==
    /\ up /\ runStatus \in CANCELLABLE_STATUSES
    /\ runStatus' = "cancelled"
    /\ cancel' = "sweep"
    /\ UNCHANGED <<runFailure, planVars, taskVars, execVars, driverVars,
                   retrier, up, counters>>

Swept_NotInFlight == {"pending", "ready"}

Swept == Unfinished

\* ... and its second cancels every unfinished task, under row locks.
cancel_sweep ==
    /\ up /\ cancel = "sweep"
    /\ status' = [t \in Task |-> IF status[t] \in Swept THEN "cancelled" ELSE status[t]]
    /\ cancel' = "done"
    /\ UNCHANGED <<runVars, planVars, failure, satisfied, artefacts, execVars,
                   driverVars, retrier, up, counters>>

\* retry_run reads the run ...
retry_check(r) ==
    /\ up /\ retries < MaxRetries
    /\ retrier[r] = "idle"
    /\ runStatus = "failed" /\ runFailure = "transient"
    /\ retrier' = [retrier EXCEPT ![r] = "rearm"]
    /\ retries' = retries + 1
    /\ UNCHANGED <<runVars, planVars, taskVars, execVars, driverVars,
                   cancel, up, pauses, crashes>>

\* ... makes the transiently failed tasks READY again, whatever the run's
\* status has become ...
retry_rearm(r) ==
    /\ up /\ retrier[r] = "rearm"
    /\ LET again == {t \in Task : status[t] = "failed" /\ failure[t] = "transient"}
       IN  /\ status'  = [t \in Task |-> IF t \in again THEN "ready" ELSE status[t]]
           /\ failure' = [t \in Task |-> IF t \in again THEN "none" ELSE failure[t]]
    /\ retrier' = [retrier EXCEPT ![r] = "flip"]
    /\ UNCHANGED <<runVars, planVars, satisfied, artefacts, execVars, driverVars,
                   cancel, up, counters>>

\* ... and flips it back to RUNNING and drives it, if it is (still) FAILED.
retry_flip(r, d) ==
    /\ up /\ retrier[r] = "flip"
    /\ retrier' = [retrier EXCEPT ![r] = "idle"]
    /\ runStatus = "failed" /\ driver[d] = "off"
    /\ runStatus' = "running" /\ runFailure' = "none"
    /\ DriverStep(d, "status")
    /\ UNCHANGED <<planVars, taskVars, execVars, todo, verdict, cancel, up, counters>>

retry_lost(r) ==
    /\ up /\ retrier[r] = "flip"
    /\ runStatus # "failed"
    /\ retrier' = [retrier EXCEPT ![r] = "idle"]
    /\ UNCHANGED <<runVars, planVars, taskVars, execVars, driverVars,
                   cancel, up, counters>>

-----------------------------------------------------------------------------
(* A crash takes every coroutine with it and keeps what was committed; the   *)
(* next boot runs recovery.reap_incomplete_runs before it serves a request.  *)

Crash ==
    /\ up /\ crashes < MaxCrashes
    /\ up' = FALSE
    /\ crashes' = crashes + 1
    /\ planner' = "done"
    /\ exec'  = [t \in Task |-> "idle"]
    /\ owner' = [t \in Task |-> Nobody]
    /\ wake'  = [t \in Task |-> {}]
    /\ driver'  = [d \in Driver |-> "off"]
    /\ todo'    = [d \in Driver |-> {}]
    /\ verdict' = [d \in Driver |-> "none"]
    /\ cancel' = IF cancel = "sweep" THEN "lost" ELSE cancel
    /\ retrier' = [r \in Retrier |-> "idle"]
    /\ UNCHANGED <<runVars, attempt, taskVars, pauses, retries>>

Reaped_OnlyRunning == {"running"}

Reaped == {"claimed", "running"}

\* Only a run in NON_TERMINAL_STATUSES is reaped, and driven again; a driver
\* started on a PLANNING run stops at its first test.
reap_incomplete_runs(d) ==
    /\ ~up /\ up' = TRUE
    /\ IF runStatus \in NON_TERMINAL_STATUSES
       THEN /\ status' = [t \in Task |-> IF status[t] \in Reaped
                                         THEN "ready" ELSE status[t]]
            /\ DriverStep(d, "status")
       ELSE UNCHANGED <<status, driver>>
    /\ UNCHANGED <<runVars, planVars, failure, satisfied, artefacts, execVars,
                   todo, verdict, cancel, retrier, counters>>

-----------------------------------------------------------------------------
retry_run(r) == \/ retry_rearm(r) \/ retry_lost(r)
                \/ \E d \in Driver : retry_flip(r, d)

Next == \/ create_plan
        \/ \E t \in Task : execute_claimed_task(t)
        \/ \E d \in Driver : drive_run_to_quiescence(d)
        \/ pause_run
        \/ \E d \in Driver : continue_run(d)
        \/ cancel_run
        \/ cancel_sweep
        \/ \E r \in Retrier : retry_check(r) \/ retry_run(r)
        \/ Crash
        \/ \E d \in Driver : reap_incomplete_runs(d)

\* A coroutine that can move is eventually scheduled, and a crashed process is
\* restarted.  The operator's decisions are nobody's duty.
Fairness ==
    /\ WF_vars(create_plan)
    /\ \A t \in Task : WF_vars(execute_claimed_task(t))
    /\ \A d \in Driver : WF_vars(drive_run_to_quiescence(d))
    /\ WF_vars(cancel_sweep)
    /\ \A r \in Retrier : WF_vars(retry_run(r))
    /\ WF_vars(\E d \in Driver : reap_incomplete_runs(d))

Spec == Init /\ [][Next]_vars
FairSpec == Spec /\ Fairness

-----------------------------------------------------------------------------
(* Safety.                                                                   *)

ExecPc   == {"idle", "claimed", "running", "succeeded", "resolving", "failed"}
DriverPc == {"off", "status", "work", "select", "dispatch", "outcome", "record"}

TypeOK ==
    /\ runStatus \in RunStatus /\ runFailure \in FailureClass
    /\ planner \in {"planning", "done"} /\ attempt \in 1 .. MaxPlanAttempts + 1
    /\ status \in [Task -> TaskStatus] /\ failure \in [Task -> FailureClass]
    /\ satisfied \subseteq Deps /\ artefacts \subseteq Task
    /\ exec \in [Task -> ExecPc] /\ owner \in [Task -> Driver \cup {Nobody}]
    /\ wake \in [Task -> SUBSET Task]
    /\ driver \in [Driver -> DriverPc] /\ todo \in [Driver -> SUBSET Task]
    /\ verdict \in [Driver -> {"none", "completed", "transient", "permanent"}]
    /\ cancel \in {"none", "sweep", "done", "lost"}
    /\ retrier \in [Retrier -> {"idle", "rearm", "flip"}]
    /\ up \in BOOLEAN
    /\ pauses \in 0 .. MaxPauses /\ retries \in 0 .. MaxRetries
    /\ crashes \in 0 .. MaxCrashes

\* No task is ready, started or finished before everything it depends on has
\* succeeded, with the artefact where the edge asks for one: whatever crashes,
\* retries, second drivers and late results do (dependencies.py,
\* resolve_dependencies_on_success).
DependencyOrder ==
    \A t \in Task :
        status[t] \in {"ready", "claimed", "running", "succeeded", "failed"} =>
            \A u \in Upstream(t) : /\ status[u] = "succeeded"
                                   /\ <<t, u>> \in Typed => u \in artefacts

\* A task that can be claimed is being executed by nobody: no crash, retry or
\* second driver makes two coroutines run one task (task_engine.claim_task).
ReadyMeansFree == \A t \in Task : status[t] = "ready" => exec[t] = "idle"

\* A task is UNSATISFIABLE only because one it depends on failed for good or is
\* itself UNSATISFIABLE (dependencies.propagate_unsatisfiable).
UnsatisfiableHasCause ==
    \A t \in Task : status[t] = "unsatisfiable" => Upstream(t) \cap GivenUp # {}

\* Once cancel_run's sweep has committed, nothing of the run is left to do, and
\* nothing becomes so later: not by a late result, a stale batch or a boot
\* (run_control.cancel_run).
CancelStopsWork == cancel = "done" => ~HasPendingWork

\* Only a task that succeeded has an artefact: a discarded result leaves none
\* (task_engine.execute_claimed_task).
ArtefactsOfSuccess == \A t \in artefacts : status[t] = "succeeded"

\* A task that succeeded, failed for good, became unsatisfiable or was
\* cancelled keeps that status for ever.
EndedTasksStay ==
    [][\A t \in Task :
          status[t] \in {"succeeded", "unsatisfiable", "cancelled"} \/ t \in GivenUp
          => status'[t] = status[t]]_vars

\* The run was never paused, so no pause and continue has left it with the old
\* driver beside a new one, and no boot has passed it over.
NeverPaused == pauses = 0

\* A driver records COMPLETED only when every task has succeeded, across crashes,
\* cancels and retries of a run that was never paused
\* (task_engine.determine_run_outcome).
CompletedMeansAllSucceeded ==
    NeverPaused /\ runStatus = "completed" => \A t \in Task : status[t] = "succeeded"

\* When a run that was never paused has failed, nothing of it is under way or
\* waiting: all that can be left to do is what a retry has re-armed
\* (task_engine.drive_run_to_quiescence, run_control.retry_run).
FailedMeansQuiescent ==
    NeverPaused /\ runStatus = "failed" =>
        \A t \in Task : status[t] \in Unfinished => status[t] = "ready" /\ retries > 0

\* While the process serves a RUNNING run that was never paused, every task
\* CLAIMED or RUNNING has a live coroutine: a boot leaves none stranded
\* (recovery.reap_incomplete_runs).
NoOrphans ==
    NeverPaused /\ up /\ runStatus = "running" =>
        \A t \in Task : status[t] \in {"claimed", "running"} => exec[t] # "idle"

\* The run as its operator sees it: status with failure class, tasks done,
\* tasks given up.
Phase == IF runStatus = "failed"
         THEN IF runFailure = "transient" THEN "failed_transient" ELSE "failed_permanent"
         ELSE runStatus

Done == {t \in Task : status[t] = "succeeded"}

Contract == INSTANCE RunContract WITH phase <- Phase, done <- Done, dead <- GivenUp

\* The engine implements the contract.
ContractSpec == Contract!Spec

-----------------------------------------------------------------------------
(* The inductive invariant behind DependencyOrder, ReadyMeansFree and        *)
(* UnsatisfiableHasCause: why the flags can be trusted.                      *)

\* A satisfied flag is never ahead of the success (and artefact) it stands for.
SatisfiedSound ==
    \A e \in satisfied : /\ status[e[2]] = "succeeded"
                         /\ e \in Typed => e[2] \in artefacts

\* A task past PENDING has all its flags.
StartedSatisfied ==
    \A t \in Task :
        status[t] \in {"ready", "claimed", "running", "succeeded", "failed"} =>
            EdgesInto(t) \subseteq satisfied

\* What a resolving task is about to wake is complete once its own flags commit.
WakeSound ==
    \A t \in Task : \A u \in wake[t] :
        exec[t] = "resolving" /\ EdgesInto(u) \subseteq satisfied \cup Satisfies(t)

\* A coroutine's position agrees with its task's row, or the task was cancelled.
ExecSound ==
    \A t \in Task :
        /\ exec[t] = "claimed" => status[t] \in {"claimed", "cancelled"}
        /\ exec[t] = "running" => status[t] \in {"running", "cancelled"}
        /\ exec[t] \in {"succeeded", "resolving"} => status[t] = "succeeded"
        /\ exec[t] = "failed" => status[t] = "failed" /\ failure[t] = "permanent"
        /\ ~up => exec[t] = "idle"

\* Without an accepted plan there is no task.
PlanningClean ==
    runStatus \in {"planning", "cannot_plan"} => \A t \in Task : status[t] = "absent"

IInv == /\ TypeOK
        /\ SatisfiedSound /\ StartedSatisfied /\ WakeSound /\ ExecSound
        /\ ArtefactsOfSuccess /\ PlanningClean /\ UnsatisfiableHasCause

\* With one retry_run at a time, what it read of the run still holds when it acts.
RetrySound ==
    \A r \in Retrier : retrier[r] # "idle" => runStatus = "failed" /\ runFailure = "transient"

\* A driver about to record a permanent failure has one to show for it.
VerdictSound ==
    \A d \in Driver : /\ driver[d] = "record" => verdict[d] # "none"
                      /\ verdict[d] = "permanent" => GivenUp # {}

\* A cancel under way or done has left the run CANCELLED.
CancelSound == cancel # "none" => runStatus = "cancelled"

ControlInv == RetrySound /\ VerdictSound /\ CancelSound /\ CancelStopsWork

-----------------------------------------------------------------------------
(* Liveness, under Fairness.                                                 *)

\* A running run does not run for ever: it ends, or an operator pauses it
\* (task_engine.drive_run_to_quiescence).
RunLeavesRunning == runStatus = "running" ~> runStatus # "running"

\* A waiting task whose dependencies have all been met stops waiting
\* (dependencies.py: tasks wait on dependencies and "wake on completion").
Met(t) == \A u \in Upstream(t) : /\ status[u] = "succeeded"
                                 /\ <<t, u>> \in Typed => u \in artefacts
WakesOnCompletion ==
    \A t \in Task : status[t] = "pending" /\ Met(t) ~> status[t] # "pending"

\* A permanent failure reaches every task that still waits for it.
FailureReachesDependents ==
    \A t, u \in Task : u \in Upstream(t) /\ u \in GivenUp ~> status[t] # "pending"
=============================================================================
