-------------------------- MODULE TaskEngineProofs --------------------------
(***************************************************************************)
(* What holds of TaskEngine for every plan, every number of drivers and    *)
(* retries, and every bound.                                               *)
(***************************************************************************)
EXTENDS TaskEngine, TLAPS

\* An edge joins two tasks.
LEMMA EdgeType == \A e \in Deps : e[1] \in Task /\ e[2] \in Task /\ e = <<e[1], e[2]>>
BY PlanAssumption

\* Type correctness: no step of any coroutine, operator or boot leaves the
\* statuses, flags and program counters of the code.
LEMMA TypeStep == TypeOK /\ [Next]_vars => TypeOK'
<1> SUFFICES ASSUME TypeOK, [Next]_vars PROVE TypeOK'
  OBVIOUS
<1> USE PlanAssumption, BoundAssumption
    DEF TypeOK, RunStatus, TaskStatus, FailureClass, ExecPc, DriverPc
<1>1. CASE create_plan
  BY <1>1 DEF create_plan, create_plan_reject, create_plan_overtaken, AttemptsLeft,
     create_plan_give_up, create_plan_accept, runVars, planVars, taskVars, execVars,
     driverVars, counters
<1>2. ASSUME NEW t \in Task, execute_claimed_task(t) PROVE TypeOK'
  <2> USE <1>2 DEF Goto, Return, ControlUnchanged, runVars, planVars, taskVars,
          execVars, driverVars, counters
  <2>1. CASE start_task(t)
    BY <2>1 DEF start_task
  <2>2. CASE finish_task(t)
    BY <2>2 DEF finish_task
  <2>3. ASSUME NEW c \in {"transient", "permanent"}, mark_task_failed(t, c) PROVE TypeOK'
    BY <2>3 DEF mark_task_failed
  <2>4. CASE resolve_read(t)
    BY <2>4 DEF resolve_read, Satisfies
  <2>5. CASE resolve_commit(t)
    BY <2>5 DEF resolve_commit, Satisfies
  <2>6. CASE propagate_unsatisfiable(t)
    BY <2>6 DEF propagate_unsatisfiable
  <2> QED
    BY <2>1, <2>2, <2>3, <2>4, <2>5, <2>6 DEF execute_claimed_task
<1>3. ASSUME NEW d \in Driver, drive_run_to_quiescence(d) PROVE TypeOK'
  <2> USE <1>3 DEF DriverStep, ControlUnchanged, runVars, planVars, taskVars,
          execVars, driverVars, counters
  <2>1. CASE drive_check_status(d)
    BY <2>1 DEF drive_check_status
  <2>2. CASE run_has_pending_work(d)
    BY <2>2 DEF run_has_pending_work
  <2>3. CASE select_ready_tasks(d)
    BY <2>3 DEF select_ready_tasks
  <2>4. ASSUME NEW t \in Task, claim_task(d, t) PROVE TypeOK'
    BY <2>4 DEF claim_task
  <2>5. CASE batch_done(d)
    BY <2>5 DEF batch_done
  <2>6. CASE determine_run_outcome(d)
    BY <2>6 DEF determine_run_outcome, Outcome
  <2>7. CASE record_outcome(d)
    BY <2>7 DEF record_outcome
  <2> QED
    BY <2>1, <2>2, <2>3, <2>4, <2>5, <2>6, <2>7 DEF drive_run_to_quiescence
<1>4. CASE pause_run
  BY <1>4 DEF pause_run, planVars, taskVars, execVars, driverVars
<1>5. ASSUME NEW d \in Driver, continue_run(d) PROVE TypeOK'
  BY <1>5 DEF continue_run, DriverStep, planVars, taskVars, execVars, counters
<1>6. CASE cancel_run
  BY <1>6 DEF cancel_run, planVars, taskVars, execVars, driverVars, counters
<1>7. CASE cancel_sweep
  BY <1>7 DEF cancel_sweep, runVars, planVars, execVars, driverVars, counters
<1>8. ASSUME NEW r \in Retrier, retry_check(r) PROVE TypeOK'
  BY <1>8 DEF retry_check, runVars, planVars, taskVars, execVars, driverVars
<1>9. ASSUME NEW r \in Retrier, retry_run(r) PROVE TypeOK'
  <2>1. CASE retry_rearm(r)
    BY <2>1 DEF retry_rearm, runVars, planVars, execVars, driverVars, counters
  <2>2. CASE retry_lost(r)
    BY <2>2 DEF retry_lost, runVars, planVars, taskVars, execVars, driverVars, counters
  <2>3. ASSUME NEW d \in Driver, retry_flip(r, d) PROVE TypeOK'
    BY <2>3 DEF retry_flip, DriverStep, planVars, taskVars, execVars, counters
  <2> QED
    BY <1>9, <2>1, <2>2, <2>3 DEF retry_run
<1>10. CASE Crash
  <2>1. crashes' \in 0 .. MaxCrashes
    BY <1>10 DEF Crash
  <2> QED
    BY <1>10, <2>1 DEF Crash, runVars, taskVars
<1>11. ASSUME NEW d \in Driver, reap_incomplete_runs(d) PROVE TypeOK'
  BY <1>11 DEF reap_incomplete_runs, DriverStep, runVars, planVars, execVars, counters
<1>12. CASE UNCHANGED vars
  BY <1>12 DEF vars, runVars, planVars, taskVars, execVars, driverVars, counters
<1> QED
  BY <1>1, <1>2, <1>3, <1>4, <1>5, <1>6, <1>7, <1>8, <1>9, <1>10, <1>11, <1>12
  DEF Next

-----------------------------------------------------------------------------
(* The dependency discipline.                                                *)

\* The frontier loop takes only waiting tasks, and takes none without cause:
\* dropping a member with no upstream in the set would leave a smaller one.
LEMMA CascadeSound ==
    ASSUME TypeOK, NEW t \in Task, NEW u \in Cascade(t)
    PROVE  /\ u \in Task
           /\ status[u] \in {"pending", "ready"}
           /\ \E v \in Cascade(t) \cup {t} : <<u, v>> \in Deps
<1> DEFINE Closed(S) == \A e \in Deps : /\ e[2] \in S \cup {t}
                                        /\ status[e[1]] \in {"pending", "ready"}
                                        => e[1] \in S
<1>1. u \in Task /\ \A S \in SUBSET Task : Closed(S) => u \in S
  BY DEF Cascade
<1>2. status[u] \in {"pending", "ready"}
  <2> DEFINE W == {v \in Task : status[v] \in {"pending", "ready"}}
  <2>1. Closed(W)
    BY PlanAssumption
  <2> QED
    BY <1>1, <2>1
<1>3. ASSUME \A v \in Cascade(t) \cup {t} : <<u, v>> \notin Deps PROVE FALSE
  <2> DEFINE C == Cascade(t) \ {u}
  <2>1. Closed(Cascade(t))
    BY PlanAssumption DEF Cascade
  <2>2. Closed(C)
    <3> SUFFICES ASSUME NEW e \in Deps, e[2] \in C \cup {t},
                        status[e[1]] \in {"pending", "ready"}
                 PROVE  e[1] \in C
      OBVIOUS
    <3>1. e[1] \in Cascade(t)
      BY <2>1
    <3>2. e[1] # u
      BY <1>3, PlanAssumption
    <3> QED
      BY <3>1, <3>2
  <2>3. C \in SUBSET Task
    BY DEF Cascade
  <2> QED
    BY <1>1, <2>2, <2>3
<1> QED
  BY <1>1, <1>2, <1>3

\* A new run, before its plan, satisfies the invariant.
LEMMA InvInit == Init => IInv
<1> SUFFICES ASSUME Init PROVE IInv
  OBVIOUS
<1>1. TypeOK
  BY BoundAssumption DEF Init, TypeOK, RunStatus, TaskStatus, FailureClass, ExecPc, DriverPc
<1> QED
  BY <1>1 DEF Init, IInv, SatisfiedSound, StartedSatisfied, WakeSound, ExecSound,
     ArtefactsOfSuccess, PlanningClean, UnsatisfiableHasCause

\* The steps that leave the tasks alone keep everything but, perhaps, PlanningClean.
LEMMA InvFrame ==
    ASSUME IInv, TypeOK', UNCHANGED <<taskVars, exec, wake, up>>,
           runStatus' \in {"planning", "cannot_plan"}
              => runStatus \in {"planning", "cannot_plan"}
    PROVE  IInv'
BY DEF IInv, SatisfiedSound, StartedSatisfied, WakeSound, ExecSound, ArtefactsOfSuccess,
       PlanningClean, UnsatisfiableHasCause, taskVars, EdgesInto, Satisfies, Upstream, GivenUp

\* A cause stays a cause as long as nothing given up is taken back.
LEMMA CauseKept ==
    ASSUME UnsatisfiableHasCause, GivenUp \subseteq GivenUp',
           \A u \in Task : status'[u] = "unsatisfiable" => status[u] = "unsatisfiable"
    PROVE  UnsatisfiableHasCause'
BY DEF UnsatisfiableHasCause, Upstream

\* Every step of execute_claimed_task keeps the invariant.
LEMMA InvExecute ==
    ASSUME IInv, TypeOK', NEW t \in Task, execute_claimed_task(t)
    PROVE  IInv'
<1> USE EdgeType DEF IInv, ControlUnchanged, Goto, Return, runVars, TypeOK
<1>1. CASE start_task(t)
  <2> USE <1>1 DEF start_task
  <2>1. SatisfiedSound' /\ StartedSatisfied' /\ ArtefactsOfSuccess'
    BY DEF SatisfiedSound, StartedSatisfied, ArtefactsOfSuccess, EdgesInto
  <2>2. WakeSound' /\ ExecSound'
    BY DEF WakeSound, ExecSound, EdgesInto, Satisfies
  <2>3. PlanningClean'
    BY DEF PlanningClean, ExecSound
  <2>4. UnsatisfiableHasCause'
    <3>1. GivenUp \subseteq GivenUp'
      BY DEF GivenUp, ExecSound
    <3> QED
      BY <3>1, CauseKept
  <2> QED
    BY <2>1, <2>2, <2>3, <2>4
<1>2. CASE finish_task(t)
  <2> USE <1>2 DEF finish_task, ResultCounts
  <2>1. SatisfiedSound' /\ StartedSatisfied' /\ ArtefactsOfSuccess'
    BY DEF SatisfiedSound, StartedSatisfied, ArtefactsOfSuccess, EdgesInto
  <2>2. WakeSound' /\ ExecSound'
    BY DEF WakeSound, ExecSound, EdgesInto, Satisfies
  <2>3. PlanningClean'
    BY DEF PlanningClean, ExecSound
  <2>4. UnsatisfiableHasCause'
    <3>1. GivenUp \subseteq GivenUp'
      BY DEF GivenUp, ExecSound
    <3> QED
      BY <3>1, CauseKept
  <2> QED
    BY <2>1, <2>2, <2>3, <2>4
<1>3. ASSUME NEW c \in {"transient", "permanent"}, mark_task_failed(t, c) PROVE IInv'
  <2> USE <1>3 DEF mark_task_failed, ResultCounts, Cascades
  <2>1. SatisfiedSound' /\ StartedSatisfied' /\ ArtefactsOfSuccess'
    BY DEF SatisfiedSound, StartedSatisfied, ArtefactsOfSuccess, EdgesInto
  <2>2. WakeSound' /\ ExecSound'
    BY DEF WakeSound, ExecSound, EdgesInto, Satisfies
  <2>3. PlanningClean'
    BY DEF PlanningClean, ExecSound
  <2>4. UnsatisfiableHasCause'
    <3>1. GivenUp \subseteq GivenUp'
      BY DEF GivenUp, ExecSound
    <3> QED
      BY <3>1, CauseKept
  <2> QED
    BY <2>1, <2>2, <2>3, <2>4
<1>4. CASE resolve_read(t)
  <2> USE <1>4 DEF resolve_read, taskVars
  <2>1. SatisfiedSound' /\ StartedSatisfied' /\ ArtefactsOfSuccess'
    BY DEF SatisfiedSound, StartedSatisfied, ArtefactsOfSuccess, EdgesInto
  <2>2. WakeSound' /\ ExecSound'
    BY DEF WakeSound, ExecSound, EdgesInto, Satisfies, FullySatisfied
  <2>3. PlanningClean'
    BY DEF PlanningClean, ExecSound
  <2>4. UnsatisfiableHasCause'
    <3>1. GivenUp \subseteq GivenUp'
      BY DEF GivenUp, ExecSound
    <3> QED
      BY <3>1, CauseKept
  <2> QED
    BY <2>1, <2>2, <2>3, <2>4
<1>5. CASE resolve_commit(t)
  <2> USE <1>5 DEF resolve_commit
  <2>1. SatisfiedSound' /\ StartedSatisfied' /\ ArtefactsOfSuccess'
    BY DEF SatisfiedSound, StartedSatisfied, ArtefactsOfSuccess, EdgesInto, WakeSound, Satisfies, ExecSound
  <2>2. WakeSound' /\ ExecSound'
    BY DEF WakeSound, ExecSound, EdgesInto, Satisfies
  <2>3. PlanningClean'
    BY DEF PlanningClean, ExecSound
  <2>4. UnsatisfiableHasCause'
    <3>1. GivenUp \subseteq GivenUp'
      BY DEF GivenUp, ExecSound
    <3> QED
      BY <3>1, CauseKept
  <2> QED
    BY <2>1, <2>2, <2>3, <2>4
<1>6. CASE propagate_unsatisfiable(t)
  <2> USE <1>6 DEF propagate_unsatisfiable
  <2>0. \A u \in Cascade(t) : /\ u \in Task
                              /\ status[u] \in {"pending", "ready"}
                              /\ \E v \in Cascade(t) \cup {t} : <<u, v>> \in Deps
    BY CascadeSound
  <2>1. SatisfiedSound' /\ StartedSatisfied' /\ ArtefactsOfSuccess'
    BY <2>0 DEF SatisfiedSound, StartedSatisfied, ArtefactsOfSuccess, EdgesInto
  <2>2. WakeSound' /\ ExecSound'
    BY <2>0 DEF WakeSound, ExecSound, EdgesInto, Satisfies
  <2>3. PlanningClean'
    BY <2>0 DEF PlanningClean
  <2>4. GivenUp' = GivenUp \cup Cascade(t) /\ t \in GivenUp
    BY <2>0 DEF GivenUp, ExecSound
  <2>5. UnsatisfiableHasCause'
    <3> SUFFICES ASSUME NEW u \in Task, status'[u] = "unsatisfiable"
                 PROVE  \E v \in GivenUp' : v \in Task /\ <<u, v>> \in Deps
      BY DEF UnsatisfiableHasCause, Upstream
    <3>1. CASE u \in Cascade(t)
      BY <2>0, <2>4, <3>1
    <3>2. CASE u \notin Cascade(t)
      BY <2>4, <3>2 DEF UnsatisfiableHasCause, Upstream
    <3> QED
      BY <3>1, <3>2
  <2> QED
    BY <2>1, <2>2, <2>3, <2>5
<1> QED
  BY <1>1, <1>2, <1>3, <1>4, <1>5, <1>6 DEF execute_claimed_task

\* A step that changes only statuses keeps the discipline when it starts nothing
\* new, takes back no success, no failure for good and no position of a coroutine.
LEMMA InvRelabel ==
    ASSUME IInv, TypeOK', UNCHANGED <<satisfied, artefacts, wake>>,
           runStatus' \in {"planning", "cannot_plan"} =>
              /\ runStatus \in {"planning", "cannot_plan"}
              /\ \A u \in Task : status[u] = "absent" => status'[u] = "absent",
           \A u \in Task : status[u] = "succeeded" => status'[u] = "succeeded",
           \A u \in Task : status'[u] = "unsatisfiable" => status[u] = "unsatisfiable",
           \A u \in Task : /\ status'[u] \in {"ready", "claimed", "running", "succeeded", "failed"}
                           => status[u] \in {"ready", "claimed", "running", "succeeded", "failed"},
           GivenUp \subseteq GivenUp',
           ExecSound',
           \A u \in Task : wake[u] # {} => exec'[u] = exec[u]
    PROVE  IInv'
<1> USE EdgeType DEF IInv, TypeOK
<1>1. SatisfiedSound' /\ StartedSatisfied' /\ ArtefactsOfSuccess'
  BY DEF SatisfiedSound, StartedSatisfied, ArtefactsOfSuccess, EdgesInto
<1>2. WakeSound'
  BY DEF WakeSound, EdgesInto, Satisfies
<1>3. PlanningClean'
  BY DEF PlanningClean
<1> QED
  BY <1>1, <1>2, <1>3, CauseKept

\* Every step of planner, coroutines, operators and boots keeps the invariant.
LEMMA InvStep == IInv /\ [Next]_vars => IInv'
<1> SUFFICES ASSUME IInv, [Next]_vars PROVE IInv'
  OBVIOUS
<1>0. TypeOK /\ TypeOK'
  BY TypeStep DEF IInv
<1>1. CASE create_plan
  <2>1. CASE create_plan_reject \/ create_plan_overtaken \/ create_plan_give_up
    BY <1>0, <2>1, InvFrame DEF create_plan_reject, create_plan_overtaken,
       create_plan_give_up, runVars, execVars
  <2>2. ASSUME NEW d \in Driver, create_plan_accept(d) PROVE IInv'
    <3> USE <1>0, <2>2, EdgeType DEF create_plan_accept, IInv, TypeOK, execVars
    <3>1. satisfied = {} /\ artefacts = {}
      BY DEF PlanningClean, SatisfiedSound, ArtefactsOfSuccess
    <3>2. \A t \in Task : exec[t] = "idle" /\ wake[t] = {}
      BY DEF PlanningClean, ExecSound, ExecPc, WakeSound
    <3>3. SatisfiedSound' /\ ArtefactsOfSuccess' /\ WakeSound' /\ PlanningClean'
      BY <3>1, <3>2 DEF SatisfiedSound, ArtefactsOfSuccess, WakeSound, PlanningClean
    <3>4. ExecSound' /\ UnsatisfiableHasCause'
      BY <3>2 DEF ExecSound, UnsatisfiableHasCause
    <3>5. StartedSatisfied'
      BY DEF StartedSatisfied, EdgesInto, Upstream
    <3> QED
      BY <3>3, <3>4, <3>5
  <2> QED
    BY <1>1, <2>1, <2>2 DEF create_plan
<1>2. ASSUME NEW t \in Task, execute_claimed_task(t) PROVE IInv'
  BY <1>0, <1>2, InvExecute
<1>3. ASSUME NEW d \in Driver, drive_run_to_quiescence(d) PROVE IInv'
  <2> USE DEF ControlUnchanged, runVars
  <2>1. CASE \/ drive_check_status(d) \/ run_has_pending_work(d) \/ select_ready_tasks(d)
             \/ batch_done(d) \/ determine_run_outcome(d)
    BY <1>0, <2>1, InvFrame DEF drive_check_status, run_has_pending_work,
       select_ready_tasks, batch_done, determine_run_outcome, execVars
  <2>2. CASE record_outcome(d)
    BY <1>0, <2>2, InvFrame DEF record_outcome, execVars
  <2>3. ASSUME NEW t \in Task, claim_task(d, t) PROVE IInv'
    <3> USE <1>0, <2>3 DEF claim_task, IInv, TypeOK
    <3>1. ExecSound'
      BY DEF ExecSound
    <3>2. GivenUp \subseteq GivenUp'
      BY DEF GivenUp
    <3>3. \A u \in Task : wake[u] # {} => exec'[u] = exec[u]
      BY DEF WakeSound, ExecSound
    <3> QED
      BY <3>1, <3>2, <3>3, InvRelabel
  <2> QED
    BY <1>3, <2>1, <2>2, <2>3 DEF drive_run_to_quiescence
<1>4. CASE pause_run \/ cancel_run
  BY <1>0, <1>4, InvFrame DEF pause_run, cancel_run, execVars
<1>5. ASSUME NEW d \in Driver, continue_run(d) PROVE IInv'
  BY <1>0, <1>5, InvFrame DEF continue_run, execVars
<1>6. CASE cancel_sweep
  <2> USE <1>0, <1>6 DEF cancel_sweep, Swept, Unfinished, IInv, TypeOK, runVars, execVars
  <2>1. ExecSound'
    BY DEF ExecSound
  <2>2. GivenUp \subseteq GivenUp'
    BY DEF GivenUp
  <2> QED
    BY <2>1, <2>2, InvRelabel
<1>7. ASSUME NEW r \in Retrier, retry_check(r) \/ retry_lost(r) PROVE IInv'
  BY <1>0, <1>7, InvFrame DEF retry_check, retry_lost, runVars, execVars
<1>8. ASSUME NEW r \in Retrier, retry_rearm(r) PROVE IInv'
  <2> USE <1>0, <1>8 DEF retry_rearm, IInv, TypeOK, runVars, execVars
  <2>1. ExecSound'
    BY DEF ExecSound
  <2>2. GivenUp \subseteq GivenUp'
    BY DEF GivenUp
  <2> QED
    BY <2>1, <2>2, InvRelabel
<1>9. ASSUME NEW r \in Retrier, NEW d \in Driver, retry_flip(r, d) PROVE IInv'
  BY <1>0, <1>9, InvFrame DEF retry_flip, execVars
<1>10. CASE Crash
  <2> USE <1>0, <1>10, EdgeType DEF Crash, IInv, TypeOK, taskVars, runVars
  <2>1. ExecSound' /\ WakeSound'
    BY DEF ExecSound, WakeSound
  <2>2. SatisfiedSound' /\ StartedSatisfied' /\ ArtefactsOfSuccess' /\ PlanningClean'
    BY DEF SatisfiedSound, StartedSatisfied, ArtefactsOfSuccess, PlanningClean, EdgesInto
  <2>3. UnsatisfiableHasCause'
    <3>1. GivenUp \subseteq GivenUp'
      BY DEF GivenUp
    <3> QED
      BY <3>1, CauseKept
  <2> QED
    BY <2>1, <2>2, <2>3
<1>11. ASSUME NEW d \in Driver, reap_incomplete_runs(d) PROVE IInv'
  <2> USE <1>0, <1>11 DEF reap_incomplete_runs, Reaped, IInv, TypeOK, runVars, execVars
  <2>1. ExecSound'
    BY DEF ExecSound
  <2>2. GivenUp \subseteq GivenUp'
    BY DEF GivenUp
  <2> QED
    BY <2>1, <2>2, InvRelabel
<1>12. CASE UNCHANGED vars
  BY <1>0, <1>12, InvFrame DEF vars, runVars, execVars
<1> QED
  BY <1>1, <1>2, <1>3, <1>4, <1>5, <1>6, <1>7, <1>8, <1>9, <1>10, <1>11, <1>12
  DEF Next, retry_run

\* The inductive invariant holds in every reachable state.
THEOREM Invariance == Spec => []IInv
BY InvInit, InvStep, PTL DEF Spec

\* Every variable keeps its type.
THEOREM TypeCorrect == Spec => []TypeOK
BY Invariance, PTL DEF IInv

\* For every plan: nothing is ready, started or finished before what it depends on.
THEOREM DependencyOrderHolds == Spec => []DependencyOrder
<1>1. IInv => DependencyOrder
  <2> SUFFICES ASSUME IInv, NEW t \in Task, NEW u \in Task, <<t, u>> \in Deps,
                      status[t] \in {"ready", "claimed", "running", "succeeded", "failed"}
               PROVE  status[u] = "succeeded" /\ (<<t, u>> \in Typed => u \in artefacts)
    BY DEF DependencyOrder, Upstream
  <2>1. <<t, u>> \in satisfied
    BY DEF IInv, StartedSatisfied, EdgesInto
  <2> QED
    BY <2>1 DEF IInv, SatisfiedSound
<1> QED
  BY <1>1, Invariance, PTL

\* For every number of drivers: a task that can be claimed is run by nobody.
THEOREM ReadyMeansFreeHolds == Spec => []ReadyMeansFree
<1>1. IInv => ReadyMeansFree
  BY DEF IInv, TypeOK, ExecPc, ExecSound, ReadyMeansFree
<1> QED
  BY <1>1, Invariance, PTL

\* For every plan: no task is given up without a cause upstream.
THEOREM UnsatisfiableHasCauseHolds == Spec => []UnsatisfiableHasCause
BY Invariance, PTL DEF IInv

\* For every plan: only a success leaves an artefact.
THEOREM ArtefactsOfSuccessHolds == Spec => []ArtefactsOfSuccess
BY Invariance, PTL DEF IInv

-----------------------------------------------------------------------------
(* What a step may never undo.                                               *)

Ended(t) == status[t] \in {"succeeded", "unsatisfiable", "cancelled"} \/ t \in GivenUp

\* No step moves a task that has ended.
LEMMA EndedStep ==
    ASSUME IInv, [Next]_vars, NEW t \in Task, Ended(t)
    PROVE  status'[t] = status[t] /\ (t \in GivenUp => t \in GivenUp')
<1> USE DEF IInv, TypeOK, Ended, GivenUp
<1>1. CASE create_plan
  BY <1>1 DEF create_plan, create_plan_reject, create_plan_overtaken, create_plan_give_up,
     create_plan_accept, PlanningClean, taskVars
<1>2. ASSUME NEW u \in Task, execute_claimed_task(u)
      PROVE  status'[t] = status[t] /\ (t \in GivenUp => t \in GivenUp')
  <2>1. CASE propagate_unsatisfiable(u)
    BY <2>1, CascadeSound DEF propagate_unsatisfiable
  <2>2. CASE start_task(u) \/ finish_task(u)
    BY <2>2 DEF start_task, finish_task, ResultCounts
  <2>3. ASSUME NEW c \in {"transient", "permanent"}, mark_task_failed(u, c)
        PROVE  status'[t] = status[t] /\ (t \in GivenUp => t \in GivenUp')
    BY <2>3 DEF mark_task_failed, ResultCounts
  <2>4. CASE resolve_read(u) \/ resolve_commit(u)
    BY <2>4 DEF resolve_read, resolve_commit, taskVars
  <2> QED
    BY <1>2, <2>1, <2>2, <2>3, <2>4 DEF execute_claimed_task
<1>3. ASSUME NEW d \in Driver, drive_run_to_quiescence(d)
      PROVE  status'[t] = status[t] /\ (t \in GivenUp => t \in GivenUp')
  BY <1>3 DEF drive_run_to_quiescence, drive_check_status, run_has_pending_work,
     select_ready_tasks, claim_task, batch_done, determine_run_outcome, record_outcome,
     taskVars
<1>4. CASE pause_run \/ cancel_run \/ cancel_sweep \/ Crash
  BY <1>4 DEF pause_run, cancel_run, cancel_sweep, Swept, Unfinished, Crash, taskVars
<1>5. ASSUME NEW d \in Driver, continue_run(d) \/ reap_incomplete_runs(d)
      PROVE  status'[t] = status[t] /\ (t \in GivenUp => t \in GivenUp')
  BY <1>5 DEF continue_run, reap_incomplete_runs, Reaped, taskVars
<1>6. ASSUME NEW r \in Retrier, retry_check(r) \/ retry_run(r)
      PROVE  status'[t] = status[t] /\ (t \in GivenUp => t \in GivenUp')
  BY <1>6 DEF retry_check, retry_run, retry_rearm, retry_lost, retry_flip, taskVars
<1>7. CASE UNCHANGED vars
  BY <1>7 DEF vars, taskVars
<1> QED
  BY <1>1, <1>2, <1>3, <1>4, <1>5, <1>6, <1>7 DEF Next

\* For every plan: a success, a failure for good, a lost cause and a cancelled
\* task are never taken back, not by a late result, a retry or a boot.
THEOREM EndedTasksStayHolds == Spec => EndedTasksStay
<1>1. IInv /\ [Next]_vars =>
        [\A t \in Task :
            status[t] \in {"succeeded", "unsatisfiable", "cancelled"} \/ t \in GivenUp
            => status'[t] = status[t]]_vars
  BY EndedStep DEF Ended
<1> QED
  BY <1>1, Invariance, PTL DEF Spec, EndedTasksStay

-----------------------------------------------------------------------------
(* TaskEngine implements RunContract, for every plan and every number of     *)
(* drivers, crashes and pauses, as long as one retry_run is in flight at a   *)
(* time.  (With two it does not: one may flip a run that the other has       *)
(* driven to a permanent failure.)                                           *)

OneRetrier == \A r, s \in Retrier : r = s

\* A new run has no retry, verdict or cancel under way.
LEMMA ControlInit == Init => ControlInv
BY DEF Init, ControlInv, RetrySound, VerdictSound, CancelSound, CancelStopsWork

\* Nothing given up is taken back.
LEMMA GivenUpGrows == ASSUME IInv, [Next]_vars PROVE GivenUp \subseteq GivenUp'
BY EndedStep DEF Ended, GivenUp

\* Only retry_run takes a run out of FAILED, and only a cancel into CANCELLED.
LEMMA ControlStep ==
    ASSUME OneRetrier, IInv, ControlInv, [Next]_vars PROVE ControlInv'
<1>0. TypeOK /\ GivenUp \subseteq GivenUp'
  BY GivenUpGrows DEF IInv
<1> USE <1>0 DEF ControlInv, TypeOK
<1>1. CASE create_plan
  <2> USE <1>1 DEF create_plan, create_plan_reject, create_plan_overtaken,
          create_plan_give_up, create_plan_accept, runVars, taskVars, driverVars
  <2>1. RetrySound' /\ CancelSound'
    BY DEF RetrySound, CancelSound
  <2>2. VerdictSound'
    BY DEF VerdictSound
  <2>3. CancelStopsWork'
    BY DEF CancelStopsWork, CancelSound, HasPendingWork
  <2> QED
    BY <2>1, <2>2, <2>3
<1>2. ASSUME NEW t \in Task, execute_claimed_task(t) PROVE ControlInv'
  <2>1. UNCHANGED <<runVars, cancel, retrier, driverVars>>
    BY <1>2 DEF execute_claimed_task, start_task, finish_task, mark_task_failed,
       resolve_read, resolve_commit, propagate_unsatisfiable, ControlUnchanged
  <2>2. RetrySound' /\ CancelSound' /\ VerdictSound'
    BY <2>1 DEF RetrySound, CancelSound, VerdictSound, runVars, driverVars
  <2>3. \A u \in Task : status'[u] \in Unfinished => status[u] \in Unfinished
    BY <1>2 DEF execute_claimed_task, start_task, finish_task, mark_task_failed,
       resolve_read, resolve_commit, propagate_unsatisfiable, Unfinished, taskVars
  <2> QED
    BY <2>1, <2>2, <2>3 DEF CancelStopsWork, HasPendingWork
<1>3. ASSUME NEW d \in Driver, drive_run_to_quiescence(d) PROVE ControlInv'
  <2> USE DEF ControlUnchanged, DriverStep, runVars, taskVars, driverVars
  <2>1. CASE \/ drive_check_status(d) \/ run_has_pending_work(d) \/ select_ready_tasks(d)
             \/ batch_done(d)
    BY <2>1 DEF drive_check_status, run_has_pending_work, select_ready_tasks, batch_done,
       RetrySound, VerdictSound, CancelSound, CancelStopsWork, HasPendingWork
  <2>2. CASE determine_run_outcome(d)
    BY <2>2 DEF determine_run_outcome, Outcome,
       RetrySound, VerdictSound, CancelSound, CancelStopsWork, HasPendingWork
  <2>3. CASE record_outcome(d)
    BY <2>3 DEF record_outcome, StillRunning,
       RetrySound, VerdictSound, CancelSound, CancelStopsWork, HasPendingWork
  <2>4. ASSUME NEW t \in Task, claim_task(d, t) PROVE ControlInv'
    <3>1. RetrySound' /\ CancelSound' /\ VerdictSound'
      BY <2>4 DEF claim_task, RetrySound, CancelSound, VerdictSound
    <3>2. CancelStopsWork'
      BY <2>4 DEF claim_task, CancelStopsWork, HasPendingWork, Unfinished
    <3> QED
      BY <3>1, <3>2
  <2> QED
    BY <1>3, <2>1, <2>2, <2>3, <2>4 DEF drive_run_to_quiescence
<1>4. CASE pause_run \/ cancel_run \/ cancel_sweep
  BY <1>4 DEF pause_run, cancel_run, cancel_sweep, CANCELLABLE_STATUSES,
     NON_TERMINAL_STATUSES, Swept, Unfinished, runVars, taskVars, driverVars,
     RetrySound, VerdictSound, CancelSound, CancelStopsWork, HasPendingWork
<1>5. ASSUME NEW d \in Driver, continue_run(d) PROVE ControlInv'
  BY <1>5 DEF continue_run, DriverStep, taskVars,
     RetrySound, VerdictSound, CancelSound, CancelStopsWork, HasPendingWork
<1>6. ASSUME NEW r \in Retrier, retry_check(r) PROVE ControlInv'
  BY <1>6 DEF retry_check, runVars, taskVars, driverVars,
     RetrySound, VerdictSound, CancelSound, CancelStopsWork, HasPendingWork
<1>7. ASSUME NEW r \in Retrier, retry_run(r) PROVE ControlInv'
  <2>1. \A s \in Retrier : s = r
    BY DEF OneRetrier
  <2>2. cancel = "none"
    BY <1>7 DEF retry_run, retry_rearm, retry_lost, retry_flip, RetrySound, CancelSound
  <2>3. RetrySound' /\ CancelSound'
    BY <1>7, <2>1, <2>2 DEF retry_run, retry_rearm, retry_lost, retry_flip, runVars,
       RetrySound, CancelSound
  <2>4. VerdictSound' /\ CancelStopsWork'
    BY <1>7, <2>2 DEF retry_run, retry_rearm, retry_lost, retry_flip, DriverStep,
       driverVars, VerdictSound, CancelStopsWork
  <2> QED
    BY <2>3, <2>4
<1>8. CASE Crash
  BY <1>8 DEF Crash, runVars, taskVars, Unfinished,
     RetrySound, VerdictSound, CancelSound, CancelStopsWork, HasPendingWork
<1>9. ASSUME NEW d \in Driver, reap_incomplete_runs(d) PROVE ControlInv'
  BY <1>9 DEF reap_incomplete_runs, DriverStep, NON_TERMINAL_STATUSES, runVars,
     RetrySound, VerdictSound, CancelSound, CancelStopsWork, HasPendingWork
<1>10. CASE UNCHANGED vars
  BY <1>10 DEF vars, runVars, taskVars, driverVars,
     RetrySound, VerdictSound, CancelSound, CancelStopsWork, HasPendingWork
<1> QED
  BY <1>1, <1>2, <1>3, <1>4, <1>5, <1>6, <1>7, <1>8, <1>9, <1>10 DEF Next

\* The invariant of the controls, with one retry_run at a time.
THEOREM ControlInvariance == OneRetrier => (Spec => []ControlInv)
<1> SUFFICES ASSUME OneRetrier PROVE Spec => []ControlInv
  OBVIOUS
<1>1. IInv /\ ControlInv /\ [Next]_vars => ControlInv'
  BY ControlStep
<1> QED
  BY <1>1, ControlInit, Invariance, PTL DEF Spec

\* With one retry_run at a time, a finished cancel leaves nothing to do, for ever.
THEOREM CancelStopsWorkHolds == OneRetrier => (Spec => []CancelStopsWork)
BY ControlInvariance, PTL DEF ControlInv

-----------------------------------------------------------------------------
(* Step simulation.                                                          *)

\* A new run is the contract's initial state.
LEMMA RefineInit == Init => Contract!Init
BY DEF Init, Contract!Init, Phase, Done, GivenUp

\* The steps of an executing coroutine: success, failure for good, cascade.
LEMMA RefineExecute ==
    ASSUME IInv, NEW t \in Task, execute_claimed_task(t)
    PROVE  [Contract!Next]_(Contract!vars)
<1> USE DEF IInv, TypeOK
<1>0. UNCHANGED Phase
  BY DEF execute_claimed_task, start_task, finish_task, mark_task_failed, resolve_read,
     resolve_commit, propagate_unsatisfiable, ControlUnchanged, runVars, Phase
<1>1. status[t] = "running" => Contract!Endable(t)
  <2> SUFFICES ASSUME status[t] = "running" PROVE Contract!Endable(t)
    OBVIOUS
  <2>1. Phase \notin {"planning", "cannot_plan"}
    BY DEF PlanningClean, Phase
  <2>2. t \notin Done \cup GivenUp
    BY DEF Done, GivenUp
  <2>3. \A u \in Task : <<t, u>> \in Deps => u \in Done
    BY DEF StartedSatisfied, SatisfiedSound, EdgesInto, Done
  <2> QED
    BY <2>1, <2>2, <2>3 DEF Contract!Endable
<1>2. CASE start_task(t) \/ resolve_read(t) \/ resolve_commit(t)
  <2>1. UNCHANGED Done
    BY <1>2 DEF start_task, resolve_read, resolve_commit, taskVars, Done
  <2>2. UNCHANGED GivenUp
    BY <1>2 DEF start_task, resolve_read, resolve_commit, taskVars, GivenUp
  <2> QED
    BY <1>0, <2>1, <2>2 DEF Contract!vars
<1>3. CASE finish_task(t)
  <2>1. CASE status[t] = "running"
    <3>1. Done' = Done \cup {t}
      BY <1>3, <2>1 DEF finish_task, ResultCounts, Done
    <3>2. UNCHANGED GivenUp
      BY <1>3, <2>1 DEF finish_task, ResultCounts, GivenUp
    <3> QED
      BY <1>0, <1>1, <2>1, <3>1, <3>2 DEF Contract!Next, Contract!Succeed
  <2>2. CASE status[t] # "running"
    BY <1>0, <1>3, <2>2 DEF finish_task, ResultCounts, Done, GivenUp, Contract!vars
  <2> QED
    BY <2>1, <2>2
<1>4. ASSUME NEW c \in {"transient", "permanent"}, mark_task_failed(t, c)
      PROVE  [Contract!Next]_(Contract!vars)
  <2>1. UNCHANGED Done
    BY <1>4 DEF mark_task_failed, ResultCounts, Done
  <2>2. CASE status[t] = "running" /\ c = "permanent"
    <3>1. GivenUp' = GivenUp \cup {t}
      BY <1>4, <2>2 DEF mark_task_failed, ResultCounts, GivenUp
    <3> QED
      BY <1>0, <1>1, <2>1, <2>2, <3>1 DEF Contract!Next, Contract!Fail
  <2>3. CASE status[t] # "running" \/ c = "transient"
    <3>1. UNCHANGED GivenUp
      BY <1>4, <2>3 DEF mark_task_failed, ResultCounts, GivenUp
    <3> QED
      BY <1>0, <2>1, <3>1 DEF Contract!vars
  <2> QED
    BY <2>2, <2>3
<1>5. CASE propagate_unsatisfiable(t)
  <2>1. \A u \in Cascade(t) : /\ u \in Task
                              /\ status[u] \in {"pending", "ready"}
                              /\ \E v \in Cascade(t) \cup {t} : <<u, v>> \in Deps
    BY CascadeSound
  <2>2. UNCHANGED Done
    BY <1>5, <2>1 DEF propagate_unsatisfiable, Done
  <2>3. GivenUp' = GivenUp \cup Cascade(t) /\ t \in GivenUp
    BY <1>5, <2>1 DEF propagate_unsatisfiable, GivenUp, ExecSound
  <2>4. Cascade(t) \cap (Done \cup GivenUp) = {}
    BY <2>1 DEF Done, GivenUp
  <2>5. Contract!Abandon(Cascade(t))
    BY <1>0, <2>1, <2>2, <2>3, <2>4 DEF Contract!Abandon
  <2>6. Cascade(t) \in SUBSET Task
    BY <2>1
  <2> QED
    BY <2>5, <2>6 DEF Contract!Next
<1> QED
  BY <1>2, <1>3, <1>4, <1>5 DEF execute_claimed_task

\* Every step of the engine is a step of the contract, or leaves it alone.
LEMMA RefineStep ==
    ASSUME IInv, ControlInv, [Next]_vars
    PROVE  [Contract!Next]_(Contract!vars)
<1> USE DEF IInv, TypeOK, Contract!vars, Contract!Next, Contract!Move
<1>1. CASE create_plan
  <2>1. UNCHANGED <<Done, GivenUp>>
    BY <1>1 DEF create_plan, create_plan_reject, create_plan_overtaken,
       create_plan_give_up, create_plan_accept, taskVars, PlanningClean, Done, GivenUp
  <2> QED
    BY <1>1, <2>1 DEF create_plan, create_plan_reject, create_plan_overtaken,
       create_plan_give_up, create_plan_accept, runVars, Phase,
       Contract!Plan, Contract!GiveUp
<1>2. ASSUME NEW t \in Task, execute_claimed_task(t) PROVE [Contract!Next]_(Contract!vars)
  BY <1>2, RefineExecute
<1>3. ASSUME NEW d \in Driver, drive_run_to_quiescence(d)
      PROVE  [Contract!Next]_(Contract!vars)
  <2>1. UNCHANGED <<Done, GivenUp>>
    BY <1>3 DEF drive_run_to_quiescence, drive_check_status, run_has_pending_work,
       select_ready_tasks, claim_task, batch_done, determine_run_outcome, record_outcome,
       taskVars, Done, GivenUp
  <2>2. CASE record_outcome(d)
    BY <2>1, <2>2 DEF record_outcome, StillRunning, VerdictSound, ControlInv, runVars, Phase,
       Contract!Complete, Contract!FailTransient, Contract!FailPermanent
  <2>3. CASE ~record_outcome(d)
    BY <1>3, <2>1, <2>3 DEF drive_run_to_quiescence, drive_check_status,
       run_has_pending_work, select_ready_tasks, claim_task, batch_done,
       determine_run_outcome, ControlUnchanged, runVars, Phase
  <2> QED
    BY <2>2, <2>3
<1>4. CASE pause_run \/ cancel_run
  BY <1>4 DEF pause_run, cancel_run, CANCELLABLE_STATUSES, NON_TERMINAL_STATUSES,
     taskVars, Done, GivenUp, Phase, Contract!Pause, Contract!Cancel
<1>5. CASE cancel_sweep \/ Crash
  BY <1>5 DEF cancel_sweep, Crash, Swept, Unfinished, taskVars, runVars, Done, GivenUp, Phase
<1>6. ASSUME NEW d \in Driver, continue_run(d) PROVE [Contract!Next]_(Contract!vars)
  BY <1>6 DEF continue_run, taskVars, Done, GivenUp, Phase, Contract!Continue
<1>7. ASSUME NEW d \in Driver, reap_incomplete_runs(d) PROVE [Contract!Next]_(Contract!vars)
  BY <1>7 DEF reap_incomplete_runs, Reaped, runVars, Done, GivenUp, Phase
<1>8. ASSUME NEW r \in Retrier, retry_check(r) \/ retry_rearm(r) \/ retry_lost(r)
      PROVE  [Contract!Next]_(Contract!vars)
  BY <1>8 DEF retry_check, retry_rearm, retry_lost, taskVars, runVars, Done, GivenUp, Phase
<1>9. ASSUME NEW r \in Retrier, NEW d \in Driver, retry_flip(r, d)
      PROVE  [Contract!Next]_(Contract!vars)
  BY <1>9 DEF retry_flip, taskVars, Done, GivenUp, Phase, RetrySound, ControlInv,
     Contract!Retry
<1>10. CASE UNCHANGED vars
  BY <1>10 DEF vars, taskVars, runVars, Done, GivenUp, Phase
<1> QED
  BY <1>1, <1>2, <1>3, <1>4, <1>5, <1>6, <1>7, <1>8, <1>9, <1>10 DEF Next, retry_run

\* With one retry_run at a time, the engine keeps the promise of RunContract, for
\* every plan and every number of drivers, pauses and crashes.
THEOREM EngineImplementsContract == OneRetrier => (Spec => ContractSpec)
BY RefineInit, RefineStep, Invariance, ControlInvariance, PTL
   DEF Spec, ContractSpec, Contract!Spec

-----------------------------------------------------------------------------
(* What a run that was never paused comes to.                                *)

DriversOff == \A d \in Driver : driver[d] = "off"
NothingInFlight == \A t \in Task : status[t] \notin {"claimed", "running"}
NothingUnfinished == \A t \in Task : status[t] \notin Unfinished
AllSucceeded == \A t \in Task : status[t] = "succeeded"

\* One driver at most is at work, and only on a run that is running, or that was cancelled
\* under it; on a run that a crash left planning it stops at its first test.
OneDriverAtWork ==
    /\ \A d, e \in Driver : driver[d] # "off" /\ driver[e] # "off" => d = e
    /\ runStatus # "paused"
    /\ runStatus \in {"cannot_plan", "completed", "failed"} \/ planner = "planning" => DriversOff
    /\ runStatus = "planning" => \A d \in Driver : driver[d] \in {"off", "status"}
    /\ planner = "planning" => runStatus \in {"planning", "cancelled"}

\* A driver that found nothing to do leaves nothing in flight, nor does a failed run; and
\* what is in flight has its coroutine.
InFlightIsExecuted ==
    /\ \A d \in Driver : driver[d] \in {"outcome", "record"} => NothingInFlight
    /\ runStatus = "failed" => NothingInFlight
    /\ up /\ runStatus = "running" =>
         \A t \in Task : status[t] \in {"claimed", "running"} => exec[t] # "idle"

SoloInv ==
    /\ ~up => DriversOff /\ planner = "done"
    /\ NeverPaused => OneDriverAtWork /\ InFlightIsExecuted

\* Every task of a run that is driven is there and was not cancelled, and a failure has its
\* class.
TasksThere ==
    /\ runStatus \in {"running", "completed", "failed"} =>
         \A t \in Task : status[t] \notin {"absent", "cancelled"}
    /\ \A t \in Task : status[t] = "failed" => failure[t] # "none"

\* With one retry_run at a time the driver's verdict is still true when it is recorded.
VerdictStillTrue ==
    /\ \A d \in Driver : runStatus = "running" /\ driver[d] \in {"outcome", "record"} =>
         /\ NothingUnfinished
         /\ driver[d] = "record" /\ verdict[d] = "completed" => AllSucceeded
    /\ runStatus = "completed" => AllSucceeded

OutcomeInv == NeverPaused => TasksThere /\ VerdictStillTrue

\* A new run has no driver and no task.
LEMMA SoloStart == Init => SoloInv
BY DEF Init, SoloInv, OneDriverAtWork, InFlightIsExecuted, DriversOff, NothingInFlight

\* A task is put in flight by a claim alone, and returns when it is no longer so.
LEMMA InFlightStep ==
    ASSUME IInv, NEW u \in Task, execute_claimed_task(u)
    PROVE  /\ UNCHANGED <<runVars, planVars, up, pauses, driverVars>>
           /\ NothingInFlight => NothingInFlight'
           /\ \A t \in Task : status'[t] \in {"claimed", "running"} /\ exec[t] # "idle" => exec'[t] # "idle"
           /\ \A t \in Task : status'[t] \in {"claimed", "running"} => status[t] \in {"claimed", "running"}
<1> USE DEF IInv, TypeOK, NothingInFlight
<1>1. CASE propagate_unsatisfiable(u)
  BY <1>1, CascadeSound DEF propagate_unsatisfiable, Return, ControlUnchanged, counters, ExecSound
<1>2. CASE start_task(u) \/ finish_task(u)
  BY <1>2 DEF start_task, finish_task, ResultCounts, Return, Goto, ControlUnchanged, counters, ExecSound
<1>3. ASSUME NEW c \in {"transient", "permanent"}, mark_task_failed(u, c)
      PROVE  /\ UNCHANGED <<runVars, planVars, up, pauses, driverVars>>
             /\ NothingInFlight => NothingInFlight'
             /\ \A t \in Task : status'[t] \in {"claimed", "running"} /\ exec[t] # "idle" => exec'[t] # "idle"
             /\ \A t \in Task : status'[t] \in {"claimed", "running"} => status[t] \in {"claimed", "running"}
  BY <1>3 DEF mark_task_failed, ResultCounts, Return, Goto, ControlUnchanged, counters, ExecSound
<1>4. CASE resolve_read(u)
  BY <1>4 DEF resolve_read, Goto, ControlUnchanged, counters, ExecSound, taskVars
<1>5. CASE resolve_commit(u)
  BY <1>5 DEF resolve_commit, Return, ControlUnchanged, counters, ExecSound
<1> QED
  BY <1>1, <1>2, <1>3, <1>4, <1>5 DEF execute_claimed_task

\* A run that was never paused has one driver at most, whatever is retried, cancelled or
\* crashes; so nothing is claimed behind the back of a driver that found nothing to do.
LEMMA SoloStep == ASSUME IInv, SoloInv, [Next]_vars PROVE SoloInv'
<1>0. TypeOK /\ pauses \in Nat
  BY DEF IInv, TypeOK
<1>1. CASE create_plan
  <2>1. CASE create_plan_reject \/ create_plan_overtaken \/ create_plan_give_up
    BY <1>0, <2>1 DEF create_plan_reject, create_plan_overtaken, create_plan_give_up, TypeOK, IInv, PlanningClean,
       SoloInv, NeverPaused, OneDriverAtWork, InFlightIsExecuted, DriversOff, NothingInFlight, runVars, taskVars,
       execVars, driverVars, counters
  <2>2. ASSUME NEW d \in Driver, create_plan_accept(d) PROVE SoloInv'
    BY <1>0, <2>2 DEF create_plan_accept, TypeOK, SoloInv, NeverPaused, OneDriverAtWork, InFlightIsExecuted,
       DriversOff, NothingInFlight, execVars, counters
  <2> QED
    BY <1>1, <2>1, <2>2 DEF create_plan
<1>2. ASSUME NEW t \in Task, execute_claimed_task(t) PROVE SoloInv'
  <2>1. /\ UNCHANGED <<runVars, planVars, up, pauses, driverVars>>
        /\ NothingInFlight => NothingInFlight'
        /\ \A u \in Task : status'[u] \in {"claimed", "running"} /\ exec[u] # "idle" => exec'[u] # "idle"
        /\ \A u \in Task : status'[u] \in {"claimed", "running"} => status[u] \in {"claimed", "running"}
    BY <1>2, InFlightStep
  <2> QED
    BY <2>1 DEF SoloInv, NeverPaused, OneDriverAtWork, InFlightIsExecuted, DriversOff, runVars, planVars, driverVars
<1>3. ASSUME NEW d \in Driver, drive_run_to_quiescence(d) PROVE SoloInv'
  <2> USE <1>0 DEF TypeOK, SoloInv, NeverPaused, ControlUnchanged, DriverStep, runVars, planVars, taskVars, execVars, counters
  <2>0. up
    BY <1>3 DEF drive_run_to_quiescence, drive_check_status, run_has_pending_work, select_ready_tasks, claim_task,
       batch_done, determine_run_outcome, record_outcome
  <2>1. CASE drive_check_status(d)
    BY <2>0, <2>1 DEF drive_check_status, OneDriverAtWork, InFlightIsExecuted, DriversOff, NothingInFlight
  <2>9. CASE select_ready_tasks(d)
    BY <2>0, <2>9 DEF select_ready_tasks, OneDriverAtWork, InFlightIsExecuted, DriversOff, NothingInFlight
  <2>10. CASE batch_done(d)
    BY <2>0, <2>10 DEF batch_done, OneDriverAtWork, InFlightIsExecuted, DriversOff, NothingInFlight
  <2>2. CASE run_has_pending_work(d)
    BY <2>0, <2>2 DEF run_has_pending_work, HasPendingWork, Unfinished, OneDriverAtWork, InFlightIsExecuted,
       DriversOff, NothingInFlight
  <2>3. CASE determine_run_outcome(d)
    BY <2>0, <2>3 DEF determine_run_outcome, OneDriverAtWork, InFlightIsExecuted, DriversOff, NothingInFlight
  <2>4. CASE record_outcome(d)
    BY <2>0, <2>4 DEF record_outcome, StillRunning, OneDriverAtWork, InFlightIsExecuted, DriversOff, NothingInFlight
  <2>5. ASSUME NEW t \in Task, claim_task(d, t) PROVE SoloInv'
    BY <2>0, <2>5 DEF claim_task, Dispatchable, OneDriverAtWork, InFlightIsExecuted, DriversOff, NothingInFlight
  <2> QED
    BY <1>3, <2>1, <2>2, <2>3, <2>4, <2>5, <2>9, <2>10 DEF drive_run_to_quiescence
<1>4. CASE pause_run
  BY <1>0, <1>4 DEF pause_run, SoloInv, NeverPaused
<1>5. ASSUME NEW d \in Driver, continue_run(d) PROVE SoloInv'
  BY <1>0, <1>5 DEF continue_run, SoloInv, NeverPaused, OneDriverAtWork, counters
<1>6. CASE cancel_run
  BY <1>0, <1>6 DEF cancel_run, TypeOK, SoloInv, NeverPaused, OneDriverAtWork, InFlightIsExecuted, DriversOff,
     NothingInFlight, planVars, taskVars, execVars, driverVars, counters
<1>7. CASE cancel_sweep
  BY <1>0, <1>7 DEF cancel_sweep, Swept, Unfinished, TypeOK, SoloInv, NeverPaused, OneDriverAtWork,
     InFlightIsExecuted, DriversOff, NothingInFlight, planVars, runVars, execVars, driverVars, counters
<1>8. ASSUME NEW r \in Retrier, retry_check(r) \/ retry_rearm(r) \/ retry_lost(r) PROVE SoloInv'
  BY <1>0, <1>8 DEF retry_check, retry_rearm, retry_lost, TypeOK, SoloInv, NeverPaused, OneDriverAtWork,
     InFlightIsExecuted, DriversOff, NothingInFlight, planVars, runVars, taskVars, execVars, driverVars, counters
<1>9. ASSUME NEW r \in Retrier, NEW d \in Driver, retry_flip(r, d) PROVE SoloInv'
  BY <1>0, <1>9 DEF retry_flip, DriverStep, TypeOK, SoloInv, NeverPaused, OneDriverAtWork, IInv, PlanningClean,
     InFlightIsExecuted, DriversOff, NothingInFlight, planVars, taskVars, execVars, counters
<1>10. CASE Crash
  BY <1>0, <1>10 DEF Crash, TypeOK, SoloInv, NeverPaused, OneDriverAtWork, InFlightIsExecuted, DriversOff,
     NothingInFlight, runVars, taskVars
<1>11. ASSUME NEW d \in Driver, reap_incomplete_runs(d) PROVE SoloInv'
  BY <1>0, <1>11 DEF reap_incomplete_runs, Reaped, NON_TERMINAL_STATUSES, DriverStep, TypeOK, SoloInv, NeverPaused,
     OneDriverAtWork, InFlightIsExecuted, DriversOff, NothingInFlight, runVars, planVars, execVars, counters
<1>12. CASE UNCHANGED vars
  BY <1>0, <1>12 DEF vars, SoloInv, NeverPaused, OneDriverAtWork, InFlightIsExecuted, DriversOff, NothingInFlight,
     runVars, planVars, taskVars, execVars, driverVars, counters
<1> QED
  BY <1>1, <1>2, <1>3, <1>4, <1>5, <1>6, <1>7, <1>8, <1>9, <1>10, <1>11, <1>12 DEF Next, retry_run

\* For every plan and any number of retry requests: nothing of a run that was never paused
\* is left in flight without a coroutine.
THEOREM NoOrphansHolds == Spec => []NoOrphans
<1>1. SoloInv => NoOrphans
  BY DEF SoloInv, InFlightIsExecuted, NoOrphans
<1>2. IInv /\ SoloInv /\ [Next]_vars => SoloInv'
  BY SoloStep
<1> QED
  BY <1>1, <1>2, SoloStart, Invariance, PTL DEF Spec

\* A new run has no outcome.
LEMMA OutcomeStart == Init => OutcomeInv
BY DEF Init, OutcomeInv, TasksThere, VerdictStillTrue

\* What an executing task does: it gives no task work that had none, and a failure its class.
LEMMA OutcomeExecute ==
    ASSUME IInv, NEW u \in Task, execute_claimed_task(u)
    PROVE  /\ NothingUnfinished => NothingUnfinished'
           /\ \A t \in Task : status'[t] \in {"absent", "cancelled"} => status[t] \in {"absent", "cancelled"}
           /\ (\A t \in Task : status[t] = "failed" => failure[t] # "none")
                => \A t \in Task : status'[t] = "failed" => failure'[t] # "none"
<1> USE DEF IInv, TypeOK, NothingUnfinished, Unfinished
<1>1. CASE propagate_unsatisfiable(u)
  BY <1>1 DEF propagate_unsatisfiable, Return
<1>2. CASE start_task(u) \/ finish_task(u)
  BY <1>2 DEF start_task, finish_task, ResultCounts
<1>3. ASSUME NEW c \in {"transient", "permanent"}, mark_task_failed(u, c)
      PROVE  /\ NothingUnfinished => NothingUnfinished'
             /\ \A t \in Task : status'[t] \in {"absent", "cancelled"} => status[t] \in {"absent", "cancelled"}
             /\ (\A t \in Task : status[t] = "failed" => failure[t] # "none")
                  => \A t \in Task : status'[t] = "failed" => failure'[t] # "none"
  BY <1>3 DEF mark_task_failed, ResultCounts
<1>4. CASE resolve_read(u)
  BY <1>4 DEF resolve_read, taskVars
<1>5. CASE resolve_commit(u)
  BY <1>5 DEF resolve_commit
<1> QED
  BY <1>1, <1>2, <1>3, <1>4, <1>5 DEF execute_claimed_task

\* A pause is counted for good.
LEMMA PausesStay == ASSUME pauses \in Nat, [Next]_vars PROVE pauses' = 0 => pauses = 0
<1>1. CASE create_plan
  BY <1>1 DEF create_plan, create_plan_reject, create_plan_overtaken, create_plan_give_up, create_plan_accept, counters
<1>2. ASSUME NEW t \in Task, execute_claimed_task(t) PROVE pauses' = pauses
  BY <1>2 DEF execute_claimed_task, start_task, finish_task, mark_task_failed, resolve_read, resolve_commit,
     propagate_unsatisfiable, ControlUnchanged, counters
<1>3. ASSUME NEW d \in Driver, drive_run_to_quiescence(d) PROVE pauses' = pauses
  BY <1>3 DEF drive_run_to_quiescence, drive_check_status, run_has_pending_work, select_ready_tasks, claim_task,
     batch_done, determine_run_outcome, record_outcome, ControlUnchanged, counters
<1>4. CASE pause_run
  BY <1>4 DEF pause_run
<1>5. ASSUME NEW d \in Driver, continue_run(d) \/ reap_incomplete_runs(d) PROVE pauses' = pauses
  BY <1>5 DEF continue_run, reap_incomplete_runs, counters
<1>6. CASE cancel_run \/ cancel_sweep \/ Crash
  BY <1>6 DEF cancel_run, cancel_sweep, Crash, counters
<1>7. ASSUME NEW r \in Retrier, retry_check(r) \/ retry_run(r) PROVE pauses' = pauses
  BY <1>7 DEF retry_check, retry_run, retry_rearm, retry_lost, retry_flip, counters
<1>8. CASE UNCHANGED vars
  BY <1>8 DEF vars, counters
<1> QED
  BY <1>1, <1>2, <1>3, <1>4, <1>5, <1>6, <1>7, <1>8 DEF Next

\* With one retry_run at a time no task is re-armed while the run is running, so that what
\* its only driver read of the tasks is true until it is recorded.
LEMMA OutcomeStep ==
    ASSUME IInv, ControlInv, SoloInv, OutcomeInv, [Next]_vars PROVE OutcomeInv'
<1>0. TypeOK /\ RetrySound /\ CancelSound /\ (AllSucceeded => AllSucceeded')
  <2>1. AllSucceeded => AllSucceeded'
    BY EndedStep DEF Ended, AllSucceeded
  <2> QED
    BY <2>1 DEF IInv, ControlInv
<1>1. SUFFICES ASSUME pauses' = 0 PROVE TasksThere' /\ VerdictStillTrue'
  BY DEF OutcomeInv, NeverPaused
<1>2. pauses = 0
  BY <1>0, <1>1, PausesStay DEF TypeOK
<1>3. OneDriverAtWork /\ TasksThere /\ VerdictStillTrue /\ (~up => DriversOff)
  BY <1>2 DEF SoloInv, OutcomeInv, NeverPaused
<1>4. CASE create_plan
  <2>1. CASE create_plan_reject \/ create_plan_overtaken \/ create_plan_give_up
    BY <1>0, <1>3, <2>1 DEF create_plan_reject, create_plan_overtaken, create_plan_give_up, TypeOK, TasksThere,
       VerdictStillTrue, NothingUnfinished, AllSucceeded, runVars, taskVars, driverVars
  <2>2. ASSUME NEW d \in Driver, create_plan_accept(d) PROVE TasksThere' /\ VerdictStillTrue'
    BY <1>0, <1>3, <2>2 DEF create_plan_accept, TypeOK, OneDriverAtWork, DriversOff, TasksThere, VerdictStillTrue
  <2> QED
    BY <1>4, <2>1, <2>2 DEF create_plan
<1>5. ASSUME NEW t \in Task, execute_claimed_task(t) PROVE TasksThere' /\ VerdictStillTrue'
  <2>1. UNCHANGED <<runVars, driverVars>>
    BY <1>5, InFlightStep
  <2>2. TasksThere'
    BY <1>3, <1>5, <2>1, OutcomeExecute DEF TasksThere, runVars
  <2>3. NothingUnfinished => NothingUnfinished'
    BY <1>5, OutcomeExecute
  <2>4. VerdictStillTrue'
    BY <1>0, <1>3, <2>1, <2>3 DEF VerdictStillTrue, runVars, driverVars
  <2> QED
    BY <2>2, <2>4
<1>6. ASSUME NEW d \in Driver, drive_run_to_quiescence(d) PROVE TasksThere' /\ VerdictStillTrue'
  <2> USE <1>0, <1>3 DEF TypeOK, ControlUnchanged, DriverStep, runVars, taskVars
  <2>1. CASE drive_check_status(d) \/ select_ready_tasks(d) \/ batch_done(d)
    BY <2>1 DEF drive_check_status, select_ready_tasks, batch_done, TasksThere, VerdictStillTrue,
       NothingUnfinished, AllSucceeded
  <2>2. CASE run_has_pending_work(d)
    BY <2>2 DEF run_has_pending_work, HasPendingWork, TasksThere, VerdictStillTrue, NothingUnfinished, AllSucceeded
  <2>3. CASE determine_run_outcome(d)
    <3>1. TasksThere' /\ status' = status /\ runStatus' = runStatus
      BY <2>3 DEF determine_run_outcome, TasksThere
    <3>2. CASE runStatus = "running" /\ Outcome = "completed"
      <4>1. NothingUnfinished /\ \A t \in Task : status[t] \notin {"absent", "cancelled"}
        BY <2>3, <3>2 DEF determine_run_outcome, VerdictStillTrue, TasksThere
      <4>2. GivenUp = {} /\ ~ \E t \in Task : status[t] = "failed" /\ failure[t] = "transient"
        BY <3>2 DEF Outcome
      <4>3. \A t \in Task : status[t] # "failed" /\ status[t] # "unsatisfiable"
        BY <4>2 DEF GivenUp, TasksThere, FailureClass
      <4>4. AllSucceeded
        BY <4>1, <4>3 DEF AllSucceeded, NothingUnfinished, Unfinished, TaskStatus
      <4> QED
        BY <2>3, <3>1, <4>1, <4>4 DEF determine_run_outcome, VerdictStillTrue, NothingUnfinished, AllSucceeded
    <3>3. CASE ~ (runStatus = "running" /\ Outcome = "completed")
      BY <2>3, <3>1, <3>3 DEF determine_run_outcome, VerdictStillTrue, NothingUnfinished, AllSucceeded
    <3> QED
      BY <3>2, <3>3
  <2>4. CASE record_outcome(d)
    BY <2>4 DEF record_outcome, StillRunning, TasksThere, VerdictStillTrue, NothingUnfinished, AllSucceeded
  <2>5. ASSUME NEW t \in Task, claim_task(d, t) PROVE TasksThere' /\ VerdictStillTrue'
    BY <2>5 DEF claim_task, Dispatchable, OneDriverAtWork, TasksThere, VerdictStillTrue, NothingUnfinished,
       Unfinished, AllSucceeded
  <2> QED
    BY <1>6, <2>1, <2>2, <2>3, <2>4, <2>5 DEF drive_run_to_quiescence
<1>7. CASE pause_run
  BY <1>0, <1>1, <1>2, <1>7 DEF pause_run
<1>8. ASSUME NEW d \in Driver, continue_run(d) PROVE TasksThere' /\ VerdictStillTrue'
  BY <1>3, <1>8 DEF continue_run, OneDriverAtWork
<1>9. CASE cancel_run
  BY <1>0, <1>3, <1>9 DEF cancel_run, TypeOK, TasksThere, VerdictStillTrue, taskVars, driverVars
<1>10. CASE cancel_sweep
  BY <1>0, <1>3, <1>10 DEF cancel_sweep, CancelSound, TypeOK, TasksThere, VerdictStillTrue, runVars, driverVars
<1>11. ASSUME NEW r \in Retrier, retry_check(r) \/ retry_rearm(r) \/ retry_lost(r)
       PROVE  TasksThere' /\ VerdictStillTrue'
  BY <1>0, <1>3, <1>11 DEF retry_check, retry_rearm, retry_lost, RetrySound, TypeOK, TasksThere, VerdictStillTrue,
     NothingUnfinished, AllSucceeded, runVars, taskVars, driverVars
<1>12. ASSUME NEW r \in Retrier, NEW d \in Driver, retry_flip(r, d) PROVE TasksThere' /\ VerdictStillTrue'
  BY <1>0, <1>3, <1>12 DEF retry_flip, DriverStep, TypeOK, OneDriverAtWork, DriversOff, TasksThere,
     VerdictStillTrue, taskVars
<1>13. CASE Crash
  BY <1>0, <1>3, <1>13 DEF Crash, TypeOK, TasksThere, VerdictStillTrue, AllSucceeded, runVars, taskVars
<1>14. ASSUME NEW d \in Driver, reap_incomplete_runs(d) PROVE TasksThere' /\ VerdictStillTrue'
  BY <1>0, <1>3, <1>14 DEF reap_incomplete_runs, Reaped, DriverStep, NON_TERMINAL_STATUSES, TypeOK, DriversOff,
     TasksThere, VerdictStillTrue, AllSucceeded, runVars
<1>15. CASE UNCHANGED vars
  BY <1>0, <1>3, <1>15 DEF vars, TasksThere, VerdictStillTrue, NothingUnfinished, AllSucceeded, runVars, taskVars,
     driverVars
<1> QED
  BY <1>4, <1>5, <1>6, <1>7, <1>8, <1>9, <1>10, <1>11, <1>12, <1>13, <1>14, <1>15 DEF Next, retry_run

\* For every plan, with one retry_run at a time: a run that was never paused completes only
\* when every task of it has succeeded.  (With two, one may re-arm a task between the
\* driver's last look at the work and its verdict.)
THEOREM CompletedMeansAllSucceededHolds == OneRetrier => (Spec => []CompletedMeansAllSucceeded)
<1> SUFFICES ASSUME OneRetrier PROVE Spec => []CompletedMeansAllSucceeded
  OBVIOUS
<1>1. OutcomeInv => CompletedMeansAllSucceeded
  BY DEF OutcomeInv, VerdictStillTrue, AllSucceeded, CompletedMeansAllSucceeded
<1>2. IInv /\ SoloInv /\ [Next]_vars => SoloInv'
  BY SoloStep
<1>3. IInv /\ ControlInv /\ SoloInv /\ OutcomeInv /\ [Next]_vars => OutcomeInv'
  BY OutcomeStep
<1>4. Spec => []ControlInv
  BY ControlInvariance
<1> QED
  BY <1>1, <1>2, <1>3, <1>4, SoloStart, OutcomeStart, Invariance, PTL DEF Spec
=============================================================================
