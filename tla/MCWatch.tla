------------------------------- MODULE MCWatch ------------------------------
(***************************************************************************)
(* What must happen by itself, for TLC: the watcher tells the operator of  *)
(* a condition, the drawdown monitor trips its switch, a pipeline run gets *)
(* an ending.                                                              *)
(*                                                                         *)
(* The three share no state, so a behaviour explores one of them and       *)
(* leaves the others in one fixed initial state.  Watching names the       *)
(* ones a run explores.  The pipeline is explored twice: the whole walk    *)
(* without faults, and under "outages" with them, where the walk gets to   *)
(* its second step and fails there at the latest.                          *)
(***************************************************************************)
EXTENDS Alerts, KillSwitch, AgentPipeline

CONSTANT Watching

VARIABLE watching    \* the one explored

watchVars == <<watching, alertVars, switchVars, pipelineVars>>

FixedUnless(c, b) == watching # c => b

WatchInit ==
    /\ watching \in Watching
    /\ AlertsInit     /\ FixedUnless("alerts", alert_source = "event")
    /\ KillSwitchInit /\ FixedUnless("switch", trading_mode = "paper" /\ equity = 0 /\ measurable)
    /\ PipelineInit   /\ FixedUnless("pipeline", off = {})

InPipeline == watching \in {"pipeline", "outages"}

\* What bounds the two explorations of the pipeline.
PipelineBound ==
    IF watching = "outages" THEN taken' <= 1 ELSE redis_faults' = 0 /\ store_faults' = 0

WatchNext ==
    /\ UNCHANGED watching
    /\ IF watching = "alerts"   THEN AlertsNext     ELSE UNCHANGED alertVars
    /\ IF watching = "switch"   THEN KillSwitchNext ELSE UNCHANGED switchVars
    /\ IF InPipeline THEN PipelineNext /\ PipelineBound ELSE UNCHANGED pipelineVars

\* The scheduler runs the watcher every minute, and time passes.
AlertsFairness ==
    /\ WF_alertVars(watching = "alerts" /\ WatcherActs)
    /\ WF_alertVars(watching = "alerts" /\ TimePasses)

\* The scheduler's evaluation comes again and again; any evaluation that has begun goes
\* on.  Operators need not do anything.
Scheduled == CHOOSE e \in Evaluator : TRUE
SwitchFairness ==
    /\ WF_switchVars(watching = "switch" /\ run_equity_reading_job(Scheduled))
    /\ \A e \in Evaluator :
          WF_switchVars(watching = "switch" /\ (lock_state_row(e) \/ evaluate_mode_drawdown(e)))

\* A live process goes on with its run, keys expire, time passes, the sweep comes again
\* and an outage of Redis ends.
PipelineFairness ==
    /\ WF_pipelineVars(InPipeline /\ ProcessStep)
    /\ WF_pipelineVars(InPipeline /\ KeyExpires)
    /\ WF_pipelineVars(InPipeline /\ SilenceGrows)
    /\ WF_pipelineVars(InPipeline /\ RedisChanges /\ ~redis_up)
    /\ \A r \in Reaper : WF_pipelineVars(InPipeline /\ ReaperStep(r))

WatchSpec ==
    WatchInit /\ [][WatchNext]_watchVars /\ AlertsFairness /\ SwitchFairness /\ PipelineFairness

-----------------------------------------------------------------------------
\* Every row, key, message and job of every component has its type.
WatchTypeOK == AlertsTypeOK /\ KillSwitchTypeOK /\ PipelineTypeOK

-----------------------------------------------------------------------------
AllWatched == {"alerts", "switch", "pipeline", "outages"}
=============================================================================
