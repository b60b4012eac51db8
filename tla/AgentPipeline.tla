--------------------------- MODULE AgentPipeline ----------------------------
(***************************************************************************)
(* One run of the research pipeline (backend/src/agents/graph.py), the log *)
(* of its events, its cancellation and the reaper of runs whose process    *)
(* died (orchestration/pipeline_events.py, the pipeline endpoints of       *)
(* api/routes/agents.py).                                                  *)
(*                                                                         *)
(* A run executes inside the request that started it: a walk over a graph  *)
(* of steps, each logged as it starts and ends.  Events are numbered by    *)
(* their writer; the table refuses a number twice.  Redis holds the cancel *)
(* flag and a key the process keeps alive.                                 *)
(***************************************************************************)
EXTENDS Naturals, FiniteSets

CONSTANTS
    Reaper,                 \* the sweeps of the instances
    MayBeOff,               \* steps whose agent may be switched off (of Steps)
    MaxValidationAttempts,  \* MAX_VALIDATION_ATTEMPTS
    MaxRejections,          \* MAX_REJECTIONS
    RecursionLimit,         \* recursion_limit
    MaxRedisFaults, MaxStoreFaults   \* outages, failed writes (bounds)

Steps == {"ceo_kickoff", "market_analysis_step", "strategy_generation", "options_strategy",
          "code_generation", "compliance_check", "code_validation", "backtesting",
          "evaluation", "optimization", "risk_assessment_step", "deployment", "memory_ingest"}

ASSUME PipelineAssumption ==
    /\ MayBeOff \subseteq Steps /\ RecursionLimit \in Nat \ {0}
    /\ {MaxValidationAttempts, MaxRejections} \subseteq Nat \ {0}
    /\ {MaxRedisFaults, MaxStoreFaults} \subseteq Nat

VARIABLES
    off,            \* steps whose agent is switched off
    step,           \* the step the walk is at
    pipeline,       \* absent, boundary, running, ending, leaving, over or dead
    ending,         \* what the run will end with
    taken,          \* steps walked
    valid, attempts, verdict, rejection_count, backtested,   \* the graph's state
    sequence,       \* the number of the last event of the process
    numbers,        \* numbers in the table
    endings,        \* the terminal events in the table, a set of <<type, number>>
    silence,        \* since the last event: 0, 1 (over a minute), 2 (over ten minutes)
    alive_key, cancel_flag, redis_up,
    reaper,         \* what each sweep is doing
    redis_faults, store_faults

graphVars == <<off, valid, attempts, verdict, rejection_count, backtested>>
walkVars == <<step, pipeline, ending, taken>>
eventVars == <<sequence, numbers, endings, silence, store_faults>>
redisVars == <<alive_key, cancel_flag, redis_up, redis_faults>>
pipelineVars == <<graphVars, walkVars, eventVars, redisVars, reaper>>

Asleep_reaper == [at |-> "asleep"]
Running == pipeline \notin {"absent", "over", "dead"}

PipelineInit ==
    /\ off \in SUBSET MayBeOff
    /\ step = "ceo_kickoff" /\ pipeline = "absent" /\ ending = "none" /\ taken = 0
    /\ valid = FALSE /\ attempts = 0 /\ verdict = "none" /\ rejection_count = 0
    /\ backtested = FALSE
    /\ sequence = 0 /\ numbers = {} /\ endings = {} /\ silence = 0
    /\ alive_key = FALSE /\ cancel_flag = FALSE /\ redis_up = TRUE
    /\ reaper = [r \in Reaper |-> Asleep_reaper] /\ redis_faults = 0 /\ store_faults = 0
-----------------------------------------------------------------------------
(* Events.                                                                 *)

Terminal == {"completed", "failed", "cancelled", "abandoned"}

Insert(n, type) ==
    /\ numbers' = numbers \cup {n} /\ silence' = 0 /\ UNCHANGED store_faults
    /\ endings' = IF type \in Terminal THEN endings \cup {<<type, n>>} ELSE endings

\* Mutant: the table takes any row.
emit_checked_NoConstraint(n, type) == Insert(n, type)

\* The row is stored unless its number is taken or the database fails; the writer goes on.
emit_checked(n, type) ==
    \/ n \notin numbers /\ Insert(n, type)
    \/ n \in numbers /\ UNCHANGED <<numbers, endings, silence, store_faults>>
    \/ /\ store_faults < MaxStoreFaults /\ store_faults' = store_faults + 1
       /\ UNCHANGED <<numbers, endings, silence>>

emit(type) == sequence' = sequence + 1 /\ emit_checked(sequence + 1, type)
-----------------------------------------------------------------------------
(* The walk.                                                               *)

run_pipeline_endpoint ==
    /\ pipeline = "absent" /\ pipeline' = "boundary" /\ emit("started")
    /\ alive_key' = redis_up
    /\ UNCHANGED <<graphVars, step, ending, taken, cancel_flag, redis_up, redis_faults, reaper>>

_route_after_validation(ok, tries) ==
    IF ok THEN "backtesting"
    ELSE IF tries >= MaxValidationAttempts THEN "END" ELSE "code_generation"
_route_after_evaluation(v) == IF v = "pass" THEN "optimization" ELSE "memory_ingest"
_route_after_memory_ingest(count) ==
    IF count >= MaxRejections THEN "ceo_kickoff" ELSE "strategy_generation"

\* The step after this one, on the state the step has left behind.  The compliance step's
\* verdict never blocks.
build_graph ==
    CASE step = "ceo_kickoff" -> "market_analysis_step"
      [] step = "market_analysis_step" -> "strategy_generation"
      [] step = "strategy_generation" -> "options_strategy"
      [] step = "options_strategy" -> "code_generation"
      [] step = "code_generation" -> "compliance_check"
      [] step = "compliance_check" -> "code_validation"
      [] step = "code_validation" -> _route_after_validation(valid', attempts')
      [] step = "backtesting" -> "evaluation"
      [] step = "evaluation" -> _route_after_evaluation(verdict')
      [] step = "optimization" -> "risk_assessment_step"
      [] step = "risk_assessment_step" -> "deployment"
      [] step = "deployment" -> "END"
      [] step = "memory_ingest" -> _route_after_memory_ingest(rejection_count')

EndWith(kind) == pipeline' = "ending" /\ ending' = kind /\ UNCHANGED <<step, taken>>

\* A walk that takes too many steps is an error.
Proceed ==
    LET next == build_graph
    IN  IF next = "END" THEN EndWith("completed")
        ELSE IF taken + 1 >= RecursionLimit THEN EndWith("failed")
        ELSE /\ step' = next /\ taken' = taken + 1 /\ pipeline' = "boundary"
             /\ UNCHANGED ending

\* A flag that cannot be read counts as not set.
_cancel_requested == redis_up /\ cancel_flag

begin_step ==
    /\ pipeline = "boundary" /\ ~_cancel_requested /\ step \notin off
    /\ emit("step.started") /\ pipeline' = "running"
    /\ UNCHANGED <<graphVars, step, ending, taken, redisVars, reaper>>

\* Mutant: a step whose result a later one reads waits for its agent.
skip_node_Waits ==
    /\ pipeline = "boundary" /\ ~_cancel_requested /\ step \in off \ {"backtesting"}
    /\ emit("step.skipped") /\ UNCHANGED graphVars /\ Proceed
    /\ UNCHANGED <<redisVars, reaper>>

skip_node ==
    /\ pipeline = "boundary" /\ ~_cancel_requested /\ step \in off
    /\ emit("step.skipped") /\ UNCHANGED graphVars /\ Proceed
    /\ UNCHANGED <<redisVars, reaper>>

cancelled_at_boundary ==
    /\ pipeline = "boundary" /\ _cancel_requested /\ EndWith("cancelled")
    /\ UNCHANGED <<graphVars, eventVars, redisVars, reaper>>

\* What the steps write: code that parses or not, the evaluation of made-up metrics (none
\* when nothing was backtested), the count of rejections.
_node_code_validation ==
    IF step = "code_validation" THEN valid' \in BOOLEAN /\ attempts' = attempts + 1
    ELSE UNCHANGED <<valid, attempts>>
_node_backtesting == backtested' = (backtested \/ step = "backtesting")
_node_evaluation ==
    verdict' = IF step = "evaluation" THEN (IF backtested THEN "pass" ELSE "fail") ELSE verdict
_node_memory_ingest ==
    rejection_count' = IF step = "memory_ingest" THEN rejection_count + 1 ELSE rejection_count

step_completed ==
    /\ pipeline = "running"
    /\ _node_code_validation /\ _node_backtesting /\ _node_evaluation /\ _node_memory_ingest
    /\ emit("step.completed") /\ Proceed
    /\ UNCHANGED <<off, redisVars, reaper>>

step_failed ==
    /\ pipeline = "running" /\ emit("step.failed") /\ EndWith("failed")
    /\ UNCHANGED <<graphVars, redisVars, reaper>>

\* The flag is polled while the step runs; a step that finishes all the same is kept.
step_cancelled ==
    /\ pipeline = "running" /\ _cancel_requested
    /\ emit("step.cancelled") /\ EndWith("cancelled")
    /\ UNCHANGED <<graphVars, redisVars, reaper>>

run_pipeline_ends ==
    /\ pipeline = "ending" /\ emit(ending) /\ pipeline' = "leaving"
    /\ UNCHANGED <<graphVars, step, ending, taken, redisVars, reaper>>

\* The key goes, then the flag; without Redis both expire later.
clear_cancel ==
    /\ pipeline = "leaving" /\ pipeline' = "over"
    /\ alive_key' = (alive_key /\ ~redis_up) /\ cancel_flag' = (cancel_flag /\ ~redis_up)
    /\ UNCHANGED <<graphVars, step, ending, taken, eventVars, redis_up, redis_faults, reaper>>

ProcessDies ==
    /\ Running /\ pipeline' = "dead"
    /\ UNCHANGED <<graphVars, step, ending, taken, eventVars, redisVars, reaper>>
-----------------------------------------------------------------------------
(* Redis and time.                                                         *)

\* Mutant: the task that refreshes the key outlives the run.
heartbeat_Orphaned ==
    /\ Running \/ pipeline = "over"
    /\ redis_up /\ ~alive_key /\ alive_key' = TRUE
    /\ UNCHANGED <<graphVars, walkVars, eventVars, cancel_flag, redis_up, redis_faults, reaper>>

heartbeat ==
    /\ Running /\ redis_up /\ ~alive_key /\ alive_key' = TRUE
    /\ UNCHANGED <<graphVars, walkVars, eventVars, cancel_flag, redis_up, redis_faults, reaper>>

\* A key that is no longer refreshed expires.
KeyExpires ==
    /\ alive_key /\ (~Running \/ ~redis_up) /\ alive_key' = FALSE
    /\ UNCHANGED <<graphVars, walkVars, eventVars, cancel_flag, redis_up, redis_faults, reaper>>

RedisChanges ==
    /\ \/ redis_up /\ redis_faults < MaxRedisFaults /\ redis_faults' = redis_faults + 1
       \/ ~redis_up /\ UNCHANGED redis_faults
    /\ redis_up' = ~redis_up
    /\ UNCHANGED <<graphVars, walkVars, eventVars, alive_key, cancel_flag, reaper>>

SilenceGrows ==
    /\ numbers # {} /\ silence < 2 /\ silence' = silence + 1
    /\ UNCHANGED <<graphVars, walkVars, sequence, numbers, endings, store_faults, redisVars, reaper>>
-----------------------------------------------------------------------------
(* The reaper, and the operator.                                           *)

_process_is_gone(quiet) == IF redis_up THEN ~alive_key /\ quiet >= 1 ELSE quiet = 2

pipeline_run_state ==
    IF numbers = {} THEN "unknown" ELSE IF endings # {} THEN "finished"
    ELSE IF _process_is_gone(silence) THEN "abandoned" ELSE "running"

cancel_pipeline_run_endpoint ==
    /\ pipeline_run_state = "running" /\ redis_up /\ ~cancel_flag /\ cancel_flag' = TRUE
    /\ UNCHANGED <<graphVars, walkVars, eventVars, alive_key, redis_up, redis_faults, reaper>>

SetReaper(r, job) ==
    /\ reaper' = [reaper EXCEPT ![r] = job]
    /\ UNCHANGED <<graphVars, walkVars, sequence, redisVars>>

\* Runs without an ending and without news, with the highest number of each.
reaper_lists(r) ==
    /\ reaper[r].at = "asleep" /\ numbers # {} /\ endings = {} /\ silence >= 1
    /\ SetReaper(r, [at |-> "listed",
                     last |-> CHOOSE n \in numbers : \A m \in numbers : m <= n])
    /\ UNCHANGED <<numbers, endings, silence, store_faults>>

\* The events are read again for the time of the last one.
reaper_reads(r) ==
    /\ reaper[r].at = "listed"
    /\ SetReaper(r, [at |-> "read", last |-> reaper[r].last, quiet |-> silence])
    /\ UNCHANGED <<numbers, endings, silence, store_faults>>

reaper_asks(r) ==
    /\ reaper[r].at = "read"
    /\ SetReaper(r, IF _process_is_gone(reaper[r].quiet)
                    THEN [at |-> "writing", last |-> reaper[r].last] ELSE Asleep_reaper)
    /\ UNCHANGED <<numbers, endings, silence, store_faults>>

reap_abandoned_run(r) ==
    /\ reaper[r].at = "writing" /\ emit_checked(reaper[r].last + 1, "abandoned")
    /\ SetReaper(r, Asleep_reaper)

ReaperStep(r) ==
    reaper_lists(r) \/ reaper_reads(r) \/ reaper_asks(r) \/ reap_abandoned_run(r)

ProcessStep ==
    \/ begin_step \/ skip_node \/ cancelled_at_boundary \/ step_completed \/ step_failed
    \/ step_cancelled \/ run_pipeline_ends \/ clear_cancel

PipelineNext ==
    \/ run_pipeline_endpoint \/ ProcessStep \/ ProcessDies
    \/ heartbeat \/ KeyExpires \/ RedisChanges \/ SilenceGrows
    \/ cancel_pipeline_run_endpoint
    \/ \E r \in Reaper : ReaperStep(r)

-----------------------------------------------------------------------------
PipelineTypeOK ==
    /\ step \in Steps /\ taken \in 0 .. RecursionLimit /\ sequence \in Nat
    /\ pipeline \in {"absent", "boundary", "running", "ending", "leaving", "over", "dead"}
    /\ ending \in Terminal \cup {"none"} /\ silence \in 0 .. 2
    /\ \A e \in endings : e[1] \in Terminal /\ e[2] \in numbers

(* A run has one ending ("A run with a live heartbeat ... is left alone, and a run that  *)
(* already has a terminal event is never touched"): with Redis and the database          *)
(* available, no sweep ends a run whose process lives, and no run is ended twice, though *)
(* the run may finish between any two steps of a sweep, and two instances sweep at once. *)
EndedOnce ==
    redis_faults = 0 /\ store_faults = 0 =>
        /\ Cardinality(endings) <= 1
        /\ (\E n \in numbers : <<"abandoned", n>> \in endings) => pipeline = "dead"

(* Every run gets an ending: the walk ends whatever agents are switched off and however  *)
(* often its code does not parse and its strategies are rejected, through retries and    *)
(* whole new rounds, and a run whose process died, or whose last event could not be      *)
(* stored, is ended by the sweep.                                                        *)
RunEnds == (numbers # {}) ~> (endings # {})
=============================================================================
