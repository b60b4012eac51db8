----------------------------- MODULE PlanGraph ------------------------------
(***************************************************************************)
(* How a proposed plan is checked and written down: unknown names, cycles, *)
(* the safety order, then one task row per task and one dependency row per *)
(* edge (validate_plan_graph, _has_cycle, _ancestors, _check_safety_order  *)
(* and _materialize_tasks of backend/src/orchestration/planner.py).        *)
(*                                                                         *)
(* The planner is a language model's stand-in, so any graph of the set     *)
(* Proposals may come.  Module TaskEngine takes an accepted plan from here *)
(* on: its PlanAssumption is what PlanVerdict establishes.                 *)
(***************************************************************************)
EXTENDS Naturals, Sequences, FiniteSets, Functions

CONSTANTS
    TaskKey,     \* the keys a plan may use
    Proposals    \* the plans that may be proposed: sequences of TaskSpec

\* The capabilities whose order is fixed, first to last.
SAFETY_ORDER == <<"code_validation", "compliance_check", "backtesting",
                  "strategy_evaluation", "risk_assessment">>

\* The four scans of the research scaffold and the stubs are one capability each here.
KNOWN_CAPABILITIES == Range(SAFETY_ORDER) \union {"research_scaffold", "stub"}

\* depends_on: the keys of the dependencies, in the order listed.
TaskSpec == [key : TaskKey, capability : KNOWN_CAPABILITIES \union {"unknown"},
             depends_on : Seq(TaskKey)]

ASSUME ProposalsAssumption == IsFiniteSet(TaskKey) /\ \A g \in Proposals : g \in Seq(TaskSpec)

\* The stand-in's one answer: a chain of the research scaffold and the safety order.
fake_llm_planner ==
    LET chain == <<"news", "sentiment", "market_analysis", "portfolio_read">> \o SAFETY_ORDER
    IN  [i \in DOMAIN chain |->
           [key |-> chain[i],
            capability |-> IF i <= 4 THEN "research_scaffold" ELSE chain[i],
            depends_on |-> IF i = 1 THEN <<>> ELSE <<chain[i - 1]>>]]

VARIABLES
    proposal,        \* the graph under validation
    plan_at,         \* how far it is
    plan_errors,     \* what validation holds against it
    color,           \* _has_cycle: keys not yet visited are white
    frames,          \* _has_cycle: the calls of visit under way, innermost first
    task_row,        \* the status of the task row of each key; "absent" before it is written
    dependency_row   \* the edges written

planGraphVars == <<proposal, plan_at, plan_errors, color, frames, task_row, dependency_row>>

Keys(g) == {g[i].key : i \in DOMAIN g}
LastOf(g, k) == CHOOSE i \in DOMAIN g : g[i].key = k /\ \A j \in i + 1 .. Len(g) : g[j].key # k

\* A key used twice keeps the dependencies of its last task.
_direct_deps(g) == [k \in Keys(g) |-> g[LastOf(g, k)].depends_on]

PlanGraphInit ==
    /\ proposal = <<>> /\ plan_at = "asked" /\ plan_errors = {}
    /\ color = [k \in TaskKey |-> "white"] /\ frames = <<>>
    /\ task_row = [k \in TaskKey |-> "absent"] /\ dependency_row = {}

\* create_plan asks the planner for a graph.
planner_fn ==
    /\ plan_at = "asked" /\ plan_at' = "names"
    /\ proposal' \in Proposals
    /\ UNCHANGED <<plan_errors, color, frames, task_row, dependency_row>>
-----------------------------------------------------------------------------
(* validate_plan_graph.                                                    *)

NameErrors(g) ==
    {e \in {"duplicate_key", "unknown_capability", "unknown_task"} :
        \/ e = "duplicate_key" /\ Cardinality(Keys(g)) # Len(g)
        \/ e = "unknown_capability" /\ \E i \in DOMAIN g : g[i].capability \notin KNOWN_CAPABILITIES
        \/ e = "unknown_task" /\ \E i \in DOMAIN g : ~ (Range(g[i].depends_on) \subseteq Keys(g))}

\* A graph with an error so far is not searched for cycles.
validate_names ==
    /\ plan_at = "names"
    /\ plan_errors' = NameErrors(proposal)
    /\ plan_at' = IF plan_errors' = {} THEN "cycle" ELSE "order"
    /\ UNCHANGED <<proposal, color, frames, task_row, dependency_row>>

White(g) == {i \in DOMAIN g : color[g[i].key] = "white"}

\* The outer loop of _has_cycle: the search starts again from the first task not visited.
visit_from(i) ==
    /\ plan_at = "cycle" /\ frames = <<>>
    /\ i \in White(proposal) /\ \A j \in White(proposal) : i <= j
    /\ color' = [color EXCEPT ![proposal[i].key] = "gray"]
    /\ frames' = <<[node |-> proposal[i].key, rest |-> proposal[i].depends_on]>>
    /\ UNCHANGED <<proposal, plan_at, plan_errors, task_row, dependency_row>>

\* Mutant: the search is over after the first task's dependencies.
no_cycle_FirstOnly ==
    /\ plan_at = "cycle" /\ frames = <<>> /\ White(proposal) # DOMAIN proposal
    /\ plan_at' = "order"
    /\ UNCHANGED <<proposal, plan_errors, color, frames, task_row, dependency_row>>

no_cycle ==
    /\ plan_at = "cycle" /\ frames = <<>> /\ White(proposal) = {}
    /\ plan_at' = "order"
    /\ UNCHANGED <<proposal, plan_errors, color, frames, task_row, dependency_row>>

\* visit: the next dependency of the innermost call is visited, skipped, or closes a cycle.
visit ==
    /\ plan_at = "cycle" /\ frames # <<>> /\ Head(frames).rest # <<>>
    /\ LET nxt == Head(Head(frames).rest)
           here == [Head(frames) EXCEPT !.rest = Tail(@)]
       IN  \/ /\ color[nxt] = "gray"
              /\ plan_errors' = plan_errors \union {"cycle"} /\ plan_at' = "order"
              /\ UNCHANGED <<color, frames>>
           \/ /\ color[nxt] = "white"
              /\ color' = [color EXCEPT ![nxt] = "gray"]
              /\ frames' = <<[node |-> nxt, rest |-> _direct_deps(proposal)[nxt]], here>> \o Tail(frames)
              /\ UNCHANGED <<plan_at, plan_errors>>
           \/ /\ color[nxt] = "black"
              /\ frames' = <<here>> \o Tail(frames)
              /\ UNCHANGED <<color, plan_at, plan_errors>>
    /\ UNCHANGED <<proposal, task_row, dependency_row>>

\* visit returns with no cycle below its node.
visit_returns ==
    /\ plan_at = "cycle" /\ frames # <<>> /\ Head(frames).rest = <<>>
    /\ color' = [color EXCEPT ![Head(frames).node] = "black"]
    /\ frames' = Tail(frames)
    /\ UNCHANGED <<proposal, plan_at, plan_errors, task_row, dependency_row>>

_has_cycle == (\E i \in DOMAIN proposal : visit_from(i)) \/ visit \/ visit_returns \/ no_cycle

\* The dependencies of the keys of S are added to them; a key that is no task has none.
AddDependencies(g, S) == S \union UNION {Range(_direct_deps(g)[n]) : n \in S \cap Keys(g)}

\* What the stack of _ancestors has reached from k after n rounds.
Seen(g, k) ==
    LET seen[n \in Nat] == IF n = 0 THEN Range(_direct_deps(g)[k]) ELSE AddDependencies(g, seen[n - 1])
    IN  seen

\* The dependencies of k, theirs, and so on.
_ancestors(g, k) == Seen(g, k)[Cardinality(TaskKey)]

Rank(t) == IF t.capability \in Range(SAFETY_ORDER)
           THEN CHOOSE r \in DOMAIN SAFETY_ORDER : SAFETY_ORDER[r] = t.capability ELSE 0

\* Mutant: a task is held against its neighbour in the tuple alone.
_check_safety_order_Adjacent(g) ==
    IF \E i, j \in DOMAIN g : /\ Rank(g[i]) > 0 /\ Rank(g[j]) = Rank(g[i]) + 1 /\ j = i + 1
                              /\ g[i].key \notin _ancestors(g, g[j].key)
    THEN {"safety_order"} ELSE {}

_check_safety_order(g) ==
    IF \E earlier, later \in DOMAIN g :
          /\ Rank(g[earlier]) > 0 /\ Rank(g[earlier]) < Rank(g[later])
          /\ g[earlier].key \notin _ancestors(g, g[later].key)
    THEN {"safety_order"} ELSE {}

\* The order is checked whatever came before; any error rejects the plan.
validate_plan_graph ==
    /\ plan_at = "order"
    /\ plan_errors' = plan_errors \union _check_safety_order(proposal)
    /\ plan_at' = IF plan_errors' = {} THEN "accepted" ELSE "rejected"
    /\ UNCHANGED <<proposal, color, frames, task_row, dependency_row>>
-----------------------------------------------------------------------------
(* _materialize_tasks, in the transaction that starts the run.              *)

Edges(g) == UNION {{<<g[i].key, d>> : d \in Range(g[i].depends_on)} : i \in DOMAIN g}

\* A dependency listed twice breaks UNIQUE (task_id, depends_on_task_id).
EdgeTwice(g) == \E i \in DOMAIN g : Cardinality(Range(g[i].depends_on)) # Len(g[i].depends_on)

_materialize_tasks ==
    /\ plan_at = "accepted" /\ ~ EdgeTwice(proposal)
    /\ task_row' = [k \in TaskKey |->
          IF k \notin Keys(proposal) THEN "absent"
          ELSE IF proposal[LastOf(proposal, k)].depends_on = <<>> THEN "ready" ELSE "pending"]
    /\ dependency_row' = Edges(proposal)
    /\ plan_at' = "materialised"
    /\ UNCHANGED <<proposal, plan_errors, color, frames>>

\* The insert fails and the transaction, plan and all, is rolled back.
materialize_fails ==
    /\ plan_at = "accepted" /\ EdgeTwice(proposal)
    /\ plan_at' = "failed"
    /\ UNCHANGED <<proposal, plan_errors, color, frames, task_row, dependency_row>>

PlanGraphNext == \/ planner_fn
                 \/ validate_names \/ _has_cycle \/ validate_plan_graph
                 \/ _materialize_tasks \/ materialize_fails
-----------------------------------------------------------------------------
PlanGraphTypeOK ==
    /\ plan_at \in {"asked", "names", "cycle", "order", "accepted", "rejected", "materialised", "failed"}
    /\ plan_errors \subseteq {"duplicate_key", "unknown_capability", "unknown_task",
                              "cycle", "safety_order"}
    /\ color \in [TaskKey -> {"white", "gray", "black"}]
    /\ \A i \in DOMAIN frames : frames[i].node \in Keys(proposal)
    /\ task_row \in [TaskKey -> {"absent", "pending", "ready"}]
    /\ dependency_row \subseteq TaskKey \X TaskKey

Waits(k) == {e[2] : e \in {d \in Edges(proposal) : d[1] = k}}

\* Tasks that only wait for one another.
CircularWait == \E S \in (SUBSET Keys(proposal)) \ {{}} : \A k \in S : Waits(k) \cap S # {}

\* A set of tasks that can all have run, with the later task of a fixed pair and without
\* the earlier one.
OutOfOrder ==
    \E S \in SUBSET Keys(proposal) : \E i, j \in DOMAIN proposal :
        /\ \A k \in S : Waits(k) \subseteq S
        /\ Rank(proposal[i]) > 0 /\ Rank(proposal[i]) < Rank(proposal[j])
        /\ proposal[j].key \in S /\ proposal[i].key \notin S

(* A plan is accepted exactly when its names are its own, no tasks wait for one       *)
(* another in a circle, and no risk assessment, evaluation, backtest or compliance    *)
(* check can run before what the safety order puts ahead of it: the coloured search   *)
(* and the ancestor sets of validate_plan_graph decide what these definitions say.    *)
PlanVerdict ==
    /\ plan_at \in {"accepted", "materialised", "failed"} =>
          NameErrors(proposal) = {} /\ ~ CircularWait /\ ~ OutOfOrder
    /\ plan_at = "rejected" => NameErrors(proposal) # {} \/ CircularWait \/ OutOfOrder

(* "the first structurally valid graph is accepted and materialized" (create_plan).   *)
AcceptedMaterialises == plan_at # "failed"
=============================================================================
