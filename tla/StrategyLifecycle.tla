------------------------- MODULE StrategyLifecycle -------------------------
(***************************************************************************)
(* One strategy from its idea to live eligibility: the code pipeline,      *)
(* improvement suggestions, approval requests and the two gated            *)
(* transitions (backend/src/orchestration/{strategies,approvals,           *)
(* transitions,strategy_suggestions}.py and their routes).                 *)
(*                                                                         *)
(* A request that awaits a model, a sandbox or a notification between its  *)
(* reads and its commit is a flow in flight, and other requests come       *)
(* between.  What the code makes of a prompt, and whether it validates, is *)
(* a choice; the evidence behind the go-live gate is the last part, here   *)
(* it passes the gate or does not and changes with trading.  A request     *)
(* that is refused changes nothing and is not a step.                      *)
(***************************************************************************)
EXTENDS Naturals, Sequences, FiniteSets

CONSTANTS
    Flow,           \* requests in flight at once (bound)
    MaxVersions,    \* bounds on the rows ever made
    MaxApprovals,
    MaxSuggestions

ASSUME LifecycleAssumption == {MaxVersions, MaxApprovals, MaxSuggestions} \subseteq Nat

VARIABLES
    strategy_status,  \* "absent" before the row is made
    versions,         \* strategy_versions, in the order of version_number
    approvals,        \* approval_requests about this strategy
    suggestions,      \* strategy_suggestions
    flow,             \* what each request in flight has read and waits for
    ready             \* the derived evidence passes the go-live gate

lifecycleVars == <<strategy_status, versions, approvals, suggestions, flow, ready>>

StrategyStatus == {"Ideation", "Coding", "Backtesting", "PaperTrading", "LiveEligible"}
PROMOTION == "backtesting_to_papertrading"
LIVE_ELIGIBILITY == "papertrading_to_liveeligible"
NoFlow == [op |-> "idle"]

\* returns: the latest completed backtest of the version, as the correlation
\* constraint sees it.
StrategyVersion == [static_validation_passed: BOOLEAN, sandbox: {"none", "passed", "failed"},
                    returns: {"none", "clean", "correlated"}]
\* granted: the request was approved at some time (two decisions can overlap).
ApprovalRequest == [type: {PROMOTION, LIVE_ELIGIBILITY}, granted: BOOLEAN,
                    status: {"pending", "approved", "rejected"}]
StrategySuggestion == {"pending", "reviewed", "regenerated"}

LifecycleInit ==
    /\ strategy_status = "absent" /\ versions = <<>> /\ approvals = <<>> /\ suggestions = <<>>
    /\ flow = [f \in Flow |-> NoFlow] /\ ready = FALSE

Wait(f, what) == flow' = [flow EXCEPT ![f] = what]
Done(f) == Wait(f, NoFlow)
-----------------------------------------------------------------------------
(* run_strategy_pipeline: a row, then code, then a sandbox run.            *)

create_strategy(f) ==
    /\ strategy_status = "absent" /\ flow[f] = NoFlow
    /\ strategy_status' = "Ideation"
    /\ Wait(f, [op |-> "generate"])
    /\ UNCHANGED <<versions, approvals, suggestions, ready>>

\* version_number is the maximum plus one and unique: of two inserts one fails, and
\* its request with it, so versions are numbered without a gap.
create_version(passed) ==
    /\ Len(versions) < MaxVersions
    /\ versions' = Append(versions, [static_validation_passed |-> passed,
                                     sandbox |-> "none", returns |-> "none"])
    /\ strategy_status' = IF strategy_status = "Ideation" THEN "Coding" ELSE strategy_status

create_version_with_validation(f) ==
    /\ flow[f].op = "generate"
    /\ \E passed \in BOOLEAN :
         /\ create_version(passed)
         /\ IF passed THEN Wait(f, [op |-> "sandbox", version |-> Len(versions) + 1])
            ELSE Done(f)
    /\ UNCHANGED <<approvals, suggestions, ready>>

\* The status moves on whether or not the run passed.
run_version_in_sandbox(f) ==
    /\ flow[f].op = "sandbox" /\ Done(f)
    /\ \E outcome \in {"passed", "failed"} :
         versions' = [versions EXCEPT ![flow[f].version].sandbox = outcome]
    /\ strategy_status' = IF strategy_status = "Coding" THEN "Backtesting" ELSE strategy_status
    /\ UNCHANGED <<approvals, suggestions, ready>>
-----------------------------------------------------------------------------
(* Suggestions.                                                            *)

submit_suggestion ==
    /\ versions # <<>> /\ Len(suggestions) < MaxSuggestions
    /\ suggestions' = Append(suggestions, "pending")
    /\ UNCHANGED <<strategy_status, versions, approvals, flow, ready>>

\* The verdict is "needs_changes", whether a model answered or none did.
review_suggestion(s) ==
    /\ s \in DOMAIN suggestions
    /\ suggestions' = [suggestions EXCEPT ![s] = "reviewed"]
    /\ UNCHANGED <<strategy_status, versions, approvals, flow, ready>>

\* The reviewed suggestion is read, and new code awaited.
regenerate_begin(f, s) ==
    /\ flow[f] = NoFlow /\ s \in DOMAIN suggestions /\ suggestions[s] # "pending"
    /\ Wait(f, [op |-> "regenerate", suggestion |-> s])
    /\ UNCHANGED <<strategy_status, versions, approvals, suggestions, ready>>

\* The new version is validated and not run in the sandbox.
regenerate_from_suggestion(f) ==
    /\ flow[f].op = "regenerate" /\ Done(f)
    /\ \E passed \in BOOLEAN : create_version(passed)
    /\ suggestions' = [suggestions EXCEPT ![flow[f].suggestion] = "regenerated"]
    /\ UNCHANGED <<approvals, ready>>
-----------------------------------------------------------------------------
(* Approvals.                                                              *)

create_approval_request(type) ==
    /\ strategy_status # "absent" /\ Len(approvals) < MaxApprovals
    /\ approvals' = Append(approvals, [type |-> type, status |-> "pending", granted |-> FALSE])
    /\ UNCHANGED <<strategy_status, versions, suggestions, flow, ready>>

\* The row is read with no lock; the decision is written by a later statement.
decide_read(f, a, approve) ==
    /\ flow[f] = NoFlow /\ a \in DOMAIN approvals /\ approvals[a].status = "pending"
    /\ Wait(f, [op |-> "decide", request |-> a, approve |-> approve])
    /\ UNCHANGED <<strategy_status, versions, approvals, suggestions, ready>>

decide_approval_request(f) ==
    /\ flow[f].op = "decide" /\ Done(f)
    /\ LET a == flow[f].request
       IN  approvals' = [approvals EXCEPT ![a] =
               [@ EXCEPT !.status = IF flow[f].approve THEN "approved" ELSE "rejected",
                         !.granted = approvals[a].granted \/ flow[f].approve]]
    /\ UNCHANGED <<strategy_status, versions, suggestions, ready>>

Approved(type) == {a \in DOMAIN approvals : approvals[a].type = type /\ approvals[a].status = "approved"}

\* scalar_one_or_none: it raises when two requests for the transition are approved.
is_transition_approved_AnyRequest(type) == \E a \in DOMAIN approvals : approvals[a].type = type
is_transition_approved(type) == Cardinality(Approved(type)) = 1
is_transition_approved_raises(type) == Cardinality(Approved(type)) > 1

conditional_transition(type, from, to) ==
    /\ is_transition_approved(type) /\ strategy_status = from
    /\ strategy_status' = to
    /\ UNCHANGED <<versions, approvals, suggestions, ready>>
-----------------------------------------------------------------------------
(* The gated transitions.                                                  *)

backtest_completes(v) ==
    /\ v \in DOMAIN versions
    /\ \E r \in {"clean", "correlated"} : versions' = [versions EXCEPT ![v].returns = r]
    /\ UNCHANGED <<strategy_status, approvals, suggestions, flow, ready>>

latest_completed_backtest_returns ==
    IF versions = <<>> THEN "none" ELSE versions[Len(versions)].returns

\* The correlation constraint is read first; the transition is another statement.
promote_check(f) ==
    /\ flow[f] = NoFlow /\ strategy_status # "absent"
    /\ latest_completed_backtest_returns # "correlated"
    /\ Wait(f, [op |-> "promote"])
    /\ UNCHANGED <<strategy_status, versions, approvals, suggestions, ready>>

promote_to_paper_trading(f) ==
    /\ flow[f].op = "promote" /\ Done(f)
    /\ conditional_transition(PROMOTION, "Backtesting", "PaperTrading")

\* The gate is evaluated on the derived evidence or on the numbers an operator
\* typed over it; a notification is awaited before the transition.
approve_live_check(f, overridden) ==
    /\ flow[f] = NoFlow /\ strategy_status # "absent" /\ (ready \/ overridden)
    /\ Wait(f, [op |-> "live"])
    /\ UNCHANGED <<strategy_status, versions, approvals, suggestions, ready>>

approve_strategy_for_live_eligibility(f) ==
    /\ flow[f].op = "live" /\ Done(f)
    /\ conditional_transition(LIVE_ELIGIBILITY, "PaperTrading", "LiveEligible")

\* Fills, shadow runs and backtests move the evidence either way.
evidence_changes ==
    /\ strategy_status = "PaperTrading" /\ ready' = ~ready
    /\ UNCHANGED <<strategy_status, versions, approvals, suggestions, flow>>

\* The request fails, or its process dies, while it waits; also a transition refused.
flow_lost(f) ==
    /\ flow[f] # NoFlow /\ Done(f)
    /\ UNCHANGED <<strategy_status, versions, approvals, suggestions, ready>>

LifecycleNext ==
    \/ \E f \in Flow :
         \/ create_strategy(f) \/ create_version_with_validation(f) \/ run_version_in_sandbox(f)
         \/ regenerate_from_suggestion(f) \/ decide_approval_request(f)
         \/ promote_check(f) \/ promote_to_paper_trading(f)
         \/ approve_strategy_for_live_eligibility(f) \/ flow_lost(f)
         \/ \E s \in 1 .. MaxSuggestions : regenerate_begin(f, s)
         \/ \E a \in 1 .. MaxApprovals, approve \in BOOLEAN : decide_read(f, a, approve)
         \/ \E overridden \in BOOLEAN : approve_live_check(f, overridden)
    \/ submit_suggestion \/ evidence_changes
    \/ \E s \in 1 .. MaxSuggestions : review_suggestion(s)
    \/ \E v \in 1 .. MaxVersions : backtest_completes(v)
    \/ \E type \in {PROMOTION, LIVE_ELIGIBILITY} : create_approval_request(type)
-----------------------------------------------------------------------------
LifecycleTypeOK ==
    /\ strategy_status \in StrategyStatus \union {"absent"}
    /\ versions \in Seq(StrategyVersion) /\ approvals \in Seq(ApprovalRequest)
    /\ suggestions \in Seq(StrategySuggestion) /\ ready \in BOOLEAN
    /\ \A f \in Flow : flow[f].op \in {"idle", "generate", "sandbox", "regenerate", "decide",
                                       "promote", "live"}

Granted(type) == \E a \in DOMAIN approvals : approvals[a].type = type /\ approvals[a].granted

\* Nothing trades on paper, or becomes eligible for live trading, that a person did
\* not sign off for that very transition, and nothing is eligible that was not signed
\* off for paper trading first, whatever order requests and decisions come in
\* (conditional_transition is the only way to either status).
SignedOff ==
    /\ strategy_status \in {"PaperTrading", "LiveEligible"} => Granted(PROMOTION)
    /\ strategy_status = "LiveEligible" => Granted(LIVE_ELIGIBILITY)

\* "never raises for that case, only ApprovalRequiredError for a missing/unapproved
\* gate" (orchestration/transitions.py): the check of a transition that has been
\* approved answers.
GateAnswers == \A type \in {PROMOTION, LIVE_ELIGIBILITY} : ~is_transition_approved_raises(type)
-----------------------------------------------------------------------------
(***************************************************************************)
(* The evidence a strategy goes live on: its paper fills, its backtest and *)
(* its Shadow Mode dry runs                                                *)
(* (backend/src/engine/risk/go_live_gate.py,                               *)
(* orchestration/go_live_evidence.py, shadow_mode.py and                   *)
(* shadow_mode_scheduler.py).                                              *)
(*                                                                         *)
(* Days pass; on each the scheduler makes one dry run, an operator may     *)
(* make more, and any of them may fail.  Fills are counted by what they    *)
(* rest on.  Win rates are "near" or "far" apart, or unknown.              *)
(***************************************************************************)

CONSTANTS
    MaxDays,            \* days looked at (bound)
    MinTrades, MinCalendarDays, MinCleanShadowDays,
    Lookback            \* calendar days the streak is followed back

ASSUME GoLiveAssumption ==
    /\ MaxDays \in Nat \ {0} /\ MinTrades \in Nat /\ MinCalendarDays \in Nat
    /\ MinCleanShadowDays \in Nat /\ Lookback \in Nat

VARIABLES
    today, trading_days,   \* the calendar
    worked_days, failed_days,  \* days with a dry run that went through, or failed
    dry_run,               \* the daily job: its list of what is done, and its stage
    closing_fills,         \* closing fills on real prices
    first_fill,            \* the day of the first fill that counts; 0: none
    set_aside,             \* fills on generated prices or made by an administrator
    backtested             \* some completed backtest rests on real data

gateVars == <<today, trading_days, worked_days, failed_days, dry_run, closing_fills,
              first_fill, set_aside, backtested>>

Day == 1 .. MaxDays

GoLiveInit ==
    /\ today = 1 /\ trading_days \in SUBSET Day /\ worked_days = {} /\ failed_days = {}
    /\ dry_run = "due" /\ closing_fills = 0 /\ first_fill = 0 /\ set_aside = 0
    /\ backtested = FALSE

NextDay ==
    /\ today < MaxDays /\ today' = today + 1 /\ dry_run' = "due"
    /\ UNCHANGED <<trading_days, worked_days, failed_days, closing_fills, first_fill,
                   set_aside, backtested>>

\* The result of a dry run is its row, whether it went through or not.
run_shadow_order_check(ok) ==
    /\ worked_days' = IF ok THEN worked_days \cup {today} ELSE worked_days
    /\ failed_days' = IF ok THEN failed_days ELSE failed_days \cup {today}

operator_dry_run(ok) ==
    /\ run_shadow_order_check(ok)
    /\ UNCHANGED <<today, trading_days, dry_run, closing_fills, first_fill, set_aside, backtested>>

\* Once a trading day, and not when a dry run was already made that day; an error in
\* keeping the result leaves none.
run_daily_dry_runs(result) ==
    /\ dry_run = "due" /\ today \in trading_days /\ dry_run' = "done"
    /\ IF today \in worked_days \cup failed_days \/ result = "error"
       THEN UNCHANGED <<worked_days, failed_days>> ELSE run_shadow_order_check(result = "ok")
    /\ UNCHANGED <<today, trading_days, closing_fills, first_fill, set_aside, backtested>>

COUNTED_DATA_SOURCES == {"real", "mixed"}

paper_fill(source, administrative, closes) ==
    /\ closing_fills + set_aside < MinTrades + 1
    /\ IF administrative \/ source \notin COUNTED_DATA_SOURCES
       THEN set_aside' = set_aside + 1 /\ UNCHANGED <<closing_fills, first_fill>>
       ELSE /\ closing_fills' = closing_fills + (IF closes THEN 1 ELSE 0)
            /\ first_fill' = IF first_fill = 0 THEN today ELSE first_fill
            /\ UNCHANGED set_aside
    /\ UNCHANGED <<today, trading_days, worked_days, failed_days, dry_run, backtested>>

backtest_recorded(source) ==
    /\ source \in COUNTED_DATA_SOURCES /\ ~backtested /\ backtested' = TRUE
    /\ UNCHANGED <<today, trading_days, worked_days, failed_days, dry_run, closing_fills,
                   first_fill, set_aside>>

GoLiveNext ==
    \/ NextDay
    \/ \E ok \in BOOLEAN : operator_dry_run(ok)
    \/ \E result \in {"ok", "failed", "error"} : run_daily_dry_runs(result)
    \/ \E source \in {"real", "synthetic"}, administrative, closes \in BOOLEAN :
           paper_fill(source, administrative, closes)
    \/ \E source \in {"real", "synthetic"} : backtest_recorded(source)
-----------------------------------------------------------------------------
(* The streak, as the code walks it, and the readiness check.              *)

Broken_NoRunOnly(day) == day \notin worked_days

Broken(day) == day \in failed_days \/ day \notin worked_days

\* Back from yesterday, over days without trading, to the first day that breaks it; today
\* counts when its run is made, and does not break the streak before that.
clean_shadow_streak ==
    LET start == IF today \in trading_days THEN today - 1 ELSE today
        walk[day \in 0 .. MaxDays] ==
            IF day = 0 \/ day + Lookback <= start THEN 0
            ELSE IF day \notin trading_days THEN walk[day - 1]
            ELSE IF Broken(day) THEN 0
            ELSE 1 + walk[day - 1]
    IN  IF today \in trading_days \cap failed_days THEN 0
        ELSE (IF today \in trading_days \cap worked_days THEN 1 ELSE 0) + walk[start]

calendar_days_running == IF first_fill = 0 THEN 0 ELSE today - first_fill

derive_go_live_evidence(rates) ==
    [num_trades |-> closing_fills, calendar_days_running |-> calendar_days_running,
     clean_shadow_mode_streak_days |-> clean_shadow_streak,
     rates |-> IF closing_fills > 0 /\ backtested THEN rates ELSE "unknown"]

evaluate_go_live_readiness(evidence) ==
    /\ evidence.num_trades >= MinTrades
    /\ evidence.calendar_days_running >= MinCalendarDays
    /\ evidence.clean_shadow_mode_streak_days >= MinCleanShadowDays
    /\ evidence.rates = "near"
-----------------------------------------------------------------------------
GoLiveTypeOK ==
    /\ today \in Day /\ trading_days \subseteq Day /\ worked_days \subseteq Day
    /\ failed_days \subseteq Day /\ dry_run \in {"due", "done"}
    /\ closing_fills \in Nat /\ first_fill \in 0 .. MaxDays /\ set_aside \in Nat

(* A strategy that may go live has had a dry run go through, and none fail, on each   *)
(* of the last MinCleanShadowDays trading days before today, has traded on real       *)
(* prices for MinCalendarDays, and has a win rate to compare                          *)
(* (clean_shadow_streak, derive_go_live_evidence, evaluate_go_live_readiness).        *)
EligibleMeansProven ==
    evaluate_go_live_readiness(derive_go_live_evidence("near")) =>
        LET clean == {d \in trading_days : d \in worked_days /\ d \notin failed_days /\ d <= today}
            recent == {d \in clean : \A e \in trading_days : d <= e /\ e < today => e \in clean}
        IN  /\ Cardinality(recent) >= MinCleanShadowDays
            /\ first_fill > 0 /\ first_fill + MinCalendarDays <= today /\ closing_fills > 0
=============================================================================
