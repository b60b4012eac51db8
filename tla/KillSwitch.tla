----------------------------- MODULE KillSwitch -----------------------------
(***************************************************************************)
(* The drawdown kill switch of one mode, paper or live                     *)
(* (backend/src/orchestration/kill_switch.py, drawdown_monitor.py,         *)
(* equity.py, risk_monitor_scheduler.py and engine/risk/kill_switch.py).   *)
(*                                                                         *)
(* Evaluations, by the scheduler and by an operator, measure the equity,   *)
(* then lock the switch's row, judge the reading against the highest one   *)
(* since the last reset and commit.  A check of posted figures and a reset *)
(* read the row without the lock and write it later.  Equity is a few      *)
(* whole levels.                                                           *)
(***************************************************************************)
EXTENDS Integers, FiniteSets

CONSTANTS
    Evaluator,      \* the scheduler's job and operators' "evaluate now"
    Resetter,       \* operators resetting the switch
    MaxEquity,      \* the highest level of equity (bound)
    LimitPct,       \* the applied max_drawdown_pct
    MaxSwitchResets \* resets (bound)

ASSUME KillSwitchAssumption ==
    /\ MaxEquity \in Nat \ {0} /\ LimitPct \in 1 .. 100 /\ MaxSwitchResets \in Nat
    /\ IsFiniteSet(Evaluator)

VARIABLES
    trading_mode,   \* paper or live
    equity,         \* what the book is worth
    measurable,     \* every open position has a price and there is a capital base
    switch,         \* the row's tripped
    peak,           \* the highest reading since the last reset; 0: none
    evaluation,     \* what each evaluator is doing
    checker,        \* a check of posted figures
    reset,          \* what each resetter is doing
    trips_since_reset, \* audit rows kill_switch.tripped since the switch was last cleared
    resets

switchVars == <<trading_mode, equity, measurable, switch, peak, evaluation, checker, reset,
                trips_since_reset, resets>>

Level == 0 .. MaxEquity
Unknown == -1
Off == [at |-> "idle"]

KillSwitchInit ==
    /\ trading_mode \in {"paper", "live"} /\ equity \in Level /\ measurable \in BOOLEAN
    /\ switch = FALSE /\ peak = 0 /\ evaluation = [e \in Evaluator |-> Off]
    /\ checker = Off /\ reset = [r \in Resetter |-> Off] /\ trips_since_reset = 0 /\ resets = 0

EquityMoves(n) ==
    /\ n # equity /\ equity' = n
    /\ UNCHANGED <<trading_mode, measurable, switch, peak, evaluation, checker, reset,
                   trips_since_reset, resets>>
PriceGap ==
    /\ measurable' = ~measurable
    /\ UNCHANGED <<trading_mode, equity, switch, peak, evaluation, checker, reset,
                   trips_since_reset, resets>>
-----------------------------------------------------------------------------
(* The automatic evaluation.                                               *)

\* Capital, realised and unrealised results; one position without a price makes the
\* whole reading unknown.
measure_paper_equity == IF measurable THEN equity ELSE Unknown
measure_live_equity == IF measurable THEN equity ELSE Unknown
measure_equity == IF trading_mode = "paper" THEN measure_paper_equity ELSE measure_live_equity

Max2(a, b) == IF a < b THEN b ELSE a
peak_equity_since == peak

evaluate_drawdown(current, high) == high > 0 /\ (high - current) * 100 >= LimitPct * high

Goes(e, job) == evaluation' = [evaluation EXCEPT ![e] = job]

run_equity_reading_job(e) ==
    /\ evaluation[e].at = "idle" /\ Goes(e, [at |-> "measured", sample |-> measure_equity])
    /\ UNCHANGED <<trading_mode, equity, measurable, switch, peak, checker, reset,
                   trips_since_reset, resets>>

StateRowLocked == \E e \in Evaluator : evaluation[e].at = "locked"
\* Mutant: the row is read without its lock.
MayLock_Always == TRUE
MayLock == ~StateRowLocked

lock_state_row(e) ==
    /\ evaluation[e].at = "measured" /\ MayLock
    /\ Goes(e, [at |-> "locked", sample |-> evaluation[e].sample, tripped |-> switch])
    /\ UNCHANGED <<trading_mode, equity, measurable, switch, peak, checker, reset,
                   trips_since_reset, resets>>

\* Mutant: a reading below the peak is not judged.
evaluate_mode_drawdown_NewPeakOnly(e) ==
    /\ evaluation[e].at = "locked" /\ Goes(e, Off)
    /\ peak' = Max2(peak_equity_since, evaluation[e].sample)
    /\ UNCHANGED <<trading_mode, equity, measurable, switch, checker, reset, trips_since_reset,
                   resets>>

\* Mutant: the last reading is kept as the peak, one that could not be taken included.
evaluate_mode_drawdown_LastReading(e) ==
    /\ evaluation[e].at = "locked" /\ Goes(e, Off) /\ peak' = evaluation[e].sample
    /\ UNCHANGED <<trading_mode, equity, measurable, switch, checker, reset, trips_since_reset,
                   resets>>

\* A reading that could not be taken is stored and judged as nothing.  Otherwise it may
\* raise the peak, and trips a switch that is not tripped, with an audit row.
evaluate_mode_drawdown(e) ==
    LET sample == evaluation[e].sample
        high == Max2(peak_equity_since, sample)
        trips == ~evaluation[e].tripped /\ evaluate_drawdown(sample, high)
    IN  /\ evaluation[e].at = "locked" /\ Goes(e, Off)
        /\ peak' = high
        /\ switch' = (switch \/ (sample # Unknown /\ trips))
        /\ trips_since_reset' = trips_since_reset + (IF sample # Unknown /\ trips THEN 1 ELSE 0)
        /\ UNCHANGED <<trading_mode, equity, measurable, checker, reset, resets>>
-----------------------------------------------------------------------------
(* Operators.                                                              *)

check_drawdown_read ==
    /\ checker = Off /\ checker' = [at |-> "read", tripped |-> switch]
    /\ UNCHANGED <<trading_mode, equity, measurable, switch, peak, evaluation, reset,
                   trips_since_reset, resets>>

\* The figures of the request decide; the commit waits for the row.
check_drawdown(breach) ==
    /\ checker.at = "read" /\ ~StateRowLocked /\ checker' = Off
    /\ switch' = (switch \/ (breach /\ ~checker.tripped))
    /\ UNCHANGED <<trading_mode, equity, measurable, peak, evaluation, reset,
                   trips_since_reset, resets>>

reset_read(r) ==
    /\ reset[r] = Off /\ switch /\ resets < MaxSwitchResets
    /\ reset' = [reset EXCEPT ![r] = [at |-> "read"]]
    /\ UNCHANGED <<trading_mode, equity, measurable, switch, peak, evaluation, checker,
                   trips_since_reset, resets>>

\* Clears the switch and starts a new peak; the audit row is a commit of its own.
reset_kill_switch(r) ==
    /\ reset[r].at = "read" /\ ~StateRowLocked
    /\ reset' = [reset EXCEPT ![r] = [at |-> "audit"]]
    /\ switch' = FALSE /\ peak' = 0 /\ trips_since_reset' = 0 /\ resets' = resets + 1
    /\ UNCHANGED <<trading_mode, equity, measurable, evaluation, checker>>

reset_audited(r) ==
    /\ reset[r].at = "audit" /\ reset' = [reset EXCEPT ![r] = Off]
    /\ UNCHANGED <<trading_mode, equity, measurable, switch, peak, evaluation, checker,
                   trips_since_reset, resets>>

EvaluatorStep(e) == run_equity_reading_job(e) \/ lock_state_row(e) \/ evaluate_mode_drawdown(e)

KillSwitchNext ==
    \/ \E n \in Level : EquityMoves(n)
    \/ PriceGap
    \/ \E e \in Evaluator : EvaluatorStep(e)
    \/ check_drawdown_read \/ \E breach \in BOOLEAN : check_drawdown(breach)
    \/ \E r \in Resetter : reset_read(r) \/ reset_kill_switch(r) \/ reset_audited(r)
-----------------------------------------------------------------------------
KillSwitchTypeOK ==
    /\ equity \in Level /\ measurable \in BOOLEAN /\ switch \in BOOLEAN /\ peak \in Level
    /\ trips_since_reset \in 0 .. Cardinality(Evaluator) /\ resets \in Nat

(* "The scheduler and an operator's evaluate now cannot both read an untripped switch *)
(* and both trip it": between two moments at which the switch is cleared, at most one *)
(* evaluation trips it and says so in the audit log, with checks and resets of other  *)
(* operators in between (evaluate_mode_drawdown's row lock).                          *)
OneTripPerReset == trips_since_reset <= 1

(* A drawdown that lasts trips the switch: while the book can be priced and is worth  *)
(* less than the limit allows of the highest reading since the last reset, the next   *)
(* readings trip it, unless the equity recovers or somebody clears the peak.          *)
Breach == measurable /\ evaluate_drawdown(equity, Max2(peak, equity))
DrawdownTrips == Breach ~> (switch \/ ~Breach)
=============================================================================
