----------------------------- MODULE Backtests -----------------------------
(***************************************************************************)
(* Backtests of one strategy version on one symbol                         *)
(* (backend/src/engine/backtest/, engine/optimization/,                    *)
(* orchestration/backtests.py, api/routes/backtests.py).                   *)
(*                                                                         *)
(* Prices are small integers, a bar its open and its close.  Slippage is a *)
(* share of the bar's range and each leg costs a percentage of its         *)
(* turnover; the ratios of the metrics are left out, what they are taken   *)
(* of is kept.                                                             *)
(***************************************************************************)
EXTENDS Integers, Sequences, FiniteSets

CONSTANTS
    Bars,           \* bars in the window
    Price,          \* prices a bar opens or closes at
    Capital,        \* initial_capital
    SlipPct, BuyPct, SellPct,   \* of a bar's range; of a leg's turnover
    Window          \* lengths of the moving average

ASSUME BacktestsAssumption ==
    /\ Bars \in Nat \ {0} /\ Price \subseteq Nat \ {0} /\ Capital \in Nat
    /\ {SlipPct, BuyPct, SellPct} \subseteq 0 .. 100 /\ Window \subseteq Nat \ {0}

VARIABLES
    prices,         \* the bars of the window
    backtest_run,   \* the stored run
    sweep           \* the stored optimisation

backtestVars == <<prices, backtest_run, sweep>>

Unset == [status |-> "none"]
Bar == [open : Price, close : Price]
Series == [1 .. Bars -> Bar]
ALWAYS_LONG == 0     \* the strategy without a window

BacktestsInit ==
    prices \in Series /\ backtest_run = Unset /\ sweep = Unset
-----------------------------------------------------------------------------
\* Sum of f over the first n indices.
Total(f, n) == LET t[i \in 0 .. n] == IF i = 0 THEN 0 ELSE t[i - 1] + f[i] IN t[n]

\* 1 where the close is above the mean of the closes of the window, as far as there are any.
generate_builtin_signals(bars, window) ==
    [i \in DOMAIN bars |->
        LET first == IF i > window THEN i - window + 1 ELSE 1
            sum   == Total([j \in DOMAIN bars |-> IF j \in first .. i THEN bars[j].close ELSE 0], i)
        IN IF window = ALWAYS_LONG \/ bars[i].close * (i - first + 1) > sum THEN 1 ELSE 0]

\* Mutant: the position is taken on the bar its signal was computed from.
Shifted_SameBar(signals) == signals

\* A signal is acted on at the next bar.
Shifted(signals) == [i \in DOMAIN signals |-> IF i = 1 THEN 0 ELSE signals[i - 1]]

_compute_atr(bar) == IF bar.open > bar.close THEN bar.open - bar.close ELSE bar.close - bar.open
compute_slippage_per_share(bar) == (_compute_atr(bar) * SlipPct) \div 100
compute_leg_costs(turnover, is_buy) == (turnover * (IF is_buy THEN BuyPct ELSE SellPct)) \div 100

\* Bought at the open of the entry bar with all the capital there is; sold at the open of the
\* exit bar, or at the close of the last one.
RoundTrip(bars, entry, exit, capital) ==
    LET n          == Len(bars)
        bought_at  == bars[entry].open + compute_slippage_per_share(bars[entry])
        raw_exit   == IF exit < n THEN bars[exit].open ELSE bars[exit].close
        slipped    == raw_exit - compute_slippage_per_share(bars[exit])
        sold_at    == IF slipped > 0 THEN slipped ELSE 0
        quantity   == IF capital > 0 THEN capital \div bought_at ELSE 0
        costs      == compute_leg_costs(quantity * bought_at, TRUE)
                        + compute_leg_costs(quantity * sold_at, FALSE)
    IN [entry |-> entry, exit |-> exit, bought_at |-> bought_at, sold_at |-> sold_at,
        quantity |-> quantity, costs |-> costs,
        net_pnl |-> quantity * (sold_at - bought_at) - costs]

\* Where a position of pos begins and where it ends; one open on the last bar, n, ends there.
Entry(pos, i) == pos[i] = 1 /\ (i = 1 \/ pos[i - 1] = 0)
Exit(pos, n, i) == i = n \/ pos[i] = 0

\* The bar on which a position begun on bar i ends.
exit_idx(pos, n, i) ==
    CHOOSE x \in i .. n : Exit(pos, n, x) /\ \A y \in i .. x - 1 : ~Exit(pos, n, y)

\* The trades with the one that bar i begins, if it does, sized by the capital there is.
WithTrade(bars, pos, before, i) ==
    LET trade == RoundTrip(bars, i, exit_idx(pos, Len(bars), i), before.capital)
    IN IF Entry(pos, i) /\ trade.quantity > 0
       THEN [capital |-> before.capital + trade.net_pnl, trades |-> Append(before.trades, trade)]
       ELSE before

\* Trades in order, each sized by the capital the ones before it left.
_build_trades(bars, signals) ==
    LET done[i \in 0 .. Len(bars)] ==
            IF i = 0 THEN [capital |-> Capital, trades |-> <<>>]
                     ELSE WithTrade(bars, Shifted(signals), done[i - 1], i)
    IN done[Len(bars)].trades

\* Cash, and the shares held from the entry bar to the exit bar, both included.
_build_equity_curve(bars, trades) ==
    [i \in DOMAIN bars |->
        Capital + Total([k \in DOMAIN trades |->
            LET t == trades[k]
            IN (IF t.entry <= i THEN -t.quantity * t.bought_at ELSE 0)
               + (IF t.exit <= i THEN t.quantity * t.sold_at - t.costs ELSE 0)
               + (IF i \in t.entry .. t.exit THEN t.quantity * bars[i].close ELSE 0)],
            Len(trades))]

\* What the metrics are taken of; the ratio of wins to losses is left undefined without losses.
_compute_metrics(equity, trades) ==
    LET pnl(sign) == Total([k \in DOMAIN trades |->
                        IF trades[k].net_pnl * sign > 0 THEN trades[k].net_pnl * sign ELSE 0],
                        Len(trades))
    IN [total_return  |-> equity[Len(equity)] - Capital,
        num_trades    |-> Len(trades),
        wins          |-> Cardinality({k \in DOMAIN trades : trades[k].net_pnl > 0}),
        profit_factor |-> IF pnl(-1) > 0 THEN <<pnl(1), pnl(-1)>> ELSE <<>>]

run_vectorized_backtest(bars, signals) ==
    LET trades == _build_trades(bars, signals)
        equity == _build_equity_curve(bars, trades)
    IN [trades |-> trades, metrics |-> _compute_metrics(equity, trades)]

\* Each window trains on its first bars and is judged on the bars after them alone.
run_walk_forward(bars, window, train, test, step) ==
    LET starts == {s \in 0 .. Len(bars) : s % step = 0 /\ s + train + test <= Len(bars)}
        Test(s) == SubSeq(bars, s + train + 1, s + train + test)
        Passed(s) == LET trades == _build_trades(Test(s), generate_builtin_signals(Test(s), window))
                     IN Total([k \in DOMAIN trades |-> trades[k].net_pnl], Len(trades)) > 0
    IN starts # {} /\ \A s \in starts : Passed(s)
-----------------------------------------------------------------------------
\* The trading day before the backtest's has to be among the bars there are.  A run that is
\* refused stores nothing to analyse.
run_backtest(window, data_source, fresh) ==
    /\ backtest_run = Unset
    /\ backtest_run' =
        IF fresh
        THEN [status |-> "completed", window |-> window, data_source |-> data_source,
              walk_forward |-> "none", monte_carlo |-> FALSE,
              result |-> run_vectorized_backtest(prices, generate_builtin_signals(prices, window))]
        ELSE [status |-> "refused_stale_data"]
    /\ UNCHANGED <<prices, sweep>>

\* The bars of the lake, of real sources only unless generated prices are allowed.
_lake_prices(synthetic_allowed) == IF synthetic_allowed THEN "mixed" ELSE "real"

run_backtest_endpoint(window) ==
    \E fresh \in BOOLEAN : run_backtest(window, "supplied", fresh)

\* Bars that were found there; too few of them, and the request is refused.
run_backtest_from_lake_endpoint(window) ==
    \E synthetic_allowed \in BOOLEAN, fresh \in BOOLEAN :
        run_backtest(window, _lake_prices(synthetic_allowed), fresh)

\* Only a completed run is analysed further.
_get_completed_run == backtest_run.status = "completed"

run_walk_forward_for_run(window, train, test) ==
    /\ _get_completed_run
    /\ backtest_run' = [backtest_run EXCEPT !.walk_forward =
            IF run_walk_forward(prices, window, train, test, test) THEN "passed" ELSE "failed"]
    /\ UNCHANGED <<prices, sweep>>

\* With the window the run was made with, or another.
walk_forward_endpoint ==
    \E w \in Window, train \in 1 .. Bars, test \in 1 .. Bars : run_walk_forward_for_run(w, train, test)

\* Paths are drawn from the trades of the run; without a trade there is nothing to draw from.
run_monte_carlo(result) == result.trades # <<>>

run_monte_carlo_for_run ==
    /\ _get_completed_run /\ ~backtest_run.monte_carlo
    /\ backtest_run' = [backtest_run EXCEPT !.monte_carlo = run_monte_carlo(backtest_run.result)]
    /\ UNCHANGED <<prices, sweep>>

\* The best of the windows tried.
run_hyperparameter_sweep(trials) ==
    LET Value(w) == run_vectorized_backtest(prices, generate_builtin_signals(prices, w))
                        .metrics.total_return
    IN {best \in trials : \A w \in trials : Value(w) <= Value(best)}

run_optimization_sweep(trials) ==
    /\ sweep = Unset
    /\ \E best \in run_hyperparameter_sweep(trials) : sweep' = [status |-> "stored", best |-> best]
    /\ UNCHANGED <<prices, backtest_run>>

\* The windows tried lie between the bounds that were posted.
optimize_endpoint == \E trials \in SUBSET Window : run_optimization_sweep(trials)

BacktestsNext ==
    \/ \E w \in Window \cup {ALWAYS_LONG} :
          \/ run_backtest_endpoint(w) \/ run_backtest_from_lake_endpoint(w)
    \/ walk_forward_endpoint \/ run_monte_carlo_for_run \/ optimize_endpoint
-----------------------------------------------------------------------------
BacktestsTypeOK ==
    /\ prices \in Series
    /\ backtest_run.status \in {"none", "completed", "refused_stale_data"}
    /\ sweep.status \in {"none", "stored"}

(* No decision is taken on a price that was not known yet: whatever the bars from k on had *)
(* been, the trades finished before bar k would be the same ones, those begun before it    *)
(* would have been begun at the same bar, price and size, and the position to take on bar  *)
(* k would be the same (run_vectorized_backtest: "to avoid lookahead bias").               *)
NoLookahead ==
    backtest_run.status = "completed" =>
        LET Signals(bars) == generate_builtin_signals(bars, backtest_run.window)
            Before(ts, k) == {ts[i] : i \in {j \in DOMAIN ts : ts[j].exit < k}}
            Begun(ts, k) == {<<ts[i].entry, ts[i].bought_at, ts[i].quantity>> :
                                i \in {j \in DOMAIN ts : ts[j].entry < k}}
            trades == backtest_run.result.trades
        IN \A k \in 2 .. Bars : \A future \in [k .. Bars -> Bar] :
             LET bars  == [i \in 1 .. Bars |-> IF i < k THEN prices[i] ELSE future[i]]
                 other == _build_trades(bars, Signals(bars))
             IN /\ Before(other, k) = Before(trades, k) /\ Begun(other, k) = Begun(trades, k)
                /\ Shifted(Signals(bars))[k] = Shifted(Signals(prices))[k]

(* Over a whole backtest the equity moves by exactly what its trades earned                *)
(* (_build_equity_curve: "the two together net out to exactly trade.net_pnl over the       *)
(* position's lifetime").                                                                  *)
EquityNetsOut ==
    backtest_run.status = "completed" =>
        backtest_run.result.metrics.total_return
            = Total([k \in DOMAIN backtest_run.result.trades |-> backtest_run.result.trades[k].net_pnl],
                    Len(backtest_run.result.trades))
=============================================================================
