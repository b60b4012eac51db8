------------------------------- MODULE Reports -------------------------------
(***************************************************************************)
(* What the desk tells about its trades: the daily post-trade review and   *)
(* the investor report that quotes it                                      *)
(* (backend/src/orchestration/post_trade_review.py,                        *)
(* post_trade_review_scheduler.py, investor_reporting.py,                  *)
(* investor_report_period.py, investor_reporting_scheduler.py,             *)
(* models/data_source.py).                                                 *)
(*                                                                         *)
(* Both are built from several queries, each of which sees what is         *)
(* committed when it runs: a fill or a review may land between two of      *)
(* them.  The scheduler never runs one job twice at a time, an operator    *)
(* may have it run now, and the process may die in the middle.  Times of   *)
(* day and the words of a commentary are left out.                         *)
(***************************************************************************)
EXTENDS Integers, FiniteSets, Sequences, SequencesExt

CONSTANTS
    Reviewed,        \* the strategies that trade
    FillKind,        \* the profit and the data source a fill may have
    MaxReportDays,   \* days looked at (bound)
    MaxReportFills,  \* paper fills and live trades (bound)
    MAX_PERIOD_DAYS  \* days of the longest period one report may cover

ASSUME ReportsAssumption ==
    /\ MaxReportDays \in Nat \ {0} /\ MaxReportFills \in Nat
    /\ MAX_PERIOD_DAYS \in Nat \ {0}
    /\ FillKind \subseteq Int \X {"real", "synthetic", "supplied", "mixed", "unknown"}

VARIABLES
    calendar,       \* today
    paper_fills,    \* the paper_fills table, oldest first
    live_trades,    \* the filled live trades
    live_pnl,       \* realised profit of the live positions, to date
    review,         \* the review under way
    findings,       \* the trade_review_findings table: for each day, the rows about it
    report,         \* the newest investor report, being written or stored
    up_to_date      \* observer: the days whose stored review saw all their fills, the same
                    \* ones from its first query to its commit

reportVars == <<calendar, paper_fills, live_trades, live_pnl, review, findings, report,
                up_to_date>>

NoReview == [at |-> "idle"]
NoReport == [at |-> "idle"]

ReportsInit ==
    /\ calendar = 1 /\ paper_fills = <<>> /\ live_trades = <<>> /\ live_pnl = 0
    /\ review = NoReview /\ findings = [d \in 1 .. MaxReportDays |-> <<>>]
    /\ report = NoReport /\ up_to_date = {}

-----------------------------------------------------------------------------
(* Rows and sums.                                                          *)

\* Rows are selected by their places: those of a span of days, those of a strategy.
Within(rows, a, b)      == {i \in DOMAIN rows : a <= rows[i].day /\ rows[i].day <= b}
Of(rows, keep, s)       == {i \in keep : rows[i].strategy = s}
Pnl(rows)               == [i \in DOMAIN rows |-> rows[i].pnl]
SumPnl(rows, keep)      == SumFunctionOnSet(Pnl(rows), keep)
Wins(rows, keep)        == Cardinality({i \in keep : rows[i].pnl > 0})
Losses(rows, keep)      == Cardinality({i \in keep : rows[i].pnl < 0})
DataSources(rows, keep) == {rows[i].source : i \in keep}
Traders(rows, keep)     == {rows[i].strategy : i \in keep}

(* The day's rows: from midnight in India to the next.                     *)
_day_bounds_ist(rows, day) == Within(rows, day, day)

combine(sources) ==
    IF sources = {} \/ "unknown" \in sources THEN "unknown"
    ELSE IF Cardinality(sources) = 1 THEN CHOOSE s \in sources : TRUE
    ELSE "mixed"

-----------------------------------------------------------------------------
(* The market: external.                                                   *)

PaperFills ==
    /\ Len(paper_fills) + Len(live_trades) < MaxReportFills
    /\ \E s \in Reviewed, k \in FillKind :
          paper_fills' = Append(paper_fills, [strategy |-> s, day |-> calendar,
                                              pnl |-> k[1], source |-> k[2]])
    /\ up_to_date' = up_to_date \ {calendar}
    /\ UNCHANGED <<calendar, live_trades, live_pnl, review, findings, report>>

LiveTradeFills ==
    /\ Len(paper_fills) + Len(live_trades) < MaxReportFills
    /\ \E s \in Reviewed :
          live_trades' = Append(live_trades,
                                [strategy |-> s, day |-> calendar, source |-> "real"])
    /\ live_pnl' = live_pnl + 1
    /\ UNCHANGED <<calendar, paper_fills, review, findings, report,
                   up_to_date>>

NextCalendarDay ==
    /\ calendar < MaxReportDays /\ calendar' = calendar + 1
    /\ UNCHANGED <<paper_fills, live_trades, live_pnl, review, findings, report,
                   up_to_date>>

-----------------------------------------------------------------------------
(* The review of a day.                                                    *)

Reviewing(rev) ==
    /\ review' = rev
    /\ UNCHANGED <<calendar, paper_fills, live_trades, live_pnl, findings, report,
                   up_to_date>>

(* The rows already stored for the day are marked for deletion and the     *)
(* fills are counted and summed for each strategy that has some.           *)
run_post_trade_review ==
    LET day      == _day_bounds_ist(paper_fills, calendar)
        Count(s) == [trades |-> Cardinality(Of(paper_fills, day, s)),
                     pnl |-> SumPnl(paper_fills, Of(paper_fills, day, s))]
    IN /\ review.at = "idle"
       /\ Reviewing([at |-> "paper", as_of |-> calendar, fills |-> day, found |-> <<>>,
                     replaced |-> Len(findings[calendar]),
                     todo |-> [s \in Traders(paper_fills, day) |-> Count(s)]])

(* One strategy's closing fills and sources, read again: what landed since *)
(* the count is among them.                                                *)
_review_paper_trades(s) ==
    LET rows == Of(paper_fills, _day_bounds_ist(paper_fills, review.as_of), s) IN
    /\ review.at = "paper" /\ s \in DOMAIN review.todo
    /\ Reviewing([review EXCEPT
          !.todo = Restrict(@, DOMAIN @ \ {s}),
          !.found = Append(@, [strategy |-> s, review_date |-> review.as_of,
                               mode |-> "paper", trades |-> review.todo[s].trades,
                               winning |-> Wins(paper_fills, rows), losing |-> Losses(paper_fills, rows),
                               pnl |-> review.todo[s].pnl,
                               source |-> combine(DataSources(paper_fills, rows))])])

_review_live_trades ==
    LET day    == _day_bounds_ist(live_trades, review.as_of)
        Row(s) == [strategy |-> s, review_date |-> review.as_of, mode |-> "live",
                   trades |-> Cardinality(Of(live_trades, day, s)),
                   winning |-> 0, losing |-> 0, pnl |-> live_pnl,
                   source |-> combine(DataSources(live_trades, Of(live_trades, day, s)))]
    IN /\ review.at = "paper" /\ DOMAIN review.todo = {}
       /\ Reviewing([review EXCEPT
             !.at = "live",
             !.found = @ \o SetToSeq({Row(s) : s \in Traders(live_trades, day)})])

(* Mutant: the day's earlier findings are left in place.                   *)
StoredFindings_Again(rev) == findings[rev.as_of] \o rev.found

(* One transaction: the day's old findings, the ones first read, go and    *)
(* the new ones come.                                                      *)
StoredFindings(rev) ==
    SubSeq(findings[rev.as_of], rev.replaced + 1, Len(findings[rev.as_of])) \o rev.found

post_trade_review_commit ==
    /\ review.at = "live" /\ review' = NoReview
    /\ findings' = [findings EXCEPT ![review.as_of] = StoredFindings(review)]
    /\ up_to_date' = IF _day_bounds_ist(paper_fills, review.as_of) = review.fills
                     THEN up_to_date \cup {review.as_of} ELSE up_to_date \ {review.as_of}
    /\ UNCHANGED <<calendar, paper_fills, live_trades, live_pnl, report>>

-----------------------------------------------------------------------------
(* The investor report.                                                    *)

Writing(rep) ==
    /\ report' = rep
    /\ UNCHANGED <<calendar, paper_fills, live_trades, live_pnl, review, findings,
                   up_to_date>>

\* The fields of more, over those there are.
With(rep, more) == [x \in DOMAIN rep \cup DOMAIN more |-> IF x \in DOMAIN more THEN more[x] ELSE rep[x]]

_period_bounds_ist(from, to) == Within(paper_fills, from, to)

check_report_period(from, to) ==
    from <= to /\ to <= calendar /\ to - from + 1 <= MAX_PERIOD_DAYS

(* The operator's period, or the job's: the days up to yesterday.          *)
_prior_week == <<calendar - MAX_PERIOD_DAYS, calendar - 1>>

Periods == {p \in (1 .. MaxReportDays) \X (1 .. MaxReportDays) :
                check_report_period(p[1], p[2])}

(* The first query: the period's profit.                                   *)
generate_investor_report ==
    /\ report.at \in {"idle", "stored"}
    /\ \E p \in Periods \cup {_prior_week} :
          Writing([at |-> "total", from |-> p[1], to |-> p[2], seen |-> Len(paper_fills),
                   total |-> SumPnl(paper_fills, _period_bounds_ist(p[1], p[2]))])

(* Then the closing fills, the strategies, the live trades ...             *)
report_closing_fills ==
    LET rows == _period_bounds_ist(report.from, report.to) IN
    /\ report.at = "total"
    /\ Writing(With(report, [at |-> "closing", winning |-> Wins(paper_fills, rows),
                             losing |-> Losses(paper_fills, rows)]))

report_strategies ==
    LET rows == _period_bounds_ist(report.from, report.to) IN
    /\ report.at = "closing"
    /\ Writing(With(report, [at |-> "strategies",
                             by_strategy |-> [s \in Traders(paper_fills, rows) |->
                                                SumPnl(paper_fills, Of(paper_fills, rows, s))]]))

report_live_trades ==
    /\ report.at = "strategies"
    /\ Writing(With(report, [at |-> "live", live |-> Cardinality(Within(live_trades, report.from, report.to)),
                             live_pnl |-> live_pnl]))

(* ... and what the reviews of those days say; the row is stored at once.  *)
report_commit ==
    LET days == (1 .. MaxReportDays) \cap (report.from .. report.to)
    IN  /\ report.at = "live"
        /\ report' = With(report,
              [at |-> "stored", quoted |-> [d \in days |-> findings[d]],
               \* observers: the fills by now, and the days without an up-to-date review
               fills |-> Len(paper_fills), unreviewed |-> days \ up_to_date])
        /\ UNCHANGED <<calendar, paper_fills, live_trades, live_pnl, review, findings,
                       up_to_date>>

(* The process dies: an unfinished review or report leaves nothing.        *)
ReportsProcessDies ==
    /\ review' = NoReview
    /\ report' = IF report.at = "stored" THEN report ELSE NoReport
    /\ <<review', report'>> # <<review, report>>
    /\ UNCHANGED <<calendar, paper_fills, live_trades, live_pnl, findings,
                   up_to_date>>

ReportsNext ==
    \/ PaperFills \/ LiveTradeFills \/ NextCalendarDay
    \/ run_post_trade_review \/ _review_live_trades \/ post_trade_review_commit
    \/ review.at = "paper" /\ \E s \in DOMAIN review.todo : _review_paper_trades(s)
    \/ generate_investor_report \/ report_closing_fills \/ report_strategies
    \/ report_live_trades \/ report_commit \/ ReportsProcessDies

-----------------------------------------------------------------------------
(* Properties.                                                             *)

ReportsTypeOK ==
    /\ calendar \in 1 .. MaxReportDays /\ live_pnl \in Int
    /\ \A i \in DOMAIN paper_fills : paper_fills[i].day <= calendar
    /\ review.at \in {"idle", "paper", "live"}
    /\ \A d \in 1 .. MaxReportDays : \A i \in DOMAIN findings[d] :
          findings[d][i].review_date = d /\ d <= calendar
    /\ up_to_date \subseteq 1 .. MaxReportDays
    /\ report.at \in {"idle", "total", "closing", "strategies", "live", "stored"}

PaperPnl(rows) == SumPnl(rows, {i \in DOMAIN rows : rows[i].mode = "paper"})

(* A report that no fill came into says one thing throughout: its profit   *)
(* is the sum over its strategies; and when the review of every day of the *)
(* period is up to date, it is also the sum of the findings quoted under   *)
(* it, so that no day, no strategy and no finding is counted twice or left *)
(* out, however often a day was reviewed again.                            *)
ReportAddsUp ==
    report.at = "stored" /\ report.fills = report.seen =>
        /\ report.total = SumFunction(report.by_strategy)
        /\ report.unreviewed = {} =>
              report.total = SumFunction([d \in DOMAIN report.quoted |-> PaperPnl(report.quoted[d])])

=============================================================================
