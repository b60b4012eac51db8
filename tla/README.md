# TradingOS: specifications, model checking and proofs

TLA+ specifications of TradingOS: the engine that runs an organisation's plans,
the path of a real order from a decision to a confirmed position, the paper
desk, the controls that bound both, and the platform they stand on. Every
definition is translated from the Python code under `src/backend/src`;
`PROJECT.json` gives, for each one, the lines it stands for.

- [System inventory](#system-inventory)
- [Modules](#modules): what models what
- [Runs](#runs): what TLC checks, bounds, conditions, fairness
- [Disagreements](#disagreements-between-the-code-and-what-is-said-of-it)
- [Proofs](#proofs)
- [Limits](#what-is-only-model-checked-and-what-is-not-modelled)
- [Plan](#plan)

## System inventory

One FastAPI process (plus a Next.js console that only displays) over Postgres,
Redis, a vector store and a few files. All concurrency is asyncio: HTTP
handlers, scheduler jobs and driver coroutines interleave at every `await`, each
with database sessions of its own at READ COMMITTED. A crash loses every
coroutine and keeps what was committed. There are few row locks (the kill
switch's evaluation, the refresh of a token, the audit chain's and the events'
advisory locks, the gateway's process lock), so almost every handler is a read,
a judgement, and a later write.

| Component | State | Operations | Interacts with | Hard behaviour | What makes it correct |
|---|---|---|---|---|---|
| Task engine | run status and failure class; task status; dependency flags; artefacts | claim, start, finish, fail, resolve, cascade, drive, pause, continue, cancel, retry, reap | planner starts it, the boot resumes it, the operator steers it | two drivers on one run; results after a cancel; crash between commits; flags read before another commit | nothing runs before what it depends on or twice; ended stays ended; the recorded outcome is true; the run ends |
| Planner | plan attempts; proposed graph; task and dependency rows | propose, validate, materialise, give up | flips the run to RUNNING | cancel while planning; graphs a model proposes | exactly the acyclic, safely ordered plans are accepted |
| Live trading | switches and limits; intents; orders and trades; position | tick (gates, submit), sweep, reconcile, daily signal, enrol, autonomy, tighten, switch off | kill switch, risk gate, broker through the breaker | ticks of scheduler and endpoint overlap; lost replies; crash after `place_order`; a position read early; a rate window widened over past orders; orders no book lists | the position is the confirmed fills; caps hold; an order within reach is settled |
| Kill switch, drawdown monitor | tripped, peak, readings per mode | evaluate, check posted figures, reset | gates live and paper orders | check and reset read without the evaluation's lock | a lasting drawdown trips; one trip per reset |
| Risk limits | change requests; limits in force | stage, confirm, apply, reject | kill switch reads the drawdown limit | requests overlap without locks | two people behind every limit in force |
| Risk gate, compliance | position, capital, circuit band | size, judge, fill, edit the capital | every order | capital edited between the judgement and the fill; gaps | a stop-loss exit gets out |
| Circuit breaker | state, counter, opening time | call | wraps every broker call | overlapping calls, late results | no call during a cooldown; a failed trial reopens |
| Broker adapters, instruments | adapter in use; instrument caches | build, look up, download | stored credentials, the exchange | overlapping downloads, failing downloads | adapter of today's credentials; names from a list not out of date |
| Strategy lifecycle | status, versions, suggestions, approval requests | generate, validate, suggest, request, decide, promote | go-live gate; enrolment | decisions and transitions overlap | nothing moves on without its own approval |
| Go-live evidence | dry runs, paper fills, backtests per day | dry run, fill, derive, judge | lifecycle's second gate | failures mixed with successes on a day | eligible means proven |
| Backtests, optimisation | price series, signals, trades, curve | run, sweep, walk forward | go-live evidence | shift by a bar, trades at the end of the series | no look-ahead; equity is what trades earned |
| Paper trading | subscription, position, fills, stream cursor | signal, tick, stop-loss, roll, close, switch off, edit | feed, risk gate, kill switch | four actors write absolute quantities | position is its fills; one entry at most; off as announced |
| Paper options | legs, structures, margin | enter, exit, roll, expiry sweep, close all | as above | legs are filled one commit at a time, partly | a sold leg is hedged; loss is bounded |
| Price history | bars per symbol, pinned source, file | fetch, purge, repair gaps, fall back | brokers | fetches overlap; a write cut short | one source per symbol |
| Tick feed | source in use, rejections, back-off | publish, suspend, refresh | credentials | credentials replaced during a request | a rejection can clear |
| Reviews, investor reports | reviews, reports | review, report, run again | fills | fills land between two queries | a report adds up |
| Audit chain | hash-linked rows, archive file | append, verify, export, archive, compare | every component appends | concurrent appends; a sweep that dies; a restore | chain unbroken; archive a copy of its head; divergence found exactly |
| Accounts; sessions; broker connections | users, refresh tokens, signing key, credential record | register, change role, sign in, refresh, revoke, rotate, connect | every request | two administrators at once; replay; a sign-out between two commits; two callbacks | an administrator remains; an ended session stays ended; a token goes with its key |
| Gateway configuration | file, running configuration, versions | edit, reload, roll back, command line | agents, channels | the watcher and the command line beside the lock | one edit per version |
| Inbound messages | replay keys, rate counters | verify, guard, limit, route | starts runs | redelivery, early and late | one run per message |
| Alerts, notifications | episodes, channel file | watch, confirm, announce, resolve | timers, webhook | a message before the commit that remembers it | no end without a beginning; the operator learns |
| Agent pipeline | events, cancel flag, heartbeat | walk, cancel, sweep | LLM router, sandbox | a sweep judging a run that finishes | one ending, and always one |
| LLM router, prompts, memory, chat, feeds, sandbox | provider order; versions; vectors; turns; events; workers | complete, stream, activate, remember, recall, send, abort, poll, run code | agents | failing or reconfigured half-way; late answers | one voice; one prompt in use, with its difference; what was stored stays within reach; aborted was asked; nothing missed; the answer is one's own |
| Backups; job schedules | dumps and manifests; overrides | dump, prune, restore; change, run, restore | timers | interrupted between two files; a restart between two halves | a complete backup remains; the saved schedule survives |
| Portfolio advisor; handoffs, decisions, guidance; API, schemas, observability | rows and declarations | | | none that another part depends on | not modelled, see [below](#what-is-only-model-checked-and-what-is-not-modelled) |

`PROJECT.json` lists every component with its sources and status and, under
`hazards`, what can go wrong in each at the line where it bites, with the
properties that would catch it.

## Modules

**Grain of an action.** An action is one committed transaction, or one read
whose result is acted on later: the stretch between two awaits at which
somebody else can get in. A conditional `UPDATE ... WHERE status = s` is one
action that leaves the row alone when the status differs. What a coroutine has
read and not yet acted on is a variable (`exec`, `tick`, `desk`, `trader`,
`account_req`, `change_request`, `callback`, `kite_ask`, ...), because acting on
what was read earlier is what goes wrong in this code. A request that is refused
changes nothing and is not a step. Actions and variables carry the names of the
functions, columns and files they stand for.

| Module | Models | Its state and steps |
|---|---|---|
| `TaskEngine` | `task_engine`, `dependencies`, `run_control`, `transitions`, `recovery`, `planner.create_plan` | one run: rows of the run, its tasks, flags and artefacts; coroutines `exec`, `driver`, retries; crash and boot |
| `RunContract` | what a run promises its operator | the abstract specification of `TaskEngine` |
| `PlanGraph` | `planner`'s validation and `_materialize_tasks` | a proposed graph, the coloured search one visit at a time, ancestors, rows written |
| `LiveTrading` | `live_trading`, `live_intent_expiry`, `live_trading_scheduler`, `live_subscription_*` | one subscription: its limits, `tick[g]` at its gates, intents, orders, position; the brokers and their order books |
| `KillSwitch` | `kill_switch`, `drawdown_monitor`, `equity`, `engine/risk/kill_switch` | one mode: readings under the row lock, checks and resets without it |
| `RiskLimits` | `risk_limits` | requests as a read (`read_change`) and a write that does not look again |
| `RiskGate` | `engine/risk/compliance`, `risk_gate`, the callers in `paper_trading` | entries, exits and stops on small prices; a capital edit in flight |
| `Brokers` | `brokers/factory`, `zerodha`, `upstox`, `upstox_instruments` | stored keys and adapter; the exchange's lists over time; askers looking up batches of names; the circuit breaker (`engine/risk/circuit_breaker`), where `call_begin` is the code before the await, with three ways out after it, on an integer clock |
| `StrategyLifecycle` | `strategies`, `approvals`, `transitions`, `strategy_suggestions` | status, versions, approvals; flows in flight; the evidence of the go-live gate (`go_live_gate`, `go_live_evidence`, `shadow_mode`): days, dry runs that work or fail, fills by what they rest on |
| `Backtests` | `engine/backtest`, `engine/optimization`, `backtests` | signals, trades, costs and curve as recursive functions of a price series |
| `PaperDesk` | `paper_trading`, `paper_futures`, `paper_subscription_controls` | position, fills, cursor; drain, tick, operator and roll as actors |
| `PaperOptions` | `paper_options`, `close_all_positions` | two legs, three traders, partial fills |
| `OptionRisk` | `option_strategies`, `margin`, `options_grounding`, previews | choice of legs, fill, held risk, compared with the payoff at expiry |
| `DataLake` | `data/lake`, `broker_provider`, `bhavcopy`, `market_data` | the daily bars of a symbol by source; overlapping fetches |
| `TickFeed` | `brokers/tick_source`, `feed_health`, `tick_feed` | source in use, suspensions, rejections, credentials |
| `Reports` | `post_trade_review`, `investor_reporting` and their schedulers | both as sequences of queries over fills that keep coming |
| `AuditLog` | `audit/*`, `audit_middleware`, `audit_scheduler` | log, archive, writers under the lock, the sweep's lines; a hash is what it was computed over |
| `Accounts`, `Sessions`, `Connections` | `routes/auth`, `admin`, `system`, `login_lockout`, `security`, `secrets_store`, `broker_oauth` | rows, and each request that reads before it commits |
| `Gateway`, `Inbound`, `Alerts` | `gateway/*`; `webhooks`, `replay_guard`, `inbound_router`; `engine_alerts`, `alertmanager_webhook`, `dispatch` | file, versions and watcher; deliveries against keys that expire; episodes and what was told |
| `AgentPipeline`, `LlmRouter`, `PromptVersions`, `Memory`, `LiveFeeds` (with the chat), `Sandbox` | `agents/*`, `pipeline_events`, `prompt_versions`, `memory/*`, `chat`, `events`, `websockets`, `engine/sandbox/*` | the walk, its log, sweep and heartbeat; calls, answers, writers, tabs, viewers and workers in flight |
| `Backups`, `JobSchedules` | `data/pg_backup`, `backup_scheduler`; `job_schedule*`, `scheduler_registry` | files by step of a dump; live trigger, saved override, boots |

**Composition.** `TaskEngine` runs what `PlanGraph` accepts: its
`PlanAssumption` (every non-empty set of tasks has one that depends on none of
them) is the negation of `CircularWait`, which `PlanVerdict` excludes. It
implements `RunContract` under the mapping `phase <- Phase`, `done <- Done`,
`dead <- GivenUp`. `LiveTrading` includes the gate of the kill switch and the
external broker. Runs, subscriptions, symbols, brokers and users share no rows
with others of their kind in the code that is modelled, so one of each is
enough wherever a module says so.

**MC modules.** `MCTaskEngine` and `MCLiveTrading` instantiate one module each.
The others put several independent components into one model: they share no
state, so the variable `component` says which one a behaviour explores, the
others stay in one fixed initial state, and the state spaces add up. `Components`
is the set a run explores.

- `MCStrategy`: lifecycle, golive, lake, backtests, limits, reports.
- `MCDesk`: feed, desk, options, option_risk, gate, breaker, kite, upstox,
  adapters.
- `MCPlatform`: accounts, sessions, audit, connections, inbound, gateway,
  backups, jobs, prompts, llm, memory, chat, feeds, sandbox, pipeline, planner.
- `MCWatch`: alerts, switch, pipeline, outages (the pipeline with faults), under `WatchSpec` with fairness guarded by
  `watching`, its own variable of this kind, with values in `Watching`.

### Notes on single modules

*TaskEngine.* `resolve_read` and `resolve_commit` are apart because the
transaction sees its own flushed flags and only what others have *committed*:
that gap is where a wake can be lost. `Cascade(t)` is the least set closed under
the frontier loop's rule. `Dispatchable` keeps the order of a batch. `Crash`
resets every coroutine; the boot is `reap_incomplete_runs` followed by one
driver.

*LiveTrading.* `generate_live_order_intent` and `_submit_intent_to_broker` are
one coroutine whose positions are the gates in the code's order. Prices are not
modelled: whatever a price decides is a free choice. An intent's `delta` is its
signed effect on the position. `limits` holds the cap and the length of the rate
window, by ranks of length: a window is a suffix of the intents, and `windowFrom`
keeps where each length begins, because a window that is widened (a longer one is
*stricter*, `live_subscription_limits.LIMITS`) counts again what the shorter one
had passed. A pass of the reconciliation takes the trades sent through the broker
that is configured (`Reconcilable`) and leaves one as it is when its order has no
id or no row in the order book (`Outcome`; `unmatched` holds such orders, whether
the reply gave no id or the book dropped them).

*Memory, LiveFeeds.* `search`, `query` and `recall` are the *sets* of answers that
may be given: at most the limit of what is stored, nothing if all of it is below
the floor, whichever the vectors prefer. A feed opens with the newest
`BackfillRows` rows (30 in `websockets.py`); what is older a viewer is never shown.

*PromptVersions.* The read of the active version takes no lock, so two activations
may both commit. `replaced` and `prompt_raced` are history: what a version really
took the place of, and whether two activations have overlapped.

*PaperDesk, PaperOptions.* `_persist_fill` writes an absolute quantity computed
from a row read before the awaits; the history variable `crossed` (`mixed`)
records that another actor's fill landed in between. `cut_short` records that an
operator's close went on past a sold leg that was only partly bought back.

*AuditLog.* A hash is injective: it is the entry it was computed over, with the
previous hash. `restores` rewinds the log behind an archive that lies outside
the database.

*PlanGraph.* The repeated name of a dependency is caught by no check; the
unique constraint on dependency rows catches it when they are written, which is
the state `failed`.

*AgentPipeline* is explored three times, each with a step limit of its own for
the code's 200 (`graph.py:625`). In `MCPlatform` with a limit of 13 and no faults
(`EndedOnce`): a whole round to deployment is 12 steps. In `MCWatch` as `pipeline`,
with a limit of 19, no faults, and the backtest agent on or off (`RunEnds`): the code
is written again after a failed parse, a rejected strategy is replaced and the
second rejection sends the run back to its beginning, so a walk completes, ends by
giving up on the code, or is ended by the limit in its second round. In `MCWatch`
as `outages`, with faults of Redis and of the store and a walk that is over at its
second step (`RunEnds`): what is at stake there is a lost ending, not the walk.

*MCLiveTrading.* `live_safety` does not combine what is of no consequence to one
another: once ticks have overlapped the kill switch does not trip (`SwitchBound`; a
tick that fails or decides nothing ends in the same way), and the limits change only
where ticks have not overlapped, the switch is not tripped, the broker stays
configured and no order leaves the book (`LimitsBound`). Both are action constraints
of that run; the proofs have neither.

## Runs

`tlc -config <cfg> <module>`; all are listed in `PROJECT.json`.

| Run | Instance | Shows |
|---|---|---|
| `engine_safety` | join plan `c` after `a`, `b`, one edge typed, every task may fail either way; 2 drivers, 1 retry request at a time; 2 plan attempts, 2 pauses, 2 retries, 2 crashes | inductive invariant, dependency order, cancel leaves nothing, ended tasks stay, the contract; for a run never paused, truthful outcomes and no orphaned task |
| `engine_live` | plan `a`, then `b`, then `c` after both; 2 drivers, 2 overlapping retry requests, 2 pauses, no crash | the run ends, dependents wake, permanent failures reach them |
| `live_safety` | 2 ticks that overlap, or take turns while the cap goes from 2 to 1 and the window to its second length; 2 intents, orders without an id, 1 broker that comes and goes, lost replies, crashes | the position is exactly the confirmed fills; submitted means traded; until ticks overlap, at most one unconfirmed order, and the rate cap whatever is tightened and when |
| `live_live` | 1 tick at a time, 2 intents, limit 1, the same orders and broker, lost replies, crashes | trades within reach settle, intents resolve |
| `strategy_safety` | 2 overlapping flows; 2 brokers, 2 fetches, 2 days of history; all price series of 4 bars over 2 prices; 3 days of evidence; 3 persons, 2 limit changes, 2 requests; 2 strategies, 2 days, 2 fills reported | `SignedOff`, `DualControl`, `OneSourcePerSymbol`, `EvidenceIsReal` |
| `desk_safety` | 2 brokers; 4 desk actors, 1 restart; 2 legs, 3 traders; all small chains, books and orders; 3 breaker callers; 2 askers, 3 instrument lists | `BrokersAskedRightly`, `BookIsHonest`, `RiskIsBounded`, `CoolingKeepsOut` |
| `platform_safety` | two of everything that overlaps, three of what is numbered (tokens, entries, versions, backups, prompts, turns, rows); a recall of one text, a backfill of one row; all plans of 3 tasks with up to 2 dependencies | `AccessHolds`, `AuditTrail`, `OnceOnly`, `WhatIsKeptStays`, `AgentsAreHeld`, `PromptsInUse` |
| `watch_live` | 2 evaluators, 2 resetters, 3 levels of equity; 2 webhook requests, 2 episodes, 1 restart; 1 pipeline run and 1 sweep: the walk with the backtest agent on or off, 2 attempts at code, 2 rejections and 19 steps, and 1 fault of Redis and 1 of the store in a walk of two steps | `OneTripPerReset`, `DrawdownTrips`, `ClearedAfterOpened`, `OperatorLearns`, `RunEnds` |

Every run also checks one type invariant, except `engine_safety`, where it is a
part of `IInv`, and `engine_live` and `live_live`, whose models are typed in the
runs beside them.

The components of a combined model are checked together, so their properties
are grouped by what they say to a reader; a component's own part is defined and
explained in its module, next to an altered form of one of its operators
(`MayConfirm_Self`, `no_cycle_FirstOnly`, ...) that breaks it. The altered forms
named in `PROJECT.json` are used by nothing else.

| Group | Parts |
|---|---|
| `EvidenceIsReal` | `NoLookahead` (`Backtests`), `EligibleMeansProven` (`StrategyLifecycle`), `ReportAddsUp` (`Reports`) |
| `BrokersAskedRightly` | `RejectionCanClear` (`TickFeed`), `AdapterIsCurrent`, `NamesAreRecent`, `RefreshIsPaced` (`Brokers`) |
| `BookIsHonest` | `PositionIsItsFills`, `OneEntryAtMost`, `OffIsAsAnnounced` (`PaperDesk`) |
| `RiskIsBounded` | `HedgedUnlessCut` (`PaperOptions`), `LossIsBounded` (`OptionRisk`), `StopGetsOut` (`RiskGate`) |
| `AccessHolds` | `SomeAdministrator` (`Accounts`), `SessionEndIsFinal` (`Sessions`), `TokenOfItsKey` (`Connections`) |
| `AuditTrail` | `ChainUnbroken`, `ArchiveIsPrefix`, `DivergenceIsExact` (`AuditLog`) |
| `OnceOnly` | `OneRunPerMessage` (`Inbound`), `OneEditPerVersion` (`Gateway`), `EndedOnce` (`AgentPipeline`) |
| `WhatIsKeptStays` | `BackupsCanBeTrusted` (`Backups`), `ScheduleSurvives` (`JobSchedules`), `RememberedStays` (`Memory`), `AbortedWasAsked`, `NothingMissed` (`LiveFeeds`) |
| `AgentsAreHeld` | `OneVoice` (`LlmRouter`), `AnswerIsOwn` (`Sandbox`), `PlanVerdict` (`PlanGraph`) |

**Bounds.** Three tasks are the least in which two results race for a third, in
which a cascade is transitive and in which a cycle is reachable only from a
later task. Two drivers are what a pause and a continue produce; two crashes let
recovery itself be interrupted. The plan of `engine_live` has a join and a chain
but no two tasks that can finish together, and only its last task fails
transiently: the two cases left out are disagreements, below. Two intents are
enough for every pairwise race of orders and reach the rate cap, of two or lowered
to one, and pass it again once the window has slid; with two lengths of window, an
intent the short window has passed is counted again by the long one. A recall of
one text leaves one of two out, and a backfill of one row leaves out two of three. In the combined models two
overlapping requests are every pairwise race of read and write; three tokens are
a family with a replayed member; three log entries and one restore let an entry
take a lost one's number; three backups over three days with one fault let
pruning meet a broken newest one; three breaker callers are a trial and a late
result beside the call that opened it; three instrument lists with lifetimes of
two let two overlapping downloads write in the wrong order. Prices, premiums,
equity and percentages are the smallest whole numbers at which every comparison
of the code goes both ways. The proofs remove the bounds where they reach.

**Conditions.** Some properties hold only while calls do not overlap; nothing in
the code enforces that, and the conditions are in the properties or the
instances, and named assumptions of the theorems:

- `OneUnconfirmed`, `RateCap`: no two ticks of the subscription have overlapped
  (`overlapped`). `RateCap` speaks of the limits a tick read: a window widened
  afterwards may hold more, until it has slid.
- `TradesSettle`: the order stays within reach of the reconciliation
  (`BeyondReach`: no id, gone from the book, or sent through a broker that is not
  configured). The code leaves the others pending on purpose, and they block
  decisions for ever.
- `PromptsInUse`: its second part, as long as no two activations have overlapped
  (`prompt_raced`).
- `RememberedStays`: within reach means that some recall returns the text; which
  texts are near is the embedding model's affair.
- `CompletedMeansAllSucceeded`, `NoOrphans`: the run was never paused; the
  theorem of the first also assumes `OneRetrier`.
- `ContractSpec`, `CancelStopsWork`: one retry request at a time (`OneRetrier`).
- `TrialFailureReopens`: one caller (`OneCaller`).
- `PositionIsItsFills`, `OffIsAsAnnounced`: no fill landed on a row another actor
  had already read (`crossed`); `HedgedUnlessCut`: likewise (`mixed`), and no
  operator's close ran past a sold leg (`cut_short`).
- `SomeAdministrator`: no two changes of administrators were open at once;
  `SessionEndIsFinal`: no refresh of the family was between its two commits
  (`raced`); `OneSourcePerSymbol`: no two brokers were fetched from at once
  (each module's `overlapped`).
- `ScheduleSurvives`: no two changes overlapped and none failed half-way
  (`undisturbed`); `ReportAddsUp`: no fill came into the report (`fills`, what
  there was at the end, is `seen`), and for its second part every day's review
  is up to date (`up_to_date`).
- `EndedOnce`: Redis and the database were available.

**Fairness.** Weak fairness on every coroutine that is under way: asyncio
schedules a ready coroutine, every capability is bounded by `asyncio.wait_for`
and every broker request by its client's timeout, and a crashed process is
restarted by the container. The scheduler's loops make the sweep and the
reconciliation of live orders weakly fair. `SF(reconcile_settle)` says the order
book cannot be unreachable on every pass, and `WF(broker_ends)` that the exchange
ends an order; both are about the broker. In `MCWatch` the watcher comes every
minute and time passes (`engine_alert_watcher`'s interval job), the scheduled
evaluation comes again and every evaluation that has begun goes on
(`risk_monitor_scheduler`), a live process goes on with its run, Redis keys
expire, the sweep of abandoned runs comes again, and an outage of Redis ends.
Nothing is assumed of an operator: pausing, continuing, retrying, cancelling,
checking and resetting are never fair.

**Deadlock.** Checked where the system never stops (`live_*`). A run that has
finished, a change that is applied, a clock, a day or a number at its bound may
really stop, so the others say `CHECK_DEADLOCK FALSE`; that a run does not stop
early is `RunLeavesRunning` and `RunEnds`.

## Disagreements between the code and what is said of it

Four are runs that TLC violates, with the sentence quoted in `PROJECT.json`.

| Run | The code | The text it contradicts |
|---|---|---|
| `engine_lost_wake` | two tasks that finish together each miss the other's uncommitted flag; their dependent waits for ever | dependents "wake on completion" |
| `live_stack` | one tick buys on a position read before a fill was committed | "no second decision is made on it" |
| `options_naked` | closing all legs goes on past a sold leg only partly bought back, and sells its hedge | "never naked, whatever the books allow" |
| `backtest_equity` | on the day of an exit the curve holds the shares and their proceeds | the two "net out to exactly trade.net_pnl" |

The others are stated in their modules, each above the definition that quotes
the text. TLC violates each when it is added to the run named here, with the
exception noted.

| Statement | Add to | The code | The text |
|---|---|---|---|
| `RunLeavesRunning` (`TaskEngine`) | `engine_live`, every task `TransientProne` | a transient failure leaves dependents PENDING and the driver spinning | the driver "records the final outcome" that a retry needs |
| `ExpiredNeverSent` (`LiveTrading`) | `live_safety` | an order in flight is swept to EXPIRED | expired means never submitted |
| `FailedNeverSent` (`LiveTrading`) | `live_safety` | a lost reply is recorded as FAILED | "was not sent" |
| `RejectedNeverApplied` (`RiskLimits`) | `strategy_safety` | a late reject overwrites APPLIED | an applied change cannot be rejected |
| `GateAnswers` (`StrategyLifecycle`) | `strategy_safety` | two grants of one transition make its check raise | it "never raises for that case" |
| `RollsFlat` (`PaperDesk`) | `desk_safety` | an entry filled after the roll found the position flat is carried into the next contract | "never switched to a new contract while still holding the old one" |
| `NeverBlended` (`DataLake`) | `strategy_safety` | two fetches for a new symbol choose different brokers | "never blended with another" |
| `OnlyFinalBars` (`DataLake`) | `strategy_safety` | a fetch begun during the session stores its partial bar after the close | "no signal may be computed from a partial day" |
| `NotifyNeverRaises` (`Alerts`) | `watch_live` | a channel file that cannot be read raises in the caller | "Never raises" |
| `DiffAgainstPrevious` (`PromptVersions`) | `platform_safety` | two overlapping activations both commit; two versions are in use, the second diffed against one it did not replace, and every later activation fails | the diff is against "whichever version was previously ACTIVE" |
| `RunsWithTheFile` (`Gateway`) | `platform_safety` | an edit that a hot reload has overtaken puts its older text in force last | "not a correctness issue" |
| `AcceptedMaterialises` (`PlanGraph`) | `platform_safety` | a valid graph with a repeated dependency fails when its rows are written | "the first structurally valid graph is accepted and materialized" |

**Further hazards**, outside the list of `PROJECT.json`, without a property: a
process that dies while a run is PLANNING leaves it there (`main.py:107`); a live
subscription can be switched off on a position an unconfirmed order is about to
change (`live_subscription_updates.py:81`), and autonomy switched on for one that
is off (`live_trading.py:280`); an order cancelled after a partial fill is
recorded as cancelled (`live_trading.py:803`; partial fills are abstracted away in
`LiveTrading`).

## Proofs

Checked by TLAPS, for every value of the constants that satisfies the named
assumptions: any number of requests, rows, writers, days, bars, workers and
restarts. Each component has an inductive invariant that was first checked by
TLC on the instance of its run (of the sandbox's, the part that is not typing),
a `...Start` lemma, a `...Step` lemma with one
step per action, and the theorem that follows from them.

| Module | Extends | Theorems state |
|---|---|---|
| `Lemmas` | the library's theorems | facts about tables, greatest and least numbers, induction over the naturals (`SetInduction`) and the subsets of a finite set (`SubsetInduction`), recursive functions (`Recursion`), sums over finite sets in any order (`SumAdd`, `SumUnion`, `SumByGroup`), and products (`WorthGrows`) |
| `TaskEngineProofs` | `TaskEngine` | every safety property of `engine_safety`, and the refinement of `RunContract` |
| `LiveTradingProofs` | `LiveTrading` | every safety property of `live_safety` |
| `StrategyProofs` | `MCStrategy` | every safety property of `strategy_safety`: `StrategyTypeOK`, `SignedOff`, `DualControl`, `OneSourcePerSymbol`, `EvidenceIsReal` |
| `PlatformProofs` | `MCPlatform`, `MCWatch` | every safety property of `platform_safety` and `watch_live` |
| `DeskProofs` | `MCDesk` | every safety property of `desk_safety` (`PaperTypeOK`, `BookIsHonest`, `RiskIsBounded`, `BrokersAskedRightly`, `CoolingKeepsOut`), and `TrialFailureReopens` |

The combined models are proved as they are run: `PlatformSteps`, `WatchSteps`,
`PaperSteps` and the corresponding step of `StrategyProofs` show that a step of the whole is
a step of one component and a stutter of the others, and then the components'
invariants are put together.

**`TaskEngineProofs`**, from `PlanAssumption` and `BoundAssumption`. The
properties are not inductive alone: that a waking task's dependencies have
succeeded is known only through the flags. `IInv` says why the flags can be
trusted: a flag is never ahead of the success and artefact it stands for
(`SatisfiedSound`), a started task has all its flags (`StartedSatisfied`), what
a resolving coroutine is about to wake is complete once its own flags commit
(`WakeSound`), and a coroutine's position agrees with its row or the row was
cancelled (`ExecSound`). `DependencyOrder`, `ReadyMeansFree`,
`UnsatisfiableHasCause`, `ArtefactsOfSuccess` and `EndedTasksStay` follow.
`SoloInv` adds that a run that was never paused has one driver at work and that
what is in flight is executed: `NoOrphans`. Further assuming `OneRetrier`,
`ControlInv` says that what a retry read still holds when it acts, that a driver
about to record a permanent failure has one to show, and that a cancel has left
the run CANCELLED; it gives `CancelStopsWork` and, step by step, the refinement
`Spec => ContractSpec`. `OutcomeInv` then says that a verdict is still true when
it is recorded, hence `CompletedMeansAllSucceeded`. Acyclicity of the plan is
not needed for any of these.

**`LiveTradingProofs`**, from `LiveAssumption`. `IInv` says a submitting tick
owns an intent nobody else submits, generated or swept; `SubmittedHasTrade`
follows for any number of overlapping ticks. `QuantityInv` adds types and
`PositionBacked`. The position is compared with a sum over a set of intents,
`Quantity`, a recursive function; `QuantityAddsUp` shows by `Recursion` and
`SetInduction` what it computes, `QuantitySplits` that one more filled intent
adds its own delta, and `SettleBacked` that a settlement adds exactly one. As
long as no two ticks have overlapped the one that acts is alone (`AloneStep`):
`LoneSound` adds that what it has checked still holds when it acts, and `WindowsNest` that a longer window starts no later, so that a cap kept in
the window a tick read is kept in the enrolled one. That bounds unconfirmed orders
and what a window holds, though the limits change under a tick on its way.

**`StrategyProofs`**. `SignedOff`: an approved request was granted by a person
and a decision taken again leaves it granted (`ApprovedWasGranted`), and only
the two gated transitions reach the two last statuses. `DualControl`, from
`NobodyAssumption`: `staged_by` never changes after staging and each
confirmation in flight is by another person (`RiskLimitsIInv`).
`OneSourcePerSymbol`: unless fetches from two brokers
have overlapped, all that are under way are of one source, and so are the real
bars there are (`FetchesAgree`).
`EvidenceIsReal` has three parts. `EligibleMeansProven`: the walk back over the
days counts no more days than the streak has (`WalkCounts`, by induction over
the days), so a count that reaches the minimum means that many clean days.
`NoLookahead`: two series of prices that agree before bar k give the same
positions up to it (`SameSignals`), and their backtests have in common what was
finished and begun before it, and the capital unless a position is open that is
held until then (`InCommon`; `BarInCommon` for a bar before k, `LaterBar` for one
after it, by induction over the bars). `ReportAddsUp`: what a review has found,
with what it has yet to look at, is the profit of the fills it began with
(`ReviewOf`); a report under way is right as long as it has seen every fill
(`ReportOf`); and a sum over fills is the sum over their strategies and over
their days (`ByStrategy`, `ByDay`, both from `SumByGroup`). The community
modules' `SumFunctionOnSet` chooses the order it adds in; `SumWithout` shows that
the order does not matter.

**`PlatformProofs`**, one section per component:

| Component | Why the property holds: what the invariant adds |
|---|---|
| Sessions | a refresh in flight of an ended family was in flight when it was ended (`InFlightWasRaced`); a family is one account's (`TokensIssued`) |
| Accounts | unless two changes overlapped there is one at most, and an administrator beside the one it is about (`SpareAdministrator`) |
| Connections | a callback holds a whole record it read, with a key |
| Audit | rows are numbered, so equal numbers place them; one writer has flushed a row and it follows the last (`OneWriter`); what a sweep selected goes on where the archive ends (`SweepFollows`) |
| Inbound | a replay key outlives every run by its time to live, and Slack's signature is too old by then (`KeyOutlivesRuns`) |
| Gateway | a version edited from is no longer in use once the edit commits, and never again (`EditsMoveOn`) |
| Prompts | as long as no two activations overlap, what one has read is still the version in use (`ReadIsFresh`); a commit supersedes what it read if that is still in use, so it leaves no other version beside it that it was rightly compared with (`ActivationLeaves`) |
| Backups | a running dump owns its files (`JobOwnsFiles`), both files are of the same data (`DumpsMatch`), and pruning keeps the newest (`SomeComplete`) |
| Schedules | an undisturbed change is alone, and the job runs on what it is about to save (`ChangeFollowsJob`) |
| Chat | while the flag is up every streaming reply was asked to stop (`FlagWasAsked`) |
| Feeds | one transaction is open at a time and takes the next number (`LogIsWhole`); a viewer was shown all it has passed from its backfill on (`ViewersFollow`) |
| Memory | a call about to write has found or made a collection of its size (`WritersFit`) |
| LLM router | what a call has heard is of the provider it is at (`CallHolds`) |
| Sandbox | a worker serves one call (`OwnWorker`), and what lies at it is nothing, that call's request or its answer (`WorkersServe`) |
| Planner | the grey tasks are a path of dependencies (`GrayIsPath`), and every non-empty set of black tasks has one that depends on none of them (`BlackIsDone`); a back edge is then a circular wait and a search without one excludes it. The ancestor sets are the closure the safety order needs. |
| Alerts | an episode, in the row or on its way there, was told (`WatchedWasTold`, `RuleWasTold`); one request inserts it (`OneInsert`) |
| Kill switch | one evaluation holds the row lock and what it read is still so (`LockHeld`); an untripped switch has no trip since it was cleared (`TripShows`) |
| Agent pipeline | without faults, a run that is over has its ending, and a sweep writes at a number that is taken once there is one (`OneEnding`, `SweepComesLate`) |

**`DeskProofs`**, one section per part:

| Part | Why the property holds: what the invariant adds |
|---|---|
| Tick feed | the fingerprint of the source in use names no credentials later than the stored ones (`SourceIsPast`) |
| Paper desk | as long as no fill landed on a row another actor had read, what each has read is still so (`ReadsHold`); an order closes what was read or enters from flat (`OrdersClose`), never short for shares (`NeverShort`); a subscription that is off has no order under way (`OffIsQuiet`) |
| Paper options | with one actor at a time (`OneAtATime`) the step it is at says what the legs are: an entry sells against what it has bought, and a close has the legs as it read them until the sold one is gone (`JobFits`) |
| Option risk | a plan is nothing, one bought leg or a pair (`PlanFits`); what the books fill of it keeps that shape with no more sold than bought (`HeldFits`). One strike is picked for the hedge, by cardinality over all strikes (`OneBelow`, `OneAbove`); the loss of a pair is then bounded by the difference of its strikes at every settlement price (`HeldIsBounded`) |
| Risk gate | what is held passed the position limit at the tick it was bought at (`HeldPassed`), an exit is for all of it (`OrderFits`), and products of quantity and price are monotone (`WorthGrows`) |
| Circuit breaker | `BreakerIInv`, for any number of callers; with `OneCaller`, `TrialFailureReopens` |
| Adapters, lists | a cached list was current when its download began (`ListsAreDated`); one caller is past the lock (`LockIsHeldOnce`) and the pause after a failed download is not cut short (`PauseHolds`); the adapter is the one its fingerprint names (`AdapterMatches`) |

Two assumptions were found by these proofs and are the code's own constants: the
pause after a failed refresh is no longer than an index is valid
(`BrokersAssumption`; ten minutes and six hours in
`upstox_instruments.py:45-47`), and there is a first set of credentials (`TickFeedAssumption`).

Definitions are written so that the provers can reason about them: rows
of a table are selected by the set of their places (`Within`, `Of` in `Reports`),
what a bar adds to a backtest is `WithTrade` (`Backtests`), rows in order of their
sequence are `order_by_sequence` (`AuditLog`), a visited task's dependencies are
`AddDependencies` and `Seen` (`PlanGraph`), a sum is `Quantity`
(`LiveTrading`). The proofs need that `Evaluator`, `Generator` and `TaskKey`
are finite, which they are.

## What is only model-checked, and what is not modelled

- Liveness (`engine_live`, `live_live`, `watch_live`): outside TLAPS.
- The statements listed as disagreements.
- Left out within components: `run_stall_sweep_once`, which marks a long-running
  task for the console; emitted events and alerts where nothing reads them back
  to decide; average entry prices and cash; partial fills of live orders (the
  adapters report none); request and response formats of the brokers; ratios
  that need roots, Monte Carlo draws, option pricing and similarity scores, which
  are numerics; encryption and password hashing; token counts; who may call
  which endpoint; applying a gateway configuration agent by agent; digests; the
  naked-options scan of the compliance check.
- Not modelled: the portfolio advisor (scores and a recommendation a person
  accepts or declines); handoffs, decisions and guidance (rows written once and
  read back as prompt text); schemas, database models and observability
  (declarations, and metrics nobody reads to decide); the console.

## Plan

Modelled in this order: the engine and its contract, live trading, limits and
breaker; then the kill switch, strategies and evidence, the paper desk, the audit
chain and sessions, the gateway and its neighbours, the agents, the planner and
the broker adapters; then the proofs. Every safety property a passing run checks
is now a theorem, and liveness stays with TLC. What is left is to model: the rest
of what is marked `partly` (applying a gateway configuration agent by agent, the
stall sweep, the remaining endpoints of paper and live trading), each with its
proof.
