---------------------------- MODULE LiveTrading ----------------------------
(***************************************************************************)
(* One live subscription (a strategy on a symbol) of                       *)
(* backend/src/orchestration/live_trading.py: the ticks that decide and    *)
(* send real orders, the expiry sweep, the reconciliation job, and the     *)
(* operator's switches.                                                    *)
(*                                                                         *)
(* Every await at which another coroutine, or a crash, can get in is the   *)
(* end of an action.  Prices are not modelled: whether a stop-loss         *)
(* triggers, an order is over the notional cap, a quote is refused or a    *)
(* compliance check fails is a free choice.  An intent's quantity is its   *)
(* signed effect on the position.  Nothing in the code moves a strategy    *)
(* out of the live-eligible statuses, so that check always passes and is   *)
(* left out.                                                               *)
(***************************************************************************)
EXTENDS Integers, FiniteSets

CONSTANTS
    Generator,     \* calls of generate_live_order_intent that may overlap:
                   \* the scheduler's job, and generate_intent_endpoint
    Lot,           \* the shares an entry buys
    EnrolledMax,   \* max_intents_per_window at enrolment
    Widest,        \* rate_limit_window_minutes, by length: 1 at enrolment, then longer
    Broker,        \* brokers whose credentials may be stored
    LostReplies,   \* can place_order raise after the broker took the order?
    MaxIntents     \* bound on the intents ever created

ASSUME LiveAssumption ==
    /\ Lot \in Nat \ {0} /\ EnrolledMax \in Nat \ {0} /\ Widest \in Nat \ {0}
    /\ "none" \notin Broker
    /\ LostReplies \in BOOLEAN
    /\ MaxIntents \in Nat \ {0}
    /\ IsFiniteSet(Generator)

Intent == 1 .. MaxIntents
Window == 1 .. Widest

\* The limits that bear on how many orders are sent.
Enrolled == [cap |-> EnrolledMax, window |-> 1]
Limits   == [cap : 1 .. EnrolledMax, window : Window]

VARIABLES
    active, autonomous,  \* the subscription's is_active, autonomous_trading_enabled
    limits,              \* its max_intents_per_window and rate_limit_window_minutes
    signal,              \* its last_signal_type
    tripped,             \* the live kill switch
    position,            \* live_positions.quantity
    created,             \* intents are 1 .. created, in generated_at order
    windowFrom,          \* by length of window: the first intent inside it
    status, delta,       \* live_order_intents.status and signed quantity
    trade,               \* trades.status of the intent's order, "none" without one
    broker,              \* the order at the broker, "none" when it never arrived
    routed,              \* orders.broker_name
    unmatched,           \* orders no order book lists: sent, and no id came back, or
                         \* dropped from the broker's book since
    tick,                \* a call of generate_live_order_intent: where it stands, the
                         \* limits it read, the intent it created
    choice,              \* the signed quantity it decided on
    overlapped,          \* history: two ticks have been under way at once
    configured,          \* the broker build_configured_adapter finds, "none" without one
    batch                \* the pending trades reconcile_pending_trades has read

subVars    == <<active, autonomous, limits, signal>>
intentVars == <<created, windowFrom, status, delta>>
orderVars  == <<trade, broker, routed, unmatched>>
tickVars   == <<tick, choice, overlapped>>
vars == <<subVars, tripped, position, intentVars, orderVars, tickVars, configured, batch>>

Idle == [pc |-> "idle", limits |-> Enrolled, mine |-> 0]

\* enroll_in_live_trading: never autonomous from the start.
Init ==
    /\ active = TRUE /\ autonomous = FALSE
    /\ limits = Enrolled /\ signal = "none" /\ tripped = FALSE
    /\ position = 0
    /\ created = 0 /\ windowFrom = [w \in Window |-> 1]
    /\ status = [i \in Intent |-> "absent"] /\ delta = [i \in Intent |-> 0]
    /\ trade = [i \in Intent |-> "none"] /\ broker = [i \in Intent |-> "none"]
    /\ routed = [i \in Intent |-> "none"] /\ unmatched = {}
    /\ tick = [g \in Generator |-> Idle] /\ choice = [g \in Generator |-> 0]
    /\ overlapped = FALSE
    /\ configured \in Broker \cup {"none"} /\ batch = {}

-----------------------------------------------------------------------------
(* generate_live_order_intent, gate by gate.                                 *)

Goto(g, pc) == /\ tick' = [tick EXCEPT ![g].pc = pc]
               /\ UNCHANGED choice

Return(g) == /\ tick' = [tick EXCEPT ![g] = Idle]
             /\ choice' = [choice EXCEPT ![g] = 0]

TickUnchanged ==
    UNCHANGED <<subVars, tripped, position, orderVars, overlapped, configured, batch>>

UnderWay == {g \in Generator : tick[g].pc # "idle"}

\* The subscription row is read once: its switches decide now, its limits later.
read_subscription(g) ==
    /\ tick[g].pc = "idle" /\ active /\ autonomous
    /\ tick' = [tick EXCEPT ![g] = [pc |-> "kill_switch", limits |-> limits, mine |-> 0]]
    /\ overlapped' = IF UnderWay = {} THEN overlapped ELSE TRUE
    /\ UNCHANGED <<subVars, tripped, position, intentVars, orderVars, choice, configured, batch>>

assert_not_tripped(g) ==
    /\ tick[g].pc = "kill_switch"
    /\ IF tripped THEN Return(g) ELSE Goto(g, "decide")
    /\ TickUnchanged /\ UNCHANGED intentVars

\* What the tick may decide on the position it reads: close it all when the
\* stop-loss triggers or the signal says SELL, buy a lot when flat on BUY.
Decisions == IF position # 0
             THEN {-position} \cup (IF position > 0 /\ signal = "SELL" THEN {} ELSE {0})
             ELSE IF signal = "BUY" THEN {Lot} ELSE {0}

decide(g) ==
    /\ tick[g].pc = "decide"
    /\ \E q \in Decisions :
          IF q = 0 THEN Return(g)
          ELSE /\ tick' = [tick EXCEPT ![g].pc = "caps"]
               /\ choice' = [choice EXCEPT ![g] = q]
    /\ TickUnchanged /\ UNCHANGED intentVars

\* _count_recent_real_attempts in a window of length w: capped intents do not count.
REAL_ATTEMPT_STATUSES == {"generated", "submitted", "failed", "expired"}

Recent(w) == {i \in windowFrom[w] .. created : status[i] \in REAL_ATTEMPT_STATUSES}

NewIntent(g, s) ==
    /\ created < MaxIntents
    /\ created' = created + 1
    /\ status' = [status EXCEPT ![created + 1] = s]
    /\ delta' = [delta EXCEPT ![created + 1] = choice[g]]
    /\ UNCHANGED windowFrom

OverRateCap_EnrolledWindow(g) == Cardinality(Recent(1)) >= tick[g].limits.cap

OverRateCap(g) == Cardinality(Recent(tick[g].limits.window)) >= tick[g].limits.cap

\* Over the rate cap, or over the notional cap: the intent is recorded and the
\* tick is over.
cap_intent(g) ==
    /\ tick[g].pc = "caps"
    /\ NewIntent(g, "capped")
    /\ Return(g)
    /\ TickUnchanged

within_caps(g) ==
    /\ tick[g].pc = "caps" /\ ~OverRateCap(g)
    /\ Goto(g, "unconfirmed")
    /\ TickUnchanged /\ UNCHANGED intentVars

HasUnconfirmedOrder_OpenOnly ==
    \E i \in Intent : trade[i] = "pending_confirmation" /\ broker[i] = "open"

\* _has_unconfirmed_order.
HasUnconfirmedOrder == \E i \in Intent : trade[i] = "pending_confirmation"

has_unconfirmed_order(g) ==
    /\ tick[g].pc = "unconfirmed"
    /\ IF HasUnconfirmedOrder THEN Return(g) ELSE Goto(g, "create")
    /\ TickUnchanged /\ UNCHANGED intentVars

\* The intent is committed; when no broker was configured as the job began, the tick
\* ends here.
create_intent(g) ==
    /\ tick[g].pc = "create"
    /\ NewIntent(g, "generated")
    /\ \/ /\ tick' = [tick EXCEPT ![g].pc = "quote", ![g].mine = created + 1]
          /\ UNCHANGED choice
       \/ Return(g)
    /\ TickUnchanged

-----------------------------------------------------------------------------
(* _submit_intent_to_broker.                                                 *)

\* The symbol is quoted again; no quote, a stale one, or no circuit band to
\* judge it by fails the intent.
get_quote(g) ==
    /\ tick[g].pc = "quote"
    /\ Goto(g, "gate") \/ Goto(g, "fail")
    /\ TickUnchanged /\ UNCHANGED intentVars

\* risk_gate.create_order_intent: the kill switch again, then compliance.
create_order_intent(g) ==
    /\ tick[g].pc = "gate"
    /\ \/ ~tripped /\ Goto(g, "place")
       \/ Goto(g, "fail")
    /\ TickUnchanged /\ UNCHANGED intentVars

\* The broker takes the order, refuses it (or the circuit breaker does), or
\* takes it and the reply is lost.
place_order(g) ==
    /\ tick[g].pc = "place"
    /\ \/ /\ broker' = [broker EXCEPT ![tick[g].mine] = "open"]
          /\ Goto(g, "record") \/ (LostReplies /\ Goto(g, "fail"))
       \/ UNCHANGED broker /\ Goto(g, "fail")
    /\ UNCHANGED <<subVars, tripped, position, intentVars, trade, routed, unmatched,
                   overlapped, configured, batch>>

\* Order, Trade and the intent's status in one commit.  The status is written
\* whatever it has become.  The broker is that of the adapter the job began with, which
\* need not be configured any more, and the reply may have given no order id.
record_order(g) ==
    /\ tick[g].pc = "record"
    /\ trade' = [trade EXCEPT ![tick[g].mine] = "pending_confirmation"]
    /\ \E b \in Broker : routed' = [routed EXCEPT ![tick[g].mine] = b]
    /\ unmatched' \in {unmatched, unmatched \cup {tick[g].mine}}
    /\ status' = [status EXCEPT ![tick[g].mine] = "submitted"]
    /\ Return(g)
    /\ UNCHANGED <<subVars, tripped, position, created, windowFrom, delta, broker,
                   overlapped, configured, batch>>

\* _fail_intent, likewise.
fail_intent(g) ==
    /\ tick[g].pc = "fail"
    /\ status' = [status EXCEPT ![tick[g].mine] = "failed"]
    /\ Return(g)
    /\ TickUnchanged /\ UNCHANGED <<created, windowFrom, delta>>

generate_live_order_intent(g) ==
    \/ read_subscription(g) \/ assert_not_tripped(g) \/ decide(g)
    \/ cap_intent(g) \/ within_caps(g) \/ has_unconfirmed_order(g) \/ create_intent(g)
    \/ get_quote(g) \/ create_order_intent(g) \/ place_order(g)
    \/ record_order(g) \/ fail_intent(g)

-----------------------------------------------------------------------------
(* The other jobs, the broker, and time.                                     *)

SWEPT_STATUSES_Submitted == {"generated", "submitted"}
SWEPT_STATUSES_Legacy == {"pending_approval", "approved"}

SWEPT_STATUSES == {"generated"}

\* expire_stale_intents reaches intent i once its expires_at has passed.
expire_stale_intents(i) ==
    /\ status[i] \in SWEPT_STATUSES
    /\ status' = [status EXCEPT ![i] = "expired"]
    /\ UNCHANGED <<subVars, tripped, position, created, windowFrom, delta,
                   orderVars, tickVars, configured, batch>>

\* A window that ends now and is w long slides past an intent: the shorter ones have
\* passed it already.  A subscription whose window is widened counts again what its
\* shorter window had passed.
window_slides(w) ==
    /\ windowFrom[w] <= created
    /\ \A v \in Window : v < w => windowFrom[v] > windowFrom[w]
    /\ windowFrom' = [windowFrom EXCEPT ![w] = @ + 1]
    /\ UNCHANGED <<subVars, tripped, position, created, status, delta, orderVars,
                   tickVars, configured, batch>>

\* External: how an order ends at the broker.
broker_ends(i) ==
    /\ broker[i] = "open"
    /\ \E s \in {"complete", "rejected", "cancelled"} : broker' = [broker EXCEPT ![i] = s]
    /\ UNCHANGED <<subVars, tripped, position, intentVars, trade, routed, unmatched, tickVars,
                   configured, batch>>

\* External: the broker's order book is the day's, and drops what has ended.  Of an
\* order without a pending trade nobody asks.
book_drops(i) ==
    /\ trade[i] = "pending_confirmation" /\ broker[i] # "open" /\ i \notin unmatched
    /\ unmatched' = unmatched \cup {i}
    /\ UNCHANGED <<subVars, tripped, position, intentVars, trade, broker, routed, tickVars,
                   configured, batch>>

\* External: credentials are stored, replaced or removed in Settings.
configure_broker ==
    /\ configured' \in (Broker \cup {"none"}) \ {configured}
    /\ UNCHANGED <<subVars, tripped, position, intentVars, orderVars, tickVars, batch>>

Pending == {i \in Intent : trade[i] = "pending_confirmation"}

\* The pending trades a pass considers: those sent through the broker it has.
Reconcilable == {i \in Pending : routed[i] = configured}

\* reconcile_pending_trades reads them ...
reconcile_read ==
    /\ batch = {} /\ Reconcilable # {}
    /\ batch' = Reconcilable
    /\ UNCHANGED <<subVars, tripped, position, intentVars, orderVars, tickVars, configured>>

Normalize_RejectedStays(raw) ==
    CASE raw = "complete"  -> "filled"
      [] raw = "cancelled" -> "cancelled"
      [] OTHER -> "pending_confirmation"
Normalize_CancelledFills(raw) ==
    CASE raw \in {"complete", "cancelled"} -> "filled"
      [] raw = "rejected" -> "rejected"
      [] OTHER -> "pending_confirmation"

\* _normalize_broker_order_status; an order still open stays pending.
Normalize(raw) == CASE raw = "complete"  -> "filled"
                    [] raw = "rejected"  -> "rejected"
                    [] raw = "cancelled" -> "cancelled"
                    [] OTHER -> "pending_confirmation"

\* The signed quantity of the intents in S together, by the quantities d.
Quantity(d, S) ==
    LET total[n \in 0 .. MaxIntents] ==
            IF n = 0 THEN 0 ELSE total[n - 1] + (IF n \in S THEN d[n] ELSE 0)
    IN  total[MaxIntents]

\* What _apply_confirmed_fill adds up to over the newly filled trades.
Applied(S) == position + Quantity(delta, S)

\* Without an id, or a row of that id in the book, a trade is left as it is.
Outcome(i) == IF i \in unmatched THEN "pending_confirmation" ELSE Normalize(broker[i])

\* ... then fetches the order book and, in one commit, settles those of them
\* the book says have ended.
reconcile_settle ==
    /\ batch # {}
    /\ batch' = {}
    /\ trade' = [i \in Intent |-> IF i \in batch THEN Outcome(i) ELSE trade[i]]
    /\ position' = Applied({i \in batch : Outcome(i) = "filled"})
    /\ UNCHANGED <<subVars, tripped, intentVars, broker, routed, unmatched, tickVars,
                   configured>>

\* A failed fetch ends the pass with nothing done.
reconcile_fetch_failed ==
    /\ batch # {}
    /\ batch' = {}
    /\ UNCHANGED <<subVars, tripped, position, intentVars, orderVars, tickVars, configured>>

\* run_live_daily_signal_generation.
run_live_daily_signal_generation ==
    /\ active
    /\ signal' \in {"BUY", "SELL"}
    /\ UNCHANGED <<active, autonomous, limits, tripped, position, intentVars, orderVars,
                   tickVars, configured, batch>>

-----------------------------------------------------------------------------
(* The operator, the kill switch, and crashes.                               *)

OperatorUnchanged ==
    UNCHANGED <<signal, tripped, position, intentVars, orderVars, tickVars, configured, batch>>

\* set_autonomous_trading asks nothing of the subscription.
set_autonomous_trading ==
    /\ autonomous' = ~autonomous
    /\ UNCHANGED <<active, limits>> /\ OperatorUnchanged

Stricter_Zero ==
    {l \in [cap : 0 .. EnrolledMax, window : Window] :
        l.cap <= limits.cap /\ l.window >= limits.window /\ l # limits}

\* plan_limit_changes: a limit only ever moves one way.  Fewer orders are stricter,
\* and so is a longer window.
Stricter ==
    {l \in Limits : l.cap <= limits.cap /\ l.window >= limits.window /\ l # limits}

tighten_limits ==
    /\ active
    /\ limits' \in Stricter
    /\ UNCHANGED <<active, autonomous>> /\ OperatorUnchanged

\* plan_deactivation looks at the position, not at orders under way.
deactivate_subscription ==
    /\ active /\ position = 0
    /\ active' = FALSE /\ autonomous' = FALSE
    /\ UNCHANGED limits /\ OperatorUnchanged

\* kill_switch: the drawdown monitor trips it, a person resets it.
KillSwitchUnchanged ==
    UNCHANGED <<subVars, position, intentVars, orderVars, tickVars, configured, batch>>

evaluate_mode_drawdown == ~tripped /\ tripped' = TRUE /\ KillSwitchUnchanged
reset_kill_switch == tripped /\ tripped' = FALSE /\ KillSwitchUnchanged

Crash ==
    /\ tick' = [g \in Generator |-> Idle] /\ choice' = [g \in Generator |-> 0]
    /\ batch' = {}
    /\ UNCHANGED <<subVars, tripped, position, intentVars, orderVars, overlapped, configured>>

-----------------------------------------------------------------------------
reconcile_pending_trades ==
    reconcile_read \/ reconcile_settle \/ reconcile_fetch_failed

Next == \/ \E g \in Generator : generate_live_order_intent(g)
        \/ \E i \in Intent : expire_stale_intents(i) \/ broker_ends(i) \/ book_drops(i)
        \/ \E w \in Window : window_slides(w)
        \/ configure_broker \/ reconcile_pending_trades
        \/ run_live_daily_signal_generation
        \/ set_autonomous_trading \/ tighten_limits \/ deactivate_subscription
        \/ evaluate_mode_drawdown \/ reset_kill_switch
        \/ Crash

\* The jobs run on their timers, a tick under way goes on, an order ends at the
\* broker, and not every pass finds the order book unreachable or dies half-way.
Fairness ==
    /\ \A g \in Generator : WF_vars(tick[g] # Idle /\ generate_live_order_intent(g))
    /\ \A i \in Intent : WF_vars(expire_stale_intents(i)) /\ WF_vars(broker_ends(i))
    /\ WF_vars(reconcile_pending_trades) /\ SF_vars(reconcile_settle)

Spec == Init /\ [][Next]_vars
FairSpec == Spec /\ Fairness

-----------------------------------------------------------------------------
(* Safety.                                                                   *)

IntentStatus == {"absent", "generated", "capped", "submitted", "failed", "expired"}
TradeStatus  == {"none", "pending_confirmation", "filled", "rejected", "cancelled"}
BrokerStatus == {"none", "open", "complete", "rejected", "cancelled"}
TickPc == {"idle", "kill_switch", "decide", "caps", "unconfirmed", "create",
           "quote", "gate", "place", "record", "fail"}

Tick == [pc : TickPc, limits : Limits, mine : 0 .. MaxIntents]

Submitting == {"quote", "gate", "place", "record", "fail"}

\* What the rows and coroutines hold, apart from quantities.
StatusOK ==
    /\ active \in BOOLEAN /\ autonomous \in BOOLEAN /\ tripped \in BOOLEAN
    /\ limits \in Limits /\ signal \in {"none", "BUY", "SELL"}
    /\ created \in 0 .. MaxIntents /\ windowFrom \in [Window -> 1 .. MaxIntents + 1]
    /\ status \in [Intent -> IntentStatus]
    /\ trade \in [Intent -> TradeStatus] /\ broker \in [Intent -> BrokerStatus]
    /\ routed \in [Intent -> Broker \cup {"none"}] /\ unmatched \subseteq Intent
    /\ configured \in Broker \cup {"none"}
    /\ tick \in [Generator -> Tick] /\ overlapped \in BOOLEAN
    /\ batch \subseteq Intent

TypeOK == /\ StatusOK
          /\ position \in Int /\ delta \in [Intent -> Int] /\ choice \in [Generator -> Int]

\* Every share the position holds was filled at the broker, and every confirmed
\* fill is in it exactly once, whatever passes fail, overlap with ticks or are
\* cut short by a crash (live_trading.reconcile_pending_trades).
PositionBacked ==
    LET filled == {i \in Intent : trade[i] = "filled"}
    IN  /\ position = Quantity(delta, filled)
        /\ \A i \in filled : broker[i] = "complete"

\* An intent is SUBMITTED exactly when there is an order with a trade for it,
\* even when the expiry sweep overtook its submission.
SubmittedHasTrade ==
    \A i \in Intent : status[i] = "submitted" <=> trade[i] # "none"

\* As long as no two ticks have overlapped, at most one order waits for its confirmation
\* (live_trading._has_unconfirmed_order).
OneUnconfirmed == overlapped = FALSE => \A i, j \in Pending : i = j

\* As long as no two ticks have overlapped, whatever the operator tightens and when: the
\* window a tick read holds no more real attempts than the cap it read, its own included,
\* and no window of the enrolled length ever more than the subscription was enrolled with
\* (live_trading._count_recent_real_attempts, live_subscription_limits).  A window widened
\* later may hold more, counting again what had left it: nothing is sent while it does.
RateCap ==
    overlapped = FALSE =>
        /\ Cardinality(Recent(Enrolled.window)) <= EnrolledMax
        /\ \A g \in Generator : tick[g].pc \in Submitting =>
              Cardinality(Recent(tick[g].limits.window)) <= tick[g].limits.cap

\* The position never grows past one entry's lot and is never short: a decision
\* is not made on a position an order under way is about to change
\* (live_trading.generate_live_order_intent, comment at its last gate).
NeverStacksOrders == position \in {0, Lot}

\* An intent the sweep expired was never sent (live_intent_expiry, "with no
\* order ever submitted").
ExpiredNeverSent == \A i \in Intent : status[i] = "expired" => broker[i] = "none"

\* An intent recorded as failed was never sent (live_trading._fail_intent,
\* "was not sent").
FailedNeverSent == \A i \in Intent : status[i] = "failed" => broker[i] = "none"

-----------------------------------------------------------------------------
(* The inductive invariants behind SubmittedHasTrade, OneUnconfirmed, RateCap. *)

\* A tick on its way to the broker has an intent of its own, not yet resolved
\* except by the sweep.
TickSound ==
    \A g \in Generator : tick[g].pc \in Submitting =>
        /\ tick[g].mine \in 1 .. created
        /\ status[tick[g].mine] \in {"generated", "expired"}
        /\ \A h \in Generator \ {g} :
              tick[h].pc \in Submitting => tick[h].mine # tick[g].mine

\* A longer window starts no later.
WindowsNest == \A v, w \in Window : v <= w => windowFrom[w] <= windowFrom[v]

\* What does not exist yet has left no trace, and a pass only holds trades that
\* are still pending.
RowsSound == /\ \A i \in Intent : i > created => status[i] = "absent"
             /\ batch \subseteq Pending

IInv == StatusOK /\ TickSound /\ RowsSound /\ SubmittedHasTrade

\* One tick is under way at most.
OneTick == \A g, h \in UnderWay : g = h

\* What a tick that is alone has checked still holds when it acts.
LoneSound ==
    \A g \in Generator :
        /\ tick[g].pc \in Submitting \cup {"create"} => Pending = {}
        /\ tick[g].pc \in {"unconfirmed", "create"} => ~OverRateCap(g)

LoneInv == /\ WindowsNest /\ OneUnconfirmed /\ RateCap
           /\ overlapped = FALSE => OneTick /\ LoneSound

\* Behind PositionBacked: a trade is filled once, and only while its intent's quantity
\* can no longer change.
QuantityInv == IInv /\ TypeOK /\ PositionBacked

-----------------------------------------------------------------------------
(* Liveness, under Fairness.                                                 *)

\* What a pass can never settle: an order no book lists, and one sent through a broker
\* that is not the configured one, which is "left pending rather than guessed at".
BeyondReach(i) == i \in unmatched \/ routed[i] # configured

\* An unconfirmed order does not block decisions for ever: its trade is settled, through
\* failed passes and crashes, unless its order leaves the book first or another broker is
\* configured meanwhile (live_trading.reconcile_pending_trades).
TradesSettle ==
    \A i \in Intent : trade[i] = "pending_confirmation" ~>
                        (trade[i] # "pending_confirmation" \/ BeyondReach(i))

\* No intent stays GENERATED, whether or not its tick survived
\* (live_intent_expiry.expire_stale_intents).
GeneratedResolves == \A i \in Intent : status[i] = "generated" ~> status[i] # "generated"
=============================================================================
