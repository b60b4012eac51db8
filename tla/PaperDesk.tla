----------------------------- MODULE PaperDesk -----------------------------
(***************************************************************************)
(* An equity or futures paper-trading subscription and its one position    *)
(* (backend/src/orchestration/paper_trading.py, paper_futures.py,          *)
(* paper_subscription_controls.py and the jobs of                          *)
(* paper_trading_scheduler.py).                                            *)
(*                                                                         *)
(* Four actors work on the position: the drain job, an operator's own      *)
(* tick, an operator's close or deactivation, and the futures roll.  Each  *)
(* reads the row, awaits the risk gate and the order book, and then writes *)
(* the quantity it computed from what it read; nothing locks the row.  A   *)
(* price is only what it decides: whether the stop-loss triggers, how much *)
(* of an order the book fills, whether a step is refused.  The stream ids  *)
(* of two contracts are times and compare, so one count stands for both.   *)
(***************************************************************************)
EXTENDS Integers, FiniteSets

CONSTANTS
    MaxDeskTicks,     \* ticks published, and ticks an operator sends (bound)
    MaxDeskBusy,      \* actors at work at once (bound)
    MaxDeskCrashes,   \* process restarts (bound)
    MaxLots           \* the largest `lots` the settings may take

ASSUME PaperDeskAssumption ==
    MaxDeskTicks \in Nat /\ MaxDeskBusy \in Nat /\ MaxDeskCrashes \in Nat /\ MaxLots \in Nat \ {0}

VARIABLES
    paper_sub,     \* the subscription row
    position,      \* the quantity of its position row, + long, - short
    net_fills,     \* the sum of its fill rows, signed
    daily_signal,  \* the type of its latest signal
    desk,          \* what each actor has read and is about to do
    published,     \* ticks in the stream
    sent,          \* ticks an operator sent
    desk_crashes,
    unmanaged,     \* the quantity the last deactivation said it leaves
    crossed        \* rows another actor had already read were changed under it

deskVars == <<paper_sub, position, net_fills, daily_signal, desk, published, sent,
              desk_crashes, unmanaged, crossed>>

DeskActor == {"drain", "manual", "operator", "roll"}
Signal == {"none", "BUY", "SELL"}
Resting == [at |-> "idle"]
Holding == {"order", "close", "off", "switch"}

PaperTradingSubscription ==
    [kind: {"equity", "future"}, is_active: BOOLEAN, contract: {1, 2},
     cursor: 0 .. MaxDeskTicks, lots: 1 .. MaxLots]

Abs(n) == IF n < 0 THEN -n ELSE n
At(a, s) == desk[a].at = s
MayStart(a) == At(a, "idle") /\ Cardinality({b \in DeskActor : ~At(b, "idle")}) < MaxDeskBusy
Become(a, r) == desk' = [desk EXCEPT ![a] = r]

enroll_in_paper_trading(kind) ==
    [kind |-> kind, is_active |-> TRUE, contract |-> 1, cursor |-> 0, lots |-> MaxLots]

DeskInit ==
    /\ \E kind \in {"equity", "future"} : paper_sub = enroll_in_paper_trading(kind)
    /\ position = 0 /\ net_fills = 0 /\ daily_signal = "none"
    /\ desk = [a \in DeskActor |-> Resting]
    /\ published = 0 /\ sent = 0 /\ desk_crashes = 0 /\ unmanaged = 0 /\ crossed = FALSE

is_future == paper_sub.kind = "future"
-----------------------------------------------------------------------------
(* The ledger.                                                             *)

apply_fill(quantity, side, filled) ==
    IF side = "buy" THEN quantity + filled ELSE quantity - filled

Crossing(a) == crossed' = (crossed \/ \E b \in DeskActor \ {a} : desk[b].at \in Holding)

\* The row is written from the copy the actor read, and the fill is a row of its own;
\* one commit makes both durable.
_persist_fill(a, side, filled) ==
    /\ position' = apply_fill(desk[a].seen, side, filled)
    /\ net_fills' = apply_fill(net_fills, side, filled)
    /\ IF filled > 0 THEN Crossing(a) ELSE UNCHANGED crossed

decide_order_Adds(quantity, signal) ==
    CASE quantity > 0 /\ signal = "SELL" -> [side |-> "sell", qty |-> quantity]
      [] quantity < 0 /\ signal = "BUY" -> [side |-> "buy", qty |-> -quantity]
      [] quantity >= 0 /\ signal = "BUY" -> [side |-> "buy", qty |-> paper_sub.lots]
      [] quantity = 0 /\ signal = "SELL" /\ is_future -> [side |-> "sell", qty |-> paper_sub.lots]
      [] OTHER -> [side |-> "none", qty |-> 0]

\* A standing signal against the position closes it; on a flat one it enters.  Only a
\* future may go short.  A position of the signal's own direction is left alone.
decide_order(quantity, signal) ==
    CASE quantity > 0 /\ signal = "SELL" -> [side |-> "sell", qty |-> quantity]
      [] quantity < 0 /\ signal = "BUY" -> [side |-> "buy", qty |-> -quantity]
      [] quantity = 0 /\ signal = "BUY" -> [side |-> "buy", qty |-> paper_sub.lots]
      [] quantity = 0 /\ signal = "SELL" /\ is_future -> [side |-> "sell", qty |-> paper_sub.lots]
      [] OTHER -> [side |-> "none", qty |-> 0]

CloseSide(quantity) == IF quantity > 0 THEN "sell" ELSE "buy"

\* The stop-loss is looked at before the signal and closes everything.
check_universal_stop_loss(quantity, hit) == hit /\ quantity # 0
-----------------------------------------------------------------------------
(* Signals, ticks and the drain job.                                       *)

run_daily_signal_generation(s) ==
    /\ paper_sub.is_active /\ daily_signal' = s
    /\ UNCHANGED <<paper_sub, position, net_fills, desk, published, sent, desk_crashes, unmanaged, crossed>>

run_tick_publish_job ==
    /\ paper_sub.is_active /\ published < MaxDeskTicks /\ published' = published + 1
    /\ UNCHANGED <<paper_sub, position, net_fills, daily_signal, desk, sent, desk_crashes, unmanaged, crossed>>

run_tick_drain_job ==
    /\ MayStart("drain") /\ paper_sub.is_active /\ paper_sub.cursor < published
    /\ Become("drain", [at |-> "ticks", next |-> paper_sub.cursor, upto |-> published])
    /\ UNCHANGED <<paper_sub, position, net_fills, daily_signal, published, sent, desk_crashes, unmanaged, crossed>>

\* The operator's own tick has no stream: one tick and no cursor.
process_tick_endpoint ==
    /\ MayStart("manual") /\ paper_sub.is_active /\ sent < MaxDeskTicks /\ sent' = sent + 1
    /\ Become("manual", [at |-> "ticks", next |-> 0, upto |-> 1])
    /\ UNCHANGED <<paper_sub, position, net_fills, daily_signal, published, desk_crashes, unmanaged, crossed>>

TickDone(a) ==
    LET next == desk[a].next + 1
    IN  Become(a, IF a = "manual" THEN Resting
                  ELSE [at |-> "ticks", next |-> next, upto |-> desk[a].upto])

\* A tick older than the latency guard allows is counted and skipped.
skip_stale_tick ==
    /\ At("drain", "ticks") /\ desk["drain"].next < desk["drain"].upto /\ TickDone("drain")
    /\ UNCHANGED <<paper_sub, position, net_fills, daily_signal, published, sent, desk_crashes, unmanaged, crossed>>

process_tick(a, hit) ==
    LET stop == check_universal_stop_loss(position, hit)
        order == IF stop THEN [side |-> CloseSide(position), qty |-> Abs(position)]
                 ELSE decide_order(position, daily_signal)
    IN  /\ At(a, "ticks") /\ desk[a].next < desk[a].upto
        /\ IF ~paper_sub.is_active \/ order.qty = 0 THEN TickDone(a)
           ELSE Become(a, [at |-> "order", next |-> desk[a].next, upto |-> desk[a].upto,
                           seen |-> position, side |-> order.side, qty |-> order.qty])
        /\ UNCHANGED <<paper_sub, position, net_fills, daily_signal, published, sent, desk_crashes, unmanaged, crossed>>

\* No live book, too little margin, a tripped kill switch or a refusal of the gate;
\* an exception is caught by the job and costs the same tick.
process_tick_refused(a) ==
    /\ At(a, "order") /\ TickDone(a)
    /\ UNCHANGED <<paper_sub, position, net_fills, daily_signal, published, sent, desk_crashes, unmanaged, crossed>>

\* What the visible levels of the book leave unfilled is not retried by this tick.
simulate_fill(qty) == 0 .. qty

process_tick_fill_Requested(a, filled) ==
    /\ At(a, "order") /\ filled \in simulate_fill(desk[a].qty)
    /\ position' = apply_fill(desk[a].seen, desk[a].side, desk[a].qty)
    /\ net_fills' = apply_fill(net_fills, desk[a].side, filled)
    /\ Crossing(a) /\ TickDone(a)
    /\ UNCHANGED <<paper_sub, daily_signal, published, sent, desk_crashes, unmanaged>>

process_tick_fill(a, filled) ==
    /\ At(a, "order") /\ filled \in simulate_fill(desk[a].qty)
    /\ _persist_fill(a, desk[a].side, filled) /\ TickDone(a)
    /\ UNCHANGED <<paper_sub, daily_signal, published, sent, desk_crashes, unmanaged>>

\* The cursor the job read up to is written last, over whatever an activation or a
\* roll has put there since.
save_tick_cursor ==
    /\ At("drain", "ticks") /\ desk["drain"].next = desk["drain"].upto
    /\ paper_sub' = [paper_sub EXCEPT !.cursor = desk["drain"].upto]
    /\ Become("drain", Resting)
    /\ UNCHANGED <<position, net_fills, daily_signal, published, sent, desk_crashes, unmanaged, crossed>>
-----------------------------------------------------------------------------
(* Closing, switching off and on, and the roll.                            *)

\* then: what the close is part of.
close_position(a, then, administrative) ==
    /\ MayStart(a) /\ position # 0
    /\ Become(a, [at |-> "close", seen |-> position, then |-> then, admin |-> administrative])
    /\ UNCHANGED <<paper_sub, position, net_fills, daily_signal, published, sent, desk_crashes, unmanaged, crossed>>

close_position_endpoint == \E administrative \in BOOLEAN : close_position("operator", "idle", administrative)

\* No fresh price, a tripped kill switch, a refusal of the gate, no book or no depth.
\* An administrative close meets none of them.
close_position_refused(a) ==
    /\ At(a, "close") /\ ~desk[a].admin /\ Become(a, Resting)
    /\ UNCHANGED <<paper_sub, position, net_fills, daily_signal, published, sent, desk_crashes, unmanaged, crossed>>

AfterClose_Anyway(a, filled) ==
    IF desk[a].then = "idle" THEN Resting ELSE [at |-> desk[a].then, seen |-> 0]

\* A deactivation or a roll goes on only when nothing of the position is left.
AfterClose(a, filled) ==
    IF desk[a].then = "idle" \/ filled < Abs(desk[a].seen) THEN Resting
    ELSE [at |-> desk[a].then, seen |-> 0]

close_position_fill(a, filled) ==
    LET held == desk[a].seen
    IN  /\ At(a, "close") /\ filled \in 1 .. Abs(held)
        /\ desk[a].admin => filled = Abs(held)
        /\ _persist_fill(a, CloseSide(held), filled)
        /\ Become(a, AfterClose(a, filled))
        /\ UNCHANGED <<paper_sub, daily_signal, published, sent, desk_crashes, unmanaged>>

\* Without a choice an open position refuses the deactivation; "leave" accepts it.
deactivate_subscription(on_open_position) ==
    /\ paper_sub.is_active
    /\ CASE position # 0 /\ on_open_position = "close" -> close_position("operator", "off", FALSE)
         [] OTHER -> /\ MayStart("operator") /\ (position # 0 => on_open_position = "leave")
                     /\ Become("operator", [at |-> "off", seen |-> position])
                     /\ UNCHANGED <<paper_sub, position, net_fills, daily_signal, published, sent,
                                    desk_crashes, unmanaged, crossed>>

deactivate_commit ==
    /\ At("operator", "off")
    /\ paper_sub' = [paper_sub EXCEPT !.is_active = FALSE]
    /\ unmanaged' = desk["operator"].seen /\ Become("operator", Resting) /\ Crossing("operator")
    /\ UNCHANGED <<position, net_fills, daily_signal, published, sent, desk_crashes>>

activate_subscription ==
    /\ ~paper_sub.is_active
    /\ paper_sub' = [paper_sub EXCEPT !.is_active = TRUE, !.cursor = published]
    /\ unmanaged' = 0
    /\ UNCHANGED <<position, net_fills, daily_signal, desk, published, sent, desk_crashes, crossed>>

\* `lots` is the setting the desk's behaviour depends on; it takes effect at the next entry.
update_settings(n) ==
    /\ n # paper_sub.lots /\ paper_sub' = [paper_sub EXCEPT !.lots = n]
    /\ UNCHANGED <<position, net_fills, daily_signal, desk, published, sent, desk_crashes, unmanaged, crossed>>

\* Expiry is near and the broker lists a later contract.
run_futures_roll == is_future /\ paper_sub.is_active /\ paper_sub.contract = 1

\* The position is closed on the old contract first, when there is one.
roll_subscription ==
    /\ run_futures_roll
    /\ IF position # 0 THEN close_position("roll", "switch", FALSE)
       ELSE /\ MayStart("roll") /\ Become("roll", [at |-> "switch", seen |-> 0])
            /\ UNCHANGED <<paper_sub, position, net_fills, daily_signal, published, sent,
                           desk_crashes, unmanaged, crossed>>

\* The position row is renamed to the new contract, whatever it holds by now.
roll_switch ==
    /\ At("roll", "switch")
    /\ paper_sub' = [paper_sub EXCEPT !.contract = 2, !.cursor = published]
    /\ Become("roll", Resting)
    /\ UNCHANGED <<position, net_fills, daily_signal, published, sent, desk_crashes, unmanaged, crossed>>

\* A restart ends every job and request; the rows stay.  The cursor of an interrupted
\* drain was not saved, so its ticks are read again.
DeskRestart ==
    /\ desk_crashes < MaxDeskCrashes /\ desk_crashes' = desk_crashes + 1
    /\ desk' = [a \in DeskActor |-> Resting]
    /\ UNCHANGED <<paper_sub, position, net_fills, daily_signal, published, sent, unmanaged, crossed>>

DeskNext ==
    \/ \E s \in {"BUY", "SELL"} : run_daily_signal_generation(s)
    \/ run_tick_publish_job \/ run_tick_drain_job \/ process_tick_endpoint
    \/ skip_stale_tick \/ save_tick_cursor
    \/ \E a \in {"drain", "manual"} : \/ \E hit \in BOOLEAN : process_tick(a, hit)
                                      \/ process_tick_refused(a)
                                      \/ \E n \in 0 .. MaxLots : process_tick_fill(a, n)
    \/ close_position_endpoint
    \/ \E a \in {"operator", "roll"} : \/ close_position_refused(a)
                                       \/ \E n \in 1 .. MaxLots : close_position_fill(a, n)
    \/ \E choice \in {"none", "close", "leave"} : deactivate_subscription(choice)
    \/ deactivate_commit \/ activate_subscription
    \/ \E n \in 1 .. MaxLots : update_settings(n)
    \/ roll_subscription \/ roll_switch \/ DeskRestart
-----------------------------------------------------------------------------
DeskTypeOK ==
    /\ paper_sub \in PaperTradingSubscription
    /\ position \in -MaxLots .. MaxLots /\ net_fills \in Int
    /\ daily_signal \in Signal /\ published \in 0 .. MaxDeskTicks
    /\ sent \in 0 .. MaxDeskTicks
    /\ desk_crashes \in 0 .. MaxDeskCrashes /\ unmanaged \in -MaxLots .. MaxLots
    /\ crossed \in BOOLEAN
    /\ \A a \in DeskActor : desk[a].at \in {"idle", "ticks"} \cup Holding

(* The position row is what its fills add up to, through partial fills, replayed     *)
(* ticks, stop-losses, rolls and restarts, as long as no fill landed on a row        *)
(* another actor had already read (_persist_fill in paper_trading.py writes an       *)
(* absolute quantity).                                                               *)
PositionIsItsFills == crossed \/ position = net_fills

(* A replayed tick or a second actor never stacks one entry on another: what is held *)
(* never exceeds one entry, even where the fills were crossed, and an equity         *)
(* subscription is never short (decide_order enters only from flat).                 *)
OneEntryAtMost ==
    /\ Abs(position) <= MaxLots
    /\ ~is_future => position >= 0

(* A subscription that is switched off holds no more than its deactivation said it   *)
(* leaves unmanaged: a partial close keeps it active, so nothing is left without a   *)
(* stop-loss unannounced (deactivate_subscription), unless an order was in flight.   *)
OffIsAsAnnounced == ~paper_sub.is_active => crossed \/ Abs(position) <= Abs(unmanaged)

(* The book of a subscription is honest: a position is its fills, is one entry at    *)
(* most, and is not left behind unannounced.                                         *)
BookIsHonest == PositionIsItsFills /\ OneEntryAtMost /\ OffIsAsAnnounced

(* "It is never switched to a new contract while still holding the old one."         *)
RollsFlat == [][paper_sub'.contract # paper_sub.contract => position = 0]_deskVars
=============================================================================
