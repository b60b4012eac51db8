------------------------------ MODULE RiskGate ------------------------------
(***************************************************************************)
(* The gate every order passes, seen from one cash-equity paper            *)
(* subscription: the house limit on one position, the exchange's circuit   *)
(* limits, and the stop-loss exit that the band does not hold back         *)
(* (backend/src/engine/risk/compliance.py, orchestration/risk_gate.py,     *)
(* orchestration/paper_trading.py, paper_subscription_controls.py).        *)
(*                                                                         *)
(* A tick reads the subscription and its position, decides an order and,   *)
(* some awaits later, passes the gate and fills; an edit of the capital    *)
(* reads whether there are fills and commits later.  Nothing locks the     *)
(* subscription.  A buy fills at the tick's price or, in a thin book,      *)
(* above it.  Prices are whole numbers; percentages are cross-multiplied.  *)
(***************************************************************************)
EXTENDS Integers

CONSTANTS
    GatePrice,             \* prices the share may have
    GateCapital,           \* capitals the subscription may have
    SizePct, StopLossPct,  \* position size and stop-loss, percent
    PositionLimitPct, BandPct,  \* the reference table's limit and band, percent
    BandWidth,             \* how far apart the exchange's limits are
    ThinBook               \* how far above the tick a buy may fill

ASSUME RiskGateAssumption ==
    /\ GatePrice \subseteq Nat \ {0} /\ GateCapital \subseteq Nat \ {0}
    /\ SizePct \in 1 .. 100 /\ StopLossPct \in 1 .. 99
    /\ PositionLimitPct \in Nat /\ BandPct \in Nat
    /\ BandWidth \in Nat \ {0} /\ ThinBook \in Nat

VARIABLES
    capital,        \* initial_capital
    quote,          \* the last quote: its price and, if it carried them, the circuit limits
    held,           \* the position: quantity, average cost, and what its entry's tick said
    traded,         \* the subscription has fills
    edit,           \* an edit of the capital under way
    order,          \* the order a tick has decided and not yet passed
    halted,         \* the paper kill switch is tripped
    verdict         \* observer: the last tick's order was refused

gateOrderVars == <<capital, quote, held, traded, edit, order, halted, verdict>>

NoLimits == [lower |-> 0, upper |-> 0]
NoOrder  == [side |-> "none"]
NotHeld  == [quantity |-> 0, avg_cost |-> 0, tick |-> 0, capital |-> 0]
NoVerdict == [refused |-> FALSE, stop |-> FALSE]

Quotes == {[price |-> p, limits |-> l] :
              p \in GatePrice,
              l \in {NoLimits} \cup {[lower |-> a, upper |-> a + BandWidth] :
                                       a \in GatePrice}}

RiskGateInit ==
    /\ capital \in GateCapital /\ quote \in Quotes /\ held = NotHeld /\ traded = FALSE
    /\ edit = 0 /\ order = NoOrder /\ halted = FALSE /\ verdict = NoVerdict

-----------------------------------------------------------------------------
(* The rules.                                                              *)

check_position_limit(value, portfolio) == value * 100 > PositionLimitPct * portfolio

(* At the limits counts as beyond them; without the exchange's limits the  *)
(* reference table's band is measured from the reference price.            *)
check_circuit_filter_band(price, reference, limits) ==
    IF limits # NoLimits
    THEN price >= limits.upper \/ price <= limits.lower
    ELSE LET move == IF price > reference THEN price - reference ELSE reference - price
         IN  move * 100 >= BandPct * reference

\* Mutant: the circuit band holds back a stop-loss exit too.
run_compliance_checks_Always(o) ==
    \/ check_position_limit(o.quantity * o.price, o.portfolio)
    \/ check_circuit_filter_band(o.price, o.reference, o.limits)

run_compliance_checks(o) ==
    \/ check_position_limit(o.quantity * o.price, o.portfolio)
    \/ ~ o.stop /\ check_circuit_filter_band(o.price, o.reference, o.limits)

stop_loss_triggers ==
    /\ held.quantity > 0
    /\ quote.price * 100 <= held.avg_cost * (100 - StopLossPct)

equity_entry_quantity == (capital * SizePct) \div (100 * quote.price)

-----------------------------------------------------------------------------
(* Steps.                                                                  *)

QuoteArrives ==
    /\ quote' \in Quotes \ {quote}
    /\ UNCHANGED <<capital, held, traded, edit, order, halted, verdict>>

KillSwitchTurns ==
    /\ halted' = ~ halted
    /\ UNCHANGED <<capital, quote, held, traded, edit, order, verdict>>

Decided(side, quantity, reference, stop) ==
    /\ order' = [side |-> side, quantity |-> quantity, price |-> quote.price,
                 reference |-> reference, limits |-> quote.limits, portfolio |-> capital,
                 stop |-> stop]
    /\ verdict' = NoVerdict
    /\ UNCHANGED <<capital, quote, held, traded, edit, halted>>

(* The stop first; otherwise the latest signal, which was formed at some   *)
(* reference price, enters when flat and leaves when held.                 *)
tick_decides ==
    /\ order = NoOrder
    /\ \/ /\ stop_loss_triggers
          /\ Decided("sell", held.quantity, held.avg_cost, TRUE)
       \/ /\ ~ stop_loss_triggers /\ held.quantity > 0
          /\ \E r \in GatePrice : Decided("sell", held.quantity, r, FALSE)
       \/ /\ held.quantity = 0 /\ equity_entry_quantity > 0
          /\ \E r \in GatePrice : Decided("buy", equity_entry_quantity, r, FALSE)

(* The gate: the kill switch before anything else, then compliance.  A     *)
(* refusal is swallowed and the tick ends.                                 *)
create_order_intent_refuses ==
    /\ order # NoOrder /\ (halted \/ run_compliance_checks(order))
    /\ order' = NoOrder
    /\ verdict' = [refused |-> TRUE, stop |-> order.stop, halted |-> halted,
                   price |-> order.price, portfolio |-> order.portfolio]
    /\ UNCHANGED <<capital, quote, held, traded, edit, halted>>

order_fills ==
    /\ order # NoOrder /\ ~ halted /\ ~ run_compliance_checks(order)
    /\ order' = NoOrder /\ traded' = TRUE
    /\ IF order.side = "sell" THEN held' = NotHeld
       ELSE \E over \in {0, ThinBook} :
               held' = [quantity |-> order.quantity, avg_cost |-> order.price + over,
                        tick |-> order.price, capital |-> order.portfolio]
    /\ UNCHANGED <<capital, quote, edit, halted, verdict>>

(* Capital may be edited only before the first fill; the count is read     *)
(* here and the change is committed later.                                 *)
plan_settings_change ==
    /\ edit = 0 /\ ~ traded
    /\ edit' \in GateCapital \ {capital}
    /\ UNCHANGED <<capital, quote, held, traded, order, halted, verdict>>

update_capital_commit ==
    /\ edit # 0 /\ capital' = edit /\ edit' = 0
    /\ UNCHANGED <<quote, held, traded, order, halted, verdict>>

RiskGateNext ==
    \/ QuoteArrives \/ KillSwitchTurns \/ tick_decides
    \/ create_order_intent_refuses \/ order_fills
    \/ plan_settings_change \/ update_capital_commit

-----------------------------------------------------------------------------
(* Properties.                                                             *)

RiskGateTypeOK ==
    /\ capital \in GateCapital /\ quote \in Quotes /\ held.quantity \in Nat
    /\ traded \in BOOLEAN /\ edit \in GateCapital \cup {0} /\ halted \in BOOLEAN
    /\ order.side \in {"none", "buy", "sell"} /\ verdict.refused \in BOOLEAN

(* A stop-loss exit gets out: while the kill switch is clear it is refused *)
(* only when the share still costs more than the tick its entry was gated  *)
(* at (a thin book had filled it above the market), or when the capital    *)
(* was changed under the entry; never because the price has gapped, where  *)
(* a stop matters most.                                                    *)
StopGetsOut ==
    verdict.refused /\ verdict.stop /\ ~ verdict.halted =>
        \/ verdict.price > held.tick
        \/ verdict.portfolio # held.capital

=============================================================================
