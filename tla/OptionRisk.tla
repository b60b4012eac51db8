----------------------------- MODULE OptionRisk -----------------------------
(***************************************************************************)
(* What an option structure can lose: how its legs are chosen, how its     *)
(* largest loss is worked out when it is previewed, entered and held       *)
(* (backend/src/engine/paper_trading/option_strategies.py, margin.py,      *)
(* engine/options_grounding.py, orchestration/paper_desk_previews.py and   *)
(* paper_options.py).                                                      *)
(*                                                                         *)
(* Strikes, premiums and quantities are small integers; a book has one     *)
(* level.  At expiry an option is worth what it is in the money.           *)
(***************************************************************************)
EXTENDS Integers, FiniteSets

CONSTANTS
    Strike, Premium,     \* strikes there may be; premiums an option may trade at
    MaxSettlement,       \* the highest price of the underlying at expiry
    Expiry, MinDays,     \* days to expiry there may be; the fewest an entry takes
    Lots, SpreadWidth,   \* settings of the subscription
    LotSize, MaxDepth,   \* lot sizes; contracts a book may offer
    LossLimit,           \* the most of the capital a position may commit
    MarginPct            \* of a future's notional value

ASSUME OptionRiskAssumption ==
    /\ Strike \subseteq Nat /\ Premium \subseteq Nat /\ MaxSettlement \in Nat
    /\ Expiry \subseteq Nat /\ MinDays \in Nat /\ Lots \subseteq Nat
    /\ SpreadWidth \subseteq Nat /\ LotSize \subseteq Nat \ {0} /\ MaxDepth \in Nat
    /\ LossLimit \in Nat /\ MarginPct \in 0 .. 100

VARIABLES
    chain,       \* the contracts listed: the lot size at each strike, 0 where there is none
    expiries,    \* the expiries they are listed for
    planned,     \* legs chosen, or none
    preview,     \* what the desk was shown of them
    structure    \* legs held, and what they cost; or none

riskVars == <<chain, expiries, planned, preview, structure>>

Settlement == 0 .. MaxSettlement
Prices == [{"buy", "sell"} -> Premium]   \* of the bought and of the sold leg
NoLegs == {}
NotShown == [shown |-> FALSE]
Unheld == [legs |-> NoLegs, cost |-> 0]

OptionRiskInit ==
    /\ chain \in [Strike -> LotSize \cup {0}] /\ expiries \in SUBSET Expiry
    /\ planned = NoLegs /\ preview = NotShown /\ structure = Unheld
-----------------------------------------------------------------------------
Told(fits) == IF fits THEN "yes" ELSE "no"
Gap(a, b) == IF a > b THEN a - b ELSE b - a
Lesser(a, b) == IF a < b THEN a ELSE b

\* The earliest expiry that is far enough away.
pick_expiry == {e \in expiries : e >= MinDays /\ \A f \in expiries : f >= MinDays => e <= f}

\* The strike nearest the price; the lower of two that are as near.
nearest_strike(strikes, spot) ==
    CHOOSE k \in strikes : \A o \in strikes :
        Gap(k, spot) < Gap(o, spot) \/ (Gap(k, spot) = Gap(o, spot) /\ k <= o)

\* Legs of a bought option: at the money, a call for a rise and a put for a fall.
LongOption(bullish, atm, lots) ==
    {[side |-> "buy", kind |-> IF bullish THEN "CE" ELSE "PE", strike |-> atm,
      quantity |-> lots * chain[atm]]}

\* Legs of a credit spread: a put sold for a rise and a call for a fall, at the money, each
\* with a hedge some strikes further out; none when the hedge is not listed, or in another size.
VerticalSpread(bullish, strikes, atm, lots, width) ==
    LET kind   == IF bullish THEN "PE" ELSE "CE"
        Beyond(k) == IF bullish THEN {o \in strikes : k <= o /\ o < atm}
                                ELSE {o \in strikes : atm < o /\ o <= k}
        hedges == {k \in strikes : Cardinality(Beyond(k)) = width /\ chain[k] = chain[atm]}
    IN IF width = 0 THEN NoLegs
       ELSE UNION {{[side |-> "buy", kind |-> kind, strike |-> k, quantity |-> lots * chain[k]],
                    [side |-> "sell", kind |-> kind, strike |-> atm, quantity |-> lots * chain[atm]]}
                   : k \in hedges}

plan_legs(strategy, bullish, spot, lots, width) ==
    LET strikes == {k \in Strike : chain[k] > 0}
        atm     == nearest_strike(strikes, spot)
    IN IF pick_expiry = {} \/ strikes = {} \/ lots = 0 THEN NoLegs
       ELSE IF strategy = "long_option" THEN LongOption(bullish, atm, lots)
       ELSE VerticalSpread(bullish, strikes, atm, lots, width)

Bought(legs) == {l \in legs : l.side = "buy"}
Sold(legs) == {l \in legs : l.side = "sell"}

\* What a structure of bought legs cost; the width of a spread, and what it cost.
max_loss(legs, net_debit) ==
    LET widths == {Gap(s.strike, b.strike) * Lesser(s.quantity, b.quantity)
                    : s \in Sold(legs), b \in Bought(legs)}
    IN IF Sold(legs) = {} THEN net_debit
       ELSE (CHOOSE w \in widths : \A v \in widths : v <= w) + net_debit

check_max_loss_margin(worst) == worst <= LossLimit

\* A sold leg with no bought leg of its kind further out of the money.
naked_options_scan(legs) ==
    {s \in Sold(legs) : ~\E b \in Bought(legs) :
        b.kind = s.kind /\ IF s.kind = "CE" THEN b.strike > s.strike ELSE b.strike < s.strike}

\* What legs cost, those of the bought side less those of the sold.
structure_value(legs, price) ==
    LET Side(s) == {l \in legs : l.side = s}
        Worth(ls) == IF ls = {} THEN 0 ELSE LET l == CHOOSE l \in ls : TRUE
                                            IN l.quantity * price[l.side]
    IN Worth(Side("buy")) - Worth(Side("sell"))
-----------------------------------------------------------------------------
\* A plan, for a signal at a price of the underlying; it is dropped when it lapses.
plan_entry_step(strategy, bullish, spot, lots, width) ==
    /\ planned = NoLegs /\ structure = Unheld
    /\ planned' = plan_legs(strategy, bullish, spot, lots, width)
    /\ UNCHANGED <<chain, expiries, preview, structure>>

\* Whole shares the capital of an entry buys; with none, the desk is warned.
_preview_equity(price) == LossLimit \div price > 0

\* A future ties up a share of its notional value, which has to be within the limit.
check_futures_margin(price, quantity) == price * quantity * MarginPct <= LossLimit * 100
_preview_future(price, lots, lot_size) == check_futures_margin(price, lots * lot_size)

\* The largest loss of the legs at the prices there are, and whether it fits.
_preview_option(strategy, bullish, spot, lots, width, price) ==
    LET legs  == plan_legs(strategy, bullish, spot, lots, width)
        worst == max_loss(legs, structure_value(legs, price))
    IN legs # NoLegs /\ check_max_loss_margin(worst)

\* The desk is shown whether an entry would fit the account: nothing, for a symbol no broker
\* lists; that it cannot be told, without a price.
preview_enrolment(kind, strategy, spot, lots, width) ==
    /\ preview = NotShown
    /\ \/ preview' = [shown |-> TRUE, fits |-> "unknown"]
       \/ kind = "equity" /\ preview' = [shown |-> TRUE, fits |-> Told(_preview_equity(spot))]
       \/ /\ kind = "future"
          /\ \E size \in LotSize : preview' = [shown |-> TRUE, fits |-> Told(_preview_future(spot, lots, size))]
       \/ /\ kind = "option"
          /\ \E price \in Prices : preview' =
                [shown |-> TRUE,
                 fits  |-> Told(\E bullish \in BOOLEAN :
                            _preview_option(strategy, bullish, spot, lots, width, price))]
    /\ UNCHANGED <<chain, expiries, planned, structure>>

\* What a book fills of a leg.
Filled(leg, wanted, depth) == [leg EXCEPT !.quantity = Lesser(wanted, depth[leg.side])]

\* Mutant: the sold leg is filled as planned, whatever its hedge filled.
SoldUpTo_Planned(leg, hedge) == leg.quantity

\* Never sell more than the hedge bought.
SoldUpTo(leg, hedge) == Lesser(leg.quantity, hedge)

\* The legs are rehearsed on their books, the largest loss is judged at what the rehearsal
\* costs, and the bought leg is filled before the sold one.
enter_structure(price, depth) ==
    /\ planned # NoLegs /\ structure = Unheld /\ depth["buy"] > 0
    /\ LET rehearsal == {Filled(l, l.quantity, depth) : l \in planned}
           worst     == max_loss(planned, structure_value(rehearsal, price))
           hedge     == {Filled(l, l.quantity, depth) : l \in Bought(planned)}
           filled    == (CHOOSE h \in hedge : TRUE).quantity
           sold      == {Filled(l, SoldUpTo(l, filled), depth) : l \in Sold(planned)}
           legs      == {l \in hedge \cup sold : l.quantity > 0}
       IN /\ check_max_loss_margin(worst) /\ naked_options_scan(planned) = {}
          /\ structure' = [legs |-> legs, cost |-> structure_value(legs, price)]
    /\ planned' = NoLegs /\ UNCHANGED <<chain, expiries, preview>>

\* What the legs held can lose at most.
_held_risk_from == max_loss(structure.legs, structure.cost)

PlanLapses ==
    /\ planned # NoLegs /\ planned' = NoLegs /\ UNCHANGED <<chain, expiries, preview, structure>>

Depths == [{"buy", "sell"} -> 0 .. MaxDepth]

OptionRiskNext ==
    \/ \E strategy \in {"long_option", "vertical_spread"}, spot \in Strike, lots \in Lots,
          width \in SpreadWidth :
          \/ \E bullish \in BOOLEAN : plan_entry_step(strategy, bullish, spot, lots, width)
          \/ \E kind \in {"equity", "future", "option"} :
                preview_enrolment(kind, strategy, spot, lots, width)
    \/ \E price \in Prices, depth \in Depths : enter_structure(price, depth)
    \/ PlanLapses
-----------------------------------------------------------------------------
OptionRiskTypeOK ==
    /\ chain \in [Strike -> LotSize \cup {0}] /\ expiries \subseteq Expiry
    /\ preview \in {NotShown} \cup [shown : {TRUE}, fits : {"yes", "no", "unknown"}] /\ structure.cost \in Int
    /\ \A l \in planned \cup structure.legs :
          l.side \in {"buy", "sell"} /\ l.kind \in {"CE", "PE"} /\ l.strike \in Strike

\* What a leg is worth at expiry.
Payoff(leg, at) ==
    LET worth == IF leg.kind = "CE" THEN at - leg.strike ELSE leg.strike - at
    IN (IF worth > 0 THEN worth ELSE 0) * leg.quantity * (IF leg.side = "buy" THEN 1 ELSE -1)

\* What the structure has lost when the underlying settles at a price.
LossAt(at) ==
    LET Worth(ls) == IF ls = {} THEN 0 ELSE Payoff(CHOOSE l \in ls : TRUE, at)
    IN structure.cost - Worth(Bought(structure.legs)) - Worth(Sold(structure.legs))

(* Whatever the books filled of it, and wherever the underlying settles, a structure never *)
(* loses more than the loss its stop is measured against (max_loss, _held_risk_from).      *)
LossIsBounded == \A at \in Settlement : LossAt(at) <= _held_risk_from
=============================================================================
