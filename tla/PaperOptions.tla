---------------------------- MODULE PaperOptions ----------------------------
(***************************************************************************)
(* An option subscription of the paper desk: a bought leg and, in a        *)
(* vertical spread, the sold leg it hedges                                 *)
(* (backend/src/orchestration/paper_options.py and close_all_positions in  *)
(* paper_subscription_controls.py).                                        *)
(*                                                                         *)
(* The legs are two position rows, and every leg is filled in a commit of  *)
(* its own.  Three actors trade them: the tick evaluation (entry and       *)
(* exit), an operator closing every leg, and the expiry sweep.  Each works *)
(* from the quantities it read when it started.  A book may fill any part  *)
(* of an order; prices, margin and the gate only decide whether a step     *)
(* happens.                                                                *)
(***************************************************************************)
EXTENDS Integers

CONSTANTS
    MaxUnits,          \* lots of an entry (bound)
    MaxOptionRestarts  \* process restarts (bound)

ASSUME PaperOptionsAssumption == MaxUnits \in Nat \ {0} /\ MaxOptionRestarts \in Nat

VARIABLES
    legs,         \* what is held: bought units and sold units
    view,         \* the direction the legs held were chosen for
    option_plan,  \* the short-lived plan in Redis
    signal,       \* the latest daily signal
    squareoff,    \* how near the expiry of the held contracts is
    trader,       \* what each actor is doing
    spread,       \* TRUE: vertical_spread, FALSE: long_option
    restarts,
    mixed,        \* two actors worked on the legs at once
    cut_short     \* an operator's close went on past a sold leg only partly bought back

optionVars == <<legs, view, option_plan, signal, squareoff, trader, spread, restarts, mixed, cut_short>>

Trader == {"evaluate", "operator", "sweep"}
Direction == {"bullish", "bearish"}
Units == 0 .. MaxUnits
NoPlan == [direction |-> "none"]
NoWork == [at |-> "idle"]

OptionsInit ==
    /\ legs = [buy |-> 0, sell |-> 0] /\ view = "none" /\ option_plan = NoPlan
    /\ signal = "none" /\ squareoff = "far" /\ trader = [t \in Trader |-> NoWork]
    /\ spread \in BOOLEAN /\ restarts = 0 /\ mixed = FALSE /\ cut_short = FALSE

Working(t) == trader[t].at # "idle"
Set(t, r) == trader' = [trader EXCEPT ![t] = r]
Flat == legs.buy = 0 /\ legs.sell = 0
direction_for_signal(s) == IF s = "BUY" THEN "bullish" ELSE "bearish"

\* Both actors hold quantities the other is about to change.
Begin(t, r) ==
    /\ ~Working(t) /\ Set(t, r)
    /\ mixed' = (mixed \/ \E u \in Trader \ {t} : Working(u))

SetLeg(leg, n) == legs' = [legs EXCEPT ![leg] = n]

new_option_signal(s) ==
    /\ signal' = s
    /\ UNCHANGED <<legs, view, option_plan, squareoff, trader, spread, restarts, mixed, cut_short>>
-----------------------------------------------------------------------------
(* Entry.                                                                  *)

\* Flat with a standing signal and no plan for its direction: the legs are chosen from
\* the broker's contract list and kept, so that the tick job starts quoting them.
plan_entry(n) ==
    /\ ~Working("evaluate") /\ Flat /\ signal # "none" /\ n > 0
    /\ option_plan.direction # direction_for_signal(signal)
    /\ option_plan' = [direction |-> direction_for_signal(signal), quantity |-> n]
    /\ UNCHANGED <<legs, view, signal, squareoff, trader, spread, restarts, mixed, cut_short>>

\* The plan outlives neither its time to live nor a change of lots or width.
clear_plan ==
    /\ option_plan # NoPlan /\ option_plan' = NoPlan
    /\ UNCHANGED <<legs, view, signal, squareoff, trader, spread, restarts, mixed, cut_short>>

\* Every leg has a fresh book that can buy some of the hedge, and the margin and the
\* gate let the structure pass; otherwise nothing happens and the plan waits.
_enter ==
    /\ Flat /\ signal # "none" /\ option_plan.direction = direction_for_signal(signal)
    /\ Begin("evaluate", [at |-> "buying", plan |-> option_plan, seen |-> legs])
    /\ UNCHANGED <<legs, view, option_plan, signal, squareoff, spread, restarts, cut_short>>

\* Bought first: what fills is what may be sold against it.
_enter_buy(filled) ==
    LET job == trader["evaluate"]
    IN  /\ job.at = "buying" /\ filled \in 1 .. job.plan.quantity
        /\ SetLeg("buy", job.seen.buy + filled) /\ view' = job.plan.direction
        /\ Set("evaluate", [at |-> IF spread THEN "selling" ELSE "entered",
                            plan |-> job.plan, hedge_filled |-> filled, seen |-> job.seen])
        /\ squareoff' = "far"
        /\ UNCHANGED <<option_plan, signal, spread, restarts, mixed, cut_short>>

SellUpTo(plan, hedge_filled) == IF plan.quantity < hedge_filled THEN plan.quantity ELSE hedge_filled
SellUpTo_Plan(plan, hedge_filled) == plan.quantity

_enter_sell(filled) ==
    LET job == trader["evaluate"]
    IN  /\ job.at = "selling" /\ filled \in 0 .. SellUpTo(job.plan, job.hedge_filled)
        /\ SetLeg("sell", job.seen.sell + filled)
        /\ Set("evaluate", [at |-> "entered"])
        /\ UNCHANGED <<view, option_plan, signal, squareoff, spread, restarts, mixed, cut_short>>

_enter_done ==
    /\ trader["evaluate"].at = "entered" /\ option_plan' = NoPlan /\ Set("evaluate", NoWork)
    /\ UNCHANGED <<legs, view, signal, squareoff, spread, restarts, mixed, cut_short>>
-----------------------------------------------------------------------------
(* Closing, leg by leg, the sold leg first.                                *)

open_positions == IF legs.sell > 0 THEN "sell" ELSE "buy"
CloseJob == [at |-> "closing", leg |-> open_positions, seen |-> legs]

\* A sold leg decides the view; a spread's bought leg alone is of the kind that bets the
\* other way, so a spread that only bought its hedge is read as the opposite view.
held_direction ==
    IF spread /\ legs.sell = 0 THEN CHOOSE d \in Direction : d # view ELSE view

\* A sold leg alone, a stop-loss, or a signal that now points the other way.
evaluate_option_subscription(stop) ==
    /\ ~Flat
    /\ \/ legs.buy = 0
       \/ stop
       \/ signal # "none" /\ held_direction # direction_for_signal(signal)
    /\ Begin("evaluate", CloseJob)
    /\ UNCHANGED <<legs, view, option_plan, signal, squareoff, spread, restarts, cut_short>>

close_all_positions ==
    /\ ~Flat /\ Begin("operator", CloseJob)
    /\ UNCHANGED <<legs, view, option_plan, signal, squareoff, spread, restarts, cut_short>>

days_pass ==
    /\ ~Flat /\ squareoff # "past"
    /\ squareoff' = IF squareoff = "far" THEN "near" ELSE "past"
    /\ UNCHANGED <<legs, view, option_plan, signal, trader, spread, restarts, mixed, cut_short>>

run_expiry_sweep ==
    /\ ~Flat /\ squareoff # "far" /\ Begin("sweep", CloseJob)
    /\ UNCHANGED <<legs, view, option_plan, signal, squareoff, spread, restarts, cut_short>>

\* No fresh price, book or permission: the evaluation stops; the sweep and the operator
\* stop at a sold leg and go on past a bought one, of which there is only one here.
close_refused(t) ==
    /\ trader[t].at = "closing" /\ Set(t, NoWork)
    /\ t = "sweep" => squareoff = "near"
    /\ UNCHANGED <<legs, view, option_plan, signal, squareoff, spread, restarts, mixed, cut_short>>

\* After the sold leg comes the bought one.  The evaluation and the sweep keep the hedge
\* of a sold leg that is still open; the operator's close only keeps it when the leg
\* could not be closed at all.
HedgeNext_Always(t, left) == trader[t].leg = "sell" /\ trader[t].seen.buy > 0

HedgeNext(t, left) ==
    /\ trader[t].leg = "sell" /\ trader[t].seen.buy > 0
    /\ t = "operator" \/ left = 0

close_leg(t, filled) ==
    LET job == trader[t]
        left == job.seen[job.leg] - filled
    IN  /\ job.at = "closing" /\ filled \in Units /\ left >= 0
        /\ t # "evaluate" => filled > 0
        /\ (t = "sweep" /\ squareoff = "past") => left = 0
        /\ SetLeg(job.leg, left)
        /\ Set(t, IF HedgeNext(t, left) THEN [job EXCEPT !.leg = "buy"] ELSE NoWork)
        /\ cut_short' = (cut_short \/ (t = "operator" /\ job.leg = "sell" /\ left > 0))
        /\ UNCHANGED <<view, option_plan, signal, squareoff, spread, restarts, mixed>>

\* The commits done stay; the plan of an interrupted entry is still in Redis.
OptionsRestart ==
    /\ restarts < MaxOptionRestarts /\ restarts' = restarts + 1
    /\ trader' = [t \in Trader |-> NoWork]
    /\ UNCHANGED <<legs, view, option_plan, signal, squareoff, spread, mixed, cut_short>>

OptionsNext ==
    \/ \E s \in {"BUY", "SELL"} : new_option_signal(s)
    \/ \E n \in Units : plan_entry(n) \/ _enter_buy(n) \/ _enter_sell(n)
    \/ clear_plan \/ _enter \/ _enter_done
    \/ \E stop \in BOOLEAN : evaluate_option_subscription(stop)
    \/ close_all_positions \/ days_pass \/ run_expiry_sweep
    \/ \E t \in Trader : close_refused(t) \/ \E n \in Units : close_leg(t, n)
    \/ OptionsRestart
-----------------------------------------------------------------------------
OptionsTypeOK ==
    /\ legs \in [buy: Units, sell: Units] /\ view \in Direction \cup {"none"}
    /\ option_plan \in {NoPlan} \cup [direction: Direction, quantity: Units]
    /\ signal \in {"none", "BUY", "SELL"} /\ squareoff \in {"far", "near", "past"}
    /\ spread \in BOOLEAN /\ restarts \in 0 .. MaxOptionRestarts
    /\ mixed \in BOOLEAN /\ cut_short \in BOOLEAN
    /\ \A t \in Trader : trader[t].at \in {"idle", "buying", "selling", "entered", "closing"}

(* No more is ever sold than the bought leg hedges, through partial fills, refusals, *)
(* restarts and every order of entries, exits and sweeps, except where two actors    *)
(* traded the legs at once or an operator's close ran past a sold leg that was only  *)
(* partly bought back (_enter, _exit and run_expiry_sweep in paper_options.py).      *)
HedgedUnlessCut == mixed \/ cut_short \/ legs.sell <= legs.buy

(* "The structure is therefore never naked, whatever the books allow", with one      *)
(* actor at a time.                                                                  *)
NeverNaked == mixed \/ legs.sell <= legs.buy
=============================================================================
