----------------------------- MODULE MCStrategy -----------------------------
(***************************************************************************)
(* What a strategy passes on its way to the market, for TLC: its life      *)
(* cycle and approvals, the price history and the backtests on it, the     *)
(* evidence for going live, the limits it is held to, and the reports told *)
(* of it afterwards.                                                       *)
(*                                                                         *)
(* They share no state, so a behaviour explores one of them and leaves the *)
(* others in one fixed initial state: the state spaces add up instead of   *)
(* multiplying.  Components names the ones a run explores.                 *)
(***************************************************************************)
EXTENDS StrategyLifecycle, DataLake, Backtests, RiskLimits, Reports

CONSTANT Components

VARIABLE component   \* the one explored

Fixed(c, b) == component # c => b

StrategyInit ==
    /\ component \in Components
    /\ LifecycleInit /\ RiskLimitsInit /\ ReportsInit
    /\ GoLiveInit    /\ Fixed("golive", trading_days = {})
    /\ LakeInit      /\ Fixed("lake", linked = {} /\ ~ synthetic_mode)
    /\ BacktestsInit /\ Fixed("backtests", prices = CHOOSE s \in Series : TRUE)

StrategyNext ==
    /\ UNCHANGED component
    /\ IF component = "lifecycle" THEN LifecycleNext  ELSE UNCHANGED lifecycleVars
    /\ IF component = "golive"    THEN GoLiveNext     ELSE UNCHANGED gateVars
    /\ IF component = "lake"      THEN LakeNext       ELSE UNCHANGED lakeVars
    /\ IF component = "backtests" THEN BacktestsNext  ELSE UNCHANGED backtestVars
    /\ IF component = "limits"    THEN RiskLimitsNext ELSE UNCHANGED limitVars
    /\ IF component = "reports"   THEN ReportsNext    ELSE UNCHANGED reportVars

-----------------------------------------------------------------------------
\* Every table row, counter and job of every component has its type.
StrategyTypeOK ==
    /\ LifecycleTypeOK /\ GoLiveTypeOK /\ LakeTypeOK /\ BacktestsTypeOK /\ RiskLimitsTypeOK
    /\ ReportsTypeOK

(* The evidence a person approves on is real: no backtest looks ahead, nothing is     *)
(* eligible for live trading without the dry runs and trades it must have, and the    *)
(* reports of what it earned add up (engine/backtest/engine.py, go_live_evidence.py,  *)
(* post_trade_review.py, investor_reporting.py).                                      *)
EvidenceIsReal == NoLookahead /\ EligibleMeansProven /\ ReportAddsUp

-----------------------------------------------------------------------------
AllComponents == {"lifecycle", "golive", "lake", "backtests", "limits", "reports"}
BacktestsOnly == {"backtests"}

FillKinds == {<<-1, "real">>, <<2, "synthetic">>}
=============================================================================
