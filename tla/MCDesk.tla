------------------------------- MODULE MCDesk -------------------------------
(***************************************************************************)
(* The paper desk and what it stands on, for TLC: the tick feed, orders    *)
(* and positions, option structures and their risk, the rules an order is  *)
(* held to, and the breaker and the adapters in front of a broker.         *)
(*                                                                         *)
(* They share no state, so a behaviour explores one of them and leaves the *)
(* others in one fixed initial state: the state spaces add up instead of   *)
(* multiplying.  Components names the ones a run explores.                 *)
(***************************************************************************)
EXTENDS TickFeed, PaperDesk, PaperOptions, OptionRisk, RiskGate, Brokers

CONSTANT Components

VARIABLE component   \* the one explored

OneOf(S) == CHOOSE x \in S : TRUE

Fixed(c, b) == component # c => b

PaperInit ==
    /\ component \in Components
    /\ BreakerInit /\ BrokersInit
    /\ FeedInit       /\ Fixed("feed", credentials = [b \in Broker |-> 0])
    /\ DeskInit       /\ Fixed("desk", ~ is_future)
    /\ OptionsInit    /\ Fixed("options", ~ spread)
    /\ OptionRiskInit /\ Fixed("option_risk", expiries = {} /\ chain = [k \in Strike |-> 0])
    /\ RiskGateInit   /\ Fixed("gate", capital = OneOf(GateCapital) /\ quote = OneOf(Quotes))

PaperNext ==
    /\ UNCHANGED component
    /\ IF component = "feed"        THEN FeedNext       ELSE UNCHANGED feedVars
    /\ IF component = "desk"        THEN DeskNext       ELSE UNCHANGED deskVars
    /\ IF component = "options"     THEN OptionsNext    ELSE UNCHANGED optionVars
    /\ IF component = "option_risk" THEN OptionRiskNext ELSE UNCHANGED riskVars
    /\ IF component = "gate"        THEN RiskGateNext   ELSE UNCHANGED gateOrderVars
    /\ IF component = "breaker"     THEN BreakerNext    ELSE UNCHANGED breakerVars
    /\ \/ component = "kite"     /\ (KiteNext \/ exchange_lists \/ list_time_passes)
       \/ component = "upstox"   /\ (UpstoxNext \/ exchange_lists \/ list_time_passes)
       \/ component = "adapters" /\ AdapterNext
       \/ component \notin {"kite", "upstox", "adapters"} /\ UNCHANGED brokersVars

-----------------------------------------------------------------------------
\* Every table row, file, order and counter of every component has its type.
PaperTypeOK ==
    /\ FeedTypeOK /\ DeskTypeOK /\ OptionsTypeOK /\ OptionRiskTypeOK
    /\ RiskGateTypeOK /\ BreakerTypeOK /\ BrokersTypeOK

(* A broker is asked rightly: a rejection is lifted by new credentials, jobs get the   *)
(* adapter of the credentials stored now, names go through a list that is not out of  *)
(* date, and a list that cannot be had is not asked for by everyone at once           *)
(* (tick_source.py, factory.py, zerodha.py, upstox_instruments.py).                   *)
BrokersAskedRightly == RejectionCanClear /\ AdapterIsCurrent /\ NamesAreRecent /\ RefreshIsPaced

(* What can be lost is bounded: a sold option is hedged, a structure loses no more    *)
(* than the loss its stop is measured against, and the rules of the gate let a        *)
(* stop-loss exit out (paper_options.py, margin.py, risk_gate.py).                    *)
RiskIsBounded == HedgedUnlessCut /\ LossIsBounded /\ StopGetsOut

-----------------------------------------------------------------------------
AllComponents == {"feed", "desk", "options", "option_risk", "gate", "breaker", "kite", "upstox",
                  "adapters"}
ThreeListings == <<{"near"}, {"near", "far"}, {"far"}>>
OptionsOnly   == {"options"}
=============================================================================
