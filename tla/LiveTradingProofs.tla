------------------------- MODULE LiveTradingProofs -------------------------
(***************************************************************************)
(* What holds of LiveTrading for every limit, every length of window, every*)
(* number of intents, and (where it says so) of overlapping ticks.         *)
(***************************************************************************)
EXTENDS LiveTrading, Lemmas

\* Moving on and returning keep a tick's record well formed.
LEMMA GotoType ==
    ASSUME StatusOK, NEW g \in Generator, NEW pc \in TickPc, Goto(g, pc)
    PROVE  tick' \in [Generator -> Tick]
BY DEF StatusOK, Goto, Tick

\* The limits of an enrolment are limits, and an idle tick is a tick.
LEMMA EnrolledType == Enrolled \in Limits /\ 1 \in Window
BY LiveAssumption DEF Enrolled, Limits, Window

LEMMA IdleType == Idle \in Tick /\ Idle.pc = "idle"
<1>1. "idle" \in TickPc /\ 0 \in 0 .. MaxIntents
  BY LiveAssumption DEF TickPc
<1> QED
  BY <1>1, EnrolledType DEF Idle, Tick

\* A tick that is over leaves a well-formed record behind.
LEMMA ReturnType ==
    ASSUME StatusOK, NEW g \in Generator, Return(g)
    PROVE  tick' \in [Generator -> Tick]
<1>1. Idle \in Tick
  BY IdleType
<1> QED
  BY <1>1 DEF StatusOK, Return

\* Every step of generate_live_order_intent keeps its tick well formed.
LEMMA TickType ==
    ASSUME StatusOK, NEW g \in Generator, generate_live_order_intent(g)
    PROVE  tick' \in [Generator -> Tick]
<1>1. CASE read_subscription(g)
  <2>1. [pc |-> "kill_switch", limits |-> limits, mine |-> 0] \in Tick
    BY LiveAssumption DEF StatusOK, Idle, Tick, TickPc
  <2> QED
    BY <1>1, <2>1 DEF read_subscription, StatusOK
<1>2. CASE create_intent(g)
  <2>1. created + 1 \in 0 .. MaxIntents /\ "quote" \in TickPc
    BY <1>2, LiveAssumption DEF create_intent, NewIntent, StatusOK, TickPc
  <2>2. CASE tick' = [tick EXCEPT ![g].pc = "quote", ![g].mine = created + 1]
    <3>1. [tick EXCEPT ![g].pc = "quote"] \in [Generator -> Tick]
      BY <2>1 DEF StatusOK, Tick
    <3>2. [[tick EXCEPT ![g].pc = "quote"] EXCEPT ![g].mine = created + 1]
            \in [Generator -> Tick]
      BY <2>1, <3>1 DEF Tick
    <3> QED
      BY <2>2, <3>2
  <2> QED
    BY <1>2, <2>2, ReturnType DEF create_intent
<1>3. CASE decide(g)
  <2>1. [tick EXCEPT ![g].pc = "caps"] \in [Generator -> Tick]
    BY DEF StatusOK, Tick, TickPc
  <2> QED
    BY <1>3, <2>1, ReturnType DEF decide
<1>4. CASE assert_not_tripped(g) \/ has_unconfirmed_order(g)
  <2>1. {"decide", "create"} \subseteq TickPc
    BY DEF TickPc
  <2> QED
    BY <1>4, <2>1, GotoType, ReturnType DEF assert_not_tripped, has_unconfirmed_order
<1>5. CASE within_caps(g) \/ get_quote(g) \/ create_order_intent(g) \/ place_order(g)
  <2>1. {"unconfirmed", "gate", "fail", "place", "record"} \subseteq TickPc
    BY DEF TickPc
  <2> QED
    BY <1>5, <2>1, GotoType DEF within_caps, get_quote, create_order_intent, place_order
<1>6. CASE cap_intent(g) \/ record_order(g) \/ fail_intent(g)
  BY <1>6, ReturnType DEF cap_intent, record_order, fail_intent
<1> QED
  BY <1>1, <1>2, <1>3, <1>4, <1>5, <1>6 DEF generate_live_order_intent

\* No step of a tick, a job, the broker or an operator leaves the statuses and
\* program counters of the code.
LEMMA StatusStep == IInv /\ [Next]_vars => StatusOK'
<1> SUFFICES ASSUME IInv, StatusOK, [Next]_vars PROVE StatusOK'
  BY DEF IInv
<1> USE LiveAssumption DEF StatusOK, Intent, IntentStatus, TradeStatus, BrokerStatus,
        subVars, intentVars, orderVars, tickVars
<1>1. ASSUME NEW g \in Generator, generate_live_order_intent(g) PROVE StatusOK'
  <2>1. tick' \in [Generator -> Tick]
    BY <1>1, TickType
  <2>2. CASE \/ read_subscription(g) \/ assert_not_tripped(g) \/ decide(g)
             \/ within_caps(g) \/ has_unconfirmed_order(g) \/ get_quote(g)
             \/ create_order_intent(g)
    BY <2>1, <2>2 DEF read_subscription, assert_not_tripped, decide, within_caps,
       has_unconfirmed_order, get_quote, create_order_intent, TickUnchanged
  <2>3. CASE cap_intent(g) \/ create_intent(g)
    <3>1. PICK s \in {"capped", "generated"} : NewIntent(g, s)
      BY <2>3 DEF cap_intent, create_intent
    <3>2. created' \in 0 .. MaxIntents /\ status' \in [Intent -> IntentStatus]
      BY <3>1 DEF NewIntent
    <3>3. TickUnchanged
      BY <2>3 DEF cap_intent, create_intent
    <3> QED
      BY <2>1, <3>1, <3>2, <3>3 DEF NewIntent, TickUnchanged
  <2>4. CASE place_order(g)
    BY <2>1, <2>4 DEF place_order
  <2>5. CASE record_order(g)
    <3>1. tick[g].mine \in Intent
      BY <2>5, LiveAssumption DEF record_order, IInv, TickSound, Submitting
    <3>2. unmatched' \subseteq Intent
      BY <2>5, <3>1 DEF record_order
    <3>3. routed' \in [Intent -> Broker \cup {"none"}]
      BY <2>5 DEF record_order
    <3> QED
      BY <2>1, <2>5, <3>2, <3>3 DEF record_order
  <2>6. CASE fail_intent(g)
    BY <2>1, <2>6 DEF fail_intent, TickUnchanged
  <2> QED
    BY <1>1, <2>2, <2>3, <2>4, <2>5, <2>6 DEF generate_live_order_intent
<1>2. ASSUME NEW i \in Intent, expire_stale_intents(i) PROVE StatusOK'
  BY <1>2 DEF expire_stale_intents
<1>3. ASSUME NEW i \in Intent, broker_ends(i) \/ book_drops(i) PROVE StatusOK'
  BY <1>3 DEF broker_ends, book_drops
<1>4. ASSUME NEW w \in Window, window_slides(w) PROVE StatusOK'
  <2>1. windowFrom[w] + 1 \in 1 .. MaxIntents + 1
    BY <1>4 DEF window_slides
  <2> QED
    BY <1>4, <2>1 DEF window_slides
<1>5. CASE reconcile_pending_trades
  BY <1>5 DEF reconcile_pending_trades, reconcile_read, reconcile_settle,
     reconcile_fetch_failed, Reconcilable, Pending, Outcome, Normalize
<1>11. CASE configure_broker
  BY <1>11 DEF configure_broker
<1>6. CASE run_live_daily_signal_generation
  BY <1>6 DEF run_live_daily_signal_generation
<1>7. CASE set_autonomous_trading \/ tighten_limits \/ deactivate_subscription
  BY <1>7 DEF set_autonomous_trading, tighten_limits, deactivate_subscription,
     OperatorUnchanged, Stricter
<1>8. CASE evaluate_mode_drawdown \/ reset_kill_switch
  BY <1>8 DEF evaluate_mode_drawdown, reset_kill_switch, KillSwitchUnchanged
<1>9. CASE Crash
  BY <1>9, IdleType DEF Crash
<1>10. CASE UNCHANGED vars
  BY <1>10 DEF vars
<1> QED
  BY <1>1, <1>2, <1>3, <1>4, <1>5, <1>6, <1>7, <1>8, <1>9, <1>10, <1>11 DEF Next
-----------------------------------------------------------------------------
\* A fresh enrolment satisfies the invariant: no intent, no order, no tick.
LEMMA InitInv == Init => IInv
<1> SUFFICES ASSUME Init PROVE IInv
  OBVIOUS
<1>1. Idle \in Tick /\ Idle.pc = "idle"
  BY IdleType
<1>2. StatusOK
  <2>1. limits \in Limits /\ 0 \in 0 .. MaxIntents /\ 1 \in 1 .. MaxIntents + 1
    BY LiveAssumption, EnrolledType DEF Init
  <2>5. windowFrom \in [Window -> 1 .. MaxIntents + 1]
    BY <2>1 DEF Init
  <2>2. status \in [Intent -> IntentStatus]
    BY DEF Init, IntentStatus
  <2>3. trade \in [Intent -> TradeStatus] /\ broker \in [Intent -> BrokerStatus]
    BY DEF Init, TradeStatus, BrokerStatus
  <2>4. tick \in [Generator -> Tick]
    BY <1>1 DEF Init
  <2> QED
    BY <2>1, <2>2, <2>3, <2>4, <2>5 DEF Init, StatusOK
<1> QED
  BY <1>1, <1>2 DEF Init, IInv, TickSound, RowsSound, SubmittedHasTrade, Submitting, Pending

\* What a step that is not a tick's does to the invariant: nothing it relies on
\* beyond the sweep's own statuses and a settled trade.
LEMMA OthersKeep ==
    ASSUME IInv, Next, \A g \in Generator : ~generate_live_order_intent(g)
    PROVE  TickSound' /\ RowsSound' /\ SubmittedHasTrade'
<1> USE DEF IInv, TickSound, RowsSound, SubmittedHasTrade, Pending,
        subVars, intentVars, orderVars, tickVars
<1>1. ASSUME NEW i \in Intent, expire_stale_intents(i)
      PROVE  TickSound' /\ RowsSound' /\ SubmittedHasTrade'
  BY <1>1 DEF expire_stale_intents, SWEPT_STATUSES, StatusOK
<1>2. ASSUME NEW i \in Intent, broker_ends(i) \/ book_drops(i)
      PROVE  TickSound' /\ RowsSound' /\ SubmittedHasTrade'
  BY <1>2 DEF broker_ends, book_drops
<1>3. CASE (\E w \in Window : window_slides(w)) \/ configure_broker
  BY <1>3 DEF window_slides, configure_broker
<1>4. CASE reconcile_settle
  <2>1. \A i \in batch : Outcome(i) # "none" /\ trade[i] # "none"
    BY DEF Outcome, Normalize
  <2> QED
    BY <1>4, <2>1 DEF reconcile_settle, StatusOK
<1>9. CASE reconcile_read \/ reconcile_fetch_failed
  BY <1>9 DEF reconcile_read, Reconcilable, reconcile_fetch_failed
<1>5. CASE run_live_daily_signal_generation
  BY <1>5 DEF run_live_daily_signal_generation
<1>6. CASE set_autonomous_trading \/ tighten_limits \/ deactivate_subscription
  BY <1>6 DEF set_autonomous_trading, tighten_limits, deactivate_subscription,
     OperatorUnchanged
<1>7. CASE evaluate_mode_drawdown \/ reset_kill_switch
  BY <1>7 DEF evaluate_mode_drawdown, reset_kill_switch, KillSwitchUnchanged
<1>8. CASE Crash
  BY <1>8 DEF Crash, Idle, Submitting
<1> QED
  BY <1>1, <1>2, <1>3, <1>4, <1>5, <1>6, <1>7, <1>8, <1>9 DEF Next, reconcile_pending_trades

\* A tick that only moves on keeps its intent, if it has one.
LEMMA MoveKeeps ==
    ASSUME IInv, NEW g \in Generator,
           \/ Return(g)
           \/ \E pc \in TickPc \ Submitting : Goto(g, pc)
           \/ tick[g].pc \in Submitting /\ \E pc \in Submitting : Goto(g, pc),
           UNCHANGED <<created, status, trade, batch>>
    PROVE  TickSound' /\ RowsSound' /\ SubmittedHasTrade'
<1>1. \A h \in Generator \ {g} : tick'[h] = tick[h]
  BY DEF Goto, Return, IInv, StatusOK
<1>2. tick'[g].pc \in Submitting => tick[g].pc \in Submitting /\ tick'[g].mine = tick[g].mine
  BY DEF Goto, Return, IInv, StatusOK, Idle, Tick, Submitting
<1> QED
  BY <1>1, <1>2 DEF IInv, TickSound, RowsSound, SubmittedHasTrade, Pending

\* A tick keeps the invariant: the only intent it writes is its own.
LEMMA TickKeeps ==
    ASSUME IInv, NEW g \in Generator, generate_live_order_intent(g)
    PROVE  TickSound' /\ RowsSound' /\ SubmittedHasTrade'
<1> USE DEF subVars, intentVars, orderVars
<1>1. CASE read_subscription(g)
  <2>1. /\ tick'[g].pc \notin Submitting
        /\ \A h \in Generator \ {g} : tick'[h] = tick[h]
    BY <1>1 DEF read_subscription, IInv, StatusOK, Submitting
  <2> QED
    BY <1>1, <2>1 DEF read_subscription, TickUnchanged,
       IInv, TickSound, RowsSound, SubmittedHasTrade, Pending
<1>2. CASE \/ assert_not_tripped(g) \/ within_caps(g) \/ has_unconfirmed_order(g)
  <2>1. {"decide", "unconfirmed", "create"} \subseteq TickPc \ Submitting
    BY DEF TickPc, Submitting
  <2> QED
    BY <1>2, <2>1, MoveKeeps DEF assert_not_tripped, within_caps, has_unconfirmed_order,
       TickUnchanged
<1>3. CASE decide(g)
  <2>1. /\ tick'[g].pc \notin Submitting
        /\ \A h \in Generator \ {g} : tick'[h] = tick[h]
    BY <1>3 DEF decide, Return, Idle, IInv, StatusOK, Submitting, Tick
  <2> QED
    BY <1>3, <2>1 DEF decide, TickUnchanged,
       IInv, TickSound, RowsSound, SubmittedHasTrade, Pending
<1>4. CASE get_quote(g) \/ create_order_intent(g) \/ place_order(g)
  <2>1. {"gate", "fail", "place", "record"} \subseteq Submitting
    BY DEF Submitting
  <2>2. tick[g].pc \in Submitting
    BY <1>4 DEF get_quote, create_order_intent, place_order, Submitting
  <2> QED
    BY <1>4, <2>1, <2>2, MoveKeeps DEF get_quote, create_order_intent, place_order,
       TickUnchanged
<1>5. CASE cap_intent(g) \/ create_intent(g)
  <2>1. PICK s \in {"capped", "generated"} : NewIntent(g, s)
    BY <1>5 DEF cap_intent, create_intent
  <2>2. /\ created \in 0 .. MaxIntents /\ created < MaxIntents
        /\ created' = created + 1 /\ created + 1 \in Intent
        /\ \A i \in Intent : status'[i] = IF i = created + 1 THEN s ELSE status[i]
    BY <2>1, LiveAssumption DEF NewIntent, IInv, StatusOK, Intent
  <2>3. status[created + 1] = "absent"
    BY <2>2, LiveAssumption DEF IInv, RowsSound, Intent
  <2>4. RowsSound' /\ SubmittedHasTrade' /\ UNCHANGED trade
    BY <1>5, <2>2, <2>3, LiveAssumption DEF cap_intent, create_intent, TickUnchanged,
       IInv, RowsSound, SubmittedHasTrade, Pending, Intent
  <2>5. \A h \in Generator \ {g} : tick'[h] = tick[h]
    BY <1>5 DEF cap_intent, create_intent, Return, IInv, StatusOK
  <2>6. tick'[g].pc \in Submitting => tick'[g].mine = created + 1 /\ s = "generated"
    <3>1. CASE cap_intent(g)
      BY <3>1 DEF cap_intent, Return, Idle, Submitting, IInv, StatusOK
    <3>2. CASE create_intent(g)
      <4>1. status'[created + 1] = "generated"
        BY <2>2, <3>2 DEF create_intent, NewIntent, IInv, StatusOK
      <4>2. s = "generated"
        BY <2>2, <4>1
      <4>3. CASE Return(g)
        BY <4>3 DEF Return, Idle, Submitting, IInv, StatusOK
      <4>4. CASE tick' = [tick EXCEPT ![g].pc = "quote", ![g].mine = created + 1]
        <5>1. tick'[g].mine = created + 1
          BY <4>4 DEF IInv, StatusOK, Tick
        <5> QED
          BY <4>2, <5>1
      <4> QED
        BY <3>2, <4>3, <4>4 DEF create_intent
    <3> QED
      BY <1>5, <3>1, <3>2
  <2>7. TickSound'
    BY <2>2, <2>3, <2>5, <2>6, LiveAssumption DEF IInv, TickSound, Intent
  <2> QED
    BY <2>4, <2>7
<1>6. CASE record_order(g) \/ fail_intent(g)
  <2>1. /\ tick[g].pc \in Submitting
        /\ tick[g].mine \in 1 .. created /\ tick[g].mine \in Intent
        /\ status[tick[g].mine] \in {"generated", "expired"}
    BY <1>6, LiveAssumption DEF record_order, fail_intent, IInv, TickSound, Submitting, StatusOK,
       Intent
  <2>2. /\ tick'[g].pc \notin Submitting
        /\ \A h \in Generator \ {g} : tick'[h] = tick[h]
    BY <1>6 DEF record_order, fail_intent, Return, Idle, Submitting, IInv, StatusOK
  <2>3. /\ UNCHANGED <<created, batch>>
        /\ \A i \in Intent : i # tick[g].mine => status'[i] = status[i] /\ trade'[i] = trade[i]
    BY <1>6, <2>1 DEF record_order, fail_intent, TickUnchanged, IInv, StatusOK
  <2>4. TickSound'
    <3> SUFFICES ASSUME NEW h \in Generator, tick'[h].pc \in Submitting
                 PROVE  /\ tick'[h].mine \in 1 .. created'
                        /\ status'[tick'[h].mine] \in {"generated", "expired"}
                        /\ \A k \in Generator \ {h} :
                              tick'[k].pc \in Submitting => tick'[k].mine # tick'[h].mine
      BY DEF TickSound
    <3>1. h # g /\ tick'[h] = tick[h]
      BY <2>2
    <3>2. /\ tick[h].mine \in 1 .. created
          /\ status[tick[h].mine] \in {"generated", "expired"}
          /\ \A k \in Generator \ {h} :
                tick[k].pc \in Submitting => tick[k].mine # tick[h].mine
      BY <3>1 DEF IInv, TickSound
    <3>3. tick[h].mine \in Intent /\ tick[h].mine # tick[g].mine
      BY <2>1, <3>1, <3>2, LiveAssumption DEF IInv, StatusOK, Intent
    <3>4. status'[tick[h].mine] = status[tick[h].mine]
      BY <2>3, <3>3
    <3>5. ASSUME NEW k \in Generator \ {h}, tick'[k].pc \in Submitting
          PROVE  tick'[k].mine # tick'[h].mine
      BY <2>2, <3>1, <3>2, <3>5
    <3> QED
      BY <2>3, <3>1, <3>2, <3>4, <3>5
  <2>5. trade[tick[g].mine] = "none"
    BY <2>1 DEF IInv, SubmittedHasTrade
  <2>6. RowsSound'
    BY <2>1, <2>3, <2>5, LiveAssumption DEF IInv, RowsSound, Pending, StatusOK, Intent
  <2>7. SubmittedHasTrade'
    <3>1. status'[tick[g].mine] = "submitted" <=> trade'[tick[g].mine] # "none"
      BY <1>6, <2>1, <2>5 DEF record_order, fail_intent, TickUnchanged, IInv, StatusOK
    <3> QED
      BY <2>1, <2>3, <3>1 DEF IInv, SubmittedHasTrade
  <2> QED
    BY <2>4, <2>6, <2>7
<1> QED
  BY <1>1, <1>2, <1>3, <1>4, <1>5, <1>6 DEF generate_live_order_intent

\* Every step of ticks, jobs, broker and operators keeps the invariant.
LEMMA InvStep == IInv /\ [Next]_vars => IInv'
<1> SUFFICES ASSUME IInv, [Next]_vars PROVE IInv'
  OBVIOUS
<1>1. StatusOK'
  BY StatusStep DEF IInv
<1>2. TickSound' /\ RowsSound' /\ SubmittedHasTrade'
  <2>1. CASE UNCHANGED vars
    BY <2>1 DEF vars, intentVars, orderVars, tickVars, IInv, TickSound, RowsSound,
       SubmittedHasTrade, Pending
  <2> QED
    BY <2>1, TickKeeps, OthersKeep
<1> QED
  BY <1>1, <1>2 DEF IInv

\* The inductive invariant, for any number of overlapping ticks.
THEOREM LiveInvariance == Spec => []IInv
<1>1. Init => IInv
  BY InitInv
<1>2. IInv /\ [Next]_vars => IInv'
  BY InvStep
<1> QED
  BY <1>1, <1>2, PTL DEF Spec

\* An intent is SUBMITTED exactly when its order has a trade, whatever the sweep,
\* crashes and other ticks do meanwhile.
THEOREM SubmittedHasTradeHolds == Spec => []SubmittedHasTrade
<1>1. IInv => SubmittedHasTrade
  BY DEF IInv
<1> QED
  BY <1>1, LiveInvariance, PTL

-----------------------------------------------------------------------------
(* As long as no two ticks overlap, the rate cap and the unconfirmed-order   *)
(* gate hold.                                                                *)

\* A tick writes its own place only, and is not idle unless it begins.
LEMMA TickIsOwn ==
    ASSUME StatusOK, NEW g \in Generator, generate_live_order_intent(g)
    PROVE  /\ \A h \in Generator \ {g} : tick'[h] = tick[h]
           /\ ~read_subscription(g) => tick[g].pc # "idle" /\ UNCHANGED overlapped
<1> USE DEF StatusOK, Goto, Return, TickUnchanged
<1>1. CASE read_subscription(g) \/ assert_not_tripped(g) \/ decide(g)
  BY <1>1 DEF read_subscription, assert_not_tripped, decide
<1>2. CASE cap_intent(g) \/ within_caps(g) \/ has_unconfirmed_order(g) \/ create_intent(g)
  BY <1>2 DEF cap_intent, within_caps, has_unconfirmed_order, create_intent
<1>3. CASE get_quote(g) \/ create_order_intent(g) \/ place_order(g)
  BY <1>3 DEF get_quote, create_order_intent, place_order
<1>4. CASE record_order(g) \/ fail_intent(g)
  BY <1>4 DEF record_order, fail_intent
<1> QED
  BY <1>1, <1>2, <1>3, <1>4 DEF generate_live_order_intent

\* As long as none have overlapped, a tick that acts is alone, before and after.
LEMMA AloneStep ==
    ASSUME StatusOK, Next, overlapped = FALSE => OneTick, overlapped' = FALSE
    PROVE  /\ overlapped = FALSE /\ OneTick /\ OneTick'
           /\ \A g, h \in Generator : generate_live_order_intent(g) /\ h # g =>
                 tick[h].pc = "idle" /\ tick'[h].pc = "idle"
<1>1. ASSUME NEW g \in Generator, generate_live_order_intent(g)
      PROVE  /\ overlapped = FALSE
             /\ \A h \in Generator : h # g => tick[h].pc = "idle" /\ tick'[h].pc = "idle"
  <2>1. \A h \in Generator : h # g => tick'[h] = tick[h]
    BY <1>1, TickIsOwn
  <2>2. CASE read_subscription(g)
    <3>1. UnderWay = {} /\ overlapped = FALSE
      BY <2>2 DEF read_subscription
    <3> QED
      BY <2>1, <3>1 DEF UnderWay
  <2>3. CASE ~read_subscription(g)
    <3>1. tick[g].pc # "idle" /\ overlapped = FALSE
      BY <1>1, <2>3, TickIsOwn
    <3> QED
      BY <2>1, <3>1 DEF OneTick, UnderWay
  <2> QED
    BY <2>2, <2>3
<1>2. CASE \A g \in Generator : ~generate_live_order_intent(g)
  <2>1. UNCHANGED overlapped /\ (UNCHANGED tick \/ \A g \in Generator : tick'[g].pc = "idle")
    BY <1>2 DEF Next, expire_stale_intents, window_slides, broker_ends, book_drops,
       configure_broker, reconcile_pending_trades, reconcile_read, reconcile_settle,
       reconcile_fetch_failed, run_live_daily_signal_generation, set_autonomous_trading,
       tighten_limits, deactivate_subscription, OperatorUnchanged, evaluate_mode_drawdown,
       reset_kill_switch, KillSwitchUnchanged, Crash, Idle, tickVars
  <2> QED
    BY <1>2, <2>1 DEF OneTick, UnderWay
<1>3. CASE \E g \in Generator : generate_live_order_intent(g)
  <2>1. overlapped = FALSE /\ OneTick
    BY <1>1, <1>3
  <2>2. OneTick'
    BY <1>1, <1>3 DEF OneTick, UnderWay
  <2> QED
    BY <1>1, <2>1, <2>2
<1> QED
  BY <1>2, <1>3

\* The attempts in a window are finitely many.
LEMMA RecentFinite ==
    ASSUME StatusOK, NEW w \in Window
    PROVE  IsFiniteSet(Recent(w)) /\ Cardinality(Recent(w)) \in Nat
<1>1. windowFrom[w] \in Int /\ created \in Int
  BY LiveAssumption DEF StatusOK
<1>2. IsFiniteSet(windowFrom[w] .. created)
  BY <1>1, FS_Interval
<1>3. Recent(w) \in SUBSET (windowFrom[w] .. created)
  BY DEF Recent
<1>4. IsFiniteSet(Recent(w))
  BY <1>2, <1>3, FS_Subset
<1> QED
  BY <1>4, FS_CardinalityType

\* When the attempts in a window are among those before, they are no more.
LEMMA RecentShrinks ==
    ASSUME StatusOK, NEW w \in Window, Recent(w)' \in SUBSET Recent(w)
    PROVE  /\ Cardinality(Recent(w)) \in Nat /\ Cardinality(Recent(w)') \in Nat
           /\ Cardinality(Recent(w)') <= Cardinality(Recent(w))
<1>1. IsFiniteSet(Recent(w)) /\ Cardinality(Recent(w)) \in Nat
  BY RecentFinite
<1>2. IsFiniteSet(Recent(w)') /\ Cardinality(Recent(w)') <= Cardinality(Recent(w))
  BY <1>1, FS_Subset
<1> QED
  BY <1>1, <1>2, FS_CardinalityType

\* A window that also counts one more intent holds at most one more attempt.
LEMMA RecentGrows ==
    ASSUME StatusOK, NEW w \in Window, NEW i, Recent(w)' \in SUBSET (Recent(w) \cup {i})
    PROVE  /\ Cardinality(Recent(w)) \in Nat /\ Cardinality(Recent(w)') \in Nat
           /\ Cardinality(Recent(w)') <= Cardinality(Recent(w)) + 1
<1>1. IsFiniteSet(Recent(w)) /\ Cardinality(Recent(w)) \in Nat
  BY RecentFinite
<1> DEFINE more == Recent(w) \cup {i}
<1>2. IsFiniteSet(more) /\ Cardinality(more) <= Cardinality(Recent(w)) + 1
  <2>1. /\ IsFiniteSet(more)
        /\ \/ Cardinality(more) = Cardinality(Recent(w))
           \/ Cardinality(more) = Cardinality(Recent(w)) + 1
    BY <1>1, FS_AddElement, Zenon
  <2> QED
    BY <1>1, <2>1
<1>3. IsFiniteSet(Recent(w)') /\ Cardinality(Recent(w)') <= Cardinality(more)
  BY <1>2, FS_Subset
<1>4. Cardinality(Recent(w)') \in Nat /\ Cardinality(more) \in Nat
  BY <1>2, <1>3, FS_CardinalityType
<1> QED
  BY <1>1, <1>2, <1>3, <1>4

\* A window counts every attempt a shorter one counts.
LEMMA RecentNests ==
    ASSUME StatusOK, WindowsNest, NEW v \in Window, NEW w \in Window, v <= w
    PROVE  Cardinality(Recent(v)) <= Cardinality(Recent(w))
<1>1. IsFiniteSet(Recent(w))
  BY RecentFinite
<1>2. /\ windowFrom[w] <= windowFrom[v]
      /\ windowFrom[w] \in Int /\ windowFrom[v] \in Int /\ created \in Int
  BY LiveAssumption DEF WindowsNest, StatusOK
<1>3. \A i \in windowFrom[v] .. created : i \in windowFrom[w] .. created
  BY <1>2
<1>4. Recent(v) \in SUBSET Recent(w)
  BY <1>3 DEF Recent
<1> QED
  BY <1>1, <1>4, FS_Subset

\* Windows only slide, the longer ones behind the shorter.
LEMMA WindowsStep ==
    ASSUME StatusOK, WindowsNest, Next
    PROVE  WindowsNest' /\ \A w \in Window : windowFrom[w] <= windowFrom'[w]
<1>1. \A w \in Window : windowFrom[w] \in Int
  BY DEF StatusOK
<1>2. ASSUME NEW w \in Window, window_slides(w)
      PROVE  WindowsNest' /\ \A v \in Window : windowFrom[v] <= windowFrom'[v]
  <2>1. \A v \in Window : windowFrom'[v] = IF v = w THEN windowFrom[w] + 1 ELSE windowFrom[v]
    BY <1>2 DEF window_slides, StatusOK
  <2>2. \A v \in Window : v < w => windowFrom[v] > windowFrom[w]
    BY <1>2 DEF window_slides
  <2>3. \A v \in Window : windowFrom[v] <= windowFrom'[v]
    BY <1>1, <2>1
  <2>4. ASSUME NEW u \in Window, NEW v \in Window, u <= v
        PROVE  windowFrom'[v] <= windowFrom'[u]
    <3>1. windowFrom[v] <= windowFrom[u] /\ u \in Int /\ v \in Int /\ w \in Int
      BY <2>4, LiveAssumption DEF WindowsNest, Window
    <3>2. CASE v = w /\ u # w
      BY <1>1, <2>1, <2>2, <2>4, <3>1, <3>2
    <3>3. CASE v # w \/ u = w
      BY <1>1, <2>1, <2>4, <3>1, <3>3
    <3> QED
      BY <3>2, <3>3
  <2> QED
    BY <2>3, <2>4 DEF WindowsNest
<1>3. CASE UNCHANGED windowFrom
  BY <1>1, <1>3 DEF WindowsNest
<1> QED
  BY <1>2, <1>3 DEF Next, generate_live_order_intent, read_subscription, assert_not_tripped,
     decide, cap_intent, within_caps, has_unconfirmed_order, create_intent, NewIntent,
     get_quote, create_order_intent, place_order, record_order, fail_intent, TickUnchanged,
     expire_stale_intents, broker_ends, book_drops, configure_broker,
     reconcile_pending_trades, reconcile_read, reconcile_settle, reconcile_fetch_failed,
     run_live_daily_signal_generation, set_autonomous_trading, tighten_limits,
     deactivate_subscription, OperatorUnchanged, evaluate_mode_drawdown, reset_kill_switch,
     KillSwitchUnchanged, Crash, subVars, intentVars, orderVars, tickVars

\* Only the creation of an intent makes an attempt: one that fails, expires or is submitted
\* already was one.
LEMMA AttemptStep ==
    ASSUME IInv, Next, \A g \in Generator : ~create_intent(g),
           NEW i \in 1 .. created', status'[i] \in REAL_ATTEMPT_STATUSES
    PROVE  i \in 1 .. created /\ status[i] \in REAL_ATTEMPT_STATUSES
<1> USE LiveAssumption DEF subVars, intentVars, orderVars, tickVars, REAL_ATTEMPT_STATUSES
<1>1. ASSUME NEW g \in Generator, cap_intent(g)
      PROVE  i \in 1 .. created /\ status[i] \in REAL_ATTEMPT_STATUSES
  <2>1. /\ created \in Nat /\ created' = created + 1 /\ created + 1 \in Intent
        /\ status' = [status EXCEPT ![created + 1] = "capped"]
    BY <1>1 DEF cap_intent, NewIntent, IInv, StatusOK, Intent
  <2>2. status'[created + 1] = "capped"
    BY <2>1 DEF IInv, StatusOK
  <2>3. i # created + 1
    BY <2>2
  <2>4. i \in 1 .. created
    BY <2>1, <2>3
  <2> QED
    BY <2>1, <2>3, <2>4 DEF IInv, StatusOK
<1>2. ASSUME NEW g \in Generator, record_order(g) \/ fail_intent(g)
      PROVE  i \in 1 .. created /\ status[i] \in REAL_ATTEMPT_STATUSES
  <2>1. tick[g].mine \in Intent /\ status[tick[g].mine] \in {"generated", "expired"}
    BY <1>2 DEF record_order, fail_intent, IInv, TickSound, Submitting, StatusOK, Intent
  <2>2. /\ created' = created
        /\ \A j \in Intent : j # tick[g].mine => status'[j] = status[j]
    BY <1>2, <2>1 DEF record_order, fail_intent, IInv, StatusOK
  <2>3. i \in Intent
    BY <2>2 DEF IInv, StatusOK, Intent
  <2> QED
    BY <2>1, <2>2, <2>3
<1>3. ASSUME NEW j \in Intent, expire_stale_intents(j)
      PROVE  i \in 1 .. created /\ status[i] \in REAL_ATTEMPT_STATUSES
  BY <1>3 DEF expire_stale_intents, SWEPT_STATUSES, IInv, StatusOK, Intent
<1>4. CASE UNCHANGED <<created, status>>
  BY <1>4
<1> QED
  BY <1>1, <1>2, <1>3, <1>4 DEF Next, generate_live_order_intent, read_subscription,
     assert_not_tripped, decide, within_caps, has_unconfirmed_order, get_quote,
     create_order_intent, place_order, TickUnchanged, window_slides, broker_ends, book_drops,
     configure_broker, reconcile_pending_trades, reconcile_read, reconcile_settle,
     reconcile_fetch_failed, run_live_daily_signal_generation, set_autonomous_trading,
     tighten_limits, deactivate_subscription, OperatorUnchanged, evaluate_mode_drawdown,
     reset_kill_switch, KillSwitchUnchanged, Crash

\* So no window of any length counts more without it.
LEMMA RecentStep ==
    ASSUME IInv, WindowsNest, Next, \A g \in Generator : ~create_intent(g), NEW w \in Window
    PROVE  /\ Cardinality(Recent(w)) \in Nat /\ Cardinality(Recent(w)') \in Nat
           /\ Cardinality(Recent(w)') <= Cardinality(Recent(w))
<1>1. StatusOK /\ StatusOK'
  BY StatusStep DEF IInv
<1>2. /\ windowFrom[w] <= windowFrom'[w]
      /\ windowFrom[w] \in Nat \ {0} /\ windowFrom'[w] \in Int
      /\ created \in Nat /\ created' \in Nat
  BY <1>1, WindowsStep, LiveAssumption DEF StatusOK
<1>3. \A i \in 1 .. created' : status'[i] \in REAL_ATTEMPT_STATUSES
                                 => i \in 1 .. created /\ status[i] \in REAL_ATTEMPT_STATUSES
  BY AttemptStep
<1>4. ASSUME NEW i \in Recent(w)' PROVE i \in Recent(w)
  <2>1. i \in windowFrom'[w] .. created' /\ status'[i] \in REAL_ATTEMPT_STATUSES
    BY <1>4 DEF Recent, REAL_ATTEMPT_STATUSES
  <2>2. i \in 1 .. created'
    BY <1>2, <2>1
  <2>3. i \in 1 .. created /\ status[i] \in REAL_ATTEMPT_STATUSES
    BY <1>3, <2>1, <2>2
  <2>4. i \in windowFrom[w] .. created
    BY <1>2, <2>1, <2>3
  <2> QED
    BY <2>3, <2>4 DEF Recent
<1>5. Recent(w)' \in SUBSET Recent(w)
  BY <1>4
<1> QED
  BY <1>1, <1>5, RecentShrinks

\* Only the recording of an order adds an unconfirmed trade.
LEMMA PendingStep ==
    ASSUME IInv, Next, \A g \in Generator : ~record_order(g)
    PROVE  Pending' \subseteq Pending
<1> USE DEF subVars, intentVars, orderVars, tickVars
<1>1. CASE reconcile_settle
  BY <1>1 DEF reconcile_settle, Pending, IInv, RowsSound, StatusOK
<1>2. CASE UNCHANGED trade
  BY <1>2 DEF Pending
<1> QED
  BY <1>1, <1>2 DEF Next, generate_live_order_intent, read_subscription,
     assert_not_tripped, decide, cap_intent, within_caps, has_unconfirmed_order,
     create_intent, get_quote, create_order_intent, place_order, fail_intent, TickUnchanged,
     expire_stale_intents, window_slides, broker_ends, book_drops, configure_broker,
     reconcile_pending_trades, reconcile_read, reconcile_fetch_failed,
     run_live_daily_signal_generation, set_autonomous_trading, tighten_limits,
     deactivate_subscription, OperatorUnchanged, evaluate_mode_drawdown, reset_kill_switch,
     KillSwitchUnchanged, Crash

\* A tick is over or only begins, or it keeps the limits it read and goes through its gates
\* one after another.
LEMMA LonePath ==
    ASSUME IInv, Next, NEW g \in Generator, ~create_intent(g), ~record_order(g)
    PROVE  \/ tick'[g].pc \notin Submitting \cup {"unconfirmed", "create"}
           \/ /\ tick'[g].limits = tick[g].limits
              /\ \/ tick'[g].pc = tick[g].pc
                 \/ within_caps(g) /\ tick'[g].pc = "unconfirmed"
                 \/ has_unconfirmed_order(g) /\ tick'[g].pc = "create" /\ ~HasUnconfirmedOrder
                 \/ tick[g].pc \in Submitting /\ tick'[g].pc \in Submitting
<1> USE DEF IInv, StatusOK
<1>1. CASE generate_live_order_intent(g)
  <2> USE DEF Goto, Return, Idle, Submitting, Tick
  <2>0. tick \in [Generator -> Tick]
    OBVIOUS
  <2>1. CASE read_subscription(g) \/ assert_not_tripped(g) \/ decide(g) \/ cap_intent(g)
    <3>1. tick'[g].pc \in {"idle", "kill_switch", "decide", "caps"}
      <4>1. CASE read_subscription(g)
        BY <2>0, <4>1 DEF read_subscription
      <4>2. CASE assert_not_tripped(g)
        BY <2>0, <4>2 DEF assert_not_tripped
      <4>3. CASE decide(g)
        BY <2>0, <4>3 DEF decide
      <4>4. CASE cap_intent(g)
        BY <2>0, <4>4 DEF cap_intent
      <4> QED
        BY <2>1, <4>1, <4>2, <4>3, <4>4
    <3> QED
      BY <3>1
  <2>2. CASE within_caps(g) \/ has_unconfirmed_order(g)
    BY <2>2 DEF within_caps, has_unconfirmed_order
  <2>3. CASE get_quote(g) \/ create_order_intent(g) \/ place_order(g) \/ fail_intent(g)
    BY <2>3 DEF get_quote, create_order_intent, place_order, fail_intent
  <2> QED
    BY <1>1, <2>1, <2>2, <2>3 DEF generate_live_order_intent
<1>2. CASE Crash
  BY <1>2 DEF Crash, Idle, Submitting
<1>3. CASE tick'[g] = tick[g]
  BY <1>3
<1>4. ASSUME NEW h \in Generator \ {g}, generate_live_order_intent(h)
      PROVE  tick'[g] = tick[g]
  BY <1>4, TickIsOwn
<1> QED
  BY <1>1, <1>2, <1>3, <1>4 DEF Next, expire_stale_intents, window_slides, broker_ends,
     book_drops, configure_broker, reconcile_pending_trades, reconcile_read,
     reconcile_settle, reconcile_fetch_failed, run_live_daily_signal_generation,
     set_autonomous_trading, tighten_limits, deactivate_subscription, OperatorUnchanged,
     evaluate_mode_drawdown, reset_kill_switch, KillSwitchUnchanged, tickVars

\* The limits a tick has read are a cap within the enrolled one and a window.
LEMMA TickLimits ==
    ASSUME StatusOK, NEW g \in Generator
    PROVE  /\ tick[g].limits.window \in Window /\ Enrolled.window \in Window
           /\ tick[g].limits.cap \in Nat /\ tick[g].limits.cap <= EnrolledMax
           /\ Enrolled.window <= tick[g].limits.window
           /\ EnrolledMax \in Nat
BY LiveAssumption DEF StatusOK, Tick, Limits, Enrolled, Window

\* The only tick makes room for its attempt before it makes it.
LEMMA LoneCreates ==
    ASSUME IInv, LoneInv, Next, overlapped' = FALSE, NEW g \in Generator, create_intent(g)
    PROVE  LoneInv'
<1> DEFINE cap == tick[g].limits.cap
           v == Enrolled.window
<1>1. StatusOK /\ WindowsNest' /\ WindowsNest
  BY WindowsStep DEF IInv, LoneInv
<1>13. /\ overlapped = FALSE /\ OneTick'
       /\ \A h \in Generator : h # g => tick'[h].pc = "idle"
  BY <1>1, AloneStep DEF LoneInv, generate_live_order_intent
<1>0. PICK w \in Window : w = tick[g].limits.window
  BY <1>1, TickLimits
<1>2. v \in Window /\ cap \in Nat /\ cap <= EnrolledMax /\ v <= w /\ EnrolledMax \in Nat
  BY <1>0, <1>1, TickLimits
<1>3. ASSUME NEW u \in Window
      PROVE  /\ Cardinality(Recent(u)) \in Nat /\ Cardinality(Recent(u)') \in Nat
             /\ Cardinality(Recent(u)') <= Cardinality(Recent(u)) + 1
  <2>1. /\ created \in Int /\ created' = created + 1 /\ created + 1 \in Intent
        /\ windowFrom' = windowFrom /\ windowFrom[u] \in Int
        /\ status' = [status EXCEPT ![created + 1] = "generated"]
    BY <1>1, LiveAssumption DEF create_intent, NewIntent, StatusOK, Intent
  <2>2. ASSUME NEW i \in Recent(u)', i # created + 1 PROVE i \in Recent(u)
    <3>1. i \in windowFrom[u] .. created + 1 /\ status'[i] \in REAL_ATTEMPT_STATUSES
      BY <2>1, <2>2 DEF Recent, REAL_ATTEMPT_STATUSES
    <3>2. i \in windowFrom[u] .. created
      BY <2>1, <2>2, <3>1
    <3>3. status'[i] = status[i]
      BY <1>1, <2>1, <2>2, <3>2 DEF StatusOK
    <3> QED
      BY <3>1, <3>2, <3>3 DEF Recent
  <2>3. Recent(u)' \in SUBSET (Recent(u) \cup {created + 1})
    BY <2>2
  <2> QED
    BY <1>1, <2>3, RecentGrows
<1>4. Cardinality(Recent(w)) < cap
  <2>1. ~OverRateCap(g)
    BY <1>13 DEF create_intent, LoneInv, LoneSound
  <2>2. ~(Cardinality(Recent(w)) >= cap)
    BY <1>0, <2>1 DEF OverRateCap
  <2>3. Cardinality(Recent(w)) \in Nat
    BY <1>1, <1>2, RecentFinite
  <2> HIDE DEF cap
  <2> QED
    BY <1>2, <2>2, <2>3
<1>5. Cardinality(Recent(v)) <= Cardinality(Recent(w))
  BY <1>1, <1>2, RecentNests
<1>6. /\ Cardinality(Recent(v)') <= EnrolledMax
      /\ Cardinality(Recent(w)') <= cap
  <2>1. /\ Cardinality(Recent(w)) \in Nat /\ Cardinality(Recent(w)') \in Nat
        /\ Cardinality(Recent(w)') <= Cardinality(Recent(w)) + 1
    BY <1>2, <1>3
  <2>2. /\ Cardinality(Recent(v)) \in Nat /\ Cardinality(Recent(v)') \in Nat
        /\ Cardinality(Recent(v)') <= Cardinality(Recent(v)) + 1
    BY <1>2, <1>3
  <2> HIDE DEF cap, v
  <2> QED
    BY <1>2, <1>4, <1>5, <2>1, <2>2
<1>7. \/ tick'[g].pc = "quote" /\ tick'[g].limits = tick[g].limits
      \/ tick'[g].pc = "idle"
  BY <1>1 DEF create_intent, Return, Idle, StatusOK, Tick
<1>8. Cardinality(Recent(Enrolled.window))' <= EnrolledMax
  BY <1>6 DEF Recent, Enrolled
<1>9. tick'[g].pc \in Submitting =>
        Cardinality(Recent(tick[g].limits.window))' <= tick'[g].limits.cap
  BY <1>0, <1>6, <1>7 DEF Recent, Submitting
<1>10. RateCap'
  BY <1>8, <1>9, <1>13 DEF RateCap, Submitting
<1>11. Pending = {} /\ Pending' = Pending
  BY <1>13 DEF create_intent, TickUnchanged, orderVars, LoneInv, LoneSound, Pending
<1>12. tick'[g].pc \notin {"unconfirmed", "create"}
  BY <1>7
<1> QED
  BY <1>1, <1>10, <1>11, <1>12, <1>13 DEF LoneInv, LoneSound, OneUnconfirmed, Submitting

\* What the only tick has checked still holds when it acts on it.
LEMMA LoneStep ==
    ASSUME IInv, LoneInv, Next
    PROVE  LoneInv'
<1>1. WindowsNest /\ WindowsNest' /\ StatusOK /\ StatusOK'
  BY WindowsStep, StatusStep DEF IInv, LoneInv
<1>4. CASE overlapped' # FALSE
  BY <1>1, <1>4 DEF LoneInv, OneUnconfirmed, RateCap
<1> SUFFICES ASSUME overlapped' = FALSE PROVE LoneInv'
  BY <1>4
<1>5. overlapped = FALSE /\ OneTick /\ OneTick'
  BY <1>1, AloneStep DEF LoneInv
<1>2. ASSUME NEW g \in Generator, record_order(g) PROVE LoneInv'
  <2>6. \A h \in Generator : h # g => tick[h].pc = "idle" /\ tick'[h].pc = "idle"
    BY <1>1, <1>2, AloneStep DEF LoneInv, generate_live_order_intent
  <2>1. \A h \in Generator : ~create_intent(h)
    BY <1>2, <2>6 DEF record_order, create_intent
  <2>2. tick'[g].pc = "idle"
    BY <1>1, <1>2 DEF record_order, Return, Idle, StatusOK
  <2>3. Cardinality(Recent(Enrolled.window))' <= EnrolledMax
    <3>1. Enrolled.window \in Window /\ EnrolledMax \in Nat
      BY EnrolledType, LiveAssumption DEF Enrolled
    <3>2. /\ Cardinality(Recent(Enrolled.window)) \in Nat
          /\ Cardinality(Recent(Enrolled.window)') \in Nat
          /\ Cardinality(Recent(Enrolled.window)') <= Cardinality(Recent(Enrolled.window))
      BY <1>1, <2>1, <3>1, RecentStep
    <3>3. Cardinality(Recent(Enrolled.window)) <= EnrolledMax
      BY <1>5 DEF LoneInv, RateCap
    <3> QED
      BY <3>1, <3>2, <3>3
  <2>4. RateCap'
    BY <2>2, <2>3, <2>6 DEF RateCap, Submitting
  <2>5. Pending = {} /\ Pending' \subseteq {tick[g].mine}
    BY <1>1, <1>2, <1>5 DEF record_order, LoneInv, LoneSound, Submitting, Pending, StatusOK
  <2> QED
    BY <1>1, <1>5, <2>2, <2>4, <2>5, <2>6
       DEF LoneInv, LoneSound, OneUnconfirmed, Submitting
<1>3. ASSUME \A g \in Generator : ~create_intent(g) /\ ~record_order(g) PROVE LoneInv'
  <2>1. Pending' \subseteq Pending
    BY <1>3, PendingStep
  <2>2. OneUnconfirmed'
    BY <1>5, <2>1 DEF LoneInv, OneUnconfirmed
  <2>3. \A w \in Window : /\ Cardinality(Recent(w)) \in Nat /\ Cardinality(Recent(w)') \in Nat
                          /\ Cardinality(Recent(w)') <= Cardinality(Recent(w))
    BY <1>1, <1>3, RecentStep
  <2>4. Cardinality(Recent(Enrolled.window))' <= EnrolledMax
    <3>1. Enrolled.window \in Window /\ EnrolledMax \in Nat
      BY EnrolledType, LiveAssumption DEF Enrolled
    <3>2. Cardinality(Recent(Enrolled.window)) <= EnrolledMax
      BY <1>5 DEF LoneInv, RateCap
    <3> QED
      BY <2>3, <3>1, <3>2
  <2>5. ASSUME NEW g \in Generator
        PROVE  /\ tick'[g].pc \in Submitting \cup {"create"} => Pending' = {}
               /\ tick'[g].pc \in {"unconfirmed", "create"} => ~OverRateCap(g)'
               /\ tick'[g].pc \in Submitting =>
                    Cardinality(Recent(tick[g].limits.window))' <= tick'[g].limits.cap
    <3>1. PICK w \in Window : w = tick[g].limits.window
      BY <1>1, TickLimits
    <3>2. tick[g].limits.cap \in Nat
      BY <1>1, TickLimits
    <3>3. /\ Cardinality(Recent(w)) \in Nat /\ Cardinality(Recent(w)') \in Nat
          /\ Cardinality(Recent(w)') <= Cardinality(Recent(w))
      BY <2>3
    <3>4. /\ OverRateCap(g) <=> Cardinality(Recent(w)) >= tick[g].limits.cap
          /\ tick[g].pc \in {"unconfirmed", "create"} => ~OverRateCap(g)
          /\ tick[g].pc \in Submitting => Cardinality(Recent(w)) <= tick[g].limits.cap
          /\ tick[g].pc \in Submitting \cup {"create"} => Pending = {}
      BY <1>5, <3>1 DEF OverRateCap, LoneInv, LoneSound, RateCap
    <3>5. CASE tick'[g].pc \notin Submitting \cup {"unconfirmed", "create"}
      BY <3>5
    <3>6. CASE tick'[g].limits = tick[g].limits
      <4>1. /\ OverRateCap(g)' <=> Cardinality(Recent(w)') >= tick[g].limits.cap
            /\ Cardinality(Recent(tick[g].limits.window))' = Cardinality(Recent(w)')
        BY <3>1, <3>6 DEF OverRateCap, Recent
      <4>2. ~OverRateCap(g) => ~OverRateCap(g)'
        BY <3>2, <3>3, <3>4, <4>1
      <4>3. Cardinality(Recent(w)) <= tick[g].limits.cap
              => Cardinality(Recent(w)') <= tick[g].limits.cap
        BY <3>2, <3>3
      <4>4. within_caps(g) => ~OverRateCap(g) /\ tick[g].pc = "caps"
        BY DEF within_caps
      <4>5. has_unconfirmed_order(g) => tick[g].pc = "unconfirmed"
        BY DEF has_unconfirmed_order
      <4>6. ~HasUnconfirmedOrder => Pending = {}
        BY DEF HasUnconfirmedOrder, Pending
      <4>7. \/ tick'[g].pc = tick[g].pc
            \/ within_caps(g) /\ tick'[g].pc = "unconfirmed"
            \/ has_unconfirmed_order(g) /\ tick'[g].pc = "create" /\ ~HasUnconfirmedOrder
            \/ tick[g].pc \in Submitting /\ tick'[g].pc \in Submitting
            \/ tick'[g].pc \notin Submitting \cup {"unconfirmed", "create"}
        BY <1>3, LonePath
      <4>8. /\ "unconfirmed" \notin Submitting \cup {"create"} /\ "create" \notin Submitting
        BY DEF Submitting
      <4>9. tick'[g].pc \in Submitting \cup {"create"} => Pending' = {}
        BY <2>1, <3>4, <4>6, <4>7, <4>8
      <4>10. tick'[g].pc \in {"unconfirmed", "create"} => ~OverRateCap(g)'
        BY <3>4, <4>2, <4>4, <4>5, <4>7, <4>8
      <4>11. tick'[g].pc \in Submitting => tick[g].pc \in Submitting
        BY <4>7, <4>8
      <4>12. tick'[g].pc \in Submitting =>
               Cardinality(Recent(tick[g].limits.window))' <= tick'[g].limits.cap
        BY <3>4, <3>6, <4>1, <4>3, <4>11
      <4> QED
        BY <4>9, <4>10, <4>12
    <3> QED
      BY <1>3, <3>5, <3>6, LonePath DEF Submitting
  <2>6. RateCap'
    BY <2>4, <2>5 DEF RateCap
  <2> QED
    BY <1>1, <1>5, <2>2, <2>5, <2>6 DEF LoneInv, LoneSound
<1> QED
  BY <1>2, <1>3, LoneCreates

\* As long as no two ticks have overlapped, whatever limits are tightened and windows
\* widened under way and whatever crashes, the gates hold what they promise.
THEOREM LoneInvariance == Spec => []LoneInv
<1>1. Init => LoneInv
  <2> SUFFICES ASSUME Init PROVE LoneInv
    OBVIOUS
  <2>1. Recent(Enrolled.window) = {} /\ Pending = {}
    BY EnrolledType DEF Init, Recent, Pending, Intent, Enrolled
  <2>2. \A g \in Generator : tick[g].pc = "idle"
    BY DEF Init, Idle
  <2>3. Cardinality(Recent(Enrolled.window)) = 0
    BY <2>1, FS_EmptySet
  <2>4. RateCap
    BY <2>2, <2>3, LiveAssumption DEF RateCap, Submitting
  <2>5. WindowsNest
    BY DEF Init, WindowsNest
  <2> QED
    BY <2>1, <2>2, <2>4, <2>5
       DEF LoneInv, LoneSound, OneUnconfirmed, OneTick, UnderWay, Submitting
<1>2. IInv /\ LoneInv /\ [Next]_vars => LoneInv'
  <2>1. CASE UNCHANGED vars
    BY <2>1 DEF vars, intentVars, orderVars, tickVars, LoneInv, LoneSound, OneUnconfirmed,
       RateCap, Pending, Recent, WindowsNest, OverRateCap, OneTick, UnderWay
  <2> QED
    BY <2>1, LoneStep
<1> QED
  BY <1>1, <1>2, LiveInvariance, PTL DEF Spec

\* As long as no two ticks have overlapped, at most one order waits for its confirmation.
THEOREM LoneTickIsBounded == Spec => []OneUnconfirmed
<1>1. LoneInv => OneUnconfirmed
  BY DEF LoneInv
<1> QED
  BY <1>1, LoneInvariance, PTL

\* As long as no two ticks have overlapped, no submission makes more attempts in the window
\* in force as its tick began than the cap then in force, and no window of the enrolled
\* length ever holds more than the subscription was enrolled with.
THEOREM RateCapHolds == Spec => []RateCap
<1>1. LoneInv => RateCap
  BY DEF LoneInv
<1> QED
  BY <1>1, LoneInvariance, PTL

-----------------------------------------------------------------------------
(* The position: every confirmed fill is in it exactly once.                 *)

Summand(d, S, n) == IF n \in S THEN d[n] ELSE 0

\* total adds the quantities of the intents in S up, one intent after another.
AddsUp(total, d, S) ==
    /\ total \in [0 .. MaxIntents -> Int] /\ total[0] = 0
    /\ \A n \in 1 .. MaxIntents : total[n] = total[n - 1] + Summand(d, S, n)

\* A sum of quantities is what adding them up one after another gives.
LEMMA QuantityAddsUp ==
    ASSUME NEW d \in [Intent -> Int], NEW S
    PROVE  \E total : AddsUp(total, d, S) /\ Quantity(d, S) = total[MaxIntents]
<1> DEFINE Body(t, n) == IF n = 0 THEN 0 ELSE t[n - 1] + (IF n \in S THEN d[n] ELSE 0)
           Part(n) == IF n \in Intent /\ n \in S THEN d[n] ELSE 0
           step == [p \in Nat \X Int |-> p[2] + Part(p[1])]
           sum == CHOOSE t : t = [n \in 0 .. MaxIntents |-> Body(t, n)]
<1> USE LiveAssumption
<1>1. \A n \in Nat : Part(n) \in Int
  OBVIOUS
<1>2. \A n \in 1 .. MaxIntents : Part(n) = IF n \in S THEN d[n] ELSE 0
  BY DEF Intent
<1> HIDE DEF Part
<1>3. step \in [Nat \X Int -> Int]
  BY <1>1
<1>4. \A n \in Nat, v \in Int : step[<<n, v>>] = v + Part(n)
  OBVIOUS
<1> HIDE DEF step
<1>5. PICK f \in [0 .. MaxIntents -> Int] : Runs(f, MaxIntents, 0, step)
  <2>1. 0 \in Int /\ MaxIntents \in Nat
    OBVIOUS
  <2> QED
    BY <1>3, <2>1, Recursion
<1>6. \A n \in 0 .. MaxIntents : f[n] = Body(f, n)
  <2> TAKE n \in 0 .. MaxIntents
  <2>1. CASE n = 0
    BY <1>5, <2>1 DEF Runs
  <2>2. CASE n # 0
    <3>1. n \in 1 .. MaxIntents /\ n \in Nat /\ f[n - 1] \in Int
      BY <2>2
    <3>2. f[n] = f[n - 1] + Part(n)
      BY <1>4, <1>5, <3>1 DEF Runs
    <3> QED
      BY <1>2, <2>2, <3>1, <3>2
  <2> QED
    BY <2>1, <2>2
<1>7. f = [n \in 0 .. MaxIntents |-> Body(f, n)]
  BY <1>6
<1>8. sum = [n \in 0 .. MaxIntents |-> Body(sum, n)]
  BY <1>7, Zenon
<1>9. Quantity(d, S) = sum[MaxIntents]
  BY DEF Quantity
<1>10. DOMAIN sum = 0 .. MaxIntents /\ \A n \in 0 .. MaxIntents : sum[n] = Body(sum, n)
  <2>1. \A t : t = [n \in 0 .. MaxIntents |-> Body(t, n)]
               => DOMAIN t = 0 .. MaxIntents /\ \A n \in 0 .. MaxIntents : t[n] = Body(t, n)
    OBVIOUS
  <2> HIDE DEF sum
  <2> QED
    BY <1>8, <2>1
<1>11. sum = [n \in 0 .. MaxIntents |-> sum[n]]
  <2>1. \A t : t = [n \in 0 .. MaxIntents |-> Body(t, n)] => t = [n \in 0 .. MaxIntents |-> t[n]]
    OBVIOUS
  <2> HIDE DEF sum
  <2> QED
    BY <1>8, <2>1
<1> HIDE DEF sum
<1> DEFINE T == {n \in Nat : n <= MaxIntents => sum[n] \in Int}
<1>12. 0 \in T
  BY <1>10
<1>13. ASSUME NEW m \in T PROVE m + 1 \in T
  <2> SUFFICES ASSUME m + 1 <= MaxIntents PROVE sum[m + 1] \in Int
    OBVIOUS
  <2>1. m + 1 \in 1 .. MaxIntents /\ m + 1 \in 0 .. MaxIntents /\ sum[m] \in Int
        /\ (m + 1) - 1 = m /\ m + 1 # 0 /\ m + 1 \in Nat
    OBVIOUS
  <2>2. sum[m + 1] = sum[m] + Part(m + 1)
    BY <1>2, <1>10, <2>1
  <2> QED
    BY <1>1, <2>1, <2>2
<1>14. T = Nat
  <2>1. T \in SUBSET Nat
    OBVIOUS
  <2> HIDE DEF T
  <2> QED
    BY <1>12, <1>13, <2>1, SetInduction
<1>15. \A n \in 0 .. MaxIntents : sum[n] \in Int
  BY <1>14
<1>16. sum \in [0 .. MaxIntents -> Int]
  BY <1>11, <1>15
<1>17. \A n \in 1 .. MaxIntents : sum[n] = sum[n - 1] + Summand(d, S, n)
  BY <1>10 DEF Summand
<1>18. AddsUp(sum, d, S)
  BY <1>10, <1>16, <1>17 DEF AddsUp
<1> QED
  BY <1>9, <1>18

\* A sum of quantities is a number.
LEMMA QuantityType ==
    ASSUME NEW d \in [Intent -> Int], NEW S
    PROVE  Quantity(d, S) \in Int
<1>1. PICK total : AddsUp(total, d, S) /\ Quantity(d, S) = total[MaxIntents]
  BY QuantityAddsUp
<1> QED
  BY <1>1, LiveAssumption DEF AddsUp

\* Three sums whose summands agree intent by intent agree: this is what splits a set of
\* intents in two, and what makes the quantities of the others irrelevant.
LEMMA QuantitySplits ==
    ASSUME NEW d \in [Intent -> Int], NEW a \in [Intent -> Int], NEW b \in [Intent -> Int],
           NEW S, NEW A, NEW B,
           \A n \in Intent : Summand(d, S, n) = Summand(a, A, n) + Summand(b, B, n)
    PROVE  Quantity(d, S) = Quantity(a, A) + Quantity(b, B)
<1>1. PICK t : AddsUp(t, d, S) /\ Quantity(d, S) = t[MaxIntents]
  BY QuantityAddsUp
<1>2. PICK u : AddsUp(u, a, A) /\ Quantity(a, A) = u[MaxIntents]
  BY QuantityAddsUp
<1>3. PICK v : AddsUp(v, b, B) /\ Quantity(b, B) = v[MaxIntents]
  BY QuantityAddsUp
<1> DEFINE T == {n \in Nat : n <= MaxIntents => t[n] = u[n] + v[n]}
<1>4. 0 \in T
  BY <1>1, <1>2, <1>3 DEF AddsUp
<1>5. ASSUME NEW m \in T PROVE m + 1 \in T
  <2> SUFFICES ASSUME m + 1 <= MaxIntents PROVE t[m + 1] = u[m + 1] + v[m + 1]
    OBVIOUS
  <2>1. /\ m + 1 \in Intent /\ (m + 1) - 1 = m /\ m \in 0 .. MaxIntents
        /\ t[m] = u[m] + v[m]
    BY LiveAssumption DEF Intent
  <2>2. \A n \in Intent : /\ Summand(a, A, n) \in Int /\ Summand(b, B, n) \in Int
    BY DEF Summand
  <2>3. /\ t[m + 1] = t[m] + Summand(d, S, m + 1)
        /\ u[m + 1] = u[m] + Summand(a, A, m + 1)
        /\ v[m + 1] = v[m] + Summand(b, B, m + 1)
    BY <1>1, <1>2, <1>3, <2>1 DEF AddsUp, Intent
  <2>4. u[m] \in Int /\ v[m] \in Int
    BY <1>2, <1>3, <2>1 DEF AddsUp
  <2>5. /\ Summand(d, S, m + 1) = Summand(a, A, m + 1) + Summand(b, B, m + 1)
        /\ Summand(a, A, m + 1) \in Int /\ Summand(b, B, m + 1) \in Int
    BY <2>1, <2>2
  <2> QED
    BY <2>1, <2>3, <2>4, <2>5
<1>6. T = Nat
  <2>1. T \in SUBSET Nat
    OBVIOUS
  <2> HIDE DEF T
  <2> QED
    BY <1>4, <1>5, <2>1, SetInduction
<1>7. MaxIntents \in T
  BY <1>6, LiveAssumption
<1> QED
  BY <1>1, <1>2, <1>3, <1>7, LiveAssumption

\* No intents, no quantity.
LEMMA QuantityOfNone ==
    ASSUME NEW d \in [Intent -> Int]
    PROVE  Quantity(d, {}) = 0
<1>1. \A n \in Intent : Summand(d, {}, n) = Summand(d, {}, n) + Summand(d, {}, n)
  BY DEF Summand
<1>2. Quantity(d, {}) = Quantity(d, {}) + Quantity(d, {})
  BY <1>1, QuantitySplits
<1> QED
  BY <1>2, QuantityType

\* The quantities of intents that are not in the set do not matter.
LEMMA QuantitySame ==
    ASSUME NEW d \in [Intent -> Int], NEW e \in [Intent -> Int], NEW S \in SUBSET Intent,
           \A n \in S : d[n] = e[n]
    PROVE  Quantity(d, S) = Quantity(e, S)
<1>1. \A n \in Intent : Summand(d, S, n) = Summand(e, S, n) + Summand(e, {}, n)
  BY DEF Summand
<1>2. Quantity(d, S) = Quantity(e, S) + Quantity(e, {})
  BY <1>1, QuantitySplits
<1> QED
  BY <1>2, QuantityOfNone, QuantityType

Filled == {i \in Intent : trade[i] = "filled"}

\* The position and the quantities stay numbers.
LEMMA QuantitiesTyped ==
    ASSUME TypeOK, [Next]_vars
    PROVE  position' \in Int /\ delta' \in [Intent -> Int] /\ choice' \in [Generator -> Int]
<1> USE LiveAssumption DEF subVars, intentVars, orderVars, tickVars
<1>1. position \in Int /\ delta \in [Intent -> Int] /\ choice \in [Generator -> Int]
  BY DEF TypeOK
<1>2. ASSUME NEW g \in Generator, Return(g) PROVE choice' \in [Generator -> Int]
  BY <1>1, <1>2 DEF Return
<1>3. ASSUME NEW g \in Generator, NEW s, NewIntent(g, s) PROVE delta' \in [Intent -> Int]
  BY <1>1, <1>3 DEF NewIntent
<1>4. Decisions \subseteq Int
  BY <1>1 DEF Decisions
<1>5. ASSUME NEW g \in Generator, generate_live_order_intent(g)
      PROVE  position' \in Int /\ delta' \in [Intent -> Int] /\ choice' \in [Generator -> Int]
  <2>1. position' = position
    BY <1>5 DEF generate_live_order_intent, read_subscription, assert_not_tripped, decide,
       cap_intent, within_caps, has_unconfirmed_order, create_intent, get_quote,
       create_order_intent, place_order, record_order, fail_intent, TickUnchanged
  <2>2. delta' = delta \/ \E s : NewIntent(g, s)
    BY <1>5 DEF generate_live_order_intent, read_subscription, assert_not_tripped, decide,
       cap_intent, within_caps, has_unconfirmed_order, create_intent, get_quote,
       create_order_intent, place_order, record_order, fail_intent, TickUnchanged
  <2>3. choice' \in [Generator -> Int]
    <3>1. CASE decide(g)
      BY <1>1, <1>2, <1>4, <3>1 DEF decide
    <3>2. CASE ~decide(g)
      <4>1. choice' = choice \/ Return(g)
        BY <1>5, <3>2 DEF generate_live_order_intent, read_subscription, assert_not_tripped,
           cap_intent, within_caps, has_unconfirmed_order, create_intent, get_quote,
           create_order_intent, place_order, record_order, fail_intent, Goto
      <4> QED
        BY <1>1, <1>2, <4>1
    <3> QED
      BY <3>1, <3>2
  <2> QED
    BY <1>1, <1>3, <2>1, <2>2, <2>3
<1>6. CASE reconcile_settle
  <2>1. position' \in Int
    BY <1>1, <1>6, QuantityType DEF reconcile_settle, Applied
  <2> QED
    BY <1>1, <1>6, <2>1 DEF reconcile_settle
<1>7. CASE Crash
  <2>1. choice' \in [Generator -> Int]
    BY <1>7 DEF Crash
  <2> QED
    BY <1>1, <1>7, <2>1 DEF Crash
<1>8. CASE UNCHANGED <<position, delta, choice>>
  BY <1>1, <1>8
<1> QED
  BY <1>5, <1>6, <1>7, <1>8 DEF Next, vars, expire_stale_intents, broker_ends, book_drops,
     configure_broker, window_slides,
     reconcile_pending_trades, reconcile_read, reconcile_fetch_failed,
     run_live_daily_signal_generation, set_autonomous_trading, tighten_limits,
     deactivate_subscription, OperatorUnchanged, evaluate_mode_drawdown, reset_kill_switch,
     KillSwitchUnchanged

\* Only a settling pass moves the position or fills a trade, and no other step touches the
\* quantity, the trade or the completed order behind a fill.
LEMMA FillsKept ==
    ASSUME QuantityInv, [Next]_vars, ~reconcile_settle
    PROVE  /\ position' = position /\ Filled' = Filled
           /\ \A i \in Filled : delta'[i] = delta[i] /\ broker'[i] = broker[i]
<1> USE LiveAssumption DEF subVars, intentVars, orderVars, tickVars
<1>1. /\ IInv /\ TypeOK /\ StatusOK
      /\ \A i \in Filled : i \in Intent /\ status[i] = "submitted" /\ broker[i] = "complete"
  BY DEF QuantityInv, TypeOK, IInv, SubmittedHasTrade, PositionBacked, Filled
<1>2. ASSUME NEW g \in Generator, cap_intent(g) \/ create_intent(g)
      PROVE  /\ position' = position /\ Filled' = Filled
             /\ \A i \in Filled : delta'[i] = delta[i] /\ broker'[i] = broker[i]
  <2>1. PICK s : NewIntent(g, s)
    BY <1>2 DEF cap_intent, create_intent
  <2>2. /\ delta' = [delta EXCEPT ![created + 1] = choice[g]]
        /\ created + 1 \in Intent /\ created + 1 > created
    BY <1>1, <2>1 DEF NewIntent, StatusOK, Intent
  <2>3. status[created + 1] = "absent"
    BY <1>1, <2>2 DEF IInv, RowsSound
  <2>4. \A i \in Filled : i # created + 1
    BY <1>1, <2>3
  <2>5. \A i \in Filled : delta'[i] = delta[i]
    BY <1>1, <2>2, <2>4 DEF TypeOK
  <2>6. UNCHANGED <<position, trade, broker>>
    BY <1>2 DEF cap_intent, create_intent, TickUnchanged
  <2> QED
    BY <2>5, <2>6 DEF Filled
<1>3. ASSUME NEW g \in Generator, record_order(g) \/ place_order(g)
      PROVE  /\ position' = position /\ Filled' = Filled
             /\ \A i \in Filled : delta'[i] = delta[i] /\ broker'[i] = broker[i]
  <2>1. /\ tick[g].mine \in Intent
        /\ status[tick[g].mine] \in {"generated", "expired"}
    BY <1>1, <1>3 DEF record_order, place_order, IInv, TickSound, Submitting, StatusOK, Intent
  <2>2. tick[g].mine \notin Filled
    BY <1>1, <2>1
  <2>3. /\ UNCHANGED <<position, delta>>
        /\ \A i \in Intent \ {tick[g].mine} : trade'[i] = trade[i] /\ broker'[i] = broker[i]
        /\ trade'[tick[g].mine] \in {trade[tick[g].mine], "pending_confirmation"}
    BY <1>1, <1>3, <2>1 DEF record_order, place_order, StatusOK
  <2> QED
    BY <1>1, <2>1, <2>2, <2>3 DEF Filled
<1>4. ASSUME NEW i \in Intent, broker_ends(i)
      PROVE  /\ position' = position /\ Filled' = Filled
             /\ \A j \in Filled : delta'[j] = delta[j] /\ broker'[j] = broker[j]
  <2>1. i \notin Filled
    BY <1>1, <1>4 DEF broker_ends
  <2> QED
    BY <1>1, <1>4, <2>1 DEF broker_ends, StatusOK, Filled
<1>5. CASE UNCHANGED <<position, trade, delta, broker>>
  BY <1>5 DEF Filled
<1> QED
  BY <1>2, <1>3, <1>4, <1>5 DEF Next, vars, generate_live_order_intent, read_subscription,
     assert_not_tripped, decide, within_caps, has_unconfirmed_order, get_quote,
     create_order_intent, fail_intent, TickUnchanged, expire_stale_intents, window_slides,
     book_drops, configure_broker, reconcile_pending_trades, reconcile_read, reconcile_fetch_failed,
     run_live_daily_signal_generation, set_autonomous_trading, tighten_limits,
     deactivate_subscription, OperatorUnchanged, evaluate_mode_drawdown, reset_kill_switch,
     KillSwitchUnchanged, Crash

\* A settling pass adds the fills of its batch, none of which was in the position yet.
LEMMA SettleBacked ==
    ASSUME QuantityInv, reconcile_settle
    PROVE  PositionBacked'
<1> DEFINE new == {i \in batch : Outcome(i) = "filled"}
<1>1. /\ delta \in [Intent -> Int] /\ position = Quantity(delta, Filled)
      /\ batch \subseteq Intent /\ \A i \in batch : trade[i] = "pending_confirmation"
      /\ \A i \in Filled : broker[i] = "complete"
  BY DEF QuantityInv, TypeOK, IInv, StatusOK, RowsSound, Pending, PositionBacked, Filled
<1>2. \A i \in Intent : trade'[i] = IF i \in batch THEN Outcome(i) ELSE trade[i]
  BY DEF reconcile_settle
<1>3. Filled' = Filled \cup new
  <2>1. \A i \in Intent : trade'[i] = "filled" <=> i \in Filled \/ i \in new
    BY <1>1, <1>2, Zenon DEF Filled
  <2> QED
    BY <1>1, <2>1 DEF Filled
<1>4. Filled \cap new = {} /\ Filled \subseteq Intent /\ new \subseteq Intent
  BY <1>1 DEF Filled
<1> DEFINE all == Filled \cup new
<1> HIDE DEF new
<1>5. \A n \in Intent :
        Summand(delta, all, n) = Summand(delta, Filled, n) + Summand(delta, new, n)
  BY <1>1, <1>4 DEF Summand
<1>6. Quantity(delta, all) = Quantity(delta, Filled) + Quantity(delta, new)
  <2> HIDE DEF all
  <2> QED
    BY <1>1, <1>5, QuantitySplits
<1>7. position' = position + Quantity(delta, new) /\ UNCHANGED <<delta, broker>>
  BY DEF reconcile_settle, Applied, new, intentVars
<1>8. position' = Quantity(delta', Filled')
  BY <1>1, <1>3, <1>6, <1>7
<1>9. \A i \in new : broker[i] = "complete"
  <2>1. \A raw : Normalize(raw) = "filled" => raw = "complete"
    BY Zenon DEF Normalize
  <2>2. \A i \in batch : Outcome(i) = "filled" => broker[i] = "complete"
    BY <2>1 DEF Outcome
  <2> QED
    BY <2>2 DEF new
<1>10. \A i \in Filled' : broker'[i] = "complete"
  BY <1>1, <1>3, <1>7, <1>9
<1> QED
  BY <1>8, <1>10 DEF PositionBacked, Filled

\* The invariant behind the position, for any number of overlapping ticks.
THEOREM QuantityInvariance == Spec => []QuantityInv
<1>1. Init => IInv
  BY InitInv
<1>2. Init => QuantityInv
  <2> SUFFICES ASSUME Init PROVE QuantityInv
    OBVIOUS
  <2>1. StatusOK
    BY <1>1 DEF IInv
  <2>2. position \in Int /\ delta \in [Intent -> Int] /\ choice \in [Generator -> Int]
    BY DEF Init
  <2>3. Filled = {}
    BY DEF Init, Filled
  <2>4. position = Quantity(delta, Filled)
    BY <2>2, <2>3, QuantityOfNone DEF Init
  <2> QED
    BY <1>1, <2>1, <2>2, <2>3, <2>4 DEF QuantityInv, TypeOK, PositionBacked, Filled
<1>3. QuantityInv /\ [Next]_vars => QuantityInv'
  <2> SUFFICES ASSUME QuantityInv, [Next]_vars PROVE QuantityInv'
    OBVIOUS
  <2>1. IInv' /\ TypeOK'
    BY InvStep, QuantitiesTyped DEF QuantityInv, IInv, TypeOK
  <2>2. CASE reconcile_settle
    BY <2>1, <2>2, SettleBacked DEF QuantityInv
  <2>3. CASE ~reconcile_settle
    <3>1. /\ position' = position /\ Filled' = Filled /\ Filled \in SUBSET Intent
          /\ \A i \in Filled : delta'[i] = delta[i] /\ broker'[i] = broker[i]
      BY <2>3, FillsKept DEF Filled
    <3>2. delta \in [Intent -> Int] /\ delta' \in [Intent -> Int]
      BY <2>1 DEF QuantityInv, TypeOK
    <3>3. Quantity(delta, Filled) = Quantity(delta', Filled)
      BY <3>1, <3>2, QuantitySame
    <3>4. position = Quantity(delta, Filled) /\ \A i \in Filled : broker[i] = "complete"
      BY DEF QuantityInv, PositionBacked, Filled
    <3>5. position' = Quantity(delta', Filled') /\ \A i \in Filled' : broker'[i] = "complete"
      BY <3>1, <3>3, <3>4
    <3> QED
      BY <2>1, <3>5 DEF QuantityInv, PositionBacked, Filled
  <2> QED
    BY <2>2, <2>3
<1> QED
  BY <1>2, <1>3, PTL DEF Spec

\* Rows, coroutines and quantities stay what the code's columns and enums allow.
THEOREM LiveTyped == Spec => []TypeOK
<1>1. QuantityInv => TypeOK
  BY DEF QuantityInv
<1> QED
  BY <1>1, QuantityInvariance, PTL

\* Every share the position holds was filled at the broker, and every confirmed fill is in
\* it exactly once, for any number of overlapping ticks, passes, crashes and lost replies.
THEOREM PositionIsBacked == Spec => []PositionBacked
<1>1. QuantityInv => PositionBacked
  BY DEF QuantityInv
<1> QED
  BY <1>1, QuantityInvariance, PTL
=============================================================================
