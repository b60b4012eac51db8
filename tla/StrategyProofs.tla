--------------------------- MODULE StrategyProofs ---------------------------
(***************************************************************************)
(* What a strategy passes on its way to the market, for any number of      *)
(* requests, versions, approvals, days, fetches, fills, bars and persons.  *)
(*                                                                         *)
(* Each component has its inductive invariant, the proof that its actions  *)
(* keep it, and what follows from it; the last section puts them together. *)
(***************************************************************************)
EXTENDS MCStrategy, Lemmas

-----------------------------------------------------------------------------
(* The life cycle of a strategy.                                           *)

\* The life cycle by itself.
LifecycleSpec == LifecycleInit /\ [][LifecycleNext]_lifecycleVars

\* A request in flight is about a row that is there: rows are never removed.
FlowSet ==
    {NoFlow} \union [op: {"generate", "promote", "live"}]
             \union [op: {"sandbox"}, version: DOMAIN versions]
             \union [op: {"regenerate"}, suggestion: DOMAIN suggestions]
             \union [op: {"decide"}, request: DOMAIN approvals, approve: BOOLEAN]

\* A request that stands approved was granted by a person.
ApprovedWasGranted ==
    \A a \in DOMAIN approvals : approvals[a].status = "approved" => approvals[a].granted

\* The inductive invariant of the life cycle.
LifecycleIInv ==
    /\ LifecycleTypeOK /\ flow \in [Flow -> FlowSet] /\ ApprovedWasGranted /\ SignedOff

\* There is no strategy.
LEMMA LifecycleStart == LifecycleInit => LifecycleIInv
<1> SUFFICES ASSUME LifecycleInit PROVE LifecycleIInv
  OBVIOUS
<1>1. LifecycleTypeOK
  BY EmptySeq DEF LifecycleInit, LifecycleTypeOK, NoFlow
<1>2. flow \in [Flow -> FlowSet]
  BY DEF LifecycleInit, FlowSet
<1> QED
  BY <1>1, <1>2 DEF LifecycleInit, LifecycleIInv, ApprovedWasGranted, SignedOff

\* A gate that answers yes has found an approved request, and an approved one was granted.
LEMMA ApprovedIsGranted ==
    ASSUME NEW type, ApprovedWasGranted, is_transition_approved(type)
    PROVE  Granted(type)
<1>1. Approved(type) # {}
  BY FS_EmptySet DEF is_transition_approved
<1> QED
  BY <1>1 DEF Approved, Granted, ApprovedWasGranted

\* Only the gated transitions reach the two last statuses, and a decision taken again
\* leaves the request granted.
LEMMA LifecycleStep == LifecycleIInv /\ [LifecycleNext]_lifecycleVars => LifecycleIInv'
<1> SUFFICES ASSUME LifecycleIInv, [LifecycleNext]_lifecycleVars PROVE LifecycleIInv'
  OBVIOUS
<1> USE LifecycleAssumption DEF LifecycleIInv, LifecycleTypeOK
<1> DEFINE Grown == /\ DOMAIN versions \subseteq DOMAIN versions'
                    /\ DOMAIN suggestions \subseteq DOMAIN suggestions'
                    /\ DOMAIN approvals \subseteq DOMAIN approvals'
           Ops == {"idle", "generate", "sandbox", "regenerate", "decide", "promote", "live"}
<1>1. ASSUME Grown, NEW f \in Flow, NEW w \in FlowSet',
             flow' = [flow EXCEPT ![f] = w] \/ flow' = flow
      PROVE  flow' \in [Flow -> FlowSet'] /\ \A g \in Flow : flow'[g].op \in Ops
  <2>1. FlowSet \subseteq FlowSet'
    BY <1>1 DEF FlowSet
  <2>2. \A v \in FlowSet' : v.op \in Ops
    BY DEF FlowSet, NoFlow
  <2> QED
    BY <1>1, <2>1, <2>2
<1>2. ASSUME UNCHANGED approvals,
             strategy_status' = strategy_status \/ strategy_status' \in {"Ideation", "Coding", "Backtesting"}
      PROVE  ApprovedWasGranted' /\ SignedOff'
  BY <1>2 DEF ApprovedWasGranted, SignedOff, Granted
<1>3. NoFlow \in FlowSet' /\ \A op \in {"generate", "promote", "live"} : [op |-> op] \in FlowSet'
  BY DEF FlowSet
<1>4. ASSUME NEW f \in Flow, create_strategy(f) PROVE LifecycleIInv'
  BY <1>1, <1>2, <1>3, <1>4 DEF create_strategy, Wait, StrategyStatus
<1>5. ASSUME NEW passed \in BOOLEAN, create_version(passed)
      PROVE  /\ versions' \in Seq(StrategyVersion) /\ DOMAIN versions' = DOMAIN versions \union {Len(versions) + 1}
             /\ strategy_status' = strategy_status \/ strategy_status' = "Coding"
             /\ strategy_status' \in StrategyStatus \union {"absent"}
  <2> DEFINE v == [static_validation_passed |-> passed, sandbox |-> "none", returns |-> "none"]
  <2>1. v \in StrategyVersion
    BY DEF StrategyVersion
  <2>2. versions' = Append(versions, v)
    BY <1>5 DEF create_version
  <2> HIDE DEF v
  <2>3. versions' \in Seq(StrategyVersion) /\ DOMAIN versions' = DOMAIN versions \union {Len(versions) + 1}
    BY <2>1, <2>2, Added, LenProperties
  <2> QED
    BY <1>5, <2>3 DEF create_version, StrategyStatus
<1>6. ASSUME NEW f \in Flow, create_version_with_validation(f) PROVE LifecycleIInv'
  <2>1. PICK passed \in BOOLEAN :
           /\ create_version(passed)
           /\ IF passed THEN Wait(f, [op |-> "sandbox", version |-> Len(versions) + 1]) ELSE Done(f)
    BY <1>6 DEF create_version_with_validation
  <2>2. UNCHANGED <<approvals, suggestions, ready>>
    BY <1>6 DEF create_version_with_validation
  <2>3. [op |-> "sandbox", version |-> Len(versions) + 1] \in FlowSet'
    BY <1>5, <2>1 DEF FlowSet
  <2>4. flow' \in [Flow -> FlowSet'] /\ \A g \in Flow : flow'[g].op \in Ops
    BY <1>1, <1>3, <1>5, <2>1, <2>2, <2>3 DEF Wait, Done
  <2> QED
    BY <1>2, <1>5, <2>1, <2>2, <2>4
<1>7. ASSUME NEW f \in Flow, run_version_in_sandbox(f) PROVE LifecycleIInv'
  <2>1. PICK outcome \in {"passed", "failed"} : versions' = [versions EXCEPT ![flow[f].version].sandbox = outcome]
    BY <1>7 DEF run_version_in_sandbox
  <2>2. flow[f].version \in DOMAIN versions
    BY <1>7 DEF run_version_in_sandbox, FlowSet, NoFlow
  <2> DEFINE v == [versions[flow[f].version] EXCEPT !.sandbox = outcome]
  <2>3. v \in StrategyVersion /\ versions' = [versions EXCEPT ![flow[f].version] = v]
    <3>1. versions[flow[f].version] \in StrategyVersion
      BY <2>2, ElementOfSeq, LenProperties
    <3> QED
      BY <2>1, <2>2, <3>1 DEF StrategyVersion
  <2> HIDE DEF v
  <2>4. versions' \in Seq(StrategyVersion) /\ DOMAIN versions' = DOMAIN versions
    BY <2>2, <2>3, ExceptSeq
  <2>5. flow' = [flow EXCEPT ![f] = NoFlow] /\ UNCHANGED <<approvals, suggestions, ready>>
    BY <1>7 DEF run_version_in_sandbox, Done, Wait
  <2>6. /\ strategy_status' = strategy_status \/ strategy_status' = "Backtesting"
        /\ strategy_status' \in StrategyStatus \union {"absent"}
    BY <1>7 DEF run_version_in_sandbox, StrategyStatus
  <2> QED
    BY <1>1, <1>2, <1>3, <2>4, <2>5, <2>6
<1>8. ASSUME UNCHANGED <<strategy_status, versions, approvals, flow, ready>>, 
             suggestions' \in Seq(StrategySuggestion), DOMAIN suggestions \subseteq DOMAIN suggestions'
      PROVE  LifecycleIInv'
  <2>1. flow' \in [Flow -> FlowSet']
    BY <1>8 DEF FlowSet
  <2> QED
    BY <1>2, <1>8, <2>1
<1>9. CASE submit_suggestion
  BY <1>8, <1>9, Added DEF submit_suggestion, StrategySuggestion
<1>10. ASSUME NEW s \in 1 .. MaxSuggestions, review_suggestion(s) PROVE LifecycleIInv'
  <2>1. suggestions' \in [DOMAIN suggestions -> StrategySuggestion]
    BY <1>10, LenProperties DEF review_suggestion, StrategySuggestion
  <2> QED
    BY <1>8, <1>10, <2>1, Rewritten DEF review_suggestion
<1>11. ASSUME NEW f \in Flow, NEW s \in 1 .. MaxSuggestions, regenerate_begin(f, s) PROVE LifecycleIInv'
  <2>1. [op |-> "regenerate", suggestion |-> s] \in FlowSet'
    BY <1>11 DEF regenerate_begin, FlowSet
  <2> QED
    BY <1>1, <1>2, <1>11, <2>1 DEF regenerate_begin, Wait
<1>12. ASSUME NEW f \in Flow, regenerate_from_suggestion(f) PROVE LifecycleIInv'
  <2>1. PICK passed \in BOOLEAN : create_version(passed)
    BY <1>12 DEF regenerate_from_suggestion
  <2>2. suggestions' \in [DOMAIN suggestions -> StrategySuggestion]
    BY <1>12, LenProperties DEF regenerate_from_suggestion, StrategySuggestion
  <2>3. suggestions' \in Seq(StrategySuggestion) /\ DOMAIN suggestions' = DOMAIN suggestions
    BY <2>2, Rewritten
  <2>4. flow' = [flow EXCEPT ![f] = NoFlow] /\ UNCHANGED <<approvals, ready>>
    BY <1>12 DEF regenerate_from_suggestion, Done, Wait
  <2> QED
    BY <1>1, <1>2, <1>3, <1>5, <2>1, <2>3, <2>4
<1>13. ASSUME NEW type \in {PROMOTION, LIVE_ELIGIBILITY}, create_approval_request(type) PROVE LifecycleIInv'
  <2> DEFINE a == [type |-> type, status |-> "pending", granted |-> FALSE]
  <2>1. a \in ApprovalRequest /\ a.status # "approved"
    BY DEF ApprovalRequest
  <2>2. approvals' = Append(approvals, a) /\ UNCHANGED <<strategy_status, versions, suggestions, flow, ready>>
    BY <1>13 DEF create_approval_request
  <2> HIDE DEF a
  <2>3. /\ approvals' \in Seq(ApprovalRequest) /\ DOMAIN approvals = 1 .. Len(approvals)
        /\ DOMAIN approvals' = 1 .. Len(approvals) + 1
        /\ \A i \in DOMAIN approvals : approvals'[i] = approvals[i]
        /\ approvals'[Len(approvals) + 1] = a
    BY <2>1, <2>2, Added
  <2>4. Len(approvals) \in Nat
    BY LenProperties
  <2>5. ApprovedWasGranted'
    <3>1. \A i \in DOMAIN approvals' : i \in DOMAIN approvals \/ i = Len(approvals) + 1
      BY <2>3, <2>4
    <3> QED
      BY <2>1, <2>3, <3>1 DEF ApprovedWasGranted
  <2>6. SignedOff'
    BY <2>2, <2>3, <2>4 DEF SignedOff, Granted
  <2>7. flow' \in [Flow -> FlowSet']
    BY <2>2, <2>3, <2>4 DEF FlowSet
  <2> QED
    BY <2>2, <2>3, <2>5, <2>6, <2>7
<1>14. ASSUME NEW f \in Flow, NEW a \in 1 .. MaxApprovals, NEW approve \in BOOLEAN, decide_read(f, a, approve)
       PROVE  LifecycleIInv'
  <2>1. [op |-> "decide", request |-> a, approve |-> approve] \in FlowSet'
    BY <1>14 DEF decide_read, FlowSet
  <2> QED
    BY <1>1, <1>2, <1>14, <2>1 DEF decide_read, Wait
<1>15. ASSUME NEW f \in Flow, decide_approval_request(f) PROVE LifecycleIInv'
  <2> DEFINE a == flow[f].request
             row == [approvals[a] EXCEPT !.status = IF flow[f].approve THEN "approved" ELSE "rejected",
                                         !.granted = approvals[a].granted \/ flow[f].approve]
  <2>1. a \in DOMAIN approvals /\ flow[f].approve \in BOOLEAN
    BY <1>15 DEF decide_approval_request, FlowSet, NoFlow
  <2>2. approvals[a] \in ApprovalRequest
    BY <2>1, ElementOfSeq, LenProperties
  <2>3. approvals' = [approvals EXCEPT ![a] = row] /\ UNCHANGED <<strategy_status, versions, suggestions, ready>>
    BY <1>15 DEF decide_approval_request
  <2>4. /\ row \in ApprovalRequest /\ row.type = approvals[a].type
        /\ approvals[a].granted => row.granted
        /\ row.status = "approved" => row.granted
    BY <2>1, <2>2, Zenon DEF ApprovalRequest
  <2> HIDE DEF row
  <2>5. approvals' \in Seq(ApprovalRequest) /\ DOMAIN approvals' = DOMAIN approvals
    BY <2>1, <2>3, <2>4, ExceptSeq
  <2>6. ApprovedWasGranted'
    BY <2>1, <2>3, <2>4, <2>5 DEF ApprovedWasGranted
  <2>7. SignedOff'
    BY <2>1, <2>3, <2>4, <2>5 DEF SignedOff, Granted
  <2>8. flow' = [flow EXCEPT ![f] = NoFlow]
    BY <1>15 DEF decide_approval_request, Done, Wait
  <2> QED
    BY <1>1, <1>3, <2>3, <2>5, <2>6, <2>7, <2>8
<1>16. ASSUME NEW f \in Flow, NEW w \in FlowSet', flow' = [flow EXCEPT ![f] = w],
              UNCHANGED <<strategy_status, versions, approvals, suggestions, ready>>
       PROVE  LifecycleIInv'
  BY <1>1, <1>2, <1>16
<1>17. ASSUME NEW f \in Flow, promote_check(f) PROVE LifecycleIInv'
  BY <1>3, <1>16, <1>17 DEF promote_check, Wait
<1>18. ASSUME NEW f \in Flow, NEW overridden \in BOOLEAN, approve_live_check(f, overridden) PROVE LifecycleIInv'
  BY <1>3, <1>16, <1>18 DEF approve_live_check, Wait
<1>19. ASSUME NEW f \in Flow, flow_lost(f) PROVE LifecycleIInv'
  BY <1>3, <1>16, <1>19 DEF flow_lost, Done, Wait
<1>20. ASSUME NEW f \in Flow, promote_to_paper_trading(f) PROVE LifecycleIInv'
  <2>1. /\ Granted(PROMOTION) /\ strategy_status' = "PaperTrading" /\ flow' = [flow EXCEPT ![f] = NoFlow]
        /\ UNCHANGED <<versions, approvals, suggestions, ready>>
    BY <1>20, ApprovedIsGranted DEF promote_to_paper_trading, conditional_transition, Done, Wait
  <2>2. ApprovedWasGranted' /\ SignedOff'
    BY <2>1 DEF ApprovedWasGranted, SignedOff, Granted
  <2> QED
    BY <1>1, <1>3, <2>1, <2>2 DEF StrategyStatus
<1>21. ASSUME NEW f \in Flow, approve_strategy_for_live_eligibility(f) PROVE LifecycleIInv'
  <2>1. /\ Granted(LIVE_ELIGIBILITY) /\ strategy_status = "PaperTrading" /\ strategy_status' = "LiveEligible"
        /\ flow' = [flow EXCEPT ![f] = NoFlow] /\ UNCHANGED <<versions, approvals, suggestions, ready>>
    BY <1>21, ApprovedIsGranted DEF approve_strategy_for_live_eligibility, conditional_transition, Done, Wait
  <2>2. ApprovedWasGranted' /\ SignedOff'
    BY <2>1 DEF ApprovedWasGranted, SignedOff, Granted
  <2> QED
    BY <1>1, <1>3, <2>1, <2>2 DEF StrategyStatus
<1>22. ASSUME NEW v \in 1 .. MaxVersions, backtest_completes(v) PROVE LifecycleIInv'
  <2>1. PICK r \in {"clean", "correlated"} : versions' = [versions EXCEPT ![v].returns = r]
    BY <1>22 DEF backtest_completes
  <2>2. v \in DOMAIN versions /\ UNCHANGED <<strategy_status, approvals, suggestions, flow, ready>>
    BY <1>22 DEF backtest_completes
  <2> DEFINE w == [versions[v] EXCEPT !.returns = r]
  <2>3. w \in StrategyVersion /\ versions' = [versions EXCEPT ![v] = w]
    <3>1. versions[v] \in StrategyVersion
      BY <2>2, ElementOfSeq, LenProperties
    <3> QED
      BY <2>1, <2>2, <3>1 DEF StrategyVersion
  <2> HIDE DEF w
  <2>4. versions' \in Seq(StrategyVersion) /\ DOMAIN versions' = DOMAIN versions
    BY <2>2, <2>3, ExceptSeq
  <2>5. flow' \in [Flow -> FlowSet']
    BY <2>2, <2>4 DEF FlowSet
  <2> QED
    BY <1>2, <2>2, <2>4, <2>5
<1>23. CASE evidence_changes
  <2>1. flow' \in [Flow -> FlowSet']
    BY <1>23 DEF evidence_changes, FlowSet
  <2> QED
    BY <1>2, <1>23, <2>1 DEF evidence_changes
<1>24. CASE UNCHANGED lifecycleVars
  <2>1. flow' \in [Flow -> FlowSet']
    BY <1>24 DEF lifecycleVars, FlowSet
  <2> QED
    BY <1>2, <1>24, <2>1 DEF lifecycleVars
<1> QED
  BY <1>4, <1>6, <1>7, <1>9, <1>10, <1>11, <1>12, <1>13, <1>14, <1>15, <1>17, <1>18, <1>19, <1>20,
     <1>21, <1>22, <1>23, <1>24 DEF LifecycleNext

\* For any number of requests in flight, versions, approvals and decisions taken twice, a
\* strategy trades on paper or is eligible for live trading only by that very approval.
THEOREM SignedOffHolds == LifecycleSpec => []SignedOff
<1>1. LifecycleIInv => SignedOff
  BY DEF LifecycleIInv
<1> QED
  BY <1>1, LifecycleStart, LifecycleStep, PTL DEF LifecycleSpec

-----------------------------------------------------------------------------
(* The evidence for going live.                                            *)

\* The evidence by itself.
GoLiveSpec == GoLiveInit /\ [][GoLiveNext]_gateVars

\* Whatever closed a position began the record.
GoLiveIInv == GoLiveTypeOK /\ backtested \in BOOLEAN /\ (closing_fills > 0 => first_fill > 0)

\* No day has passed and nothing was traded.
LEMMA GoLiveStart == GoLiveInit => GoLiveIInv
<1> SUFFICES ASSUME GoLiveInit PROVE GoLiveIInv
  OBVIOUS
<1>1. backtested \in BOOLEAN
  BY Zenon DEF GoLiveInit
<1>2. GoLiveTypeOK
  BY GoLiveAssumption DEF GoLiveInit, GoLiveTypeOK, Day
<1> QED
  BY <1>1, <1>2 DEF GoLiveInit, GoLiveIInv

\* Fills are counted from the first on, and days only pass.
LEMMA GoLiveStep == GoLiveIInv /\ [GoLiveNext]_gateVars => GoLiveIInv'
<1> SUFFICES ASSUME GoLiveIInv, [GoLiveNext]_gateVars PROVE GoLiveIInv'
  OBVIOUS
<1> USE GoLiveAssumption DEF GoLiveIInv, GoLiveTypeOK, Day
<1>1. CASE NextDay
  BY <1>1 DEF NextDay
<1>2. ASSUME NEW ok \in BOOLEAN, operator_dry_run(ok) PROVE GoLiveIInv'
  BY <1>2 DEF operator_dry_run, run_shadow_order_check
<1>3. ASSUME NEW result \in {"ok", "failed", "error"}, run_daily_dry_runs(result) PROVE GoLiveIInv'
  BY <1>3 DEF run_daily_dry_runs, run_shadow_order_check
<1>4. ASSUME NEW source \in {"real", "synthetic"}, NEW administrative \in BOOLEAN, NEW closes \in BOOLEAN,
             paper_fill(source, administrative, closes)
      PROVE  GoLiveIInv'
  <2>1. CASE administrative \/ source \notin COUNTED_DATA_SOURCES
    BY <1>4, <2>1 DEF paper_fill
  <2>2. CASE ~(administrative \/ source \notin COUNTED_DATA_SOURCES)
    BY <1>4, <2>2 DEF paper_fill
  <2> QED
    BY <2>1, <2>2
<1>5. ASSUME NEW source \in {"real", "synthetic"}, backtest_recorded(source) PROVE GoLiveIInv'
  BY <1>5 DEF backtest_recorded
<1>6. CASE UNCHANGED gateVars
  BY <1>6 DEF gateVars
<1> QED
  BY <1>1, <1>2, <1>3, <1>4, <1>5, <1>6 DEF GoLiveNext

\* The days of a streak that ends on day n: clean, and with no day that is not after them.
Clean == {d \in trading_days : d \in worked_days /\ d \notin failed_days}
Streak(n) == {d \in Clean : d <= n /\ \A e \in trading_days : d <= e /\ e <= n => e \in Clean}

\* The walk back from a day counts no more days than its streak has.
LEMMA WalkCounts ==
    ASSUME GoLiveTypeOK, NEW start \in 0 .. MaxDays
    PROVE  LET walk[day \in 0 .. MaxDays] ==
                   IF day = 0 \/ day + Lookback <= start THEN 0
                   ELSE IF day \notin trading_days THEN walk[day - 1]
                   ELSE IF Broken(day) THEN 0
                   ELSE 1 + walk[day - 1]
           IN  walk[start] \in Nat /\ walk[start] <= Cardinality(Streak(start))
<1> DEFINE Body(w, day) == IF day = 0 \/ day + Lookback <= start THEN 0
                           ELSE IF day \notin trading_days THEN w[day - 1]
                           ELSE IF Broken(day) THEN 0
                           ELSE 1 + w[day - 1]
           step == [p \in Nat \X Nat |-> IF p[1] + Lookback <= start THEN 0
                                         ELSE IF p[1] \notin trading_days THEN p[2]
                                         ELSE IF Broken(p[1]) THEN 0
                                         ELSE 1 + p[2]]
           walk == CHOOSE w : w = [day \in 0 .. MaxDays |-> Body(w, day)]
<1> USE GoLiveAssumption
<1>1. step \in [Nat \X Nat -> Nat]
  OBVIOUS
<1>2. \A i, v \in Nat : step[<<i, v>>] = IF i + Lookback <= start THEN 0
                                         ELSE IF i \notin trading_days THEN v
                                         ELSE IF Broken(i) THEN 0
                                         ELSE 1 + v
  OBVIOUS
<1> HIDE DEF step
<1>3. PICK f \in [0 .. MaxDays -> Nat] : Runs(f, MaxDays, 0, step)
  BY <1>1, Recursion
<1>4. \A i \in 0 .. MaxDays : f[i] = Body(f, i)
  <2> TAKE i \in 0 .. MaxDays
  <2>1. CASE i = 0
    BY <1>3, <2>1 DEF Runs
  <2>2. CASE i # 0
    <3>1. i \in 1 .. MaxDays /\ i \in Nat /\ f[i - 1] \in Nat
      BY <2>2
    <3> QED
      BY <1>2, <1>3, <2>2, <3>1 DEF Runs
  <2> QED
    BY <2>1, <2>2
<1>5. f = [day \in 0 .. MaxDays |-> Body(f, day)]
  BY <1>4
<1>6. walk = [day \in 0 .. MaxDays |-> Body(walk, day)]
  BY <1>5, Zenon
<1>7. \A i \in 0 .. MaxDays : walk[i] = Body(walk, i)
  <2>1. \A w : w = [day \in 0 .. MaxDays |-> Body(w, day)] => \A i \in 0 .. MaxDays : w[i] = Body(w, i)
    OBVIOUS
  <2> HIDE DEF walk
  <2> QED
    BY <1>6, <2>1
<1> HIDE DEF walk
<1>8. \A n \in Nat : IsFiniteSet(Streak(n))
  <2>1. trading_days \in SUBSET (1 .. MaxDays) /\ IsFiniteSet(1 .. MaxDays)
    BY FS_Interval DEF GoLiveTypeOK, Day
  <2> QED
    BY <2>1, FS_Subset DEF Streak, Clean
<1> DEFINE Counts(n) == n <= MaxDays => walk[n] \in Nat /\ walk[n] <= Cardinality(Streak(n))
           T == {n \in Nat : Counts(n)}
<1>9. 0 \in T
  <2>1. walk[0] = 0 /\ Cardinality(Streak(0)) \in Nat
    BY <1>7, <1>8, FS_CardinalityType
  <2> QED
    BY <2>1
<1>10. ASSUME NEW m \in T PROVE m + 1 \in T
  <2> DEFINE n == m + 1
  <2> SUFFICES ASSUME n <= MaxDays PROVE walk[n] \in Nat /\ walk[n] <= Cardinality(Streak(n))
    OBVIOUS
  <2>1. n \in 0 .. MaxDays /\ n # 0 /\ n - 1 = m /\ m \in Nat /\ n \in Nat /\ m <= MaxDays /\ ~(n <= m)
    OBVIOUS
  <2>2. walk[m] \in Nat /\ walk[m] <= Cardinality(Streak(m))
    BY <2>1
  <2>3. walk[n] = IF n + Lookback <= start THEN 0
                  ELSE IF n \notin trading_days THEN walk[m]
                  ELSE IF Broken(n) THEN 0
                  ELSE 1 + walk[m]
    BY <1>7, <2>1
  <2> HIDE DEF n
  <2>4. Cardinality(Streak(n)) \in Nat /\ Cardinality(Streak(m)) \in Nat
    BY <1>8, <2>1, FS_CardinalityType
  <2>5. \A e \in trading_days : e \in Nat /\ (e <= n => e <= m \/ e = n)
    BY <2>1 DEF GoLiveTypeOK, Day
  <2>6. CASE n \notin trading_days /\ walk[n] = walk[m]
    <3>1. Streak(m) \subseteq Streak(n)
      BY <2>1, <2>5, <2>6 DEF Streak, Clean
    <3>2. Cardinality(Streak(m)) <= Cardinality(Streak(n))
      BY <1>8, <2>1, <3>1, FS_Subset
    <3> QED
      BY <2>2, <2>4, <2>6, <3>2
  <2>7. CASE n \in trading_days /\ ~Broken(n) /\ walk[n] = 1 + walk[m]
    <3>1. n \in Clean
      BY <2>7 DEF Broken, Clean
    <3>2. n \notin Streak(m) /\ Streak(m) \cup {n} \subseteq Streak(n)
      <4>1. ASSUME NEW d \in Streak(m) PROVE d \in Streak(n) /\ d # n
        BY <2>1, <2>5, <3>1, <4>1 DEF Streak, Clean
      <4>2. n \in Streak(n)
        <5>1. \A e \in trading_days : n <= e /\ e <= n => e = n
          BY <2>1, <2>5
        <5> QED
          BY <2>1, <3>1, <5>1 DEF Streak
      <4> QED
        BY <4>1, <4>2
    <3>3. Cardinality(Streak(m) \cup {n}) = Cardinality(Streak(m)) + 1 /\ IsFiniteSet(Streak(m) \cup {n})
      BY <1>8, <2>1, <3>2, FS_AddElement
    <3>4. Cardinality(Streak(m) \cup {n}) <= Cardinality(Streak(n))
      BY <1>8, <2>1, <3>2, FS_Subset
    <3> QED
      BY <2>2, <2>4, <2>7, <3>3, <3>4
  <2>8. CASE walk[n] = 0
    BY <2>4, <2>8
  <2> QED
    BY <2>3, <2>6, <2>7, <2>8
<1>11. T = Nat
  <2>1. T \in SUBSET Nat
    OBVIOUS
  <2> HIDE DEF T
  <2> QED
    BY <1>9, <1>10, <2>1, SetInduction
<1>12. walk[start] \in Nat /\ walk[start] <= Cardinality(Streak(start))
  BY <1>11
<1> QED
  BY <1>12, Zenon DEF walk

\* Whatever days there are, and however far back the streak is followed, what passes the
\* gate has had its clean days and its trades.
LEMMA GoLiveEvidence == GoLiveIInv => EligibleMeansProven
<1> SUFFICES ASSUME GoLiveIInv, evaluate_go_live_readiness(derive_go_live_evidence("near"))
             PROVE  LET clean == {d \in trading_days : d \in worked_days /\ d \notin failed_days /\ d <= today}
                        recent == {d \in clean : \A e \in trading_days : d <= e /\ e < today => e \in clean}
                    IN  /\ Cardinality(recent) >= MinCleanShadowDays
                        /\ first_fill > 0 /\ first_fill + MinCalendarDays <= today /\ closing_fills > 0
  BY DEF EligibleMeansProven
<1> DEFINE clean == {d \in trading_days : d \in worked_days /\ d \notin failed_days /\ d <= today}
           recent == {d \in clean : \A e \in trading_days : d <= e /\ e < today => e \in clean}
           start == IF today \in trading_days THEN today - 1 ELSE today
<1> USE GoLiveAssumption
<1>1. /\ GoLiveTypeOK /\ today \in 1 .. MaxDays /\ trading_days \in SUBSET (1 .. MaxDays)
      /\ closing_fills \in Nat /\ first_fill \in 0 .. MaxDays /\ (closing_fills > 0 => first_fill > 0)
  BY DEF GoLiveIInv, GoLiveTypeOK, Day
<1>2. /\ calendar_days_running >= MinCalendarDays /\ clean_shadow_streak >= MinCleanShadowDays
      /\ (IF closing_fills > 0 /\ backtested THEN "near" ELSE "unknown") = "near"
  BY DEF evaluate_go_live_readiness, derive_go_live_evidence
<1>3. closing_fills > 0 /\ first_fill > 0 /\ first_fill + MinCalendarDays <= today
  BY <1>1, <1>2 DEF calendar_days_running
<1>4. start \in 0 .. MaxDays /\ start <= today
  BY <1>1
<1>5. IsFiniteSet(recent) /\ Cardinality(recent) \in Nat
  <2>0. 1 \in Int /\ MaxDays \in Int
    OBVIOUS
  <2>1. IsFiniteSet(1 .. MaxDays) /\ recent \subseteq 1 .. MaxDays
    BY <1>1, <2>0, FS_Interval
  <2>2. IsFiniteSet(recent)
    BY <2>1, FS_Subset
  <2> QED
    BY <2>2, FS_CardinalityType
<1>6. Streak(start) \subseteq recent
  <2>1. \A d \in trading_days : d \in Nat /\ (d <= start => d <= today) /\ (d < today => d <= start)
    BY <1>1
  <2> HIDE DEF start
  <2> QED
    BY <2>1 DEF Streak, Clean
<1>7. PICK w \in Nat :
        /\ w <= Cardinality(Streak(start))
        /\ clean_shadow_streak = IF today \in trading_days \cap failed_days THEN 0
                                 ELSE (IF today \in trading_days \cap worked_days THEN 1 ELSE 0) + w
  <2> DEFINE walk == CHOOSE w : w = [day \in 0 .. MaxDays |->
                         IF day = 0 \/ day + Lookback <= start THEN 0
                         ELSE IF day \notin trading_days THEN w[day - 1]
                         ELSE IF Broken(day) THEN 0
                         ELSE 1 + w[day - 1]]
  <2>1. walk[start] \in Nat /\ walk[start] <= Cardinality(Streak(start))
    <3> HIDE DEF start
    <3> QED
      BY <1>1, <1>4, WalkCounts, Zenon
  <2>2. clean_shadow_streak = IF today \in trading_days \cap failed_days THEN 0
                              ELSE (IF today \in trading_days \cap worked_days THEN 1 ELSE 0) + walk[start]
    BY Zenon DEF clean_shadow_streak
  <2> HIDE DEF walk
  <2> QED
    BY <2>1, <2>2
<1> HIDE DEF recent
<1>8. Cardinality(Streak(start)) <= Cardinality(recent) /\ IsFiniteSet(Streak(start))
  BY <1>5, <1>6, FS_Subset
<1>9. Cardinality(Streak(start)) \in Nat
  BY <1>8, FS_CardinalityType
<1>10. CASE today \in trading_days \cap failed_days
  BY <1>2, <1>3, <1>5, <1>7, <1>10 DEF recent
<1>11. CASE today \notin trading_days \cap failed_days /\ today \notin trading_days \cap worked_days
  <2>1. clean_shadow_streak = w
    BY <1>7, <1>11
  <2>2. Cardinality(recent) >= MinCleanShadowDays
    BY <1>2, <1>5, <1>7, <1>8, <1>9, <2>1
  <2> QED
    BY <1>3, <2>2 DEF recent
<1>12. CASE today \notin trading_days \cap failed_days /\ today \in trading_days \cap worked_days
  <2>1. clean_shadow_streak = 1 + w
    BY <1>7, <1>12
  <2>2. today \notin Streak(start) /\ Streak(start) \cup {today} \subseteq recent
    <3>1. today \in clean
      BY <1>1, <1>12
    <3>2. today \in recent
      BY <1>1, <3>1 DEF recent
    <3>3. ~(today <= start)
      BY <1>1, <1>12
    <3> QED
      BY <1>6, <3>2, <3>3 DEF Streak
  <2>3. Cardinality(Streak(start) \cup {today}) = Cardinality(Streak(start)) + 1
    BY <1>8, <2>2, FS_AddElement
  <2>4. Cardinality(Streak(start) \cup {today}) <= Cardinality(recent)
    BY <1>5, <2>2, FS_Subset
  <2>5. Cardinality(recent) >= MinCleanShadowDays
    BY <1>2, <1>5, <1>7, <1>9, <2>1, <2>3, <2>4
  <2> QED
    BY <1>3, <2>5 DEF recent
<1> QED
  BY <1>10, <1>11, <1>12

-----------------------------------------------------------------------------
(* The price history.                                                      *)

\* The history by itself.
LakeSpec == LakeInit /\ [][LakeNext]_lakeVars

\* A fetch under way carries its days, and the source it chose when it began.
Source == Feed \union {"synthetic"}
AtCandles == [at: {"candles"}, days: SUBSET LakeDay, source: Source, purge: BOOLEAN]
AtStore == [at: {"store"}, days: SUBSET LakeDay, source: Source, purge: BOOLEAN, open: 0 .. MaxLakeDays]
FetchSet == {NoFetch} \union AtCandles \union AtStore

\* Generated bars are never mixed with a broker's.
ModesApart ==
    /\ synthetic_mode = TRUE => \A d \in LakeDay : bars[d] \in UNREAL
    /\ \A f \in Fetcher : fetch[f] # NoFetch => (fetch[f].source = "synthetic" <=> synthetic_mode = TRUE)

\* Unless two brokers were once fetched from together, what is fetched and what is stored
\* is of one source.
FetchesAgree ==
    overlapped = FALSE =>
        /\ \A d, e \in LakeDay : bars[d] \notin UNREAL /\ bars[e] \notin UNREAL => bars[d] = bars[e]
        /\ \A f \in Fetcher : fetch[f] # NoFetch =>
             /\ \A g \in Fetcher : fetch[g] # NoFetch => fetch[g].source = fetch[f].source
             /\ \A d \in LakeDay : bars[d] \notin UNREAL => bars[d] = fetch[f].source

\* The inductive invariant of the price history.
LakeIInv ==
    /\ LakeTypeOK /\ synthetic_mode \in BOOLEAN /\ overlapped \in BOOLEAN
    /\ fetch \in [Fetcher -> FetchSet] /\ ModesApart /\ FetchesAgree

\* Nothing is stored and nothing fetched.
LEMMA LakeStart == LakeInit => LakeIInv
<1> SUFFICES ASSUME LakeInit PROVE LakeIInv
  OBVIOUS
<1>1. synthetic_mode \in BOOLEAN /\ overlapped = FALSE /\ lake_copy = FALSE
  BY Zenon DEF LakeInit
<1>2. LakeTypeOK
  <2>1. linked \subseteq Feed /\ lake_day \in LakeDay
    BY DataLakeAssumption DEF LakeInit, LakeDay
  <2>2. bars \in [LakeDay -> Feed \cup UNREAL] /\ forming \subseteq LakeDay /\ fresh_days \subseteq LakeDay
    BY DEF LakeInit, UNREAL
  <2> QED
    BY <1>1, <2>1, <2>2 DEF LakeTypeOK
<1>3. fetch \in [Fetcher -> FetchSet] /\ \A f \in Fetcher : fetch[f] = NoFetch
  BY DEF LakeInit, FetchSet
<1>4. \A d \in LakeDay : bars[d] \in UNREAL
  BY DEF LakeInit, UNREAL
<1> QED
  BY <1>1, <1>2, <1>3, <1>4 DEF LakeIInv, ModesApart, FetchesAgree

\* The newest real bar is one.
LEMMA PinnedIsReal ==
    ASSUME _real_mask # {}, DataLakeAssumption
    PROVE  \E d \in LakeDay : bars[d] \notin UNREAL /\ pinned_source = bars[d]
<1>1. _real_mask \in SUBSET Nat /\ \A d \in _real_mask : d <= MaxLakeDays
  BY DataLakeAssumption DEF _real_mask, LakeDay
<1>2. PICK m \in _real_mask : {c \in _real_mask : c > m} = {}
  BY <1>1, DataLakeAssumption, Greatest
<1>3. \A e \in _real_mask : e <= m
  BY <1>1, <1>2
<1> DEFINE newest == CHOOSE d \in _real_mask : \A e \in _real_mask : e <= d
<1>4. newest \in _real_mask
  BY <1>3
<1>5. pinned_source = bars[newest]
  BY DEF pinned_source
<1> QED
  BY <1>4, <1>5 DEF _real_mask

\* A fetch begins from the source of the real bars, or from any when there is none; that it
\* is not the source of those under way is remembered.
LEMMA FetchStarts ==
    ASSUME LakeIInv, NEW f \in Fetcher, NEW days \in SUBSET LakeDay, NEW purge \in BOOLEAN,
           start_fetch(f, days, purge)
    PROVE  LakeIInv'
<1> USE DataLakeAssumption
<1> DEFINE Sources == IF synthetic_mode THEN {"synthetic"} ELSE history_adapter
<1>1. PICK source \in Sources :
        /\ fetch' = [fetch EXCEPT ![f] = [at |-> "candles", days |-> days, source |-> source, purge |-> purge]]
        /\ overlapped' = (overlapped \/ \E g \in Fetcher : fetch[g] # NoFetch /\ fetch[g].source # source)
  BY DEF start_fetch, SetFetch
<1>2. UNCHANGED <<synthetic_mode, linked, lake_day, session_over, bars, forming, torn_file, fresh_days, lake_copy>>
  BY DEF start_fetch, FetchOnly, BarsKept
<1>3. fetch[f] = NoFetch
  BY DEF start_fetch
<1> DEFINE job == [at |-> "candles", days |-> days, source |-> source, purge |-> purge]
<1>4. /\ source \in Source
      /\ source = "synthetic" <=> synthetic_mode = TRUE
      /\ ~synthetic_mode => source \in Feed /\ (_real_mask # {} => source = pinned_source)
  <2>1. CASE synthetic_mode
    BY <2>1 DEF Source, LakeIInv
  <2>2. CASE ~synthetic_mode
    <3>1. source \in history_adapter
      BY <2>2
    <3>2. source \in Feed
      BY <3>1 DEF history_adapter, LakeIInv, LakeTypeOK
    <3>3. source # "synthetic"
      BY <3>2
    <3>4. _real_mask # {} => source = pinned_source
      <4>1. SUFFICES ASSUME _real_mask # {} PROVE source = pinned_source
        OBVIOUS
      <4>2. pinned_source # "none"
        BY <4>1, PinnedIsReal DEF UNREAL
      <4> QED
        BY <3>1, <4>2 DEF history_adapter
    <3> QED
      BY <2>2, <3>2, <3>3, <3>4 DEF Source, LakeIInv
  <2> QED
    BY <2>1, <2>2
<1>5. job \in AtCandles /\ job # NoFetch /\ job.source = source
  BY <1>4 DEF AtCandles, NoFetch
<1> HIDE DEF job
<1>6. /\ fetch' \in [Fetcher -> FetchSet]
      /\ fetch'[f] = job /\ \A g \in Fetcher : g # f => fetch'[g] = fetch[g]
  BY <1>1, <1>5 DEF job, LakeIInv, FetchSet
<1>7. overlapped' \in BOOLEAN /\ (overlapped' = FALSE => overlapped = FALSE /\
        \A g \in Fetcher : fetch[g] # NoFetch => fetch[g].source = source)
  BY <1>1, Zenon DEF LakeIInv
<1>8. ModesApart'
  BY <1>2, <1>4, <1>5, <1>6 DEF LakeIInv, ModesApart, LakeDay
<1>9. overlapped = FALSE => \A d \in LakeDay : bars[d] \notin UNREAL => bars[d] = source
  <2>1. SUFFICES ASSUME overlapped = FALSE, NEW d \in LakeDay, bars[d] \notin UNREAL PROVE bars[d] = source
    OBVIOUS
  <2>2. d \in _real_mask
    BY <2>1 DEF _real_mask
  <2>3. ~synthetic_mode
    BY <2>1 DEF LakeIInv, ModesApart
  <2>4. PICK e \in LakeDay : bars[e] \notin UNREAL /\ pinned_source = bars[e]
    BY <2>2, PinnedIsReal
  <2> QED
    BY <1>4, <2>1, <2>2, <2>3, <2>4 DEF LakeIInv, FetchesAgree
<1>10. FetchesAgree'
  BY <1>2, <1>5, <1>6, <1>7, <1>9 DEF LakeIInv, FetchesAgree, LakeDay
<1>11. LakeTypeOK'
  BY <1>2 DEF LakeIInv, LakeTypeOK, LakeDay
<1> QED
  BY <1>2, <1>6, <1>7, <1>8, <1>10, <1>11 DEF LakeIInv

\* Every other step stores what a fetch holds, stores what is not real, or stores nothing.
LEMMA LakeStep == LakeIInv /\ [LakeNext]_lakeVars => LakeIInv'
<1> SUFFICES ASSUME LakeIInv, [LakeNext]_lakeVars PROVE LakeIInv'
  OBVIOUS
<1> USE DataLakeAssumption
<1>0. \A f \in Fetcher : fetch[f] \in FetchSet
  BY DEF LakeIInv
<1>1. ASSUME NEW b \in Feed, Links(b) PROVE LakeIInv'
  BY <1>1 DEF Links, LakeIInv, LakeTypeOK, LakeDay, ModesApart, FetchesAgree
<1>2. CASE LakeClock
  BY <1>2 DEF LakeClock, LakeIInv, LakeTypeOK, LakeDay, ModesApart, FetchesAgree
<1>3. ASSUME NEW f \in Fetcher,
             \/ run_incremental_daily_job(f) \/ run_history_gap_repair(f)
             \/ run_symbol_history_backfill(f) \/ run_daily_ingestion_endpoint(f)
      PROVE  LakeIInv'
  <2>1. \E days \in SUBSET LakeDay, purge \in BOOLEAN : start_fetch(f, days, purge)
    <3>1. lake_day \in LakeDay /\ 1 .. lake_day \subseteq LakeDay
      BY DEF LakeIInv, LakeTypeOK, LakeDay
    <3>2. CASE run_incremental_daily_job(f)
      BY <3>1, <3>2 DEF run_incremental_daily_job
    <3>3. CASE run_symbol_history_backfill(f)
      BY <3>1, <3>3 DEF run_symbol_history_backfill
    <3>4. CASE run_daily_ingestion_endpoint(f)
      BY <3>1, <3>4 DEF run_daily_ingestion_endpoint
    <3>5. CASE run_history_gap_repair(f)
      <4>1. CASE _real_history_state < MinHistory
        BY <3>1, <3>5, <4>1 DEF run_history_gap_repair, run_symbol_history_backfill
      <4>2. CASE ~(_real_history_state < MinHistory)
        <5> DEFINE newest == CHOOSE d \in _real_mask : \A e \in _real_mask : e <= d
                   gap == lake_day - newest + 2
                   back == IF gap > RepairDays THEN gap ELSE RepairDays
                   days == {d \in 1 .. lake_day : lake_day <= d + back}
        <5>1. start_fetch(f, days, FALSE)
          BY <3>5, <4>2, Zenon DEF run_history_gap_repair
        <5>2. days \in SUBSET LakeDay
          BY <3>1
        <5> QED
          BY <5>1, <5>2
      <4> QED
        BY <4>1, <4>2
    <3> QED
      BY <1>3, <3>2, <3>3, <3>4, <3>5
  <2> QED
    BY <2>1, FetchStarts
<1>4. ASSUME NEW f \in Fetcher, daily_bars(f) PROVE LakeIInv'
  <2> DEFINE job == [at |-> "store", days |-> fetch[f].days, source |-> fetch[f].source,
                     purge |-> fetch[f].purge, open |-> IF session_over THEN 0 ELSE lake_day]
  <2>1. fetch[f] \in AtCandles
    BY <1>0, <1>4 DEF daily_bars, FetchSet, NoFetch, AtStore
  <2>2. job \in AtStore /\ job # NoFetch /\ job.source = fetch[f].source /\ fetch[f] # NoFetch
    BY <2>1 DEF AtStore, AtCandles, NoFetch, LakeIInv, LakeTypeOK, LakeDay
  <2>3. fetch' = [fetch EXCEPT ![f] = job]
    BY <1>4 DEF daily_bars, SetFetch
  <2> HIDE DEF job
  <2>4. /\ fetch' \in [Fetcher -> FetchSet]
        /\ \A g \in Fetcher : (fetch'[g] # NoFetch <=> fetch[g] # NoFetch)
                              /\ (fetch[g] # NoFetch => fetch'[g].source = fetch[g].source)
    BY <2>2, <2>3 DEF LakeIInv, FetchSet
  <2> QED
    BY <1>4, <2>4 DEF daily_bars, FetchOnly, BarsKept, LakeIInv, LakeTypeOK, LakeDay, ModesApart, FetchesAgree
<1>5. ASSUME NEW f \in Fetcher, fetch_fails(f) PROVE LakeIInv'
  <2>1. /\ fetch' \in [Fetcher -> FetchSet]
        /\ \A g \in Fetcher : fetch'[g] # NoFetch => fetch'[g] = fetch[g]
    BY <1>5 DEF fetch_fails, SetFetch, LakeIInv, FetchSet
  <2> QED
    BY <1>5, <2>1 DEF fetch_fails, FetchOnly, BarsKept, LakeIInv, LakeTypeOK, LakeDay, ModesApart, FetchesAgree
<1>6. ASSUME NEW f \in Fetcher, write_daily_bars(f) PROVE LakeIInv'
  <2> DEFINE job == fetch[f]
             stored == Final(job)
             rows == purge_unreal_daily_rows(job)
  <2>1. job \in AtStore /\ job # NoFetch
    BY <1>0, <1>6 DEF write_daily_bars, FetchSet, NoFetch, AtCandles, AtStore
  <2>2. stored \subseteq LakeDay /\ job.source \in Source
    BY <2>1 DEF Final, AtStore
  <2>3. /\ bars' = _write_partitioned(rows, stored, job.source)
        /\ forming' = (forming \ stored) \cup (stored \cap {job.open})
        /\ fresh_days' = fresh_days \cup {d \in stored : \A e \in stored : e <= d}
        /\ fetch' = [fetch EXCEPT ![f] = NoFetch]
        /\ UNCHANGED <<synthetic_mode, linked, lake_day, session_over, lake_copy, torn_file, overlapped>>
    BY <1>6 DEF write_daily_bars, SetFetch, FetchOnly, _upsert_freshness_record
  <2> HIDE DEF stored
  <2>4. \A d \in LakeDay : rows[d] = bars[d] \/ rows[d] = "none"
    BY DEF purge_unreal_daily_rows
  <2>5. \A d \in LakeDay : bars'[d] = bars[d] \/ bars'[d] = "none" \/ bars'[d] = job.source
    <3> HIDE DEF rows
    <3> QED
      BY <2>3, <2>4 DEF _write_partitioned
  <2> HIDE DEF job, rows
  <2>6. bars' \in [LakeDay -> Feed \cup UNREAL]
    <3>1. bars' = [d \in LakeDay |-> bars'[d]]
      BY <2>3 DEF _write_partitioned
    <3>2. \A d \in LakeDay : bars'[d] \in Feed \cup UNREAL
      BY <2>2, <2>5 DEF LakeIInv, LakeTypeOK, Source, UNREAL
    <3> QED
      BY <3>1, <3>2
  <2>7. /\ fetch' \in [Fetcher -> FetchSet]
        /\ \A g \in Fetcher : fetch'[g] # NoFetch => fetch'[g] = fetch[g]
    BY <2>3 DEF LakeIInv, FetchSet
  <2>8. LakeTypeOK'
    BY <2>2, <2>3, <2>6 DEF LakeIInv, LakeTypeOK, LakeDay
  <2>9. ModesApart'
    <3>1. job.source = "synthetic" <=> synthetic_mode = TRUE
      BY <2>1 DEF LakeIInv, ModesApart, job
    <3> QED
      BY <2>3, <2>5, <2>7, <3>1 DEF LakeIInv, ModesApart, UNREAL, LakeDay
  <2>10. FetchesAgree'
    <3>1. overlapped = FALSE =>
            /\ \A g \in Fetcher : fetch[g] # NoFetch => fetch[g].source = job.source
            /\ \A d \in LakeDay : bars[d] \notin UNREAL => bars[d] = job.source
      BY <2>1 DEF LakeIInv, FetchesAgree, job
    <3>2. overlapped = FALSE => \A d \in LakeDay : bars'[d] \notin UNREAL => bars'[d] = job.source
      BY <2>5, <3>1 DEF UNREAL
    <3> QED
      BY <2>3, <2>7, <3>1, <3>2 DEF FetchesAgree, LakeDay
  <2> QED
    BY <2>3, <2>7, <2>8, <2>9, <2>10 DEF LakeIInv
<1>7. CASE LakeProcessDies
  <2>1. fetch' \in [Fetcher -> FetchSet] /\ \A g \in Fetcher : fetch'[g] = NoFetch
    BY <1>7 DEF LakeProcessDies, FetchSet
  <2> QED
    BY <1>7, <2>1 DEF LakeProcessDies, FetchOnly, LakeIInv, LakeTypeOK, LakeDay, ModesApart, FetchesAgree
<1>8. ASSUME NEW d \in LakeDay, NEW fetched \in BOOLEAN, run_bhavcopy_fallback(d, fetched) PROVE LakeIInv'
  <2> DEFINE from == IF fetched THEN "unknown" ELSE "synthetic"
  <2>1. from \in UNREAL
    BY DEF UNREAL
  <2>2. bars' = _write_partitioned(bars, {d}, from)
    BY <1>8, Zenon DEF run_bhavcopy_fallback
  <2> HIDE DEF from
  <2>3. bars' \in [LakeDay -> Feed \cup UNREAL] /\ \A e \in LakeDay : bars'[e] \in UNREAL \/ bars'[e] = bars[e]
    BY <2>1, <2>2 DEF _write_partitioned, LakeIInv, LakeTypeOK
  <2>4. /\ forming' = forming \ {d} /\ fresh_days' \subseteq LakeDay
        /\ UNCHANGED <<synthetic_mode, linked, lake_day, session_over, lake_copy, fetch, torn_file, overlapped>>
    BY <1>8 DEF run_bhavcopy_fallback, FetchOnly, _upsert_freshness_record, LakeIInv, LakeTypeOK
  <2>5. LakeTypeOK'
    BY <2>3, <2>4 DEF LakeIInv, LakeTypeOK, LakeDay
  <2> QED
    BY <2>3, <2>4, <2>5 DEF LakeIInv, ModesApart, FetchesAgree, LakeDay
<1>9. CASE run_nightly_backup
  BY <1>9 DEF run_nightly_backup, LakeIInv, LakeTypeOK, LakeDay, ModesApart, FetchesAgree
<1>10. CASE UNCHANGED lakeVars
  BY <1>10 DEF lakeVars, LakeIInv, LakeTypeOK, LakeDay, ModesApart, FetchesAgree
<1> QED
  BY <1>1, <1>2, <1>3, <1>4, <1>5, <1>6, <1>7, <1>8, <1>9, <1>10 DEF LakeNext

\* What the invariant says of the real bars.
LEMMA OneSourceFollows == LakeIInv => OneSourcePerSymbol
<1> SUFFICES ASSUME LakeIInv, overlapped = FALSE PROVE Cardinality(RealSources) <= 1
  BY Zenon DEF OneSourcePerSymbol, LakeIInv
<1>1. CASE RealSources = {}
  <2>1. Cardinality({}) = 0
    BY FS_EmptySet
  <2> QED
    BY <1>1, <2>1
<1>2. CASE RealSources # {}
  <2>1. PICK s : s \in RealSources
    BY <1>2
  <2>2. RealSources = {s}
    BY <2>1 DEF RealSources, _real_mask, LakeIInv, FetchesAgree
  <2>3. Cardinality({s}) = 1
    BY FS_Singleton
  <2> QED
    BY <2>2, <2>3
<1> QED
  BY <1>1, <1>2

\* Unless two brokers were fetched from at once the real bars of a symbol are of one, for
\* any number of brokers, fetches and days (lake.py, broker_provider.py).
THEOREM OneSourcePerSymbolHolds == LakeSpec => []OneSourcePerSymbol
BY LakeStart, LakeStep, OneSourceFollows, PTL DEF LakeSpec

-----------------------------------------------------------------------------
(* Backtests: the trades of two series that agree before a bar.            *)

\* The trades finished before bar k, and how those begun before it were begun.
Finished(ts, k) == {ts[i] : i \in {j \in DOMAIN ts : ts[j].exit < k}}
Begun(ts, k) == {<<ts[i].entry, ts[i].bought_at, ts[i].quantity>> : i \in {j \in DOMAIN ts : ts[j].entry < k}}

\* Two series of prices that agree before bar k, and two of positions that agree up to it.
SamePast(series, other, k) == \A i \in 1 .. k - 1 : series[i] = other[i]
Position == [1 .. Bars -> {0, 1}]
SameTaken(pos, other, k) == \A i \in 1 .. k : pos[i] = other[i]

\* What a trade of bar i to bar x is.
LEMMA TradeFields ==
    ASSUME NEW series, NEW i, NEW x, NEW c
    PROVE  RoundTrip(series, i, x, c).entry = i /\ RoundTrip(series, i, x, c).exit = x
BY DEF RoundTrip

\* A series has its bars.
LEMMA SeriesLen == ASSUME NEW series \in Series PROVE Len(series) = Bars /\ DOMAIN series = 1 .. Bars /\ Bars \in Nat
<1>1. Bars \in Nat
  BY BacktestsAssumption
<1>2. series \in Seq(Bar)
  BY <1>1, IsASeq DEF Series
<1> QED
  BY <1>1, <1>2, LenProperties DEF Series

\* How a trade begins is known when it begins; what it makes, when it has ended.
LEMMA SameTrade ==
    ASSUME NEW series \in Series, NEW other \in Series, NEW k \in 2 .. Bars, SamePast(series, other, k),
           NEW i \in 1 .. k - 1, NEW x, NEW y, NEW c
    PROVE  /\ RoundTrip(series, i, x, c).bought_at = RoundTrip(other, i, y, c).bought_at
           /\ RoundTrip(series, i, x, c).quantity = RoundTrip(other, i, y, c).quantity
           /\ x = y /\ x \in 1 .. k - 1 => RoundTrip(series, i, x, c) = RoundTrip(other, i, y, c)
<1>1. series[i] = other[i] /\ Len(series) = Bars /\ Len(other) = Bars /\ Bars \in Nat /\ k \in Nat /\ k <= Bars
  BY SeriesLen DEF SamePast
<1>2. /\ RoundTrip(series, i, x, c).bought_at = RoundTrip(other, i, y, c).bought_at
      /\ RoundTrip(series, i, x, c).quantity = RoundTrip(other, i, y, c).quantity
  BY <1>1, Zenon DEF RoundTrip
<1>3. ASSUME x = y, x \in 1 .. k - 1 PROVE RoundTrip(series, i, x, c) = RoundTrip(other, i, y, c)
  <2>1. series[x] = other[x] /\ x < Len(series) /\ x < Len(other)
    BY <1>1, <1>3 DEF SamePast
  <2> QED
    BY <1>1, <1>3, <2>1, Zenon DEF RoundTrip
<1> QED
  BY <1>2, <1>3

\* The signals of bars before k are of what was known then.
LEMMA SameSignals ==
    ASSUME NEW series \in Series, NEW other \in Series, NEW k \in 2 .. Bars, SamePast(series, other, k),
           NEW window \in Nat
    PROVE  /\ Shifted(generate_builtin_signals(series, window)) \in Position
           /\ Shifted(generate_builtin_signals(other, window)) \in Position
           /\ SameTaken(Shifted(generate_builtin_signals(series, window)),
                        Shifted(generate_builtin_signals(other, window)), k)
<1> DEFINE s == generate_builtin_signals(series, window)
           t == generate_builtin_signals(other, window)
<1>1. DOMAIN series = 1 .. Bars /\ DOMAIN other = 1 .. Bars /\ Bars \in Nat /\ k \in Nat /\ k <= Bars /\ 2 <= k
  BY SeriesLen
<1>2. ASSUME NEW b \in Series PROVE generate_builtin_signals(b, window) \in Position
  <2>1. DOMAIN b = 1 .. Bars
    BY SeriesLen
  <2> QED
    BY <2>1 DEF generate_builtin_signals, Position
<1>3. ASSUME NEW i \in 1 .. k - 1 PROVE s[i] = t[i]
  <2> DEFINE first == IF i > window THEN i - window + 1 ELSE 1
             f == [j \in DOMAIN series |-> IF j \in first .. i THEN series[j].close ELSE 0]
             g == [j \in DOMAIN other |-> IF j \in first .. i THEN other[j].close ELSE 0]
  <2>1. i \in 1 .. Bars /\ series[i] = other[i]
    BY <1>1 DEF SamePast
  <2>2. \A j \in 1 .. Bars : j \in first .. i => j \in 1 .. k - 1
    BY <1>1
  <2>3. \A j \in 1 .. Bars : j \in first .. i => series[j] = other[j]
    BY <2>2 DEF SamePast
  <2>4. f = g
    <3> HIDE DEF first
    <3> QED
      BY <1>1, <2>3
  <2>5. s[i] = (IF window = ALWAYS_LONG \/ series[i].close * (i - first + 1) > Total(f, i) THEN 1 ELSE 0)
    BY <1>1, <2>1, Zenon DEF generate_builtin_signals
  <2>6. t[i] = (IF window = ALWAYS_LONG \/ other[i].close * (i - first + 1) > Total(g, i) THEN 1 ELSE 0)
    BY <1>1, <2>1, Zenon DEF generate_builtin_signals
  <2> HIDE DEF f, g, first, s, t
  <2> QED
    BY <2>1, <2>4, <2>5, <2>6
<1>4. s \in Position /\ t \in Position
  BY <1>2
<1> HIDE DEF s, t
<1>5. ASSUME NEW u \in Position PROVE Shifted(u) \in Position /\ \A i \in 1 .. Bars : Shifted(u)[i] = (IF i = 1 THEN 0 ELSE u[i - 1])
  BY <1>1 DEF Position, Shifted
<1>6. \A i \in 1 .. k : i = 1 \/ i - 1 \in 1 .. k - 1
  BY <1>1
<1>7. \A i \in 1 .. k : i \in 1 .. Bars
  BY <1>1
<1>8. SameTaken(Shifted(s), Shifted(t), k)
  BY <1>3, <1>4, <1>5, <1>6, <1>7 DEF SameTaken
<1> QED
  BY <1>4, <1>5, <1>8 DEF s, t

\* A position ends, and first where it is given up.
LEMMA ExitBar ==
    ASSUME NEW pos, NEW n \in Nat, NEW i \in 1 .. n
    PROVE  /\ exit_idx(pos, n, i) \in i .. n /\ Exit(pos, n, exit_idx(pos, n, i))
           /\ \A y \in i .. exit_idx(pos, n, i) - 1 : ~Exit(pos, n, y)
<1> DEFINE S == {x \in i .. n : Exit(pos, n, x)}
<1>1. n \in S
  BY DEF Exit
<1>2. S \in SUBSET Nat /\ \A x \in S : x \in i .. n
  OBVIOUS
<1>3. PICK m \in S : \A x \in S : m <= x
  <2> HIDE DEF S
  <2> QED
    BY <1>1, <1>2, Least
<1>4. m \in i .. n /\ Exit(pos, n, m)
  BY <1>3
<1>5. \A y \in i .. m - 1 : y \in i .. n /\ ~(m <= y)
  BY <1>4
<1>6. \A y \in i .. m - 1 : ~Exit(pos, n, y)
  BY <1>3, <1>5
<1> QED
  BY <1>4, <1>6, Zenon DEF exit_idx

\* A position begun before bar k ends on the same bar before it, or is held until then.
LEMMA SameExit ==
    ASSUME NEW pos \in Position, NEW other \in Position, NEW k \in 2 .. Bars, SameTaken(pos, other, k),
           NEW i \in 1 .. k - 1
    PROVE  \/ /\ exit_idx(pos, Bars, i) = exit_idx(other, Bars, i)
              /\ exit_idx(pos, Bars, i) \in 1 .. k - 1
           \/ /\ exit_idx(pos, Bars, i) \in k .. Bars /\ exit_idx(other, Bars, i) \in k .. Bars
              /\ \A j \in i .. k - 1 : pos[j] = 1
<1> DEFINE e == exit_idx(pos, Bars, i)
           f == exit_idx(other, Bars, i)
<1>1. Bars \in Nat /\ k \in Nat /\ k <= Bars /\ i \in 1 .. Bars /\ i \in Nat
  BY BacktestsAssumption
<1>2. e \in i .. Bars /\ Exit(pos, Bars, e) /\ \A y \in i .. e - 1 : ~Exit(pos, Bars, y)
  BY <1>1, ExitBar
<1>3. f \in i .. Bars /\ Exit(other, Bars, f) /\ \A y \in i .. f - 1 : ~Exit(other, Bars, y)
  BY <1>1, ExitBar
<1> HIDE DEF e, f
<1>4. \A x \in i .. k - 1 : Exit(pos, Bars, x) <=> Exit(other, Bars, x)
  <2> TAKE x \in i .. k - 1
  <2>1. x \in 1 .. k
    BY <1>1
  <2> QED
    BY <2>1 DEF Exit, SameTaken
<1>5. CASE e < k
  <2>1. Exit(other, Bars, e) /\ ~(e \in i .. f - 1)
    BY <1>1, <1>2, <1>3, <1>4, <1>5
  <2>2. f \in i .. k - 1 /\ f <= e
    BY <1>1, <1>2, <1>3, <1>5, <2>1
  <2>3. Exit(pos, Bars, f) /\ ~(f \in i .. e - 1)
    BY <1>2, <1>3, <1>4, <2>2
  <2>4. e = f /\ e \in 1 .. k - 1
    BY <1>1, <1>2, <1>3, <1>5, <2>2, <2>3
  <2> QED
    BY <2>4 DEF e, f
<1>6. CASE ~(e < k)
  <2>1. CASE f < k
    <3>1. Exit(pos, Bars, f) /\ f \in i .. e - 1
      BY <1>1, <1>2, <1>3, <1>4, <1>6, <2>1
    <3> QED
      BY <1>2, <3>1
  <2>2. CASE ~(f < k)
    <3>1. e \in k .. Bars /\ f \in k .. Bars
      BY <1>1, <1>2, <1>3, <1>6, <2>2
    <3>2. ASSUME NEW j \in i .. k - 1 PROVE pos[j] = 1
      <4>1. j \in i .. e - 1 /\ j \in 1 .. Bars
        BY <1>1, <1>2, <1>6
      <4>2. ~Exit(pos, Bars, j)
        BY <1>2, <4>1
      <4> QED
        BY <4>1, <4>2 DEF Exit, Position
    <3> QED
      BY <3>1, <3>2 DEF e, f
  <2> QED
    BY <2>1, <2>2
<1> QED
  BY <1>5, <1>6

\* What one more trade adds.
LEMMA TradeAdded ==
    ASSUME NEW s, IsTable(s), NEW e, NEW k
    PROVE  /\ IsTable(Append(s, e))
           /\ Finished(Append(s, e), k) = Finished(s, k) \cup (IF e.exit < k THEN {e} ELSE {})
           /\ Begun(Append(s, e), k) =
                Begun(s, k) \cup (IF e.entry < k THEN {<<e.entry, e.bought_at, e.quantity>>} ELSE {})
<1>1. IsTable(Append(s, e))
  BY TableAdd
<1> DEFINE a == Append(s, e)
           n == Len(s) + 1
<1>4. DOMAIN a = DOMAIN s \cup {n} /\ n \notin DOMAIN s /\ a[n] = e /\ \A i \in DOMAIN s : a[i] = s[i]
  BY TableAdd
<1> HIDE DEF a, n
<1>5. Finished(a, k) = Finished(s, k) \cup (IF e.exit < k THEN {e} ELSE {})
  <2>1. CASE e.exit < k
    <3>1. {j \in DOMAIN a : a[j].exit < k} = {j \in DOMAIN s : s[j].exit < k} \cup {n}
      BY <1>4, <2>1
    <3> QED
      BY <1>4, <2>1, <3>1 DEF Finished
  <2>2. CASE ~(e.exit < k)
    <3>1. {j \in DOMAIN a : a[j].exit < k} = {j \in DOMAIN s : s[j].exit < k}
      BY <1>4, <2>2
    <3> QED
      BY <1>4, <2>2, <3>1 DEF Finished
  <2> QED
    BY <2>1, <2>2
<1>6. Begun(a, k) = Begun(s, k) \cup (IF e.entry < k THEN {<<e.entry, e.bought_at, e.quantity>>} ELSE {})
  <2>1. CASE e.entry < k
    <3>1. {j \in DOMAIN a : a[j].entry < k} = {j \in DOMAIN s : s[j].entry < k} \cup {n}
      BY <1>4, <2>1
    <3> QED
      BY <1>4, <2>1, <3>1 DEF Begun
  <2>2. CASE ~(e.entry < k)
    <3>1. {j \in DOMAIN a : a[j].entry < k} = {j \in DOMAIN s : s[j].entry < k}
      BY <1>4, <2>2
    <3> QED
      BY <1>4, <2>2, <3>1 DEF Begun
  <2> QED
    BY <2>1, <2>2
<1> QED
  BY <1>1, <1>5, <1>6 DEF a

\* What two backtests have in common after bar i, before bar k: what their trades were, and the
\* capital, unless a position is open that is held until bar k.
InCommon(b, c, pos, i, k) ==
    /\ IsTable(b.trades) /\ IsTable(c.trades)
    /\ Finished(b.trades, k) = Finished(c.trades, k)
    /\ Begun(b.trades, k) = Begun(c.trades, k)
    /\ b.capital = c.capital \/ (1 <= i /\ \A j \in i .. k - 1 : pos[j] = 1)

\* What a bar before k adds keeps it so.
LEMMA BarInCommon ==
    ASSUME NEW series \in Series, NEW other \in Series, NEW k \in 2 .. Bars, SamePast(series, other, k),
           NEW pos \in Position, NEW qos \in Position, SameTaken(pos, qos, k),
           NEW i \in 1 .. k - 1, NEW b, NEW c, InCommon(b, c, pos, i - 1, k)
    PROVE  InCommon(WithTrade(series, pos, b, i), WithTrade(other, qos, c, i), pos, i, k)
<1> DEFINE x == exit_idx(pos, Bars, i)
           y == exit_idx(qos, Bars, i)
           t == RoundTrip(series, i, x, b.capital)
           u == RoundTrip(other, i, y, c.capital)
           d == WithTrade(series, pos, b, i)
           e == WithTrade(other, qos, c, i)
<1>0. /\ k \in Nat /\ Bars \in Nat /\ k <= Bars /\ i \in Nat /\ 1 <= i /\ i < k
      /\ Len(series) = Bars /\ Len(other) = Bars
  BY SeriesLen
<1>1. Entry(pos, i) = Entry(qos, i) /\ (i # 1 /\ pos[i - 1] = 1 => ~Entry(pos, i))
  <2>1. i \in 1 .. k /\ (i # 1 => i - 1 \in 1 .. k)
    BY <1>0
  <2>2. pos[i] = qos[i] /\ (i # 1 => pos[i - 1] = qos[i - 1])
    BY <2>1 DEF SameTaken
  <2> QED
    BY <2>2 DEF Entry
<1>2. /\ Entry(pos, i) /\ t.quantity > 0 =>
             d = [capital |-> b.capital + t.net_pnl, trades |-> Append(b.trades, t)]
      /\ ~(Entry(pos, i) /\ t.quantity > 0) => d = b
  BY <1>0, Zenon DEF WithTrade
<1>3. /\ Entry(qos, i) /\ u.quantity > 0 =>
             e = [capital |-> c.capital + u.net_pnl, trades |-> Append(c.trades, u)]
      /\ ~(Entry(qos, i) /\ u.quantity > 0) => e = c
  BY <1>0, Zenon DEF WithTrade
<1>4. t.entry = i /\ t.exit = x /\ u.entry = i /\ u.exit = y
  BY TradeFields
<1>5. \/ x = y /\ x \in 1 .. k - 1
      \/ x \in k .. Bars /\ y \in k .. Bars /\ \A j \in i .. k - 1 : pos[j] = 1
  BY SameExit
<1>6. b.capital = c.capital => /\ t.bought_at = u.bought_at /\ t.quantity = u.quantity
                               /\ x = y /\ x \in 1 .. k - 1 => t = u
  BY SameTrade
<1> HIDE DEF x, y, t, u, d, e
<1>7. /\ IsTable(b.trades) /\ IsTable(c.trades)
      /\ Finished(b.trades, k) = Finished(c.trades, k)
      /\ Begun(b.trades, k) = Begun(c.trades, k)
      /\ b.capital = c.capital \/ (1 <= i - 1 /\ \A j \in i - 1 .. k - 1 : pos[j] = 1)
  BY DEF InCommon
<1>8. CASE b.capital # c.capital
  <2>1. 1 <= i - 1 /\ \A j \in i - 1 .. k - 1 : pos[j] = 1
    BY <1>7, <1>8
  <2>2. i # 1 /\ pos[i - 1] = 1 /\ \A j \in i .. k - 1 : pos[j] = 1
    BY <1>0, <2>1
  <2>3. d = b /\ e = c
    BY <1>1, <1>2, <1>3, <2>2
  <2> QED
    BY <1>0, <1>7, <2>2, <2>3 DEF InCommon, d, e
<1>9. CASE b.capital = c.capital /\ ~(Entry(pos, i) /\ t.quantity > 0)
  <2>1. d = b /\ e = c
    BY <1>1, <1>2, <1>3, <1>6, <1>9
  <2> QED
    BY <1>7, <1>9, <2>1 DEF InCommon, d, e
<1>10. CASE b.capital = c.capital /\ Entry(pos, i) /\ t.quantity > 0
  <2>1. /\ d = [capital |-> b.capital + t.net_pnl, trades |-> Append(b.trades, t)]
        /\ e = [capital |-> c.capital + u.net_pnl, trades |-> Append(c.trades, u)]
    BY <1>1, <1>2, <1>3, <1>6, <1>10
  <2>2. /\ d.capital = b.capital + t.net_pnl /\ d.trades = Append(b.trades, t)
        /\ e.capital = c.capital + u.net_pnl /\ e.trades = Append(c.trades, u)
    BY <2>1
  <2>3. /\ IsTable(d.trades)
        /\ Finished(d.trades, k) = Finished(b.trades, k) \cup (IF x < k THEN {t} ELSE {})
        /\ Begun(d.trades, k) = Begun(b.trades, k) \cup {<<i, t.bought_at, t.quantity>>}
    BY <1>0, <1>4, <1>7, <2>2, TradeAdded
  <2>4. /\ IsTable(e.trades)
        /\ Finished(e.trades, k) = Finished(c.trades, k) \cup (IF y < k THEN {u} ELSE {})
        /\ Begun(e.trades, k) = Begun(c.trades, k) \cup {<<i, u.bought_at, u.quantity>>}
    BY <1>0, <1>4, <1>7, <2>2, TradeAdded
  <2>5. Begun(d.trades, k) = Begun(e.trades, k)
    BY <1>6, <1>7, <1>10, <2>3, <2>4
  <2>6. CASE x = y /\ x \in 1 .. k - 1
    <3>1. t = u
      BY <1>6, <1>10, <2>6
    <3>2. Finished(d.trades, k) = Finished(e.trades, k) /\ d.capital = e.capital
      BY <1>7, <1>10, <2>2, <2>3, <2>4, <2>6, <3>1
    <3> QED
      BY <2>3, <2>4, <2>5, <3>2 DEF InCommon, d, e
  <2>7. CASE x \in k .. Bars /\ y \in k .. Bars /\ \A j \in i .. k - 1 : pos[j] = 1
    <3>1. ~(x < k) /\ ~(y < k)
      BY <1>0, <2>7
    <3>2. Finished(d.trades, k) = Finished(e.trades, k)
      BY <1>7, <2>3, <2>4, <3>1
    <3> QED
      BY <1>0, <2>3, <2>4, <2>5, <2>7, <3>2 DEF InCommon, d, e
  <2> QED
    BY <1>5, <2>6, <2>7
<1> QED
  BY <1>8, <1>9, <1>10

\* A later bar adds nothing to what was finished or begun before bar k.
LEMMA LaterBar ==
    ASSUME NEW series \in Series, NEW k \in 2 .. Bars, NEW pos, NEW i \in k .. Bars, NEW b, IsTable(b.trades)
    PROVE  /\ IsTable(WithTrade(series, pos, b, i).trades)
           /\ Finished(WithTrade(series, pos, b, i).trades, k) = Finished(b.trades, k)
           /\ Begun(WithTrade(series, pos, b, i).trades, k) = Begun(b.trades, k)
<1> DEFINE x == exit_idx(pos, Bars, i)
           t == RoundTrip(series, i, x, b.capital)
           d == WithTrade(series, pos, b, i)
<1>0. k \in Nat /\ Bars \in Nat /\ k <= Bars /\ i \in 1 .. Bars /\ k <= i /\ Len(series) = Bars /\ 2 <= k
  BY SeriesLen
<1>1. \/ d = b
      \/ d = [capital |-> b.capital + t.net_pnl, trades |-> Append(b.trades, t)]
  BY <1>0, Zenon DEF WithTrade
<1>2. x \in i .. Bars
  BY <1>0, ExitBar
<1>3. t.entry = i /\ t.exit = x
  BY TradeFields
<1> HIDE DEF x, t, d
<1>4. ~(t.entry < k) /\ ~(t.exit < k)
  BY <1>0, <1>2, <1>3
<1>5. /\ IsTable(d.trades) /\ Finished(d.trades, k) = Finished(b.trades, k)
      /\ Begun(d.trades, k) = Begun(b.trades, k)
  <2>1. CASE d = b
    BY <2>1
  <2>2. CASE d = [capital |-> b.capital + t.net_pnl, trades |-> Append(b.trades, t)]
    <3>1. d.trades = Append(b.trades, t)
      BY <2>2
    <3>2. /\ IsTable(d.trades)
          /\ Finished(d.trades, k) = Finished(b.trades, k) \cup (IF t.exit < k THEN {t} ELSE {})
          /\ Begun(d.trades, k) =
                Begun(b.trades, k) \cup (IF t.entry < k THEN {<<t.entry, t.bought_at, t.quantity>>} ELSE {})
      BY <3>1, TradeAdded
    <3> QED
      BY <1>4, <3>2
  <2> QED
    BY <1>1, <2>1, <2>2
<1> QED
  BY <1>5 DEF d

\* What a backtest has done after each of the first n bars.
DoneUpTo(done, series, pos, n) ==
    done = [i \in 0 .. n |-> IF i = 0 THEN [capital |-> Capital, trades |-> <<>>]
                                      ELSE WithTrade(series, pos, done[i - 1], i)]

\* A backtest of any number of bars can be made.
LEMMA BacktestRuns == ASSUME NEW series, NEW pos PROVE \A n \in Nat : \E done : DoneUpTo(done, series, pos, n)
<1> DEFINE T == {n \in Nat : \E done : DoneUpTo(done, series, pos, n)}
           Start == [capital |-> Capital, trades |-> <<>>]
<1>1. 0 \in T
  <2>1. DoneUpTo([i \in 0 .. 0 |-> Start], series, pos, 0)
    BY DEF DoneUpTo
  <2> QED
    BY <2>1
<1>2. ASSUME NEW n \in T PROVE n + 1 \in T
  <2>1. PICK f : DoneUpTo(f, series, pos, n)
    OBVIOUS
  <2> DEFINE g == [i \in 0 .. n + 1 |-> IF i = n + 1 THEN WithTrade(series, pos, f[n], i) ELSE f[i]]
  <2>2. n \in Nat
    OBVIOUS
  <2>3. ASSUME NEW i \in 0 .. n + 1
        PROVE  g[i] = (IF i = 0 THEN Start ELSE WithTrade(series, pos, g[i - 1], i))
    <3>1. CASE i = n + 1
      <4>1. g[i] = WithTrade(series, pos, f[n], i) /\ i # 0 /\ n \in 0 .. n + 1 /\ n # n + 1 /\ i - 1 = n
        BY <2>2, <3>1
      <4>2. g[n] = f[n]
        BY <4>1
      <4> HIDE DEF g
      <4> QED
        BY <4>1, <4>2
    <3>2. CASE i # n + 1
      <4>1. i \in 0 .. n /\ (i # 0 => i - 1 \in 0 .. n /\ i - 1 # n + 1 /\ i - 1 \in 0 .. n + 1)
        BY <2>2, <3>2
      <4>2. g[i] = f[i] /\ (i # 0 => g[i - 1] = f[i - 1])
        BY <3>2, <4>1
      <4>3. f[i] = (IF i = 0 THEN Start ELSE WithTrade(series, pos, f[i - 1], i))
        BY <2>1, <4>1, Zenon DEF DoneUpTo
      <4> HIDE DEF g, Start
      <4> QED
        BY <4>2, <4>3
    <3> QED
      BY <3>1, <3>2
  <2>4. g = [i \in 0 .. n + 1 |-> g[i]]
    OBVIOUS
  <2> HIDE DEF g
  <2>5. DoneUpTo(g, series, pos, n + 1)
    BY <2>3, <2>4 DEF DoneUpTo
  <2> QED
    BY <2>2, <2>5
<1>3. T \in SUBSET Nat
  OBVIOUS
<1>4. T = Nat
  <2> HIDE DEF T
  <2> QED
    BY <1>1, <1>2, <1>3, SetInduction
<1> QED
  BY <1>4

\* The trades of a backtest are what it has done after the last bar.
LEMMA TradesOfRun ==
    ASSUME NEW series \in Series, NEW signals
    PROVE  \E done : /\ done[0] = [capital |-> Capital, trades |-> <<>>]
                     /\ \A i \in 1 .. Bars : done[i] = WithTrade(series, Shifted(signals), done[i - 1], i)
                     /\ _build_trades(series, signals) = done[Bars].trades
<1> DEFINE done == CHOOSE done : DoneUpTo(done, series, Shifted(signals), Len(series))
<1>1. Len(series) = Bars /\ Bars \in Nat
  BY SeriesLen
<1>2. DoneUpTo(done, series, Shifted(signals), Bars)
  BY <1>1, BacktestRuns
<1>3. _build_trades(series, signals) = done[Bars].trades
  BY <1>1 DEF _build_trades, DoneUpTo
<1> HIDE DEF done
<1>4. \A i \in 0 .. Bars : done[i] = (IF i = 0 THEN [capital |-> Capital, trades |-> <<>>]
                                     ELSE WithTrade(series, Shifted(signals), done[i - 1], i))
  BY <1>2, Zenon DEF DoneUpTo
<1>5. done[0] = [capital |-> Capital, trades |-> <<>>]
  BY <1>1, <1>4
<1>6. \A i \in 1 .. Bars : i \in 0 .. Bars /\ i # 0
  BY <1>1
<1>7. \A i \in 1 .. Bars : done[i] = WithTrade(series, Shifted(signals), done[i - 1], i)
  BY <1>4, <1>6
<1> QED
  BY <1>3, <1>5, <1>7

\* Two backtests on prices that agree before bar k have finished and begun the same trades.
LEMMA SameBefore ==
    ASSUME NEW series \in Series, NEW other \in Series, NEW k \in 2 .. Bars, SamePast(series, other, k),
           NEW s, NEW t, Shifted(s) \in Position, Shifted(t) \in Position, SameTaken(Shifted(s), Shifted(t), k)
    PROVE  /\ Finished(_build_trades(other, t), k) = Finished(_build_trades(series, s), k)
           /\ Begun(_build_trades(other, t), k) = Begun(_build_trades(series, s), k)
<1> DEFINE pos == Shifted(s)
           qos == Shifted(t)
<1>0. k \in Nat /\ Bars \in Nat /\ k <= Bars /\ 2 <= k
  BY SeriesLen
<1>1. PICK f : /\ f[0] = [capital |-> Capital, trades |-> <<>>]
               /\ \A i \in 1 .. Bars : f[i] = WithTrade(series, pos, f[i - 1], i)
               /\ _build_trades(series, s) = f[Bars].trades
  BY TradesOfRun
<1>2. PICK g : /\ g[0] = [capital |-> Capital, trades |-> <<>>]
               /\ \A i \in 1 .. Bars : g[i] = WithTrade(other, qos, g[i - 1], i)
               /\ _build_trades(other, t) = g[Bars].trades
  BY TradesOfRun
<1>3. pos \in Position /\ qos \in Position /\ SameTaken(pos, qos, k)
  OBVIOUS
<1> HIDE DEF pos, qos
<1> DEFINE T == {n \in Nat : n <= k - 1 => InCommon(f[n], g[n], pos, n, k)}
           U == {n \in Nat : k - 1 + n <= Bars =>
                    /\ IsTable(f[k - 1 + n].trades) /\ IsTable(g[k - 1 + n].trades)
                    /\ Finished(f[k - 1 + n].trades, k) = Finished(g[k - 1 + n].trades, k)
                    /\ Begun(f[k - 1 + n].trades, k) = Begun(g[k - 1 + n].trades, k)}
<1>4. 0 \in T
  <2>1. f[0].trades = <<>> /\ g[0].trades = <<>> /\ f[0].capital = g[0].capital
    BY <1>1, <1>2
  <2> QED
    BY <2>1, NoRows DEF InCommon
<1>5. ASSUME NEW n \in T PROVE n + 1 \in T
  <2>1. n \in Nat /\ n + 1 \in Nat /\ (n + 1) - 1 = n
    OBVIOUS
  <2>2. ASSUME n + 1 <= k - 1 PROVE InCommon(f[n + 1], g[n + 1], pos, n + 1, k)
    <3>1. n <= k - 1 /\ n + 1 \in 1 .. Bars /\ n + 1 \in 1 .. k - 1
      BY <1>0, <2>1, <2>2
    <3>2. InCommon(f[n], g[n], pos, n, k)
      BY <3>1
    <3>3. f[n + 1] = WithTrade(series, pos, f[n], n + 1) /\ g[n + 1] = WithTrade(other, qos, g[n], n + 1)
      BY <1>1, <1>2, <2>1, <3>1
    <3> HIDE DEF T
    <3> DEFINE m == n + 1
    <3>4. m \in 1 .. k - 1 /\ InCommon(f[n], g[n], pos, m - 1, k)
      BY <2>1, <3>1, <3>2
    <3> HIDE DEF m
    <3>5. InCommon(WithTrade(series, pos, f[n], m), WithTrade(other, qos, g[n], m), pos, m, k)
      BY <1>3, <3>4, BarInCommon
    <3> QED
      BY <3>3, <3>5 DEF m
  <2> QED
    BY <2>1, <2>2
<1>6. T = Nat
  <2>1. T \in SUBSET Nat
    OBVIOUS
  <2> HIDE DEF T
  <2> QED
    BY <1>4, <1>5, <2>1, SetInduction
<1>7. InCommon(f[k - 1], g[k - 1], pos, k - 1, k)
  <2>1. k - 1 \in Nat /\ k - 1 <= k - 1
    BY <1>0
  <2> QED
    BY <1>6, <2>1
<1> HIDE DEF T
<1>8. 0 \in U
  <2>1. k - 1 + 0 = k - 1
    BY <1>0
  <2> QED
    BY <1>7, <2>1 DEF InCommon
<1>9. ASSUME NEW n \in U PROVE n + 1 \in U
  <2>1. n \in Nat /\ n + 1 \in Nat
    OBVIOUS
  <2>2. ASSUME k - 1 + (n + 1) <= Bars
        PROVE  /\ IsTable(f[k - 1 + (n + 1)].trades) /\ IsTable(g[k - 1 + (n + 1)].trades)
               /\ Finished(f[k - 1 + (n + 1)].trades, k) = Finished(g[k - 1 + (n + 1)].trades, k)
               /\ Begun(f[k - 1 + (n + 1)].trades, k) = Begun(g[k - 1 + (n + 1)].trades, k)
    <3> DEFINE m == k - 1 + n
               i == k - 1 + (n + 1)
    <3>1. m <= Bars /\ i \in k .. Bars /\ i \in 1 .. Bars /\ i - 1 = m
      BY <1>0, <2>1, <2>2
    <3>2. /\ IsTable(f[m].trades) /\ IsTable(g[m].trades)
          /\ Finished(f[m].trades, k) = Finished(g[m].trades, k)
          /\ Begun(f[m].trades, k) = Begun(g[m].trades, k)
      BY <3>1
    <3> HIDE DEF U, m, i
    <3>3. f[i] = WithTrade(series, pos, f[m], i) /\ g[i] = WithTrade(other, qos, g[m], i)
      BY <1>1, <1>2, <3>1
    <3>4. /\ IsTable(f[i].trades) /\ Finished(f[i].trades, k) = Finished(f[m].trades, k)
          /\ Begun(f[i].trades, k) = Begun(f[m].trades, k)
      BY <3>1, <3>2, <3>3, LaterBar
    <3>5. /\ IsTable(g[i].trades) /\ Finished(g[i].trades, k) = Finished(g[m].trades, k)
          /\ Begun(g[i].trades, k) = Begun(g[m].trades, k)
      BY <3>1, <3>2, <3>3, LaterBar
    <3>6. /\ IsTable(f[i].trades) /\ IsTable(g[i].trades)
          /\ Finished(f[i].trades, k) = Finished(g[i].trades, k)
          /\ Begun(f[i].trades, k) = Begun(g[i].trades, k)
      BY <3>2, <3>4, <3>5
    <3> QED
      BY <3>6 DEF i
  <2> QED
    BY <2>1, <2>2
<1>10. U = Nat
  <2>1. U \in SUBSET Nat
    OBVIOUS
  <2> HIDE DEF U
  <2> QED
    BY <1>8, <1>9, <2>1, SetInduction
<1>11. Bars - (k - 1) \in U /\ k - 1 + (Bars - (k - 1)) = Bars
  <2>1. Bars - (k - 1) \in Nat /\ k - 1 + (Bars - (k - 1)) = Bars
    BY <1>0
  <2> HIDE DEF U
  <2> QED
    BY <1>10, <2>1
<1>12. Finished(f[Bars].trades, k) = Finished(g[Bars].trades, k) /\ Begun(f[Bars].trades, k) = Begun(g[Bars].trades, k)
  BY <1>0, <1>11
<1> QED
  BY <1>1, <1>2, <1>12

-----------------------------------------------------------------------------
(* Backtests: what is stored.                                              *)

\* Backtests by themselves.
BacktestsSpec == BacktestsInit /\ [][BacktestsNext]_backtestVars

\* A completed run holds the trades of its window on the prices there are.
ResultIsRun ==
    backtest_run.status = "completed" =>
        /\ {"window", "result"} \subseteq DOMAIN backtest_run /\ backtest_run.window \in Nat
        /\ backtest_run.result.trades =
                _build_trades(prices, generate_builtin_signals(prices, backtest_run.window))

\* The inductive invariant of the backtests.
BacktestsIInv ==
    /\ BacktestsTypeOK /\ ResultIsRun
    /\ backtest_run = [x \in DOMAIN backtest_run |-> backtest_run[x]] /\ "status" \in DOMAIN backtest_run

\* Nothing has been run.
LEMMA BacktestsStart == BacktestsInit => BacktestsIInv
BY DEF BacktestsInit, BacktestsIInv, BacktestsTypeOK, ResultIsRun, Unset

\* An analysis adds to a run and leaves its status, its window and its trades alone.
LEMMA BacktestsStep == BacktestsIInv /\ [BacktestsNext]_backtestVars => BacktestsIInv'
<1> SUFFICES ASSUME BacktestsIInv, [BacktestsNext]_backtestVars PROVE BacktestsIInv'
  OBVIOUS
<1>1. ASSUME NEW window \in Nat, NEW data_source, NEW fresh \in BOOLEAN, run_backtest(window, data_source, fresh)
      PROVE  BacktestsIInv'
  <2>0. UNCHANGED <<prices, sweep>>
    BY <1>1 DEF run_backtest
  <2>1. CASE fresh
    <3> DEFINE r == run_vectorized_backtest(prices, generate_builtin_signals(prices, window))
    <3>1. backtest_run' = [status |-> "completed", window |-> window, data_source |-> data_source,
                           walk_forward |-> "none", monte_carlo |-> FALSE, result |-> r]
      BY <1>1, <2>1, Zenon DEF run_backtest
    <3>2. r.trades = _build_trades(prices, generate_builtin_signals(prices, window))
      BY DEF run_vectorized_backtest
    <3> HIDE DEF r
    <3> DEFINE b == [status |-> "completed", window |-> window, data_source |-> data_source,
                     walk_forward |-> "none", monte_carlo |-> FALSE, result |-> r]
    <3>3. /\ b = [x \in DOMAIN b |-> b[x]] /\ b.status = "completed" /\ b.window = window /\ b.result = r
          /\ "status" \in DOMAIN b /\ "window" \in DOMAIN b /\ "result" \in DOMAIN b
      OBVIOUS
    <3>4. backtest_run' = b
      BY <3>1, Zenon DEF b
    <3> HIDE DEF b
    <3>5. ResultIsRun'
      BY <2>0, <3>2, <3>3, <3>4 DEF ResultIsRun
    <3> QED
      BY <2>0, <3>3, <3>4, <3>5 DEF BacktestsIInv, BacktestsTypeOK
  <2>2. CASE ~fresh
    <3>1. backtest_run' = [status |-> "refused_stale_data"]
      BY <1>1, <2>2, Zenon DEF run_backtest
    <3> QED
      BY <2>0, <3>1 DEF BacktestsIInv, BacktestsTypeOK, ResultIsRun
  <2> QED
    BY <2>1, <2>2
<1>0. \A w \in Window \cup {ALWAYS_LONG} : w \in Nat
  <2>1. \A w \in Window : w \in Nat
    BY BacktestsAssumption
  <2> QED
    BY <2>1 DEF ALWAYS_LONG
<1>2. ASSUME NEW window \in Nat, run_backtest_endpoint(window) PROVE BacktestsIInv'
  BY <1>1, <1>2, Zenon DEF run_backtest_endpoint
<1>3. ASSUME NEW window \in Nat, run_backtest_from_lake_endpoint(window) PROVE BacktestsIInv'
  BY <1>1, <1>3, Zenon DEF run_backtest_from_lake_endpoint
<1>a. ASSUME UNCHANGED <<prices, sweep>>, NEW f \in {"walk_forward", "monte_carlo"}, NEW v,
             backtest_run' = [backtest_run EXCEPT ![f] = v]
      PROVE  BacktestsIInv'
  <2>1. /\ DOMAIN backtest_run' = DOMAIN backtest_run
        /\ \A x \in DOMAIN backtest_run : x # f => backtest_run'[x] = backtest_run[x]
        /\ backtest_run' = [x \in DOMAIN backtest_run' |-> backtest_run'[x]]
    BY <1>a
  <2>2. /\ "status" \in DOMAIN backtest_run /\ "status" # f /\ "window" # f /\ "result" # f
        /\ BacktestsTypeOK /\ ResultIsRun
    BY DEF BacktestsIInv
  <2>3. backtest_run'.status = backtest_run.status
    BY <2>1, <2>2
  <2>4. ResultIsRun'
    <3> SUFFICES ASSUME backtest_run.status = "completed"
                 PROVE  /\ {"window", "result"} \subseteq DOMAIN backtest_run' /\ backtest_run'.window \in Nat
                        /\ backtest_run'.result.trades =
                              _build_trades(prices, generate_builtin_signals(prices, backtest_run'.window))
      BY <1>a, <2>3 DEF ResultIsRun
    <3>1. /\ "window" \in DOMAIN backtest_run /\ "result" \in DOMAIN backtest_run
          /\ backtest_run.window \in Nat
          /\ backtest_run.result.trades =
                _build_trades(prices, generate_builtin_signals(prices, backtest_run.window))
      BY <2>2 DEF ResultIsRun
    <3>2. backtest_run'.window = backtest_run.window /\ backtest_run'.result = backtest_run.result
      BY <2>1, <2>2, <3>1
    <3> QED
      BY <2>1, <3>1, <3>2
  <2>5. BacktestsTypeOK'
    BY <1>a, <2>2, <2>3 DEF BacktestsTypeOK
  <2> QED
    BY <2>1, <2>2, <2>4, <2>5 DEF BacktestsIInv
<1>4. CASE walk_forward_endpoint
  <2>1. PICK v : backtest_run' = [backtest_run EXCEPT !.walk_forward = v]
    BY <1>4, Zenon DEF walk_forward_endpoint, run_walk_forward_for_run
  <2>2. UNCHANGED <<prices, sweep>>
    BY <1>4 DEF walk_forward_endpoint, run_walk_forward_for_run
  <2> QED
    BY <2>1, <2>2, <1>a
<1>5. CASE run_monte_carlo_for_run
  <2>1. PICK v : backtest_run' = [backtest_run EXCEPT !.monte_carlo = v]
    BY <1>5, Zenon DEF run_monte_carlo_for_run
  <2>2. UNCHANGED <<prices, sweep>>
    BY <1>5 DEF run_monte_carlo_for_run
  <2> QED
    BY <2>1, <2>2, <1>a
<1>6. CASE optimize_endpoint
  <2>1. PICK best : sweep' = [status |-> "stored", best |-> best]
    BY <1>6, Zenon DEF optimize_endpoint, run_optimization_sweep
  <2>2. UNCHANGED <<prices, backtest_run>>
    BY <1>6, Zenon DEF optimize_endpoint, run_optimization_sweep
  <2> QED
    BY <2>1, <2>2 DEF BacktestsIInv, BacktestsTypeOK, ResultIsRun
<1>7. CASE UNCHANGED backtestVars
  BY <1>7 DEF backtestVars, BacktestsIInv, BacktestsTypeOK, ResultIsRun
<1> QED
  BY <1>0, <1>2, <1>3, <1>4, <1>5, <1>6, <1>7 DEF BacktestsNext

\* No trade of a completed run depends on a price that came after it was decided.
LEMMA BacktestsFollow == BacktestsIInv => NoLookahead
<1> SUFFICES ASSUME BacktestsIInv, backtest_run.status = "completed",
                    NEW k \in 2 .. Bars, NEW future \in [k .. Bars -> Bar]
             PROVE  LET Signals(series) == generate_builtin_signals(series, backtest_run.window)
                        trades == backtest_run.result.trades
                        series   == [i \in 1 .. Bars |-> IF i < k THEN prices[i] ELSE future[i]]
                        other  == _build_trades(series, Signals(series))
                    IN /\ Finished(other, k) = Finished(trades, k)
                       /\ Begun(other, k) = Begun(trades, k)
                       /\ Shifted(Signals(series))[k] = Shifted(Signals(prices))[k]
  BY DEF NoLookahead, Finished, Begun
<1> DEFINE series == [i \in 1 .. Bars |-> IF i < k THEN prices[i] ELSE future[i]]
           s == generate_builtin_signals(prices, backtest_run.window)
           t == generate_builtin_signals(series, backtest_run.window)
<1>1. Bars \in Nat /\ k \in Nat /\ 2 <= k /\ k <= Bars
  BY BacktestsAssumption
<1>2. prices \in Series /\ backtest_run.window \in Nat /\ backtest_run.result.trades = _build_trades(prices, s)
  BY DEF BacktestsIInv, BacktestsTypeOK, ResultIsRun
<1>3. series \in Series /\ SamePast(prices, series, k)
  <2>1. \A i \in 1 .. Bars : i < k \/ i \in k .. Bars
    BY <1>1
  <2>2. \A i \in 1 .. k - 1 : i \in 1 .. Bars /\ i < k
    BY <1>1
  <2> QED
    BY <1>2, <2>1, <2>2 DEF Series, SamePast
<1> HIDE DEF series
<1>4. Shifted(s) \in Position /\ Shifted(t) \in Position /\ SameTaken(Shifted(s), Shifted(t), k)
  BY <1>2, <1>3, SameSignals
<1>5. Shifted(s)[k] = Shifted(t)[k]
  <2>1. k \in 1 .. k
    BY <1>1
  <2> QED
    BY <1>4, <2>1 DEF SameTaken
<1> HIDE DEF s, t
<1>6. /\ Finished(_build_trades(series, t), k) = Finished(_build_trades(prices, s), k)
      /\ Begun(_build_trades(series, t), k) = Begun(_build_trades(prices, s), k)
  BY <1>2, <1>3, <1>4, SameBefore
<1> QED
  BY <1>2, <1>5, <1>6 DEF series, s, t

-----------------------------------------------------------------------------
(* Dual control over a limit.                                             *)

\* The initial state satisfies the invariant: nothing has been staged.
LEMMA LimitsInit == RiskLimitsInit => RiskLimitsIInv
BY NobodyAssumption DEF RiskLimitsInit, RiskLimitsIInv, RiskLimitsTypeOK, RequestSound, StagedSound, DualControl, NoRequest

\* Each handler's write is justified by what its request read: the person who
\* staged a change never changes, and a recorded confirmation is only ever
\* replaced by another second person's.
LEMMA LimitsStep == RiskLimitsIInv /\ [RiskLimitsNext]_limitVars => RiskLimitsIInv'
<1> SUFFICES ASSUME RiskLimitsIInv, [RiskLimitsNext]_limitVars PROVE RiskLimitsIInv'
  OBVIOUS
<1> USE NobodyAssumption
    DEF RiskLimitsIInv, RiskLimitsTypeOK, RequestSound, StagedSound, DualControl, TwoPeople, NoRequest, Op
<1>1. ASSUME NEW c \in Change, NEW p \in Person, stage_risk_limit_change(c, p) PROVE RiskLimitsIInv'
  BY <1>1 DEF stage_risk_limit_change
<1>2. ASSUME NEW r \in LimitRequest, NEW op \in Op, NEW c \in Change, NEW p \in Person,
             read_change(r, op, c, p)
      PROVE  RiskLimitsIInv'
  BY <1>2 DEF read_change, Allowed, MayConfirm, MayApply, MayReject
<1>3. ASSUME NEW r \in LimitRequest, confirm_risk_limit_change(r) PROVE RiskLimitsIInv'
  BY <1>3 DEF confirm_risk_limit_change
<1>4. ASSUME NEW r \in LimitRequest, apply_risk_limit_change(r) PROVE RiskLimitsIInv'
  BY <1>4 DEF apply_risk_limit_change
<1>5. ASSUME NEW r \in LimitRequest, reject_risk_limit_change(r) PROVE RiskLimitsIInv'
  BY <1>5 DEF reject_risk_limit_change
<1>6. CASE UNCHANGED limitVars
  BY <1>6 DEF limitVars
<1> QED
  BY <1>1, <1>2, <1>3, <1>4, <1>5, <1>6 DEF RiskLimitsNext

\* The inductive invariant.
THEOREM LimitsInvariance == RiskLimitsSpec => []RiskLimitsIInv
<1>1. RiskLimitsInit => RiskLimitsIInv
  BY LimitsInit
<1>2. RiskLimitsIInv /\ [RiskLimitsNext]_limitVars => RiskLimitsIInv'
  BY LimitsStep
<1> QED
  BY <1>1, <1>2, PTL DEF RiskLimitsSpec

\* No overlap of stage, confirm, apply and reject requests puts a limit in force
\* that one person staged and confirmed alone.
THEOREM DualControlHolds == RiskLimitsSpec => []DualControl
<1>1. RiskLimitsIInv => DualControl
  BY DEF RiskLimitsIInv
<1> QED
  BY <1>1, LimitsInvariance, PTL

-----------------------------------------------------------------------------
(* Reviews and reports: the profit of rows and of findings.                *)

\* Reviews and reports by themselves.
ReportsSpec == ReportsInit /\ [][ReportsNext]_reportVars

\* The elements of a finite set can be listed.
LEMMA Listed ==
    ASSUME NEW S, IsFiniteSet(S)
    PROVE  SetToSeq(S) \in Seq(S)
<1>1. Cardinality(S) \in Nat /\ \E f \in [1 .. Cardinality(S) -> S] : IsInjective(f)
  BY FS_CardinalityType DEF ExistsBijection, Bijection, Injection
<1>2. SetToSeq(S) \in [1 .. Cardinality(S) -> S]
  BY <1>1 DEF SetToSeq
<1> QED
  BY <1>1, <1>2, IsASeq

\* The profit of some rows is the same in two tables that have them.
LEMMA SamePnl ==
    ASSUME NEW rows, NEW more, NEW keep, IsFiniteSet(keep), keep \subseteq DOMAIN rows, keep \subseteq DOMAIN more,
           \A i \in keep : rows[i].pnl \in Int /\ more[i] = rows[i]
    PROVE  SumPnl(more, keep) = SumPnl(rows, keep)
<1>1. \A i \in keep : Pnl(rows)[i] \in Int /\ Pnl(more)[i] = Pnl(rows)[i]
  BY DEF Pnl
<1> QED
  BY <1>1, SumSame, Zenon DEF SumPnl

\* The paper rows among findings, findings without one, and findings whose paper rows have a profit.
PaperRows(s) == {i \in DOMAIN s : s[i].mode = "paper"}
NonePaper(s) == \A j \in DOMAIN s : s[j].mode # "paper"
Counted(s) == IsTable(s) /\ \A i \in PaperRows(s) : s[i].pnl \in Int

\* The paper profit of no findings.
LEMMA NoPaper == Counted(<<>>) /\ PaperPnl(<<>>) = 0
<1>1. DOMAIN <<>> = {} /\ IsTable(<<>>)
  BY NoRows
<1>2. PaperRows(<<>>) = {}
  BY <1>1 DEF PaperRows
<1>3. SumFunctionOnSet(Pnl(<<>>), {}) = 0
  BY SumFirst, FS_EmptySet
<1> QED
  BY <1>1, <1>2, <1>3 DEF Counted, PaperPnl, SumPnl, PaperRows

\* A paper finding adds its profit.
LEMMA PaperAdd ==
    ASSUME NEW s, Counted(s), NEW e, e.mode = "paper", e.pnl \in Int
    PROVE  /\ Counted(Append(s, e)) /\ PaperPnl(s) \in Int
           /\ PaperPnl(Append(s, e)) = e.pnl + PaperPnl(s)
<1> DEFINE a == Append(s, e)
           n == Len(s) + 1
<1>1. /\ IsTable(a) /\ DOMAIN a = DOMAIN s \cup {n} /\ n \notin DOMAIN s /\ a[n] = e
      /\ \A i \in DOMAIN s : a[i] = s[i]
  BY TableAdd DEF Counted
<1> HIDE DEF a, n
<1>2. PaperRows(a) = PaperRows(s) \cup {n} /\ n \notin PaperRows(s)
  BY <1>1 DEF PaperRows
<1>3. Counted(a)
  BY <1>1, <1>2 DEF Counted, PaperRows
<1>4. IsFiniteSet(PaperRows(s)) /\ PaperRows(s) \subseteq DOMAIN s
  BY TablePlaces, FS_Subset DEF Counted, PaperRows
<1>5. SumPnl(a, PaperRows(s)) = SumPnl(s, PaperRows(s))
  <2>1. PaperRows(s) \subseteq DOMAIN a /\ \A i \in PaperRows(s) : s[i].pnl \in Int /\ a[i] = s[i]
    BY <1>1, <1>4 DEF Counted
  <2> QED
    BY <1>4, <2>1, SamePnl
<1>6. /\ SumPnl(a, PaperRows(s) \cup {n}) = e.pnl + SumPnl(a, PaperRows(s))
      /\ SumPnl(a, PaperRows(s)) \in Int
  <2>1. (\A i \in PaperRows(s) : Pnl(a)[i] \in Int) /\ Pnl(a)[n] \in Int /\ Pnl(a)[n] = e.pnl
    BY <1>1, <1>3, <1>2 DEF Counted, PaperRows, Pnl
  <2> DEFINE f == Pnl(a)
             R == PaperRows(s)
  <2>2. IsFiniteSet(R) /\ n \notin R /\ (\A i \in R : f[i] \in Int) /\ f[n] \in Int /\ f[n] = e.pnl
    BY <1>2, <1>4, <2>1
  <2> HIDE DEF f, R
  <2>3. /\ SumFunctionOnSet(f, R \cup {n}) = f[n] + SumFunctionOnSet(f, R)
        /\ SumFunctionOnSet(f, R) \in Int
    BY <2>2, SumAdd
  <2> QED
    BY <2>2, <2>3 DEF SumPnl, f, R
<1> QED
  BY <1>2, <1>3, <1>5, <1>6 DEF PaperPnl, PaperRows, a

\* Live findings add no paper profit.
LEMMA LiveAdd ==
    ASSUME NEW s, Counted(s), NEW t, IsTable(t), NonePaper(t)
    PROVE  Counted(s \o t) /\ PaperPnl(s \o t) = PaperPnl(s)
<1> DEFINE a == s \o t
<1>1. /\ IsTable(a) /\ DOMAIN s \subseteq DOMAIN a /\ (\A i \in DOMAIN s : a[i] = s[i])
      /\ \A i \in DOMAIN a \ DOMAIN s : \E j \in DOMAIN t : a[i] = t[j]
  <2>1. IsTable(s)
    BY DEF Counted
  <2>2. IsTable(s \o t)
    BY <2>1, TableJoin
  <2>3. DOMAIN s \subseteq DOMAIN (s \o t)
    BY <2>1, TableJoin
  <2>4. \A i \in DOMAIN s : (s \o t)[i] = s[i]
    BY <2>1, TableJoin
  <2>5. \A i \in DOMAIN (s \o t) \ DOMAIN s : \E j \in DOMAIN t : (s \o t)[i] = t[j]
    BY <2>1, TableJoin
  <2> QED
    BY <2>2, <2>3, <2>4, <2>5
<1> HIDE DEF a
<1>2. PaperRows(a) = PaperRows(s)
  BY <1>1 DEF PaperRows, NonePaper
<1>3. Counted(a)
  BY <1>1, <1>2 DEF Counted, PaperRows
<1>4. IsFiniteSet(PaperRows(s)) /\ PaperRows(s) \subseteq DOMAIN s
  BY TablePlaces, FS_Subset DEF Counted, PaperRows
<1>5. SumPnl(a, PaperRows(s)) = SumPnl(s, PaperRows(s))
  <2>1. PaperRows(s) \subseteq DOMAIN a /\ \A i \in PaperRows(s) : s[i].pnl \in Int /\ a[i] = s[i]
    BY <1>1, <1>4 DEF Counted
  <2> QED
    BY <1>4, <2>1, SamePnl
<1> QED
  BY <1>2, <1>3, <1>5 DEF PaperPnl, PaperRows, a

\* What a fill is.
Fill == [strategy: Reviewed, day: 1 .. MaxReportDays, pnl: Int,
         source: {"real", "synthetic", "supplied", "mixed", "unknown"}]

\* Some rows of the fills have a profit, and finitely many strategies.
LEMMA FillsOf ==
    ASSUME NEW rows \in Seq(Fill), NEW keep, keep \subseteq DOMAIN rows
    PROVE  /\ IsFiniteSet(keep) /\ IsFiniteSet(Traders(rows, keep)) /\ SumPnl(rows, keep) \in Int
           /\ \A i \in keep : Pnl(rows)[i] \in Int /\ rows[i].strategy \in Traders(rows, keep)
           /\ \A s : Of(rows, keep, s) \subseteq DOMAIN rows
<1>1. IsTable(rows) /\ (\A i \in DOMAIN rows : rows[i] \in Fill) /\ IsFiniteSet(DOMAIN rows)
  BY SeqIsTable, TablePlaces
<1>2. IsFiniteSet(keep)
  BY <1>1, FS_Subset
<1>3. \A i \in keep : Pnl(rows)[i] \in Int
  BY <1>1 DEF Pnl, Fill
<1>4. IsFiniteSet(Traders(rows, keep))
  <2> DEFINE f == [i \in keep |-> rows[i].strategy]
  <2>1. f \in Surjection(keep, Traders(rows, keep))
    BY DEF Surjection, Traders
  <2> QED
    BY <1>2, <2>1, FS_Surjection DEF ExistsSurjection
<1>5. SumPnl(rows, keep) \in Int
  BY <1>2, <1>3, SumIsInt DEF SumPnl
<1> QED
  BY <1>2, <1>3, <1>4, <1>5 DEF Traders, Of

\* The profit of some fills is that of their strategies.
LEMMA ByStrategy ==
    ASSUME NEW rows \in Seq(Fill), NEW keep \in SUBSET DOMAIN rows
    PROVE  SumFunction([s \in Traders(rows, keep) |-> SumPnl(rows, Of(rows, keep, s))]) = SumPnl(rows, keep)
<1> DEFINE key == [i \in keep |-> rows[i].strategy]
           G == Traders(rows, keep)
           f == Pnl(rows)
           g == [s \in G |-> SumPnl(rows, Of(rows, keep, s))]
           S == keep
<1>1. IsFiniteSet(S) /\ IsFiniteSet(G) /\ \A i \in S : f[i] \in Int /\ key[i] \in G
  BY FillsOf
<1>2. \A s : Of(rows, keep, s) = Group(S, key, s)
  BY DEF Of, Group
<1>3. \A s \in G : g[s] = SumFunctionOnSet(f, Group(S, key, s))
  <2> HIDE DEF key, f
  <2> QED
    BY <1>2 DEF f, SumPnl
<1>7. DOMAIN g = G
  OBVIOUS
<1> HIDE DEF key, G, f, g, S
<1>4. \A i \in S : f[i] \in Int
  BY <1>1
<1>5. \A i \in S : key[i] \in G
  BY <1>1
<1>9. IsFiniteSet(S) /\ IsFiniteSet(G)
  BY <1>1
<1>6. SumFunctionOnSet(g, G) = SumFunctionOnSet(f, S)
  BY <1>3, <1>4, <1>5, <1>9, SumByGroup
<1>8. SumFunction(g) = SumPnl(rows, keep)
  BY <1>6, <1>7 DEF SumFunction, SumPnl, f, S
<1> QED
  BY <1>8 DEF g, G

\* The profit of a span of days is that of its days.
LEMMA ByDay ==
    ASSUME NEW rows \in Seq(Fill), NEW from \in Int, NEW to \in Int, NEW g,
           DOMAIN g = (1 .. MaxReportDays) \cap (from .. to),
           \A d \in DOMAIN g : g[d] = SumPnl(rows, _day_bounds_ist(rows, d))
    PROVE  SumFunction(g) = SumPnl(rows, Within(rows, from, to))
<1> DEFINE keep == Within(rows, from, to)
           key == [i \in keep |-> rows[i].day]
           G == (1 .. MaxReportDays) \cap (from .. to)
           f == Pnl(rows)
<1>0. \A i \in DOMAIN rows : rows[i].day \in 1 .. MaxReportDays /\ rows[i].day \in Int
  <2>1. \A i \in DOMAIN rows : rows[i] \in Fill
    BY SeqIsTable
  <2> QED
    BY <2>1 DEF Fill
<1>1. IsFiniteSet(keep) /\ \A i \in keep : f[i] \in Int
  <2>1. keep \subseteq DOMAIN rows
    BY DEF Within
  <2> HIDE DEF keep
  <2> QED
    BY <2>1, FillsOf
<1>2. IsFiniteSet(G)
  <2>1. IsFiniteSet(1 .. MaxReportDays)
    <3>1. 1 \in Int /\ MaxReportDays \in Int
      BY ReportsAssumption
    <3> QED
      BY <3>1, FS_Interval
  <2> QED
    BY <2>1, FS_Subset
<1>3. \A i \in keep : key[i] \in G
  BY <1>0 DEF Within
<1>4. ASSUME NEW d \in G PROVE _day_bounds_ist(rows, d) = Group(keep, key, d)
  <2>1. d \in Int /\ from <= d /\ d <= to
    BY <1>4
  <2>2. \A i \in DOMAIN rows : d <= rows[i].day /\ rows[i].day <= d <=> rows[i].day = d
    BY <1>0, <2>1
  <2>3. \A i \in DOMAIN rows : rows[i].day = d => i \in keep /\ key[i] = d
    BY <2>1 DEF Within
  <2>4. \A i \in keep : i \in DOMAIN rows /\ key[i] = rows[i].day
    BY DEF Within
  <2> HIDE DEF keep, key
  <2> QED
    BY <2>2, <2>3, <2>4 DEF _day_bounds_ist, Within, Group
<1> HIDE DEF keep, key, G, f
<1>5. \A d \in G : g[d] = SumFunctionOnSet(f, Group(keep, key, d))
  BY <1>4, Zenon DEF G, f, SumPnl
<1>6. (\A i \in keep : f[i] \in Int) /\ \A i \in keep : key[i] \in G
  BY <1>1, <1>3
<1>7. SumFunctionOnSet(g, G) = SumFunctionOnSet(f, keep)
  BY <1>1, <1>2, <1>5, <1>6, SumByGroup
<1> QED
  BY <1>7, Zenon DEF SumFunction, SumPnl, f, G, keep
\* A fill is added at the end, on its own day.
LEMMA FillAdd ==
    ASSUME NEW rows \in Seq(Fill), NEW e \in Fill
    PROVE  /\ Append(rows, e) \in Seq(Fill) /\ Len(Append(rows, e)) = Len(rows) + 1 /\ Len(rows) \in Nat
           /\ DOMAIN rows \subseteq DOMAIN Append(rows, e)
           /\ \A keep \in SUBSET DOMAIN rows : SumPnl(Append(rows, e), keep) = SumPnl(rows, keep)
           /\ \A d \in Int : e.day # d => _day_bounds_ist(Append(rows, e), d) = _day_bounds_ist(rows, d)
<1> DEFINE more == Append(rows, e)
<1>1. more \in Seq(Fill) /\ Len(more) = Len(rows) + 1 /\ Len(rows) \in Nat
  BY AppendProperties, LenProperties
<1>2. IsTable(rows) /\ \A i \in DOMAIN rows : rows[i] \in Fill
  BY SeqIsTable
<1>3. /\ DOMAIN more = DOMAIN rows \cup {Len(rows) + 1} /\ Len(rows) + 1 \notin DOMAIN rows
      /\ more[Len(rows) + 1] = e /\ \A i \in DOMAIN rows : more[i] = rows[i]
  BY <1>2, TableAdd
<1> HIDE DEF more
<1>4. ASSUME NEW keep \in SUBSET DOMAIN rows PROVE SumPnl(more, keep) = SumPnl(rows, keep)
  <2>1. IsFiniteSet(keep)
    BY FillsOf
  <2>2. keep \subseteq DOMAIN rows /\ keep \subseteq DOMAIN more
    BY <1>3
  <2>3. \A i \in keep : rows[i].pnl \in Int /\ more[i] = rows[i]
    BY <1>2, <1>3 DEF Fill
  <2> QED
    BY <2>1, <2>2, <2>3, SamePnl
<1>5. ASSUME NEW d \in Int, e.day # d PROVE _day_bounds_ist(more, d) = _day_bounds_ist(rows, d)
  <2>1. e.day \in Int
    BY DEF Fill
  <2>2. ~(d <= e.day /\ e.day <= d)
    BY <1>5, <2>1
  <2> QED
    BY <1>3, <2>2 DEF _day_bounds_ist, Within
<1> QED
  BY <1>1, <1>3, <1>4, <1>5 DEF more

\* The profit of the strategies a review has yet to look at.
TodoPnl(todo) == SumFunction([s \in DOMAIN todo |-> todo[s].pnl])
Todo(todo)    == IsFiniteSet(DOMAIN todo) /\ \A s \in DOMAIN todo : todo[s].pnl \in Int

\* One of them is taken.
LEMMA TodoTake ==
    ASSUME NEW todo, Todo(todo), NEW s \in DOMAIN todo
    PROVE  LET rest == Restrict(todo, DOMAIN todo \ {s})
           IN  /\ Todo(rest) /\ todo[s].pnl \in Int /\ TodoPnl(rest) \in Int
               /\ TodoPnl(todo) = todo[s].pnl + TodoPnl(rest)
<1> DEFINE S == DOMAIN todo
           R == S \ {s}
           rest == Restrict(todo, R)
           f == [x \in S |-> todo[x].pnl]
           g == [x \in R |-> rest[x].pnl]
<1>1. DOMAIN rest = R /\ DOMAIN g = R /\ DOMAIN f = S /\ \A x \in R : rest[x] = todo[x]
  BY DEF Restrict
<1>2. IsFiniteSet(S) /\ IsFiniteSet(R) /\ R \cup {s} = S /\ s \notin R /\ \A x \in S : todo[x].pnl \in Int
  BY FS_Subset DEF Todo
<1> HIDE DEF rest
<1>3. Todo(rest)
  BY <1>1, <1>2 DEF Todo
<1>4. (\A x \in R : f[x] \in Int /\ g[x] = f[x]) /\ f[s] = todo[s].pnl /\ f[s] \in Int
  BY <1>1, <1>2
<1>5. TodoPnl(todo) = SumFunctionOnSet(f, S) /\ TodoPnl(rest) = SumFunctionOnSet(g, R)
  BY <1>1 DEF TodoPnl, SumFunction
<1> HIDE DEF S, R, f, g
<1>6. SumFunctionOnSet(f, R) = SumFunctionOnSet(g, R)
  BY <1>2, <1>4, SumSame
<1>7. \A x \in R : f[x] \in Int
  BY <1>4
<1>8. SumFunctionOnSet(f, R \cup {s}) = f[s] + SumFunctionOnSet(f, R) /\ SumFunctionOnSet(f, R) \in Int
  BY <1>2, <1>4, <1>7, SumAdd
<1>9. todo[s].pnl \in Int /\ TodoPnl(rest) \in Int /\ TodoPnl(todo) = todo[s].pnl + TodoPnl(rest)
  BY <1>2, <1>4, <1>5, <1>6, <1>8
<1> QED
  BY <1>3, <1>9 DEF rest, R, S

\* When none is left, nothing is.
LEMMA TodoNone ==
    ASSUME NEW todo, DOMAIN todo = {}
    PROVE  TodoPnl(todo) = 0
<1>1. IsFiniteSet({}) /\ DOMAIN [s \in DOMAIN todo |-> todo[s].pnl] = {}
  BY FS_EmptySet
<1> QED
  BY <1>1, SumFirst DEF TodoPnl, SumFunction

\* A record with these fields, and perhaps more.
HasFields(r, fields) == r = [x \in DOMAIN r |-> r[x]] /\ fields \subseteq DOMAIN r

-----------------------------------------------------------------------------
(* Reviews and reports: what a review finds and a report says.             *)

\* The rows of a day's review.
About(rows, d) == Counted(rows) /\ \A i \in DOMAIN rows : rows[i].review_date = d

\* A review is of a day that has come; it will replace what it found stored; and what it has
\* found, with what it has yet to look at, is the profit of the fills it began with.
ReviewOf(rev, rows, stored, date) ==
    /\ HasFields(rev, {"at", "as_of", "fills", "found", "replaced", "todo"})
    /\ rev.at \in {"paper", "live"} /\ rev.as_of \in 1 .. date
    /\ rev.replaced = Len(stored[rev.as_of])
    /\ About(rev.found, rev.as_of) /\ PaperPnl(rev.found) \in Int
    /\ rev.fills \subseteq DOMAIN rows /\ Todo(rev.todo)
    /\ rev.at = "paper" => PaperPnl(rev.found) + TodoPnl(rev.todo) = SumPnl(rows, rev.fills)
    /\ rev.at = "live" => PaperPnl(rev.found) = SumPnl(rows, rev.fills)

\* A report under way adds up as long as no fill has come.
ReportOf(rep, rows) ==
    /\ HasFields(rep, {"at"})
    /\ rep.at \in {"total", "closing", "strategies", "live"} =>
          /\ HasFields(rep, {"from", "to", "seen", "total"})
          /\ rep.from \in Int /\ rep.to \in Int /\ rep.seen \in Nat /\ rep.seen <= Len(rows)
          /\ rep.seen = Len(rows) => rep.total = SumPnl(rows, Within(rows, rep.from, rep.to))
    /\ rep.at \in {"strategies", "live"} =>
          /\ HasFields(rep, {"by_strategy"})
          /\ rep.seen = Len(rows) => rep.total = SumFunction(rep.by_strategy)

\* The inductive invariant of the reviews and reports: a day's findings are about it, and those of an
\* up-to-date review have the profit of its fills.
ReportsIInv ==
    /\ ReportsTypeOK /\ ReportAddsUp
    /\ paper_fills \in Seq(Fill) /\ IsTable(live_trades)
    /\ findings = [d \in 1 .. MaxReportDays |-> findings[d]]
    /\ \A d \in 1 .. MaxReportDays : About(findings[d], d)
    /\ \A d \in up_to_date : PaperPnl(findings[d]) = SumPnl(paper_fills, _day_bounds_ist(paper_fills, d))
    /\ review.at # "idle" => ReviewOf(review, paper_fills, findings, calendar)
    /\ ReportOf(report, paper_fills)

\* There is nothing to report yet.
LEMMA ReportsStart == ReportsInit => ReportsIInv
<1> SUFFICES ASSUME ReportsInit PROVE ReportsIInv
  OBVIOUS
<1>1. IsTable(<<>>) /\ DOMAIN <<>> = {} /\ Counted(<<>>) /\ <<>> \in Seq(Fill)
  BY NoRows, NoPaper, EmptySeq
<1>2. HasFields(report, {"at"}) /\ report.at = "idle" /\ review.at = "idle"
  BY DEF ReportsInit, HasFields, NoReport, NoReview
<1>3. ReportOf(report, paper_fills) /\ ReportAddsUp
  BY <1>2 DEF ReportOf, ReportAddsUp
<1>4. \A d \in 1 .. MaxReportDays : findings[d] = <<>>
  BY DEF ReportsInit
<1>5. \A d \in 1 .. MaxReportDays : About(findings[d], d)
  BY <1>1, <1>4 DEF About
<1>6. ReportsTypeOK
  BY <1>1, <1>2, <1>4, ReportsAssumption DEF ReportsInit, ReportsTypeOK
<1>7. findings = [d \in 1 .. MaxReportDays |-> findings[d]]
  BY DEF ReportsInit
<1> QED
  BY <1>1, <1>2, <1>3, <1>5, <1>6, <1>7 DEF ReportsInit, ReportsIInv

\* A paper row found is about the day and counts for its profit.
LEMMA FoundPaper ==
    ASSUME NEW s, NEW d, About(s, d), NEW e, e.mode = "paper", e.pnl \in Int, e.review_date = d
    PROVE  /\ About(Append(s, e), d) /\ PaperPnl(s) \in Int
           /\ PaperPnl(Append(s, e)) = e.pnl + PaperPnl(s)
<1>1. Counted(s) /\ IsTable(s)
  BY DEF About, Counted
<1>2. Counted(Append(s, e)) /\ PaperPnl(s) \in Int /\ PaperPnl(Append(s, e)) = e.pnl + PaperPnl(s)
  BY <1>1, PaperAdd
<1>3. \A i \in DOMAIN Append(s, e) : Append(s, e)[i].review_date = d
  BY <1>1, TableAdd DEF About
<1> QED
  BY <1>2, <1>3 DEF About

\* Live findings are about the day too, and count for nothing on paper.
LEMMA FoundLive ==
    ASSUME NEW s, NEW d, About(s, d), NEW t, IsTable(t), NonePaper(t), \A i \in DOMAIN t : t[i].review_date = d
    PROVE  About(s \o t, d) /\ PaperPnl(s \o t) = PaperPnl(s)
<1>1. Counted(s) /\ IsTable(s)
  BY DEF About, Counted
<1>2. Counted(s \o t) /\ PaperPnl(s \o t) = PaperPnl(s)
  BY <1>1, LiveAdd
<1> DEFINE a == s \o t
<1>3. (\A i \in DOMAIN s : a[i] = s[i]) /\ \A i \in DOMAIN a \ DOMAIN s : \E j \in DOMAIN t : a[i] = t[j]
  BY <1>1, TableJoin
<1> HIDE DEF a
<1>4. \A i \in DOMAIN a : a[i].review_date = d
  BY <1>3 DEF About
<1> QED
  BY <1>2, <1>4 DEF About, a

\* What the day's review stores is what it found: what it first read is all there still is.
LEMMA StoredIsFound ==
    ASSUME NEW rev, IsTable(findings[rev.as_of]), IsTable(rev.found), rev.replaced = Len(findings[rev.as_of])
    PROVE  StoredFindings(rev) = rev.found
<1> DEFINE old == findings[rev.as_of]
<1>1. Len(old) \in Nat
  BY LenProperties DEF IsTable
<1>2. Len(old) + 1 \in Int /\ Len(old) \in Int /\ Len(old) < Len(old) + 1
  <2> HIDE DEF old
  <2> QED
    BY <1>1
<1>3. SubSeq(old, Len(old) + 1, Len(old)) = <<>>
  <2> HIDE DEF old
  <2> QED
    BY <1>2, SubSeqEmpty
<1>4. <<>> \o rev.found = rev.found
  BY ConcatEmptySeq DEF IsTable
<1> QED
  BY <1>3, <1>4, Zenon DEF StoredFindings

\* Days only pass, what is counted is found and stored once, and sums stay what they were
\* unless a fill comes.
LEMMA ReportsStep == ReportsIInv /\ [ReportsNext]_reportVars => ReportsIInv'
<1> SUFFICES ASSUME ReportsIInv, [ReportsNext]_reportVars PROVE ReportsIInv'
  OBVIOUS
<1> USE ReportsAssumption
<1>0. /\ calendar \in 1 .. MaxReportDays /\ calendar \in Nat
      /\ paper_fills \in Seq(Fill) /\ up_to_date \subseteq 1 .. MaxReportDays
      /\ \A d \in 1 .. MaxReportDays : d \in Int
  BY DEF ReportsIInv, ReportsTypeOK
<1>1. CASE PaperFills
  <2>1. PICK s \in Reviewed, k \in FillKind :
           paper_fills' = Append(paper_fills, [strategy |-> s, day |-> calendar, pnl |-> k[1], source |-> k[2]])
    BY <1>1 DEF PaperFills
  <2> DEFINE e == [strategy |-> s, day |-> calendar, pnl |-> k[1], source |-> k[2]]
  <2>2. e \in Fill /\ e.day = calendar /\ paper_fills' = Append(paper_fills, e)
    <3>1. k[1] \in Int /\ k[2] \in {"real", "synthetic", "supplied", "mixed", "unknown"}
      <4>1. k \in Int \X {"real", "synthetic", "supplied", "mixed", "unknown"}
        OBVIOUS
      <4>2. k[1] \in Int
        BY <4>1
      <4>3. k[2] \in {"real", "synthetic", "supplied", "mixed", "unknown"}
        BY <4>1
      <4> QED
        BY <4>2, <4>3
    <3> QED
      BY <1>0, <2>1, <3>1 DEF Fill
  <2> HIDE DEF e
  <2>3. /\ paper_fills' \in Seq(Fill) /\ Len(paper_fills') = Len(paper_fills) + 1 /\ Len(paper_fills) \in Nat
        /\ DOMAIN paper_fills \subseteq DOMAIN paper_fills'
        /\ \A keep \in SUBSET DOMAIN paper_fills : SumPnl(paper_fills', keep) = SumPnl(paper_fills, keep)
        /\ \A d \in Int : calendar # d => _day_bounds_ist(paper_fills', d) = _day_bounds_ist(paper_fills, d)
    BY <1>0, <2>2, FillAdd
  <2>4. \A i \in DOMAIN paper_fills' : paper_fills'[i].day <= calendar
    <3>1. IsTable(paper_fills)
      BY <1>0, SeqIsTable
    <3>2. /\ DOMAIN paper_fills' = DOMAIN paper_fills \cup {Len(paper_fills) + 1}
          /\ paper_fills'[Len(paper_fills) + 1] = e /\ \A i \in DOMAIN paper_fills : paper_fills'[i] = paper_fills[i]
      BY <2>2, <3>1, TableAdd
    <3> QED
      BY <1>0, <2>2, <3>2 DEF ReportsIInv, ReportsTypeOK
  <2>5. /\ up_to_date' = up_to_date \ {calendar}
        /\ UNCHANGED <<calendar, live_trades, live_pnl, review, findings, report>>
    BY <1>1 DEF PaperFills
  <2>6. \A d \in up_to_date' : PaperPnl(findings[d]) = SumPnl(paper_fills', _day_bounds_ist(paper_fills', d))
    <3> TAKE d \in up_to_date'
    <3>1. d \in up_to_date /\ d # calendar /\ d \in Int
      BY <1>0, <2>5
    <3>2. _day_bounds_ist(paper_fills', d) = _day_bounds_ist(paper_fills, d)
      BY <2>3, <3>1
    <3>3. _day_bounds_ist(paper_fills, d) \in SUBSET DOMAIN paper_fills
      BY DEF _day_bounds_ist, Within
    <3>4. SumPnl(paper_fills', _day_bounds_ist(paper_fills, d)) = SumPnl(paper_fills, _day_bounds_ist(paper_fills, d))
      BY <2>3, <3>3
    <3> QED
      BY <3>1, <3>2, <3>4 DEF ReportsIInv
  <2>7. review.at # "idle" => ReviewOf(review, paper_fills', findings, calendar)
    <3>1. review.at # "idle" => review.fills \in SUBSET DOMAIN paper_fills
      BY DEF ReportsIInv, ReviewOf
    <3>2. review.at # "idle" => /\ review.fills \subseteq DOMAIN paper_fills'
                                /\ SumPnl(paper_fills', review.fills) = SumPnl(paper_fills, review.fills)
      BY <2>3, <3>1
    <3> QED
      BY <3>2 DEF ReportsIInv, ReviewOf
  <2>8. ReportOf(report, paper_fills')
    <3>1. ReportOf(report, paper_fills)
      BY DEF ReportsIInv
    <3>2. \A n \in Nat : n <= Len(paper_fills) => n <= Len(paper_fills') /\ n # Len(paper_fills')
      BY <2>3
    <3> QED
      BY <3>1, <3>2 DEF ReportOf
  <2>9. ReportsTypeOK'
    BY <2>4, <2>5 DEF ReportsIInv, ReportsTypeOK
  <2> QED
    BY <2>3, <2>5, <2>6, <2>7, <2>8, <2>9 DEF ReportsIInv, ReportAddsUp
<1>2. CASE LiveTradeFills
  <2>1. IsTable(live_trades')
    BY <1>2, TableAdd DEF LiveTradeFills, ReportsIInv
  <2>2. live_pnl' \in Int /\ UNCHANGED <<calendar, paper_fills, review, findings, report, up_to_date>>
    BY <1>2 DEF LiveTradeFills, ReportsIInv, ReportsTypeOK
  <2>3. ReportsTypeOK'
    BY <2>2 DEF ReportsIInv, ReportsTypeOK
  <2> QED
    BY <2>1, <2>2, <2>3 DEF ReportsIInv, ReportAddsUp
<1>3. CASE NextCalendarDay
  <2>1. calendar' \in 1 .. MaxReportDays /\ \A d \in Int : d <= calendar => d <= calendar'
    BY <1>0, <1>3 DEF NextCalendarDay
  <2>2. UNCHANGED <<paper_fills, live_trades, live_pnl, review, findings, report, up_to_date>>
    BY <1>3 DEF NextCalendarDay
  <2>3. review.at # "idle" => ReviewOf(review, paper_fills, findings, calendar')
    <3>1. \A d \in 1 .. calendar : d \in 1 .. calendar'
      BY <1>0, <2>1
    <3> QED
      BY <3>1 DEF ReportsIInv, ReviewOf
  <2>4. ReportsTypeOK'
    <3>1. \A i \in DOMAIN paper_fills : paper_fills[i].day \in Int
      <4>1. \A i \in DOMAIN paper_fills : paper_fills[i] \in Fill
        BY <1>0, SeqIsTable
      <4> QED
        BY <4>1 DEF Fill
    <3> QED
      BY <1>0, <2>1, <2>2, <3>1 DEF ReportsIInv, ReportsTypeOK
  <2> QED
    BY <2>2, <2>3, <2>4 DEF ReportsIInv, ReportAddsUp
<1>4. ASSUME NEW rev, Reviewing(rev), ReviewOf(rev, paper_fills, findings, calendar) PROVE ReportsIInv'
  BY <1>4 DEF Reviewing, ReportsIInv, ReportsTypeOK, ReportAddsUp, ReviewOf
<1>5. ASSUME NEW rep, Writing(rep), ReportOf(rep, paper_fills),
             rep.at \in {"idle", "total", "closing", "strategies", "live"}
      PROVE  ReportsIInv'
  BY <1>5 DEF Writing, ReportsIInv, ReportsTypeOK, ReportAddsUp
<1>6. CASE run_post_trade_review
  <2> DEFINE day == _day_bounds_ist(paper_fills, calendar)
             Count(s) == [trades |-> Cardinality(Of(paper_fills, day, s)),
                          pnl |-> SumPnl(paper_fills, Of(paper_fills, day, s))]
             todo == [s \in Traders(paper_fills, day) |-> Count(s)]
             rev == [at |-> "paper", as_of |-> calendar, fills |-> day, found |-> <<>>,
                     replaced |-> Len(findings[calendar]), todo |-> todo]
  <2>1. Reviewing(rev)
    BY <1>6, Zenon DEF run_post_trade_review
  <2>2. day \subseteq DOMAIN paper_fills
    BY DEF _day_bounds_ist, Within
  <2> HIDE DEF day
  <2>3. IsFiniteSet(Traders(paper_fills, day)) /\ \A s : Of(paper_fills, day, s) \subseteq DOMAIN paper_fills
    BY <1>0, <2>2, FillsOf
  <2>4. Todo(todo)
    <3>1. \A s \in Traders(paper_fills, day) : SumPnl(paper_fills, Of(paper_fills, day, s)) \in Int
      BY <1>0, <2>3, FillsOf
    <3> QED
      BY <2>3, <3>1 DEF Todo
  <2>5. TodoPnl(todo) = SumPnl(paper_fills, day)
    <3>1. SumFunction([s \in Traders(paper_fills, day) |-> SumPnl(paper_fills, Of(paper_fills, day, s))])
            = SumPnl(paper_fills, day)
      BY <1>0, <2>2, ByStrategy
    <3>2. [s \in DOMAIN todo |-> todo[s].pnl]
            = [s \in Traders(paper_fills, day) |-> SumPnl(paper_fills, Of(paper_fills, day, s))]
      OBVIOUS
    <3> HIDE DEF todo
    <3> QED
      BY <3>1, <3>2, Zenon DEF TodoPnl
  <2>6. SumPnl(paper_fills, day) \in Int
    BY <1>0, <2>2, FillsOf
  <2> HIDE DEF todo
  <2>7. HasFields(rev, {"at", "as_of", "fills", "found", "replaced", "todo"})
    BY DEF HasFields
  <2>8. /\ rev.at = "paper" /\ rev.as_of = calendar /\ rev.found = <<>> /\ rev.fills = day /\ rev.todo = todo
        /\ rev.replaced = Len(findings[calendar])
    OBVIOUS
  <2> HIDE DEF rev
  <2>9. About(<<>>, calendar) /\ PaperPnl(<<>>) = 0
    BY NoRows, NoPaper DEF About
  <2>10. ReviewOf(rev, paper_fills, findings, calendar)
    BY <1>0, <2>2, <2>4, <2>5, <2>6, <2>7, <2>8, <2>9 DEF ReviewOf
  <2> QED
    BY <1>4, <2>1, <2>10
<1>7. ASSUME NEW s \in DOMAIN review.todo, _review_paper_trades(s) PROVE ReportsIInv'
  <2>1. PICK rows : Reviewing([review EXCEPT
          !.todo = Restrict(@, DOMAIN @ \ {s}),
          !.found = Append(@, [strategy |-> s, review_date |-> review.as_of,
                               mode |-> "paper", trades |-> review.todo[s].trades,
                               winning |-> Wins(paper_fills, rows), losing |-> Losses(paper_fills, rows),
                               pnl |-> review.todo[s].pnl,
                               source |-> combine(DataSources(paper_fills, rows))])])
    BY <1>7, Zenon DEF _review_paper_trades
  <2> DEFINE e == [strategy |-> s, review_date |-> review.as_of,
                   mode |-> "paper", trades |-> review.todo[s].trades,
                   winning |-> Wins(paper_fills, rows), losing |-> Losses(paper_fills, rows),
                   pnl |-> review.todo[s].pnl,
                   source |-> combine(DataSources(paper_fills, rows))]
             rest == Restrict(review.todo, DOMAIN review.todo \ {s})
             rev == [review EXCEPT !.todo = Restrict(@, DOMAIN @ \ {s}), !.found = Append(@, e)]
  <2>2. e.review_date = review.as_of /\ e.mode = "paper" /\ e.pnl = review.todo[s].pnl /\ Reviewing(rev)
    BY <2>1
  <2> HIDE DEF e
  <2>3. review.at = "paper" /\ ReviewOf(review, paper_fills, findings, calendar)
    BY <1>7 DEF _review_paper_trades, ReportsIInv
  <2>4. HasFields(review, {"at", "as_of", "fills", "found", "replaced", "todo"})
    BY <2>3 DEF ReviewOf
  <2>5. /\ HasFields(rev, {"at", "as_of", "fills", "found", "replaced", "todo"})
        /\ rev.at = "paper" /\ rev.as_of = review.as_of /\ rev.found = Append(review.found, e)
        /\ rev.fills = review.fills /\ rev.replaced = review.replaced /\ rev.todo = rest
    BY <2>3, <2>4 DEF HasFields
  <2> HIDE DEF rev
  <2>6. /\ Todo(rest) /\ review.todo[s].pnl \in Int /\ TodoPnl(rest) \in Int
        /\ TodoPnl(review.todo) = review.todo[s].pnl + TodoPnl(rest)
    <3>1. Todo(review.todo)
      BY <2>3 DEF ReviewOf
    <3> QED
      BY <3>1, TodoTake
  <2> HIDE DEF rest
  <2>7. /\ About(Append(review.found, e), review.as_of) /\ PaperPnl(review.found) \in Int
        /\ PaperPnl(Append(review.found, e)) = e.pnl + PaperPnl(review.found)
    <3>1. About(review.found, review.as_of)
      BY <2>3 DEF ReviewOf
    <3>2. e.pnl \in Int
      BY <2>2, <2>6
    <3> QED
      BY <2>2, <3>1, <3>2, FoundPaper
  <2>8. PaperPnl(rev.found) \in Int /\ PaperPnl(rev.found) + TodoPnl(rest) = SumPnl(paper_fills, review.fills)
    <3> DEFINE a == PaperPnl(review.found)
               b == TodoPnl(rest)
               c == review.todo[s].pnl
               f == PaperPnl(rev.found)
               g == TodoPnl(review.todo)
               h == SumPnl(paper_fills, review.fills)
    <3>1. a \in Int /\ b \in Int /\ c \in Int /\ f = c + a /\ g = c + b
      BY <2>2, <2>5, <2>6, <2>7
    <3>2. a + g = h
      BY <2>3 DEF ReviewOf
    <3> HIDE DEF a, b, c, f, g, h
    <3>3. f \in Int /\ f + b = h
      BY <3>1, <3>2
    <3> QED
      BY <3>3 DEF f, b, h
  <2>9. ReviewOf(rev, paper_fills, findings, calendar)
    BY <2>3, <2>5, <2>6, <2>7, <2>8 DEF ReviewOf
  <2> QED
    BY <1>4, <2>2, <2>9
<1>8. CASE _review_live_trades
  <2> DEFINE day == _day_bounds_ist(live_trades, review.as_of)
             Row(s) == [strategy |-> s, review_date |-> review.as_of, mode |-> "live",
                trades |-> Cardinality(Of(live_trades, day, s)), winning |-> 0, losing |-> 0, pnl |-> live_pnl,
                source |-> combine(DataSources(live_trades, Of(live_trades, day, s)))]
             new == {Row(s) : s \in Traders(live_trades, day)}
             rev == [review EXCEPT !.at = "live", !.found = @ \o SetToSeq(new)]
  <2>1. Reviewing(rev)
    BY <1>8, Zenon DEF _review_live_trades
  <2>2. review.at = "paper" /\ DOMAIN review.todo = {} /\ ReviewOf(review, paper_fills, findings, calendar)
    BY <1>8 DEF _review_live_trades, ReportsIInv
  <2>3. HasFields(review, {"at", "as_of", "fills", "found", "replaced", "todo"})
    BY <2>2 DEF ReviewOf
  <2>4. \A f \in new : f.review_date = review.as_of /\ f.mode = "live"
    OBVIOUS
  <2>5. IsFiniteSet(new)
    <3>1. IsFiniteSet(day)
      <4>1. IsFiniteSet(DOMAIN live_trades)
        BY TablePlaces DEF ReportsIInv
      <4>2. day \subseteq DOMAIN live_trades
        BY DEF _day_bounds_ist, Within
      <4> HIDE DEF day
      <4> QED
        BY <4>1, <4>2, FS_Subset
    <3> HIDE DEF day, Row
    <3>2. IsFiniteSet(Traders(live_trades, day))
      <4>1. [i \in day |-> live_trades[i].strategy] \in Surjection(day, Traders(live_trades, day))
        BY DEF Surjection, Traders
      <4> QED
        BY <3>1, <4>1, FS_Surjection
    <3>3. [s \in Traders(live_trades, day) |-> Row(s)] \in Surjection(Traders(live_trades, day), new)
      BY DEF Surjection
    <3> HIDE DEF new
    <3> QED
      BY <3>2, <3>3, FS_Surjection
  <2> HIDE DEF new
  <2>6. /\ HasFields(rev, {"at", "as_of", "fills", "found", "replaced", "todo"})
        /\ rev.at = "live" /\ rev.as_of = review.as_of /\ rev.found = review.found \o SetToSeq(new)
        /\ rev.fills = review.fills /\ rev.replaced = review.replaced /\ rev.todo = review.todo
    BY <2>3 DEF HasFields
  <2> HIDE DEF rev
  <2>7. IsTable(SetToSeq(new)) /\ \A i \in DOMAIN SetToSeq(new) : SetToSeq(new)[i] \in new
    BY <2>5, Listed, SeqIsTable
  <2>8. About(rev.found, review.as_of) /\ PaperPnl(rev.found) = PaperPnl(review.found)
    <3>1. About(review.found, review.as_of)
      BY <2>2 DEF ReviewOf
    <3>2. NonePaper(SetToSeq(new)) /\ \A i \in DOMAIN SetToSeq(new) : SetToSeq(new)[i].review_date = review.as_of
      BY <2>4, <2>7 DEF NonePaper
    <3> QED
      BY <2>6, <2>7, <3>1, <3>2, FoundLive
  <2>9. PaperPnl(review.found) = SumPnl(paper_fills, review.fills)
    <3>1. TodoPnl(review.todo) = 0
      BY <2>2, TodoNone
    <3> QED
      BY <2>2, <3>1 DEF ReviewOf
  <2>10. ReviewOf(rev, paper_fills, findings, calendar)
    BY <2>2, <2>6, <2>8, <2>9 DEF ReviewOf
  <2> QED
    BY <1>4, <2>1, <2>10
<1>9. CASE post_trade_review_commit
  <2> DEFINE d == review.as_of
  <2>1. /\ review.at = "live" /\ review' = NoReview
        /\ findings' = [findings EXCEPT ![d] = StoredFindings(review)]
        /\ up_to_date' = IF _day_bounds_ist(paper_fills, d) = review.fills
                         THEN up_to_date \cup {d} ELSE up_to_date \ {d}
        /\ UNCHANGED <<calendar, paper_fills, live_trades, live_pnl, report>>
    BY <1>9 DEF post_trade_review_commit
  <2>2. ReviewOf(review, paper_fills, findings, calendar)
    BY <2>1 DEF ReportsIInv
  <2>3. /\ d \in 1 .. MaxReportDays /\ d <= calendar /\ About(review.found, d)
        /\ PaperPnl(review.found) = SumPnl(paper_fills, review.fills) /\ review.replaced = Len(findings[d])
    BY <1>0, <2>1, <2>2 DEF ReviewOf
  <2>4. StoredFindings(review) = review.found
    <3>1. IsTable(findings[d]) /\ IsTable(review.found)
      BY <2>3 DEF ReportsIInv, About, Counted
    <3> QED
      BY <2>3, <3>1, StoredIsFound
  <2> HIDE DEF d
  <2>5. /\ findings' = [x \in 1 .. MaxReportDays |-> findings'[x]] /\ findings'[d] = review.found
        /\ \A x \in 1 .. MaxReportDays : x # d => findings'[x] = findings[x]
    BY <2>1, <2>3, <2>4 DEF ReportsIInv
  <2>6. \A x \in 1 .. MaxReportDays : About(findings'[x], x)
    BY <2>3, <2>5 DEF ReportsIInv
  <2>7. up_to_date' \subseteq 1 .. MaxReportDays
    BY <1>0, <2>1, <2>3
  <2>8. ASSUME NEW x \in up_to_date'
        PROVE  PaperPnl(findings'[x]) = SumPnl(paper_fills, _day_bounds_ist(paper_fills, x))
    <3>1. CASE x = d
      <4>1. _day_bounds_ist(paper_fills, d) = review.fills
        BY <2>1, <2>8, <3>1
      <4> QED
        BY <2>3, <2>5, <3>1, <4>1
    <3>2. CASE x # d
      <4>1. x \in up_to_date
        BY <2>1, <2>8, <3>2
      <4> QED
        BY <1>0, <2>5, <3>2, <4>1 DEF ReportsIInv
    <3> QED
      BY <3>1, <3>2
  <2>9. ReportsTypeOK'
    <3>1. \A x \in 1 .. MaxReportDays : \A i \in DOMAIN findings'[x] : findings'[x][i].review_date = x /\ x <= calendar
      <4> TAKE x \in 1 .. MaxReportDays
      <4>1. CASE x = d
        BY <2>3, <2>5, <4>1 DEF About
      <4>2. CASE x # d
        BY <2>5, <4>2 DEF ReportsIInv, ReportsTypeOK
      <4> QED
        BY <4>1, <4>2
    <3> QED
      BY <2>1, <2>7, <3>1 DEF ReportsIInv, ReportsTypeOK, NoReview
  <2> QED
    BY <2>1, <2>5, <2>6, <2>8, <2>9 DEF ReportsIInv, ReportAddsUp, NoReview
<1>10. CASE generate_investor_report
  <2>1. PICK p \in Periods \cup {_prior_week} :
           Writing([at |-> "total", from |-> p[1], to |-> p[2], seen |-> Len(paper_fills),
                    total |-> SumPnl(paper_fills, _period_bounds_ist(p[1], p[2]))])
    BY <1>10, Zenon DEF generate_investor_report
  <2>2. p[1] \in Int /\ p[2] \in Int
    <3>1. CASE p \in Periods
      <4>1. p \in (1 .. MaxReportDays) \X (1 .. MaxReportDays)
        BY <3>1 DEF Periods
      <4>2. p[1] \in 1 .. MaxReportDays /\ p[2] \in 1 .. MaxReportDays
        BY <4>1
      <4> QED
        BY <4>2
    <3>2. CASE p = _prior_week
      BY <1>0, <3>2 DEF _prior_week
    <3> QED
      BY <3>1, <3>2
  <2> DEFINE rep == [at |-> "total", from |-> p[1], to |-> p[2], seen |-> Len(paper_fills),
                     total |-> SumPnl(paper_fills, _period_bounds_ist(p[1], p[2]))]
  <2>3. HasFields(rep, {"at"}) /\ HasFields(rep, {"from", "to", "seen", "total"}) /\ Writing(rep)
    BY <2>1 DEF HasFields
  <2>4. /\ rep.at = "total" /\ rep.from = p[1] /\ rep.to = p[2] /\ rep.seen = Len(paper_fills)
        /\ rep.total = SumPnl(paper_fills, Within(paper_fills, p[1], p[2]))
    BY DEF _period_bounds_ist
  <2> HIDE DEF rep
  <2>5. Len(paper_fills) \in Nat
    BY <1>0, LenProperties
  <2>6. ReportOf(rep, paper_fills)
    BY <2>2, <2>3, <2>4, <2>5 DEF ReportOf
  <2> QED
    BY <1>5, <2>3, <2>4, <2>6
<1>11. ASSUME report.at \in {"total", "closing", "strategies", "live"}, NEW more, "at" \in DOMAIN more,
              DOMAIN more \cap {"from", "to", "seen", "total"} = {}
       PROVE  /\ HasFields(With(report, more), {"at", "from", "to", "seen", "total"})
              /\ With(report, more).at = more.at
              /\ With(report, more).from = report.from /\ With(report, more).to = report.to
              /\ With(report, more).seen = report.seen /\ With(report, more).total = report.total
              /\ report.from \in Int /\ report.to \in Int /\ report.seen \in Nat /\ report.seen <= Len(paper_fills)
              /\ report.seen = Len(paper_fills)
                    => report.total = SumPnl(paper_fills, Within(paper_fills, report.from, report.to))
  <2>1. ReportOf(report, paper_fills)
    BY DEF ReportsIInv
  <2>2. {"from", "to", "seen", "total"} \subseteq DOMAIN report
    BY <1>11, <2>1 DEF ReportOf, HasFields
  <2>3. /\ HasFields(With(report, more), {"at", "from", "to", "seen", "total"})
        /\ With(report, more).at = more.at
        /\ With(report, more).from = report.from /\ With(report, more).to = report.to
        /\ With(report, more).seen = report.seen /\ With(report, more).total = report.total
    BY <1>11, <2>2 DEF HasFields, With
  <2>4. /\ report.from \in Int /\ report.to \in Int /\ report.seen \in Nat /\ report.seen <= Len(paper_fills)
        /\ report.seen = Len(paper_fills)
              => report.total = SumPnl(paper_fills, Within(paper_fills, report.from, report.to))
    BY <1>11, <2>1 DEF ReportOf
  <2> QED
    BY <2>3, <2>4
<1>12. CASE report_closing_fills
  <2>1. PICK w, l : Writing(With(report, [at |-> "closing", winning |-> w, losing |-> l]))
    BY <1>12, Zenon DEF report_closing_fills
  <2> DEFINE more == [at |-> "closing", winning |-> w, losing |-> l]
             rep == With(report, more)
  <2>2. "at" \in DOMAIN more /\ more.at = "closing" /\ DOMAIN more \cap {"from", "to", "seen", "total"} = {}
    OBVIOUS
  <2>3. report.at = "total" /\ Writing(rep)
    BY <1>12, <2>1 DEF report_closing_fills
  <2> HIDE DEF more
  <2>4. /\ HasFields(rep, {"at", "from", "to", "seen", "total"}) /\ rep.at = "closing"
        /\ rep.from \in Int /\ rep.to \in Int /\ rep.seen \in Nat /\ rep.seen <= Len(paper_fills)
        /\ rep.seen = Len(paper_fills) => rep.total = SumPnl(paper_fills, Within(paper_fills, rep.from, rep.to))
    BY <1>11, <2>2, <2>3
  <2> HIDE DEF rep
  <2>5. ReportOf(rep, paper_fills)
    BY <2>4 DEF ReportOf, HasFields
  <2> QED
    BY <1>5, <2>3, <2>4, <2>5
<1>13. CASE report_strategies
  <2> DEFINE rows == _period_bounds_ist(report.from, report.to)
             by == [s \in Traders(paper_fills, rows) |-> SumPnl(paper_fills, Of(paper_fills, rows, s))]
             more == [at |-> "strategies", by_strategy |-> by]
             rep == With(report, more)
  <2>1. report.at = "closing" /\ Writing(rep)
    BY <1>13, Zenon DEF report_strategies
  <2>2. rows = Within(paper_fills, report.from, report.to) /\ rows \subseteq DOMAIN paper_fills
    BY DEF _period_bounds_ist, Within
  <2> HIDE DEF rows
  <2>3. SumFunction(by) = SumPnl(paper_fills, rows)
    BY <1>0, <2>2, ByStrategy
  <2> HIDE DEF by
  <2>4. /\ "at" \in DOMAIN more /\ more.at = "strategies" /\ DOMAIN more \cap {"from", "to", "seen", "total"} = {}
        /\ "by_strategy" \in DOMAIN more /\ more.by_strategy = by
    OBVIOUS
  <2> HIDE DEF more
  <2>5. /\ HasFields(rep, {"at", "from", "to", "seen", "total"}) /\ rep.at = "strategies"
        /\ rep.from = report.from /\ rep.to = report.to
        /\ rep.from \in Int /\ rep.to \in Int /\ rep.seen \in Nat /\ rep.seen <= Len(paper_fills)
        /\ rep.seen = Len(paper_fills) => rep.total = SumPnl(paper_fills, Within(paper_fills, rep.from, rep.to))
    BY <1>11, <2>1, <2>4
  <2>6. "by_strategy" \in DOMAIN rep /\ rep.by_strategy = by
    BY <2>4 DEF With
  <2> HIDE DEF rep
  <2>7. ReportOf(rep, paper_fills)
    BY <2>2, <2>3, <2>5, <2>6 DEF ReportOf, HasFields
  <2> QED
    BY <1>5, <2>1, <2>5, <2>7
<1>14. CASE report_live_trades
  <2>1. PICK n : Writing(With(report, [at |-> "live", live |-> n, live_pnl |-> live_pnl]))
    BY <1>14, Zenon DEF report_live_trades
  <2> DEFINE more == [at |-> "live", live |-> n, live_pnl |-> live_pnl]
             rep == With(report, more)
  <2>2. /\ "at" \in DOMAIN more /\ more.at = "live" /\ DOMAIN more \cap {"from", "to", "seen", "total"} = {}
        /\ "by_strategy" \notin DOMAIN more
    OBVIOUS
  <2>3. report.at = "strategies" /\ Writing(rep)
    BY <1>14, <2>1 DEF report_live_trades
  <2> HIDE DEF more
  <2>4. /\ HasFields(rep, {"at", "from", "to", "seen", "total"}) /\ rep.at = "live"
        /\ rep.seen = report.seen /\ rep.total = report.total
        /\ rep.from \in Int /\ rep.to \in Int /\ rep.seen \in Nat /\ rep.seen <= Len(paper_fills)
        /\ rep.seen = Len(paper_fills) => rep.total = SumPnl(paper_fills, Within(paper_fills, rep.from, rep.to))
    BY <1>11, <2>2, <2>3
  <2>5. /\ "by_strategy" \in DOMAIN report
        /\ report.seen = Len(paper_fills) => report.total = SumFunction(report.by_strategy)
    BY <2>3 DEF ReportsIInv, ReportOf, HasFields
  <2>6. "by_strategy" \in DOMAIN rep /\ rep.by_strategy = report.by_strategy
    BY <2>2, <2>5 DEF With
  <2> HIDE DEF rep
  <2>7. ReportOf(rep, paper_fills)
    BY <2>4, <2>5, <2>6 DEF ReportOf, HasFields
  <2> QED
    BY <1>5, <2>3, <2>4, <2>7
<1>15. CASE report_commit
  <2> DEFINE days == (1 .. MaxReportDays) \cap (report.from .. report.to)
             quoted == [d \in days |-> findings[d]]
             more == [at |-> "stored", quoted |-> quoted, fills |-> Len(paper_fills), unreviewed |-> days \ up_to_date]
             rep == With(report, more)
  <2>1. report.at = "live" /\ report' = rep
        /\ UNCHANGED <<calendar, paper_fills, live_trades, live_pnl, review, findings, up_to_date>>
    BY <1>15, Zenon DEF report_commit
  <2>2. report.at \in {"total", "closing", "strategies", "live"}
    BY <2>1
  <2> HIDE DEF days, quoted
  <2>3. /\ "at" \in DOMAIN more /\ more.at = "stored" /\ DOMAIN more \cap {"from", "to", "seen", "total"} = {}
        /\ "by_strategy" \notin DOMAIN more /\ {"quoted", "fills", "unreviewed"} \subseteq DOMAIN more
        /\ more.quoted = quoted /\ more.fills = Len(paper_fills) /\ more.unreviewed = days \ up_to_date
    OBVIOUS
  <2> HIDE DEF more
  <2>4. /\ HasFields(rep, {"at", "from", "to", "seen", "total"}) /\ rep.at = "stored"
        /\ rep.seen = report.seen /\ rep.total = report.total
        /\ report.from \in Int /\ report.to \in Int
        /\ report.seen = Len(paper_fills)
              => report.total = SumPnl(paper_fills, Within(paper_fills, report.from, report.to))
    BY <1>11, <2>2, <2>3
  <2>5. /\ "by_strategy" \in DOMAIN report
        /\ report.seen = Len(paper_fills) => report.total = SumFunction(report.by_strategy)
    BY <2>1 DEF ReportsIInv, ReportOf, HasFields
  <2>6. rep.by_strategy = report.by_strategy
    BY <2>3, <2>5 DEF With
  <2>7. rep.quoted = quoted /\ rep.fills = Len(paper_fills) /\ rep.unreviewed = days \ up_to_date
    BY <2>3 DEF With
  <2> HIDE DEF rep
  <2>8. ASSUME days \subseteq up_to_date
        PROVE  SumFunction([d \in DOMAIN quoted |-> PaperPnl(quoted[d])])
                 = SumPnl(paper_fills, Within(paper_fills, report.from, report.to))
    <3> DEFINE g == [d \in DOMAIN quoted |-> PaperPnl(quoted[d])]
    <3>1. DOMAIN g = (1 .. MaxReportDays) \cap (report.from .. report.to)
      BY DEF days, quoted
    <3>2. \A d \in days : quoted[d] = findings[d] /\ d \in DOMAIN quoted
      BY DEF quoted
    <3>3. \A d \in DOMAIN g : g[d] = SumPnl(paper_fills, _day_bounds_ist(paper_fills, d))
      <4>1. \A d \in days : PaperPnl(findings[d]) = SumPnl(paper_fills, _day_bounds_ist(paper_fills, d))
        BY <2>8 DEF ReportsIInv
      <4>2. \A d \in days : g[d] = PaperPnl(findings[d])
        BY <3>2
      <4>3. DOMAIN g = days
        BY DEF quoted
      <4> HIDE DEF g
      <4> QED
        BY <4>1, <4>2, <4>3
    <3> HIDE DEF g
    <3>4. SumFunction(g) = SumPnl(paper_fills, Within(paper_fills, report.from, report.to))
      BY <1>0, <2>4, <3>1, <3>3, ByDay
    <3> QED
      BY <3>4 DEF g
  <2>9. rep.fills = rep.seen =>
           /\ rep.total = SumFunction(rep.by_strategy)
           /\ rep.unreviewed = {} => rep.total = SumFunction([d \in DOMAIN rep.quoted |-> PaperPnl(rep.quoted[d])])
    <3> SUFFICES ASSUME rep.fills = rep.seen
                 PROVE  /\ rep.total = SumFunction(rep.by_strategy)
                        /\ rep.unreviewed = {}
                             => rep.total = SumFunction([d \in DOMAIN rep.quoted |-> PaperPnl(rep.quoted[d])])
      OBVIOUS
    <3>1. report.seen = Len(paper_fills)
      BY <2>4, <2>7
    <3>2. rep.total = SumFunction(rep.by_strategy)
      BY <2>4, <2>5, <2>6, <3>1
    <3>3. ASSUME rep.unreviewed = {}
          PROVE  rep.total = SumFunction([d \in DOMAIN rep.quoted |-> PaperPnl(rep.quoted[d])])
      <4>1. days \subseteq up_to_date
        BY <2>7, <3>3
      <4>2. SumFunction([d \in DOMAIN quoted |-> PaperPnl(quoted[d])])
              = SumPnl(paper_fills, Within(paper_fills, report.from, report.to))
        BY <2>8, <4>1
      <4>3. SumFunction([d \in DOMAIN rep.quoted |-> PaperPnl(rep.quoted[d])])
              = SumPnl(paper_fills, Within(paper_fills, report.from, report.to))
        BY <2>7, <4>2, Zenon
      <4> QED
        BY <2>4, <3>1, <4>3
    <3> QED
      BY <3>2, <3>3
  <2>10. ReportAddsUp'
    BY <2>1, <2>9, Zenon DEF ReportAddsUp
  <2>11. ReportOf(rep, paper_fills)
    BY <2>4 DEF ReportOf, HasFields
  <2>12. ReportsTypeOK'
    BY <2>1, <2>4 DEF ReportsIInv, ReportsTypeOK
  <2> QED
    BY <2>1, <2>10, <2>11, <2>12 DEF ReportsIInv
<1>16. CASE ReportsProcessDies
  <2>1. HasFields(NoReport, {"at"}) /\ NoReport.at = "idle" /\ NoReview.at = "idle"
    BY DEF HasFields, NoReport, NoReview
  <2>2. /\ review' = NoReview /\ report' = IF report.at = "stored" THEN report ELSE NoReport
        /\ UNCHANGED <<calendar, paper_fills, live_trades, live_pnl, findings, up_to_date>>
    BY <1>16 DEF ReportsProcessDies
  <2>3. ReportOf(report', paper_fills) /\ ReportAddsUp'
    <3>1. CASE report.at = "stored"
      BY <2>2, <3>1 DEF ReportsIInv, ReportAddsUp
    <3>2. CASE report.at # "stored"
      BY <2>1, <2>2, <3>2 DEF ReportOf, ReportAddsUp
    <3> QED
      BY <3>1, <3>2
  <2>4. ReportsTypeOK'
    BY <2>1, <2>2 DEF ReportsIInv, ReportsTypeOK
  <2> QED
    BY <2>1, <2>2, <2>3, <2>4 DEF ReportsIInv
<1>17. CASE UNCHANGED reportVars
  BY <1>17 DEF reportVars, ReportsIInv, ReportsTypeOK, ReportAddsUp
<1> QED
  BY <1>1, <1>2, <1>3, <1>6, <1>7, <1>8, <1>9, <1>10, <1>12, <1>13, <1>14, <1>15, <1>16, <1>17
     DEF ReportsNext
\* The reports' part of the evidence follows.
LEMMA ReportsFollow == ReportsIInv => ReportAddsUp
BY DEF ReportsIInv

-----------------------------------------------------------------------------
(* The way to the market.  A step is a step of one of the six and a        *)
(* stutter of the others.                                                  *)

\* Every variable of the six.
strategyVars == <<component, lifecycleVars, gateVars, lakeVars, backtestVars, limitVars, reportVars>>

\* The six together, as the run explores them.
StrategySpec == StrategyInit /\ [][StrategyNext]_strategyVars

\* Their invariants, together.
StrategyIInv ==
    LifecycleIInv /\ GoLiveIInv /\ LakeIInv /\ BacktestsIInv /\ RiskLimitsIInv /\ ReportsIInv

\* What a step is to each of them.
LEMMA StrategySteps ==
    ASSUME [StrategyNext]_strategyVars
    PROVE  /\ [LifecycleNext]_lifecycleVars /\ [GoLiveNext]_gateVars /\ [LakeNext]_lakeVars
           /\ [BacktestsNext]_backtestVars /\ [RiskLimitsNext]_limitVars /\ [ReportsNext]_reportVars
<1>1. CASE StrategyNext
  BY <1>1, Zenon DEF StrategyNext
<1>2. CASE UNCHANGED strategyVars
  BY <1>2, Zenon DEF strategyVars
<1> QED
  BY <1>1, <1>2

\* Each starts and steps by itself.
LEMMA StrategyKeeps ==
    /\ StrategyInit => StrategyIInv
    /\ StrategyIInv /\ [StrategyNext]_strategyVars => StrategyIInv'
<1>1. StrategyInit => LifecycleInit /\ GoLiveInit /\ LakeInit /\ BacktestsInit /\ RiskLimitsInit /\ ReportsInit
  BY Zenon DEF StrategyInit
<1>2. StrategyInit => StrategyIInv
  BY <1>1, LifecycleStart, GoLiveStart, LakeStart, BacktestsStart, LimitsInit, ReportsStart DEF StrategyIInv
<1>3. StrategyIInv /\ [StrategyNext]_strategyVars => StrategyIInv'
  BY StrategySteps, LifecycleStep, GoLiveStep, LakeStep, BacktestsStep, LimitsStep, ReportsStep DEF StrategyIInv
<1> QED
  BY <1>2, <1>3

\* Every row, counter and job keeps its type, however long the tables grow.
THEOREM StrategyTyped == StrategySpec => []StrategyTypeOK
<1>1. StrategyIInv => StrategyTypeOK
  BY DEF StrategyIInv, LifecycleIInv, GoLiveIInv, LakeIInv, BacktestsIInv, RiskLimitsIInv, ReportsIInv,
         StrategyTypeOK
<1> QED
  BY <1>1, StrategyKeeps, PTL DEF StrategySpec

\* Nothing trades on paper or becomes eligible for live trading unless a person approved
\* that very transition (transitions.py), next to the other five.
THEOREM StrategySignedOff == StrategySpec => []SignedOff
<1>1. StrategyIInv => SignedOff
  BY DEF StrategyIInv, LifecycleIInv
<1> QED
  BY <1>1, StrategyKeeps, PTL DEF StrategySpec

\* The evidence is real, whatever the thresholds, prices, fills and periods: nothing is eligible
\* without its clean days, trades and calendar days (go_live_evidence.py), no trade of a
\* backtest depends on a later price (engine.py), and a report no fill came into adds up to its
\* strategies and to the reviews it quotes (investor_reporting.py, post_trade_review.py).
THEOREM StrategyEvidence == StrategySpec => []EvidenceIsReal
<1>1. StrategyIInv => NoLookahead /\ EligibleMeansProven /\ ReportAddsUp
  BY GoLiveEvidence, BacktestsFollow, ReportsFollow DEF StrategyIInv
<1>2. StrategyIInv => EvidenceIsReal
  BY <1>1, Zenon DEF EvidenceIsReal
<1> QED
  BY <1>2, StrategyKeeps, PTL DEF StrategySpec

\* Whatever is fetched, the real bars of a symbol are of one broker unless two were fetched
\* from at once (lake.py, broker_provider.py).
THEOREM StrategyOneSource == StrategySpec => []OneSourcePerSymbol
<1>1. StrategyIInv => OneSourcePerSymbol
  BY OneSourceFollows DEF StrategyIInv
<1> QED
  BY <1>1, StrategyKeeps, PTL DEF StrategySpec

=============================================================================
