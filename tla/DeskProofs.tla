----------------------------- MODULE DeskProofs -----------------------------
(***************************************************************************)
(* What the paper desk guarantees, for any number of lots, ticks, restarts,*)
(* strikes, prices, callers and contract lists: the tick feed, orders and  *)
(* positions, option structures and what they can lose, the gate, the      *)
(* breaker, and the adapters and lists of the brokers.                     *)
(*                                                                         *)
(* Each part has its inductive invariant, the proof that its actions keep  *)
(* it, and what follows from it; the last section puts them together.      *)
(***************************************************************************)
EXTENDS MCDesk, Lemmas

-----------------------------------------------------------------------------
(* The tick feed.                                                          *)

\* The feed by itself.
FeedSpec == FeedInit /\ [][FeedNext]_feedVars

\* What the publish job is at.
FeedJob == {Asleep} \union [at: {"asking"}, broker: Broker, unavailable: SUBSET Broker]

\* A source is built from credentials that were stored; later ones are numbered higher,
\* so that a source of old credentials never becomes current again.
SourceIsPast ==
    \A b \in Broker : source.fingerprint[b] = MaxCredentials + 1
                      \/ source.fingerprint[b] <= credentials[b]

\* The inductive invariant of the feed.
FeedIInv ==
    /\ FeedTypeOK /\ feed_job \in FeedJob
    /\ source \in [fingerprint: [Broker -> Nat], suspended: [Broker -> {"no", "held", "due"}]]
    /\ SourceIsPast /\ RejectionCanClear

\* No source has been built and no broker has refused anything.
LEMMA FeedStart == FeedInit => FeedIInv
<1> SUFFICES ASSUME FeedInit PROVE FeedIInv
  OBVIOUS
<1> USE TickFeedAssumption DEF FeedInit, NoSource
<1>1. FeedTypeOK
  <2>1. credentials \in [Broker -> 0 .. MaxCredentials]
    OBVIOUS
  <2> QED
    BY <2>1 DEF FeedTypeOK, NoBackoff
<1>2. feed_job \in FeedJob /\ SourceIsPast /\ RejectionCanClear
  BY DEF FeedJob, SourceIsPast, RejectionCanClear
<1>3. source \in [fingerprint: [Broker -> Nat], suspended: [Broker -> {"no", "held", "due"}]]
  OBVIOUS
<1> QED
  BY <1>1, <1>2, <1>3 DEF FeedIInv

\* The job goes on to the next broker or ends; of the rest only the back-off and the
\* outcome change.
LEMMA NextBrokerTyped ==
    ASSUME FeedIInv, NEW b \in Broker, Asks(b), NEW down \in SUBSET Broker, next_broker(b, down)
    PROVE  /\ feed_job' \in FeedJob /\ backoff' \in [step: 0 .. 2, holds: BOOLEAN]
           /\ quote_state' \in {"none", "published", "refused", "failed"}
<1> USE DEF FeedIInv, FeedTypeOK
<1>1. feed_job.unavailable \in SUBSET Broker /\ feed_job \in [at: {"asking"}, broker: Broker, unavailable: SUBSET Broker]
  BY DEF Asks, FeedJob, Asleep
<1>2. CASE b = 1
  <2>1. feed_job.unavailable \union down \in SUBSET Broker
    BY <1>1
  <2>2. 2 \in Broker
    BY DEF Broker
  <2>3. feed_job' \in [at: {"asking"}, broker: Broker, unavailable: SUBSET Broker]
    BY <1>1, <1>2, <2>1, <2>2 DEF next_broker
  <2>4. UNCHANGED <<backoff, quote_state>>
    BY <1>2 DEF next_broker
  <2> QED
    BY <2>3, <2>4 DEF FeedJob
<1>3. CASE b # 1
  <2>1. feed_job' = Asleep
    BY <1>3 DEF next_broker
  <2>2. CASE UNCHANGED <<backoff, quote_state>>
    BY <2>1, <2>2 DEF FeedJob
  <2>3. CASE symbol_failed /\ quote_state' = "failed"
    <3>1. backoff.step \in 0 .. 2
      OBVIOUS
    <3>2. backoff' \in [step: 0 .. 2, holds: BOOLEAN]
      BY <2>3, <3>1 DEF symbol_failed
    <3> QED
      BY <2>1, <2>3, <3>2 DEF FeedJob
  <2> QED
    BY <1>3, <2>2, <2>3 DEF next_broker
<1> QED
  BY <1>2, <1>3

\* The types of the source, of the rejections and of the suspensions survive an answer,
\* and so does the claim about them.
LEMMA AnsweredKeeps ==
    ASSUME FeedIInv, NEW b \in Broker, Answered(b), UNCHANGED <<credentials, accepted>>
    PROVE  /\ source' \in [fingerprint: [Broker -> Nat], suspended: [Broker -> {"no", "held", "due"}]]
           /\ rejections' \subseteq Broker /\ SourceIsPast' /\ RejectionCanClear'
<1> USE DEF FeedIInv, FeedTypeOK, SourceIsPast, RejectionCanClear
<1>1. CASE source.suspended[b] = "no"
  BY <1>1 DEF Answered, Current
<1>2. CASE source.suspended[b] # "no"
  <2>1. /\ source'.fingerprint = source.fingerprint /\ rejections' = rejections \ {b}
        /\ \A c \in Broker \ {b} : source'.suspended[c] = source.suspended[c]
        /\ source' \in [fingerprint: [Broker -> Nat], suspended: [Broker -> {"no", "held", "due"}]]
    BY <1>2 DEF Answered
  <2> QED
    BY <2>1 DEF Current
<1> QED
  BY <1>1, <1>2

\* New credentials make the source an old one; a refusal suspends the broker it is recorded
\* for, and an answer takes both back.
LEMMA FeedStep == FeedIInv /\ [FeedNext]_feedVars => FeedIInv'
<1> SUFFICES ASSUME FeedIInv, [FeedNext]_feedVars PROVE FeedIInv'
  OBVIOUS
<1> USE TickFeedAssumption
<1>1. ASSUME NEW b \in Broker, set_credentials(b) PROVE FeedIInv'
  <2>1. /\ credentials' \in [Broker -> 0 .. MaxCredentials] /\ credentials'[b] = credentials[b] + 1
        /\ \A c \in Broker \ {b} : credentials'[c] = credentials[c]
        /\ credentials[b] \in Nat
    BY <1>1 DEF FeedIInv, FeedTypeOK, set_credentials
  <2>2. credentials'[b] # source.fingerprint[b]
    <3>1. source.fingerprint[b] \in Nat /\ credentials'[b] <= MaxCredentials
      BY <2>1 DEF FeedIInv
    <3> QED
      BY <2>1, <3>1 DEF FeedIInv, SourceIsPast
  <2>3. source' = source /\ feed_job' = feed_job
    BY <1>1 DEF set_credentials
  <2>4. FeedTypeOK'
    BY <1>1, <2>1 DEF FeedIInv, FeedTypeOK, set_credentials
  <2>5. SourceIsPast'
    <3>1. \A c \in Broker : credentials[c] <= credentials'[c] /\ source.fingerprint[c] \in Nat
                            /\ credentials[c] \in Nat /\ credentials'[c] \in Nat
      BY <2>1 DEF FeedIInv, FeedTypeOK
    <3> QED
      BY <2>3, <3>1 DEF FeedIInv, SourceIsPast
  <2>6. RejectionCanClear'
    BY <2>2, <2>3 DEF RejectionCanClear, Current
  <2> QED
    BY <2>3, <2>4, <2>5, <2>6 DEF FeedIInv
<1>2. ASSUME NEW b \in Broker, TokenLapses(b) PROVE FeedIInv'
  BY <1>2 DEF FeedIInv, FeedTypeOK, TokenLapses, SourceIsPast, RejectionCanClear, Current
<1>3. ASSUME NEW b \in Broker, SuspensionEnds(b) PROVE FeedIInv'
  <2>1. /\ source'.fingerprint = source.fingerprint /\ source'.suspended[b] = "due"
        /\ \A c \in Broker \ {b} : source'.suspended[c] = source.suspended[c]
        /\ source' \in [fingerprint: [Broker -> Nat], suspended: [Broker -> {"no", "held", "due"}]]
    BY <1>3 DEF FeedIInv, SuspensionEnds
  <2>2. UNCHANGED <<credentials, accepted, rejections, backoff, feed_job, quote_state>>
    BY <1>3 DEF SuspensionEnds
  <2> QED
    BY <2>1, <2>2 DEF FeedIInv, FeedTypeOK, SourceIsPast, RejectionCanClear, Current
<1>4. ASSUME NEW b \in Broker, not_polled(b) PROVE FeedIInv'
  <2>1. /\ feed_job' \in FeedJob /\ backoff' \in [step: 0 .. 2, holds: BOOLEAN]
        /\ quote_state' \in {"none", "published", "refused", "failed"}
    BY <1>4, NextBrokerTyped DEF not_polled
  <2>2. UNCHANGED <<credentials, accepted, source, rejections>>
    BY <1>4 DEF not_polled
  <2> QED
    BY <2>1, <2>2 DEF FeedIInv, FeedTypeOK, SourceIsPast, RejectionCanClear, Current
<1>5. ASSUME NEW b \in Broker, _guarded_rejected(b) PROVE FeedIInv'
  <2>1. /\ feed_job' \in FeedJob /\ backoff' \in [step: 0 .. 2, holds: BOOLEAN]
        /\ quote_state' \in {"none", "published", "refused", "failed"}
    BY <1>5, NextBrokerTyped DEF _guarded_rejected, Polled
  <2>2. /\ source'.fingerprint = source.fingerprint /\ source'.suspended[b] = "held"
        /\ \A c \in Broker \ {b} : source'.suspended[c] = source.suspended[c]
        /\ source' \in [fingerprint: [Broker -> Nat], suspended: [Broker -> {"no", "held", "due"}]]
    BY <1>5 DEF FeedIInv, _guarded_rejected
  <2>3. rejections' = rejections \union {b} /\ UNCHANGED <<credentials, accepted>>
    BY <1>5 DEF _guarded_rejected
  <2> QED
    BY <2>1, <2>2, <2>3 DEF FeedIInv, FeedTypeOK, SourceIsPast, RejectionCanClear, Current
<1>6. ASSUME NEW b \in Broker, quote_published(b) PROVE FeedIInv'
  <2>1. Answered(b) /\ UNCHANGED <<credentials, accepted>>
    BY <1>6 DEF quote_published
  <2>2. feed_job' = Asleep /\ backoff' = NoBackoff /\ quote_state' = "published"
    BY <1>6 DEF quote_published
  <2> QED
    BY <2>1, <2>2, AnsweredKeeps DEF FeedIInv, FeedTypeOK, FeedJob, NoBackoff
<1>7. ASSUME NEW b \in Broker, quote_refused(b) PROVE FeedIInv'
  <2>1. Answered(b) /\ UNCHANGED <<credentials, accepted, backoff>>
    BY <1>7 DEF quote_refused
  <2>2. feed_job' = Asleep /\ quote_state' = "refused"
    BY <1>7 DEF quote_refused
  <2> QED
    BY <2>1, <2>2, AnsweredKeeps DEF FeedIInv, FeedTypeOK, FeedJob
<1>8. ASSUME NEW b \in Broker, NEW outage \in BOOLEAN, quote_missing(b, outage) PROVE FeedIInv'
  <2>1. /\ feed_job' \in FeedJob /\ backoff' \in [step: 0 .. 2, holds: BOOLEAN]
        /\ quote_state' \in {"none", "published", "refused", "failed"}
    BY <1>8, NextBrokerTyped DEF quote_missing, Polled
  <2>2. UNCHANGED <<credentials, accepted>>
    BY <1>8 DEF quote_missing
  <2>3. CASE outage
    <3>1. UNCHANGED <<source, rejections>>
      BY <1>8, <2>3 DEF quote_missing
    <3> QED
      BY <2>1, <2>2, <3>1 DEF FeedIInv, FeedTypeOK, SourceIsPast, RejectionCanClear, Current
  <2>4. CASE ~ outage
    <3>1. Answered(b)
      BY <1>8, <2>4 DEF quote_missing
    <3> QED
      BY <2>1, <2>2, <3>1, AnsweredKeeps DEF FeedIInv, FeedTypeOK
  <2> QED
    BY <2>3, <2>4
<1>9. CASE BackoffEnds
  BY <1>9 DEF FeedIInv, FeedTypeOK, BackoffEnds, SourceIsPast, RejectionCanClear, Current
<1>10. CASE publish_ticks_once
  <2>1. UNCHANGED <<credentials, accepted, quote_state>> /\ get_tick_source
    BY <1>10 DEF publish_ticks_once
  <2>2. backoff' \in [step: 0 .. 2, holds: BOOLEAN] /\ feed_job' \in FeedJob
    BY <1>10 DEF publish_ticks_once, get_tick_source, FeedIInv, FeedTypeOK, FeedJob, NoBackoff, Broker
  <2>3. CASE Current
    BY <2>1, <2>2, <2>3 DEF get_tick_source, FeedIInv, FeedTypeOK, SourceIsPast, RejectionCanClear, Current
  <2>4. CASE ~ Current
    <3>1. /\ source' = [fingerprint |-> credentials, suspended |-> [b \in Broker |-> "no"]]
          /\ rejections' = {}
      BY <2>1, <2>4 DEF get_tick_source
    <3>2. source' \in [fingerprint: [Broker -> Nat], suspended: [Broker -> {"no", "held", "due"}]]
      BY <3>1 DEF FeedIInv, FeedTypeOK
    <3>3. SourceIsPast' /\ RejectionCanClear'
      BY <2>1, <3>1 DEF SourceIsPast, RejectionCanClear, FeedIInv, FeedTypeOK
    <3> QED
      BY <2>1, <2>2, <3>1, <3>2, <3>3 DEF FeedIInv, FeedTypeOK
  <2> QED
    BY <2>3, <2>4
<1>11. CASE UNCHANGED feedVars
  BY <1>11 DEF feedVars, FeedIInv, FeedTypeOK, SourceIsPast, RejectionCanClear, Current
<1> QED
  BY <1>1, <1>2, <1>3, <1>4, <1>5, <1>6, <1>7, <1>8, <1>9, <1>10, <1>11 DEF FeedNext

\* A rejection recorded by a call that was in flight while the credentials were replaced
\* never outlives the next publish, for any number of changes of credentials (tick_source.py).
THEOREM RejectionCanClearHolds == FeedSpec => []RejectionCanClear
<1>1. FeedIInv => RejectionCanClear
  BY DEF FeedIInv
<1> QED
  BY <1>1, FeedStart, FeedStep, PTL DEF FeedSpec

-----------------------------------------------------------------------------
(* The paper desk: equities and futures.                                   *)

\* The desk by itself.
DeskSpec == DeskInit /\ [][DeskNext]_deskVars

\* What an actor is at, and what it has read.
AtTicks == [at: {"ticks"}, next: Nat, upto: 0 .. MaxDeskTicks]
AtOrder == [at: {"order"}, next: Nat, upto: 0 .. MaxDeskTicks,
            seen: -MaxLots .. MaxLots, side: {"buy", "sell"}, qty: 1 .. MaxLots]
AtClose == [at: {"close"}, seen: (-MaxLots .. MaxLots) \ {0}, then: {"idle", "off", "switch"}, admin: BOOLEAN]
AtAfter == [at: {"off", "switch"}, seen: -MaxLots .. MaxLots]
DeskWork == {Resting} \union AtTicks \union AtOrder \union AtClose \union AtAfter

\* An order closes what was read, or enters from flat.
OrderCloses(r) ==
    /\ r.seen > 0 => r.side = "sell" /\ r.qty = r.seen
    /\ r.seen < 0 => r.side = "buy" /\ r.qty = -r.seen
    /\ r.seen = 0 /\ r.side = "sell" => is_future
OrdersClose == \A a \in DeskActor : At(a, "order") => OrderCloses(desk[a])

\* What an equity subscription holds, or an actor has read of it, is not short.
NeverShort ==
    ~is_future => position >= 0 /\ \A a \in DeskActor : desk[a].at \in Holding => desk[a].seen >= 0

\* As long as no fill landed on a row another actor had read, what each has read is still so.
ReadsHold ==
    crossed = FALSE =>
        position = net_fills /\ \A a \in DeskActor : desk[a].at \in Holding => desk[a].seen = position

\* A subscription that is off has no order under way and holds no more than was announced.
OffIsQuiet ==
    paper_sub.is_active = FALSE /\ crossed = FALSE =>
        Abs(position) <= Abs(unmanaged) /\ \A a \in DeskActor : desk[a].at # "order"

\* The inductive invariant of the desk.
DeskTyped ==
    /\ paper_sub \in PaperTradingSubscription
    /\ position \in -MaxLots .. MaxLots /\ net_fills \in Int
    /\ daily_signal \in Signal /\ published \in 0 .. MaxDeskTicks /\ sent \in 0 .. MaxDeskTicks
    /\ desk_crashes \in 0 .. MaxDeskCrashes /\ unmanaged \in -MaxLots .. MaxLots
    /\ crossed \in BOOLEAN /\ desk \in [DeskActor -> DeskWork]
DeskIInv == DeskTyped /\ OrdersClose /\ NeverShort /\ ReadsHold /\ OffIsQuiet

\* The fields of an actor that has read the position.
LEMMA DeskFields ==
    ASSUME DeskTyped, NEW a \in DeskActor
    PROVE  /\ desk[a].at = "ticks" => desk[a] \in AtTicks
           /\ desk[a].at = "order" => desk[a] \in AtOrder
           /\ desk[a].at = "close" => desk[a] \in AtClose
           /\ desk[a].at \in {"off", "switch"} => desk[a] \in AtAfter
           /\ desk[a].at \in Holding => desk[a].seen \in -MaxLots .. MaxLots
           /\ desk[a].at \in {"idle", "ticks"} \union Holding
<1>1. desk[a] \in DeskWork
  BY DEF DeskTyped
<1> QED
  BY <1>1 DEF DeskWork, Resting, AtTicks, AtOrder, AtClose, AtAfter, Holding

\* A subscription starts flat.
LEMMA DeskStart == DeskInit => DeskIInv
<1> SUFFICES ASSUME DeskInit PROVE DeskIInv
  OBVIOUS
<1> USE PaperDeskAssumption
<1>1. PICK kind \in {"equity", "future"} : paper_sub = enroll_in_paper_trading(kind)
  BY DEF DeskInit
<1>2. paper_sub \in PaperTradingSubscription /\ paper_sub.is_active = TRUE
  BY <1>1 DEF enroll_in_paper_trading, PaperTradingSubscription
<1>3. /\ position = 0 /\ net_fills = 0 /\ daily_signal = "none" /\ desk = [a \in DeskActor |-> Resting]
      /\ published = 0 /\ sent = 0 /\ desk_crashes = 0 /\ unmanaged = 0 /\ crossed = FALSE
  BY DEF DeskInit
<1>4. DeskTyped
  <2>1. desk \in [DeskActor -> DeskWork]
    BY <1>3 DEF DeskWork
  <2>2. position \in -MaxLots .. MaxLots /\ unmanaged \in -MaxLots .. MaxLots /\ net_fills \in Int
    BY <1>3
  <2>3. daily_signal \in Signal
    BY <1>3 DEF Signal
  <2>4. crossed \in BOOLEAN
    BY <1>3
  <2>5. /\ published \in 0 .. MaxDeskTicks /\ sent \in 0 .. MaxDeskTicks
        /\ desk_crashes \in 0 .. MaxDeskCrashes
    BY <1>3
  <2> QED
    BY <1>2, <2>1, <2>2, <2>3, <2>4, <2>5 DEF DeskTyped
<1>5. \A a \in DeskActor : desk[a].at = "idle"
  BY <1>3 DEF Resting
<1> QED
  BY <1>2, <1>3, <1>4, <1>5 DEF DeskIInv, OrdersClose, NeverShort, ReadsHold, OffIsQuiet, Holding, At

\* Whoever is marked by Crossing acts while nobody else has read the position, or leaves
\* the mark.
LEMMA CrossingMarks ==
    ASSUME crossed \in BOOLEAN, NEW a \in DeskActor, Crossing(a)
    PROVE  /\ crossed' \in BOOLEAN
           /\ crossed' = FALSE => crossed = FALSE /\ \A b \in DeskActor \ {a} : desk[b].at \notin Holding
BY Zenon DEF Crossing

\* A step in which actor a only reads, or drops what it has read, and the rows stay.
LEMMA ReadKeeps ==
    ASSUME DeskIInv, NEW a \in DeskActor, NEW r \in DeskWork, Become(a, r),
           UNCHANGED <<paper_sub, position, net_fills, unmanaged, crossed>>,
           daily_signal' \in Signal, published' \in 0 .. MaxDeskTicks, sent' \in 0 .. MaxDeskTicks,
           desk_crashes' \in 0 .. MaxDeskCrashes,
           r.at \in Holding => r.seen = position,
           r.at = "order" => OrderCloses(r) /\ paper_sub.is_active = TRUE
    PROVE  DeskIInv'
<1>1. /\ desk' = [desk EXCEPT ![a] = r] /\ desk \in [DeskActor -> DeskWork]
      /\ desk'[a] = r /\ \A b \in DeskActor \ {a} : desk'[b] = desk[b]
  BY DEF DeskIInv, DeskTyped, Become
<1>2. DeskTyped'
  <2>1. desk' \in [DeskActor -> DeskWork]
    BY <1>1
  <2>2. DeskWork' = DeskWork
    BY DEF DeskWork, Resting, AtTicks, AtOrder, AtClose, AtAfter
  <2> QED
    BY <2>1 DEF DeskIInv, DeskTyped
<1>3. OrdersClose'
  BY <1>1 DEF DeskIInv, OrdersClose, OrderCloses, At, is_future
<1>4. NeverShort'
  BY <1>1 DEF DeskIInv, NeverShort, is_future
<1>5. ReadsHold'
  BY <1>1 DEF DeskIInv, ReadsHold
<1>6. OffIsQuiet'
  BY <1>1 DEF DeskIInv, OffIsQuiet
<1> QED
  BY <1>2, <1>3, <1>4, <1>5, <1>6 DEF DeskIInv

\* A step in which actor a writes the position from what it has read, by n lots, and goes
\* on to r, which has nothing read unless a has closed all of it.
LEMMA FillKeeps ==
    ASSUME DeskIInv, NEW a \in DeskActor, desk[a].at \in {"order", "close"}, NEW r \in DeskWork,
           NEW side \in {"buy", "sell"}, NEW n \in Nat, Become(a, r),
           _persist_fill(a, side, n),
           desk[a].seen > 0 => side = "sell" /\ n <= desk[a].seen,
           desk[a].seen < 0 => side = "buy" /\ n <= -desk[a].seen,
           desk[a].seen = 0 => n <= MaxLots /\ desk[a].at = "order" /\ (side = "sell" => is_future),
           r.at \in Holding => r.at # "order" /\ r.seen = 0 /\ n = Abs(desk[a].seen),
           UNCHANGED <<paper_sub, daily_signal, published, sent, desk_crashes, unmanaged>>
    PROVE  DeskIInv'
<1> USE PaperDeskAssumption
<1>1. /\ desk' = [desk EXCEPT ![a] = r] /\ desk \in [DeskActor -> DeskWork]
      /\ desk'[a] = r /\ \A b \in DeskActor \ {a} : desk'[b] = desk[b]
  BY DEF DeskIInv, DeskTyped, Become
<1> DEFINE seen == desk[a].seen
<1>2. /\ desk[a].at \in Holding /\ seen \in -MaxLots .. MaxLots /\ seen \in Int
      /\ position \in Int /\ net_fills \in Int
  BY DeskFields DEF DeskIInv, DeskTyped, Holding
<1>3. /\ position' = IF side = "buy" THEN seen + n ELSE seen - n
      /\ net_fills' = IF side = "buy" THEN net_fills + n ELSE net_fills - n
  BY DEF _persist_fill, apply_fill
<1> HIDE DEF seen
<1>4. /\ seen > 0 => position' = seen - n /\ position' \in 0 .. seen
      /\ seen < 0 => position' = seen + n /\ position' \in seen .. 0
      /\ seen = 0 => position' \in -MaxLots .. MaxLots
  BY <1>2, <1>3 DEF seen
<1>5. position' \in -MaxLots .. MaxLots /\ net_fills' \in Int /\ Abs(position') <= MaxLots
  BY <1>2, <1>3, <1>4 DEF Abs
<1>6. /\ crossed' \in BOOLEAN
      /\ crossed' = FALSE =>
            crossed = FALSE /\ (n > 0 => \A b \in DeskActor \ {a} : desk[b].at \notin Holding)
  <2>1. crossed \in BOOLEAN
    BY DEF DeskIInv, DeskTyped
  <2>2. CASE n > 0
    <3>1. Crossing(a)
      BY <2>2 DEF _persist_fill
    <3> QED
      BY <2>1, <3>1, CrossingMarks, Zenon
  <2>3. CASE ~(n > 0)
    <3>1. crossed' = crossed
      BY <2>3 DEF _persist_fill
    <3> QED
      BY <2>1, <2>3, <3>1
  <2> QED
    BY <2>2, <2>3
<1>7. DeskTyped'
  <2>1. desk' \in [DeskActor -> DeskWork]
    BY <1>1
  <2>2. DeskWork' = DeskWork
    BY DEF DeskWork, Resting, AtTicks, AtOrder, AtClose, AtAfter
  <2> QED
    BY <1>5, <1>6, <2>1, <2>2 DEF DeskIInv, DeskTyped
<1>8. OrdersClose'
  BY <1>1 DEF DeskIInv, OrdersClose, OrderCloses, At, is_future, Holding
<1>9. NeverShort'
  <2> SUFFICES ASSUME ~is_future PROVE position' >= 0 /\ \A b \in DeskActor : desk'[b].at \in Holding => desk'[b].seen >= 0
    BY DEF NeverShort, is_future
  <2>1. seen >= 0
    BY <1>2 DEF DeskIInv, NeverShort, seen
  <2>2. position' >= 0
    BY <2>1, <1>2, <1>3, <1>4 DEF seen
  <2> QED
    BY <1>1, <2>2 DEF DeskIInv, NeverShort
<1>10. ASSUME crossed' = FALSE
       PROVE  seen = position /\ position' = net_fills' /\ \A b \in DeskActor : desk'[b].at \in Holding => desk'[b].seen = position'
  <2>1. seen = position /\ position = net_fills
    BY <1>2, <1>6, <1>10 DEF DeskIInv, ReadsHold, seen
  <2>2. position' = net_fills'
    BY <1>3, <2>1
  <2>3. r.at \in Holding => r.seen = position'
    BY <1>2, <1>3, <1>4 DEF Abs, seen
  <2>4. ASSUME NEW b \in DeskActor \ {a}, desk[b].at \in Holding PROVE desk[b].seen = position'
    <3>1. ~(n > 0) /\ desk[b].seen = position
      BY <1>6, <1>10, <2>4 DEF DeskIInv, ReadsHold
    <3> QED
      BY <1>2, <1>3, <2>1, <3>1
  <2> QED
    BY <1>1, <2>1, <2>2, <2>3, <2>4
<1>11. ReadsHold'
  BY <1>10 DEF ReadsHold
<1>12. OffIsQuiet'
  <2> SUFFICES ASSUME paper_sub.is_active = FALSE, crossed' = FALSE
               PROVE  Abs(position') <= Abs(unmanaged) /\ \A b \in DeskActor : desk'[b].at # "order"
    BY DEF OffIsQuiet
  <2>1. Abs(position) <= Abs(unmanaged) /\ \A b \in DeskActor : desk[b].at # "order"
    BY <1>6 DEF DeskIInv, OffIsQuiet
  <2>2. seen # 0 /\ seen = position
    BY <1>10, <2>1 DEF seen
  <2>3. Abs(position') <= Abs(position)
    BY <1>2, <1>3, <1>4, <2>2 DEF Abs
  <2>4. Abs(position') \in Int /\ Abs(position) \in Int /\ Abs(unmanaged) \in Int
    BY <1>2, <1>5 DEF Abs, DeskIInv, DeskTyped
  <2>5. \A b \in DeskActor : desk'[b].at # "order"
    BY <1>1, <2>1 DEF Holding
  <2> QED
    BY <2>1, <2>3, <2>4, <2>5
<1> QED
  BY <1>7, <1>8, <1>9, <1>11, <1>12 DEF DeskIInv

\* An order decided from the position closes all of it, or enters from flat.
LEMMA DecidedOrder ==
    ASSUME DeskTyped, NEW hit \in BOOLEAN,
           NEW chosen, chosen = (IF check_universal_stop_loss(position, hit)
                               THEN [side |-> CloseSide(position), qty |-> Abs(position)]
                               ELSE decide_order(position, daily_signal)),
           chosen.qty # 0
    PROVE  /\ chosen.side \in {"buy", "sell"} /\ chosen.qty \in 1 .. MaxLots
           /\ position > 0 => chosen.side = "sell" /\ chosen.qty = position
           /\ position < 0 => chosen.side = "buy" /\ chosen.qty = -position
           /\ position = 0 /\ chosen.side = "sell" => is_future
<1>1. /\ position \in Int /\ position \in -MaxLots .. MaxLots /\ MaxLots \in Nat \ {0}
      /\ paper_sub.lots \in 1 .. MaxLots
  BY PaperDeskAssumption DEF DeskTyped, PaperTradingSubscription
<1>2. CASE check_universal_stop_loss(position, hit)
  BY <1>1, <1>2 DEF check_universal_stop_loss, CloseSide, Abs
<1>3. CASE ~check_universal_stop_loss(position, hit)
  <2>1. chosen = decide_order(position, daily_signal)
    BY <1>3
  <2> QED
    BY <1>1, <2>1 DEF decide_order
<1> QED
  BY <1>2, <1>3

\* An actor that goes on to its next tick.
LEMMA NextTick ==
    ASSUME DeskTyped, NEW a \in {"drain", "manual"}, At(a, "ticks") \/ At(a, "order"), TickDone(a)
    PROVE  \E r \in DeskWork : Become(a, r) /\ r.at \in {"idle", "ticks"}
<1>1. desk[a].next \in Nat /\ desk[a].upto \in 0 .. MaxDeskTicks
  BY DeskFields DEF At, AtTicks, AtOrder, DeskActor
<1>2. CASE a = "manual"
  <2>1. Become(a, Resting)
    BY <1>2 DEF TickDone
  <2> QED
    BY <2>1 DEF DeskWork, Resting
<1>3. CASE a # "manual"
  <2> DEFINE r == [at |-> "ticks", next |-> desk[a].next + 1, upto |-> desk[a].upto]
  <2>1. Become(a, r)
    BY <1>3 DEF TickDone
  <2>2. r \in DeskWork /\ r.at = "ticks"
    BY <1>1 DEF DeskWork, AtTicks
  <2> QED
    BY <2>1, <2>2
<1> QED
  BY <1>2, <1>3

\* A tick that is read, refused or filled.
LEMMA TickKeeps ==
    ASSUME DeskIInv, NEW a \in {"drain", "manual"}
    PROVE  /\ (\E hit \in BOOLEAN : process_tick(a, hit)) => DeskIInv'
           /\ process_tick_refused(a) => DeskIInv'
           /\ (\E n \in 0 .. MaxLots : process_tick_fill(a, n)) => DeskIInv'
<1> USE PaperDeskAssumption
<1>1. DeskTyped /\ a \in DeskActor
  BY DEF DeskIInv, DeskActor
<1>2. /\ daily_signal \in Signal /\ published \in 0 .. MaxDeskTicks /\ sent \in 0 .. MaxDeskTicks
      /\ desk_crashes \in 0 .. MaxDeskCrashes /\ position \in -MaxLots .. MaxLots
  BY <1>1 DEF DeskTyped
<1>3. ASSUME At(a, "ticks") \/ At(a, "order"), TickDone(a),
             UNCHANGED <<paper_sub, position, net_fills, daily_signal, published, sent, desk_crashes, unmanaged, crossed>>
      PROVE  DeskIInv'
  <2>1. PICK r \in DeskWork : Become(a, r) /\ r.at \in {"idle", "ticks"}
    BY <1>1, <1>3, NextTick
  <2>2. r.at \notin Holding /\ r.at # "order"
    BY <2>1 DEF Holding
  <2> QED
    BY <1>1, <1>2, <1>3, <2>1, <2>2, ReadKeeps
<1>4. ASSUME NEW hit \in BOOLEAN, process_tick(a, hit) PROVE DeskIInv'
  <2> DEFINE chosen == IF check_universal_stop_loss(position, hit)
                      THEN [side |-> CloseSide(position), qty |-> Abs(position)]
                      ELSE decide_order(position, daily_signal)
  <2>1. CASE ~paper_sub.is_active \/ chosen.qty = 0
    <3>1. At(a, "ticks") /\ TickDone(a)
      BY <1>4, <2>1 DEF process_tick
    <3> QED
      BY <1>3, <1>4, <3>1 DEF process_tick
  <2>2. CASE ~(~paper_sub.is_active \/ chosen.qty = 0)
    <3> DEFINE r == [at |-> "order", next |-> desk[a].next, upto |-> desk[a].upto,
                     seen |-> position, side |-> chosen.side, qty |-> chosen.qty]
    <3>1. Become(a, r) /\ desk[a] \in AtTicks
      BY <1>1, <1>4, <2>2, DeskFields DEF process_tick, At
    <3>2. chosen.qty # 0 /\ paper_sub.is_active = TRUE
      BY <1>1, <2>2 DEF DeskTyped, PaperTradingSubscription
    <3> HIDE DEF chosen
    <3>3. /\ chosen.side \in {"buy", "sell"} /\ chosen.qty \in 1 .. MaxLots
          /\ position > 0 => chosen.side = "sell" /\ chosen.qty = position
          /\ position < 0 => chosen.side = "buy" /\ chosen.qty = -position
          /\ position = 0 /\ chosen.side = "sell" => is_future
      BY <1>1, <3>2, DecidedOrder DEF chosen
    <3>4. r \in DeskWork
      BY <1>2, <3>1, <3>3 DEF DeskWork, AtOrder, AtTicks
    <3>5. OrderCloses(r)
      BY <3>3 DEF OrderCloses
    <3>6. r.seen = position
      OBVIOUS
    <3>7. UNCHANGED <<paper_sub, position, net_fills, daily_signal, published, sent, desk_crashes, unmanaged, crossed>>
      BY <1>4 DEF process_tick
    <3> HIDE DEF r
    <3> QED
      BY <1>1, <1>2, <3>1, <3>2, <3>4, <3>5, <3>6, <3>7, ReadKeeps
  <2> QED
    BY <2>1, <2>2
<1>5. ASSUME process_tick_refused(a) PROVE DeskIInv'
  BY <1>3, <1>5 DEF process_tick_refused
<1>6. ASSUME NEW n \in 0 .. MaxLots, process_tick_fill(a, n) PROVE DeskIInv'
  <2>1. At(a, "order") /\ n \in 0 .. desk[a].qty /\ _persist_fill(a, desk[a].side, n) /\ TickDone(a)
    BY <1>6 DEF process_tick_fill, simulate_fill
  <2>2. desk[a].at = "order" /\ desk[a] \in AtOrder /\ OrderCloses(desk[a])
    BY <1>1, <2>1, DeskFields DEF At, DeskIInv, OrdersClose
  <2>3. PICK r \in DeskWork : Become(a, r) /\ r.at \in {"idle", "ticks"}
    BY <1>1, <2>1, NextTick
  <2>4. r.at \notin Holding
    BY <2>3 DEF Holding
  <2>5. /\ desk[a].side \in {"buy", "sell"} /\ n \in Nat /\ n <= desk[a].qty /\ desk[a].qty \in 1 .. MaxLots
        /\ desk[a].seen \in Int
    BY <2>1, <2>2 DEF AtOrder
  <2>6. /\ desk[a].seen > 0 => desk[a].side = "sell" /\ n <= desk[a].seen
        /\ desk[a].seen < 0 => desk[a].side = "buy" /\ n <= -desk[a].seen
        /\ desk[a].seen = 0 => n <= MaxLots /\ (desk[a].side = "sell" => is_future)
    BY <2>2, <2>5 DEF OrderCloses
  <2>7. UNCHANGED <<paper_sub, daily_signal, published, sent, desk_crashes, unmanaged>>
    BY <1>6 DEF process_tick_fill
  <2> QED
    BY <1>1, <2>1, <2>2, <2>3, <2>4, <2>5, <2>6, <2>7, FillKeeps
<1> QED
  BY <1>4, <1>5, <1>6

\* What the market, the drain job and an operator's tick do before an order.
LEMMA MarketKeeps ==
    ASSUME DeskIInv,
           \/ \E s \in {"BUY", "SELL"} : run_daily_signal_generation(s)
           \/ run_tick_publish_job \/ run_tick_drain_job \/ process_tick_endpoint
           \/ skip_stale_tick \/ save_tick_cursor
    PROVE  DeskIInv'
<1> USE PaperDeskAssumption
<1>1. DeskTyped /\ "drain" \in DeskActor /\ "manual" \in DeskActor
  BY DEF DeskIInv, DeskActor
<1>2. /\ daily_signal \in Signal /\ published \in 0 .. MaxDeskTicks /\ sent \in 0 .. MaxDeskTicks
      /\ desk_crashes \in 0 .. MaxDeskCrashes /\ position \in -MaxLots .. MaxLots
      /\ paper_sub \in PaperTradingSubscription
  BY <1>1 DEF DeskTyped
<1>3. ASSUME UNCHANGED <<paper_sub, position, net_fills, desk, unmanaged, crossed, sent, desk_crashes>>,
             daily_signal' \in Signal, published' \in 0 .. MaxDeskTicks
      PROVE  DeskIInv'
  BY <1>3 DEF DeskIInv, DeskTyped, OrdersClose, OrderCloses, NeverShort, ReadsHold, OffIsQuiet, At, is_future,
             DeskWork, Resting, AtTicks, AtOrder, AtClose, AtAfter
<1>4. ASSUME NEW s \in {"BUY", "SELL"}, run_daily_signal_generation(s) PROVE DeskIInv'
  BY <1>2, <1>3, <1>4 DEF run_daily_signal_generation, Signal
<1>5. ASSUME run_tick_publish_job PROVE DeskIInv'
  <2>1. published' \in 0 .. MaxDeskTicks
    BY <1>2, <1>5 DEF run_tick_publish_job
  <2> QED
    BY <1>2, <1>3, <1>5, <2>1 DEF run_tick_publish_job
<1>6. ASSUME run_tick_drain_job PROVE DeskIInv'
  <2> DEFINE r == [at |-> "ticks", next |-> paper_sub.cursor, upto |-> published]
  <2>1. r \in DeskWork /\ r.at \notin Holding /\ r.at # "order"
    BY <1>2 DEF DeskWork, AtTicks, PaperTradingSubscription, Holding
  <2>2. Become("drain", r)
    BY <1>6 DEF run_tick_drain_job
  <2>3. UNCHANGED <<paper_sub, position, net_fills, daily_signal, published, sent, desk_crashes, unmanaged, crossed>>
    BY <1>6 DEF run_tick_drain_job
  <2> HIDE DEF r
  <2> QED
    BY <1>1, <1>2, <2>1, <2>2, <2>3, ReadKeeps
<1>7. ASSUME process_tick_endpoint PROVE DeskIInv'
  <2> DEFINE r == [at |-> "ticks", next |-> 0, upto |-> 1]
  <2>1. sent' \in 0 .. MaxDeskTicks /\ 1 \in 0 .. MaxDeskTicks
    BY <1>2, <1>7 DEF process_tick_endpoint
  <2>2. r \in DeskWork /\ r.at \notin Holding /\ r.at # "order"
    BY <2>1 DEF DeskWork, AtTicks, Holding
  <2>3. Become("manual", r)
    BY <1>7 DEF process_tick_endpoint
  <2>4. UNCHANGED <<paper_sub, position, net_fills, daily_signal, published, desk_crashes, unmanaged, crossed>>
    BY <1>7 DEF process_tick_endpoint
  <2> HIDE DEF r
  <2> QED
    BY <1>1, <1>2, <2>1, <2>2, <2>3, <2>4, ReadKeeps
<1>8. ASSUME skip_stale_tick PROVE DeskIInv'
  <2>1. PICK r \in DeskWork : Become("drain", r) /\ r.at \in {"idle", "ticks"}
    BY <1>1, <1>8, NextTick DEF skip_stale_tick
  <2>2. r.at \notin Holding /\ r.at # "order"
    BY <2>1 DEF Holding
  <2> QED
    BY <1>1, <1>2, <1>8, <2>1, <2>2, ReadKeeps DEF skip_stale_tick
<1>9. ASSUME save_tick_cursor PROVE DeskIInv'
  <2>1. desk["drain"].upto \in 0 .. MaxDeskTicks
    BY <1>1, <1>9, DeskFields DEF save_tick_cursor, At, AtTicks
  <2>2. /\ paper_sub' \in PaperTradingSubscription /\ paper_sub'.kind = paper_sub.kind
        /\ paper_sub'.is_active = paper_sub.is_active
    BY <1>2, <1>9, <2>1 DEF save_tick_cursor, PaperTradingSubscription
  <2>3. /\ desk' = [desk EXCEPT !["drain"] = Resting] /\ desk'["drain"].at = "idle"
        /\ \A b \in DeskActor \ {"drain"} : desk'[b] = desk[b]
        /\ desk' \in [DeskActor -> DeskWork]
    BY <1>1, <1>9 DEF save_tick_cursor, Become, DeskTyped, DeskWork, Resting
  <2>4. UNCHANGED <<position, net_fills, daily_signal, published, sent, desk_crashes, unmanaged, crossed>>
    BY <1>9 DEF save_tick_cursor
  <2>5. DeskTyped'
    <3>1. DeskWork' = DeskWork
      BY DEF DeskWork, Resting, AtTicks, AtOrder, AtClose, AtAfter
    <3> QED
      BY <1>1, <2>2, <2>3, <2>4, <3>1 DEF DeskTyped
  <2>6. (OrdersClose /\ NeverShort)'
    BY <2>2, <2>3, <2>4 DEF DeskIInv, OrdersClose, OrderCloses, NeverShort, At, is_future, Holding
  <2>7. ReadsHold'
    BY <2>3, <2>4 DEF DeskIInv, ReadsHold, Holding
  <2>8. OffIsQuiet'
    BY <2>2, <2>3, <2>4 DEF DeskIInv, OffIsQuiet
  <2> QED
    BY <2>5, <2>6, <2>7, <2>8 DEF DeskIInv
<1> QED
  BY <1>4, <1>5, <1>6, <1>7, <1>8, <1>9

\* A close that is begun, refused or filled.
LEMMA CloseKeeps ==
    ASSUME DeskIInv, NEW a \in {"operator", "roll"}
    PROVE  /\ \A then \in {"idle", "off", "switch"}, admin \in BOOLEAN :
                    close_position(a, then, admin) => DeskIInv'
           /\ close_position_refused(a) => DeskIInv'
           /\ (\E n \in 1 .. MaxLots : close_position_fill(a, n)) => DeskIInv'
<1> USE PaperDeskAssumption
<1>1. DeskTyped /\ a \in DeskActor
  BY DEF DeskIInv, DeskActor
<1>2. /\ daily_signal \in Signal /\ published \in 0 .. MaxDeskTicks /\ sent \in 0 .. MaxDeskTicks
      /\ desk_crashes \in 0 .. MaxDeskCrashes /\ position \in -MaxLots .. MaxLots
  BY <1>1 DEF DeskTyped
<1>3. ASSUME NEW then \in {"idle", "off", "switch"}, NEW admin \in BOOLEAN, close_position(a, then, admin)
      PROVE  DeskIInv'
  <2> DEFINE r == [at |-> "close", seen |-> position, then |-> then, admin |-> admin]
  <2>1. Become(a, r) /\ position # 0
    BY <1>3 DEF close_position
  <2>2. r \in DeskWork /\ r.seen = position /\ r.at # "order"
    BY <1>2, <2>1 DEF DeskWork, AtClose
  <2>3. UNCHANGED <<paper_sub, position, net_fills, daily_signal, published, sent, desk_crashes, unmanaged, crossed>>
    BY <1>3 DEF close_position
  <2> HIDE DEF r
  <2> QED
    BY <1>1, <1>2, <2>1, <2>2, <2>3, ReadKeeps
<1>4. ASSUME close_position_refused(a) PROVE DeskIInv'
  <2>1. Resting \in DeskWork /\ Resting.at \notin Holding /\ Resting.at # "order"
    BY DEF DeskWork, Resting, Holding
  <2> QED
    BY <1>1, <1>2, <1>4, <2>1, ReadKeeps DEF close_position_refused
<1>5. ASSUME NEW n \in 1 .. MaxLots, close_position_fill(a, n) PROVE DeskIInv'
  <2> DEFINE r == AfterClose(a, n)
             seen == desk[a].seen
  <2>1. /\ desk[a].at = "close" /\ n \in 1 .. Abs(seen) /\ n \in Nat
        /\ _persist_fill(a, CloseSide(seen), n) /\ Become(a, r)
        /\ UNCHANGED <<paper_sub, daily_signal, published, sent, desk_crashes, unmanaged>>
    BY <1>5 DEF close_position_fill, At
  <2>2. desk[a] \in AtClose
    BY <1>1, <2>1, DeskFields
  <2>3. seen \in -MaxLots .. MaxLots /\ seen # 0 /\ desk[a].then \in {"idle", "off", "switch"}
    BY <2>2 DEF AtClose
  <2>4. /\ r \in DeskWork /\ r.at # "order"
        /\ r.at \in Holding => r.seen = 0 /\ n = Abs(seen)
    <3>1. CASE desk[a].then = "idle" \/ n < Abs(seen)
      <4>1. r = Resting
        BY <3>1 DEF AfterClose
      <4> QED
        BY <4>1 DEF DeskWork, Resting, Holding
    <3>2. CASE ~(desk[a].then = "idle" \/ n < Abs(seen))
      <4>1. r = [at |-> desk[a].then, seen |-> 0] /\ desk[a].then \in {"off", "switch"}
        BY <2>3, <3>2 DEF AfterClose
      <4>2. n = Abs(seen)
        BY <2>1, <2>3, <3>2 DEF Abs
      <4> QED
        BY <4>1, <4>2 DEF DeskWork, AtAfter
    <3> QED
      BY <3>1, <3>2
  <2>5. /\ seen > 0 => CloseSide(seen) = "sell" /\ n <= seen
        /\ seen < 0 => CloseSide(seen) = "buy" /\ n <= -seen
        /\ CloseSide(seen) \in {"buy", "sell"}
    BY <2>1, <2>3 DEF CloseSide, Abs
  <2> HIDE DEF r
  <2> QED
    BY <1>1, <2>1, <2>3, <2>4, <2>5, FillKeeps
<1> QED
  BY <1>3, <1>4, <1>5

\* Switching off, on, changing the lots, and the roll.
LEMMA SwitchKeeps ==
    ASSUME DeskIInv,
           \/ \E choice \in {"none", "close", "leave"} : deactivate_subscription(choice)
           \/ deactivate_commit \/ activate_subscription
           \/ \E n \in 1 .. MaxLots : update_settings(n)
           \/ roll_subscription \/ roll_switch \/ DeskRestart
    PROVE  DeskIInv'
<1> USE PaperDeskAssumption
<1>1. /\ DeskTyped /\ "operator" \in DeskActor /\ "roll" \in DeskActor
      /\ DeskWork' = DeskWork /\ Resting \in DeskWork /\ Resting.at = "idle"
  BY DEF DeskIInv, DeskActor, DeskWork, Resting, AtTicks, AtOrder, AtClose, AtAfter
<1>2. /\ daily_signal \in Signal /\ published \in 0 .. MaxDeskTicks /\ sent \in 0 .. MaxDeskTicks
      /\ desk_crashes \in 0 .. MaxDeskCrashes /\ position \in -MaxLots .. MaxLots
      /\ paper_sub \in PaperTradingSubscription /\ unmanaged \in -MaxLots .. MaxLots
      /\ desk \in [DeskActor -> DeskWork]
  BY <1>1 DEF DeskTyped
<1>3. ASSUME NEW choice \in {"none", "close", "leave"}, deactivate_subscription(choice) PROVE DeskIInv'
  <2>1. CASE position # 0 /\ choice = "close"
    <3>1. close_position("operator", "off", FALSE)
      BY <1>3, <2>1 DEF deactivate_subscription
    <3> QED
      BY <3>1, CloseKeeps
  <2>2. CASE ~(position # 0 /\ choice = "close")
    <3> DEFINE r == [at |-> "off", seen |-> position]
    <3>1. Become("operator", r) /\ UNCHANGED <<paper_sub, position, net_fills, daily_signal, published, sent,
                                    desk_crashes, unmanaged, crossed>>
      BY <1>3, <2>2 DEF deactivate_subscription
    <3>2. r \in DeskWork /\ r.seen = position /\ r.at # "order"
      BY <1>2 DEF DeskWork, AtAfter
    <3> HIDE DEF r
    <3> QED
      BY <1>1, <1>2, <3>1, <3>2, ReadKeeps
  <2> QED
    BY <2>1, <2>2
<1>4. ASSUME deactivate_commit PROVE DeskIInv'
  <2>1. /\ desk' = [desk EXCEPT !["operator"] = Resting] /\ desk["operator"].at = "off"
        /\ paper_sub' = [paper_sub EXCEPT !.is_active = FALSE] /\ unmanaged' = desk["operator"].seen
        /\ Crossing("operator") /\ UNCHANGED <<position, net_fills, daily_signal, published, sent, desk_crashes>>
    BY <1>4 DEF deactivate_commit, At, Become
  <2>2. /\ desk' \in [DeskActor -> DeskWork] /\ desk'["operator"].at = "idle"
        /\ \A b \in DeskActor \ {"operator"} : desk'[b] = desk[b]
    BY <1>1, <1>2, <2>1
  <2>3. /\ paper_sub' \in PaperTradingSubscription /\ paper_sub'.kind = paper_sub.kind
    BY <1>2, <2>1 DEF PaperTradingSubscription
  <2>4. unmanaged' \in -MaxLots .. MaxLots
    BY <1>1, <2>1, DeskFields DEF Holding
  <2>5. /\ crossed' \in BOOLEAN
        /\ crossed' = FALSE => crossed = FALSE /\ \A b \in DeskActor \ {"operator"} : desk[b].at \notin Holding
    BY <1>1, <2>1, CrossingMarks DEF DeskTyped
  <2>6. DeskTyped'
    BY <1>1, <1>2, <2>1, <2>2, <2>3, <2>4, <2>5 DEF DeskTyped
  <2>7. (OrdersClose /\ NeverShort)'
    BY <2>1, <2>2, <2>3 DEF DeskIInv, OrdersClose, OrderCloses, NeverShort, At, is_future, Holding
  <2>8. ReadsHold'
    BY <2>1, <2>2, <2>5 DEF DeskIInv, ReadsHold, Holding
  <2>9. OffIsQuiet'
    <3> SUFFICES ASSUME crossed' = FALSE
                 PROVE  Abs(position') <= Abs(unmanaged') /\ \A b \in DeskActor : desk'[b].at # "order"
      BY DEF OffIsQuiet
    <3>1. unmanaged' = position
      BY <1>1, <2>1, <2>5 DEF DeskIInv, ReadsHold, Holding
    <3>2. Abs(position') <= Abs(unmanaged')
      BY <1>2, <2>1, <3>1 DEF Abs
    <3>3. \A b \in DeskActor : desk'[b].at # "order"
      BY <2>2, <2>5 DEF Holding
    <3> QED
      BY <3>2, <3>3
  <2> QED
    BY <2>6, <2>7, <2>8, <2>9 DEF DeskIInv
<1>5. ASSUME UNCHANGED <<position, net_fills, daily_signal, published, sent, desk_crashes, crossed>>,
             paper_sub' \in PaperTradingSubscription, paper_sub'.kind = paper_sub.kind,
             desk' \in [DeskActor -> DeskWork],
             \A b \in DeskActor : desk'[b] = desk[b] \/ desk'[b].at = "idle",
             \/ paper_sub'.is_active = paper_sub.is_active /\ unmanaged' = unmanaged
             \/ paper_sub'.is_active = TRUE /\ unmanaged' = 0
      PROVE  DeskIInv'
  <2>1. DeskTyped'
    BY <1>1, <1>2, <1>5 DEF DeskTyped
  <2>2. (OrdersClose /\ NeverShort)'
    BY <1>5 DEF DeskIInv, OrdersClose, OrderCloses, NeverShort, At, is_future, Holding
  <2>3. ReadsHold'
    BY <1>5 DEF DeskIInv, ReadsHold, Holding
  <2>4. OffIsQuiet'
    BY <1>5 DEF DeskIInv, OffIsQuiet
  <2> QED
    BY <2>1, <2>2, <2>3, <2>4 DEF DeskIInv
<1>6. ASSUME activate_subscription PROVE DeskIInv'
  <2>1. paper_sub' \in PaperTradingSubscription /\ paper_sub'.kind = paper_sub.kind /\ paper_sub'.is_active = TRUE
    BY <1>2, <1>6 DEF activate_subscription, PaperTradingSubscription
  <2> QED
    BY <1>2, <1>5, <1>6, <2>1 DEF activate_subscription
<1>7. ASSUME NEW n \in 1 .. MaxLots, update_settings(n) PROVE DeskIInv'
  <2>1. /\ paper_sub' \in PaperTradingSubscription /\ paper_sub'.kind = paper_sub.kind
        /\ paper_sub'.is_active = paper_sub.is_active
    BY <1>2, <1>7 DEF update_settings, PaperTradingSubscription
  <2> QED
    BY <1>2, <1>5, <1>7, <2>1 DEF update_settings
<1>8. ASSUME roll_subscription PROVE DeskIInv'
  <2>1. CASE position # 0
    <3>1. close_position("roll", "switch", FALSE)
      BY <1>8, <2>1 DEF roll_subscription
    <3> QED
      BY <3>1, CloseKeeps
  <2>2. CASE position = 0
    <3> DEFINE r == [at |-> "switch", seen |-> 0]
    <3>1. Become("roll", r) /\ UNCHANGED <<paper_sub, position, net_fills, daily_signal, published, sent,
                                    desk_crashes, unmanaged, crossed>>
      BY <1>8, <2>2 DEF roll_subscription
    <3>2. r \in DeskWork /\ r.seen = position /\ r.at # "order"
      BY <1>2, <2>2 DEF DeskWork, AtAfter
    <3> HIDE DEF r
    <3> QED
      BY <1>1, <1>2, <3>1, <3>2, ReadKeeps
  <2> QED
    BY <2>1, <2>2
<1>9. ASSUME roll_switch PROVE DeskIInv'
  <2>1. /\ paper_sub' \in PaperTradingSubscription /\ paper_sub'.kind = paper_sub.kind
        /\ paper_sub'.is_active = paper_sub.is_active
    BY <1>2, <1>9 DEF roll_switch, PaperTradingSubscription
  <2>2. desk' \in [DeskActor -> DeskWork] /\ \A b \in DeskActor : desk'[b] = desk[b] \/ desk'[b].at = "idle"
    BY <1>1, <1>2, <1>9 DEF roll_switch, Become
  <2> QED
    BY <1>5, <1>9, <2>1, <2>2 DEF roll_switch
<1>10. ASSUME DeskRestart PROVE DeskIInv'
  <2>1. /\ desk' \in [DeskActor -> DeskWork] /\ \A b \in DeskActor : desk'[b].at = "idle"
        /\ desk_crashes' \in 0 .. MaxDeskCrashes
        /\ UNCHANGED <<paper_sub, position, net_fills, daily_signal, published, sent, unmanaged, crossed>>
    BY <1>1, <1>2, <1>10 DEF DeskRestart
  <2>2. DeskTyped'
    BY <1>1, <1>2, <2>1 DEF DeskTyped
  <2> QED
    BY <2>1, <2>2 DEF DeskIInv, OrdersClose, OrderCloses, NeverShort, ReadsHold, OffIsQuiet, At, is_future, Holding
<1> QED
  BY <1>3, <1>4, <1>6, <1>7, <1>8, <1>9, <1>10

\* Every step of the desk keeps its invariant.
LEMMA DeskStep == DeskIInv /\ [DeskNext]_deskVars => DeskIInv'
<1> SUFFICES ASSUME DeskIInv, [DeskNext]_deskVars PROVE DeskIInv'
  OBVIOUS
<1>1. CASE UNCHANGED deskVars
  BY <1>1 DEF deskVars, DeskIInv, DeskTyped, OrdersClose, OrderCloses, NeverShort, ReadsHold, OffIsQuiet, At, is_future,
             DeskWork, Resting, AtTicks, AtOrder, AtClose, AtAfter
<1>2. CASE \/ \E s \in {"BUY", "SELL"} : run_daily_signal_generation(s)
           \/ run_tick_publish_job \/ run_tick_drain_job \/ process_tick_endpoint
           \/ skip_stale_tick \/ save_tick_cursor
  BY <1>2, MarketKeeps
<1>3. CASE \E a \in {"drain", "manual"} : \/ \E hit \in BOOLEAN : process_tick(a, hit)
                                         \/ process_tick_refused(a)
                                         \/ \E n \in 0 .. MaxLots : process_tick_fill(a, n)
  BY <1>3, TickKeeps
<1>4. CASE close_position_endpoint
  BY <1>4, CloseKeeps DEF close_position_endpoint
<1>5. CASE \E a \in {"operator", "roll"} : \/ close_position_refused(a)
                                          \/ \E n \in 1 .. MaxLots : close_position_fill(a, n)
  BY <1>5, CloseKeeps
<1>6. CASE \/ \E choice \in {"none", "close", "leave"} : deactivate_subscription(choice)
           \/ deactivate_commit \/ activate_subscription
           \/ \E n \in 1 .. MaxLots : update_settings(n)
           \/ roll_subscription \/ roll_switch \/ DeskRestart
  BY <1>6, SwitchKeeps
<1> QED
  BY <1>1, <1>2, <1>3, <1>4, <1>5, <1>6, Zenon DEF DeskNext

\* The desk's own properties follow.
LEMMA DeskFollows == DeskIInv => DeskTypeOK /\ BookIsHonest
<1> SUFFICES ASSUME DeskIInv PROVE DeskTypeOK /\ BookIsHonest
  OBVIOUS
<1> USE PaperDeskAssumption
<1>1. DeskTyped
  BY DEF DeskIInv
<1>2. DeskTypeOK
  <2>1. \A a \in DeskActor : desk[a].at \in {"idle", "ticks"} \union Holding
    BY <1>1, DeskFields
  <2> QED
    BY <1>1, <2>1 DEF DeskTyped, DeskTypeOK
<1>3. PositionIsItsFills
  <2>1. crossed = TRUE \/ crossed = FALSE
    BY <1>1 DEF DeskTyped
  <2> QED
    BY <2>1 DEF DeskIInv, ReadsHold, PositionIsItsFills
<1>4. OneEntryAtMost
  <2>1. Abs(position) <= MaxLots
    BY <1>1 DEF DeskTyped, Abs
  <2> QED
    BY <2>1 DEF DeskIInv, NeverShort, OneEntryAtMost
<1>5. OffIsAsAnnounced
  <2>1. (crossed = TRUE \/ crossed = FALSE) /\ (paper_sub.is_active = TRUE \/ paper_sub.is_active = FALSE)
    BY <1>1 DEF DeskTyped, PaperTradingSubscription
  <2> QED
    BY <2>1 DEF DeskIInv, OffIsQuiet, OffIsAsAnnounced
<1> QED
  BY <1>2, <1>3, <1>4, <1>5 DEF BookIsHonest

\* The book of a subscription is honest, for any number of lots, ticks, restarts and actors
\* at work at once (paper_trading.py).
THEOREM BookIsHonestHolds == DeskSpec => []BookIsHonest
<1> QED
  BY DeskStart, DeskStep, DeskFollows, PTL DEF DeskSpec

-----------------------------------------------------------------------------
(* The paper desk: option structures.                                      *)

\* The option desk by itself.
OptionsSpec == OptionsInit /\ [][OptionsNext]_optionVars

\* What an actor of the option desk is at.
Legs == [buy: Units, sell: Units]
FlatLegs == [buy |-> 0, sell |-> 0]
PlanRow == [direction: Direction, quantity: 1 .. MaxUnits]
BuyJob == [at: {"buying"}, plan: PlanRow, seen: {FlatLegs}]
SellJob == [at: {"selling", "entered"}, plan: PlanRow, hedge_filled: 1 .. MaxUnits, seen: {FlatLegs}]
EndJob == [at: {"entered"}]
LegJob == [at: {"closing"}, leg: {"buy", "sell"}, seen: Legs]
OptionJob == {NoWork} \union BuyJob \union SellJob \union EndJob \union LegJob

\* What the step an actor is at says of the legs: an entry buys on flat legs and sells
\* against what it bought, and a close has the legs as it read them until the sold one is gone.
JobFits(r, held_legs) ==
    /\ r.at = "buying" => held_legs = FlatLegs
    /\ r.at = "selling" => held_legs.sell = 0 /\ held_legs.buy = r.hedge_filled
    /\ r.at = "closing" => IF r.leg = "sell" THEN r.seen = held_legs ELSE held_legs.sell = 0

\* One actor at a time, each at a step that fits, and no more sold than is hedged.
OneAtATime ==
    mixed = FALSE =>
        /\ \A t, u \in Trader : Working(t) /\ Working(u) => t = u
        /\ cut_short = FALSE => legs.sell <= legs.buy /\ \A t \in Trader : JobFits(trader[t], legs)

\* The inductive invariant of the option desk.
OptionsTyped ==
    /\ legs \in Legs /\ view \in Direction \union {"none"}
    /\ option_plan \in {NoPlan} \union PlanRow
    /\ signal \in {"none", "BUY", "SELL"} /\ squareoff \in {"far", "near", "past"}
    /\ spread \in BOOLEAN /\ restarts \in 0 .. MaxOptionRestarts
    /\ mixed \in BOOLEAN /\ cut_short \in BOOLEAN
    /\ trader \in [Trader -> OptionJob]
OptionsIInv == OptionsTyped /\ OneAtATime

\* The fields of a job.
LEMMA JobFields ==
    ASSUME NEW r \in OptionJob
    PROVE  /\ r.at \in {"idle", "buying", "selling", "entered", "closing"}
           /\ r.at = "buying" => r \in BuyJob
           /\ r.at = "selling" => r \in SellJob
           /\ r.at = "closing" => r \in LegJob
BY DEF OptionJob, NoWork, BuyJob, SellJob, EndJob, LegJob

\* An actor that puts down its job, or takes the next step of it.
LEMMA JobSet ==
    ASSUME OptionsTyped, NEW t \in Trader, NEW r \in OptionJob, Set(t, r)
    PROVE  /\ trader' \in [Trader -> OptionJob] /\ trader'[t] = r
           /\ \A u \in Trader \ {t} : trader'[u] = trader[u]
BY DEF OptionsTyped, Set

\* An option subscription starts flat.
LEMMA OptionsStart == OptionsInit => OptionsIInv
<1> SUFFICES ASSUME OptionsInit PROVE OptionsIInv
  OBVIOUS
<1>1. /\ legs = FlatLegs /\ view = "none" /\ option_plan = NoPlan /\ signal = "none" /\ squareoff = "far"
      /\ trader = [t \in Trader |-> NoWork] /\ spread \in BOOLEAN /\ restarts = 0
      /\ mixed = FALSE /\ cut_short = FALSE
  BY DEF OptionsInit, FlatLegs
<1>2. OptionsTyped
  <2>1. legs \in Legs
    BY <1>1, PaperOptionsAssumption DEF Legs, FlatLegs, Units
  <2>2. trader \in [Trader -> OptionJob]
    BY <1>1 DEF OptionJob
  <2>3. restarts \in 0 .. MaxOptionRestarts
    BY <1>1, PaperOptionsAssumption
  <2>4. mixed \in BOOLEAN /\ cut_short \in BOOLEAN /\ spread \in BOOLEAN
    BY <1>1
  <2> QED
    BY <1>1, <2>1, <2>2, <2>3, <2>4 DEF OptionsTyped
<1>3. OneAtATime
  BY <1>1 DEF OneAtATime, Working, NoWork, FlatLegs, JobFits
<1> QED
  BY <1>2, <1>3 DEF OptionsIInv

\* Steps that take no leg and start no job.
LEMMA QuietKeeps ==
    ASSUME OptionsIInv, UNCHANGED <<legs, spread, mixed, cut_short>>,
           view' \in Direction \union {"none"}, option_plan' \in {NoPlan} \union PlanRow,
           signal' \in {"none", "BUY", "SELL"}, squareoff' \in {"far", "near", "past"},
           restarts' \in 0 .. MaxOptionRestarts,
           trader' \in [Trader -> OptionJob],
           \A t \in Trader : trader'[t] # trader[t] => trader'[t] = NoWork
    PROVE  OptionsIInv'
<1>1. OptionsTyped'
  BY DEF OptionsIInv, OptionsTyped, OptionJob, BuyJob, SellJob, EndJob, LegJob, Legs, PlanRow
<1>2. OneAtATime'
  BY DEF OptionsIInv, OneAtATime, Working, JobFits, NoWork
<1> QED
  BY <1>1, <1>2 DEF OptionsIInv

\* An actor that begins a job which fits the legs as they are.
LEMMA BeginKeeps ==
    ASSUME OptionsIInv, NEW t \in Trader, NEW r \in OptionJob, Begin(t, r), JobFits(r, legs),
           UNCHANGED <<legs, view, option_plan, signal, squareoff, spread, restarts, cut_short>>
    PROVE  OptionsIInv'
<1>1. OptionsTyped /\ ~Working(t) /\ Set(t, r)
  BY DEF OptionsIInv, Begin
<1>2. /\ trader' \in [Trader -> OptionJob] /\ trader'[t] = r
      /\ \A u \in Trader \ {t} : trader'[u] = trader[u]
  BY <1>1, JobSet
<1>3. /\ mixed' \in BOOLEAN
      /\ mixed' = FALSE => mixed = FALSE /\ \A u \in Trader \ {t} : ~Working(u)
  <2>1. mixed \in BOOLEAN
    BY <1>1 DEF OptionsTyped
  <2>2. mixed' = (mixed \/ \E u \in Trader \ {t} : Working(u))
    BY DEF Begin
  <2> QED
    BY <2>1, <2>2, Zenon
<1>4. OptionsTyped'
  BY <1>1, <1>2, <1>3 DEF OptionsTyped, OptionJob, BuyJob, SellJob, EndJob, LegJob, Legs, PlanRow
<1>5. OneAtATime'
  BY <1>2, <1>3 DEF OptionsIInv, OneAtATime, Working, JobFits
<1> QED
  BY <1>4, <1>5 DEF OptionsIInv

\* A close begins with the legs as they are, at the sold one if there is one.
LEMMA CloseFits == OptionsTyped => CloseJob \in OptionJob /\ JobFits(CloseJob, legs)
BY DEF OptionsTyped, CloseJob, open_positions, OptionJob, LegJob, JobFits, Legs, Units

\* A step of its job in which actor t changes a leg: the others are idle, or the mark is there.
LEMMA LegKeeps ==
    ASSUME OptionsIInv, NEW t \in Trader, Working(t), NEW r \in OptionJob, Set(t, r),
           legs' \in Legs, UNCHANGED <<spread, mixed, restarts, signal>>,
           view' \in Direction \union {"none"}, option_plan' = option_plan, squareoff' \in {"far", "near", "past"},
           cut_short' \in BOOLEAN, cut_short' = FALSE => cut_short = FALSE,
           mixed = FALSE /\ cut_short' = FALSE /\ JobFits(trader[t], legs) /\ legs.sell <= legs.buy
               => legs'.sell <= legs'.buy /\ JobFits(r, legs')
    PROVE  OptionsIInv'
<1>1. OptionsTyped
  BY DEF OptionsIInv
<1>2. /\ trader' \in [Trader -> OptionJob] /\ trader'[t] = r
      /\ \A u \in Trader \ {t} : trader'[u] = trader[u]
  BY <1>1, JobSet
<1>3. OptionsTyped'
  BY <1>1, <1>2 DEF OptionsTyped, OptionJob, BuyJob, SellJob, EndJob, LegJob, Legs, PlanRow
<1>4. OneAtATime'
  <2> SUFFICES ASSUME mixed = FALSE
               PROVE  /\ \A u, v \in Trader : Working(u)' /\ Working(v)' => u = v
                      /\ cut_short' = FALSE => legs'.sell <= legs'.buy /\ \A u \in Trader : JobFits(trader'[u], legs')
    BY DEF OneAtATime
  <2>1. \A u \in Trader \ {t} : ~Working(u) /\ ~Working(u)'
    BY <1>2 DEF OptionsIInv, OneAtATime, Working
  <2>2. \A u, v \in Trader : Working(u)' /\ Working(v)' => u = v
    BY <2>1
  <2>3. ASSUME cut_short' = FALSE PROVE legs'.sell <= legs'.buy /\ \A u \in Trader : JobFits(trader'[u], legs')
    <3>1. JobFits(trader[t], legs) /\ legs.sell <= legs.buy
      BY <2>3 DEF OptionsIInv, OneAtATime
    <3>2. legs'.sell <= legs'.buy /\ JobFits(r, legs')
      BY <2>3, <3>1
    <3>3. \A u \in Trader \ {t} : JobFits(trader'[u], legs')
      BY <1>2, <2>1 DEF JobFits, Working
    <3>4. JobFits(trader'[t], legs')
      BY <1>2, <3>2 DEF JobFits
    <3> QED
      BY <3>2, <3>3, <3>4
  <2> QED
    BY <2>2, <2>3
<1> QED
  BY <1>3, <1>4 DEF OptionsIInv

\* The steps of an entry.
LEMMA EntryKeeps ==
    ASSUME OptionsIInv
    PROVE  /\ _enter => OptionsIInv'
           /\ \A n \in Units : (_enter_buy(n) => OptionsIInv') /\ (_enter_sell(n) => OptionsIInv')
           /\ _enter_done => OptionsIInv'
<1> USE PaperOptionsAssumption
<1> DEFINE job == trader["evaluate"]
<1>1. OptionsTyped /\ "evaluate" \in Trader /\ job \in OptionJob
  BY DEF OptionsIInv, OptionsTyped, Trader
<1>2. ASSUME _enter PROVE OptionsIInv'
  <2> DEFINE r == [at |-> "buying", plan |-> option_plan, seen |-> legs]
  <2>1. legs = FlatLegs
    BY <1>1, <1>2 DEF _enter, Flat, OptionsTyped, Legs, FlatLegs
  <2>2. option_plan \in PlanRow
    BY <1>1, <1>2 DEF _enter, OptionsTyped, NoPlan, direction_for_signal
  <2>3. r \in OptionJob /\ JobFits(r, legs)
    BY <2>1, <2>2 DEF OptionJob, BuyJob, JobFits
  <2>4. Begin("evaluate", r) /\ UNCHANGED <<legs, view, option_plan, signal, squareoff, spread, restarts, cut_short>>
    BY <1>2 DEF _enter
  <2> HIDE DEF r
  <2> QED
    BY <1>1, <2>3, <2>4, BeginKeeps
<1>3. ASSUME NEW n \in Units, _enter_buy(n) PROVE OptionsIInv'
  <2> DEFINE r == [at |-> IF spread THEN "selling" ELSE "entered",
                   plan |-> job.plan, hedge_filled |-> n, seen |-> job.seen]
  <2>1. job.at = "buying" /\ n \in 1 .. job.plan.quantity
    BY <1>3 DEF _enter_buy
  <2>2. job.plan \in PlanRow /\ job.seen = FlatLegs
    BY <1>1, <2>1, JobFields DEF BuyJob
  <2>3. n \in 1 .. MaxUnits /\ job.plan.direction \in Direction
    BY <2>1, <2>2 DEF PlanRow
  <2>4. r \in OptionJob
    BY <2>2, <2>3 DEF OptionJob, SellJob
  <2>5. legs' = [legs EXCEPT !.buy = n]
    <3>1. job.seen.buy + n = n
      BY <2>2, <2>3 DEF FlatLegs
    <3>2. legs' = [legs EXCEPT !.buy = job.seen.buy + n]
      BY <1>3 DEF _enter_buy, SetLeg
    <3> HIDE DEF job
    <3> QED
      BY <3>1, <3>2
  <2>6. legs' \in Legs /\ legs'.buy = n /\ legs'.sell = legs.sell
    BY <1>1, <2>3, <2>5 DEF OptionsTyped, Legs, Units
  <2>7. /\ Set("evaluate", r) /\ view' = job.plan.direction /\ squareoff' = "far"
        /\ UNCHANGED <<option_plan, signal, spread, restarts, mixed, cut_short>> /\ Working("evaluate")
    BY <1>3, <2>1 DEF _enter_buy, Working
  <2>8. ASSUME JobFits(job, legs), legs.sell <= legs.buy PROVE legs'.sell <= legs'.buy /\ JobFits(r, legs')
    <3>1. legs.sell = 0
      BY <2>1, <2>8 DEF JobFits, FlatLegs
    <3> QED
      BY <2>3, <2>6, <3>1 DEF JobFits
  <2>9. cut_short' \in BOOLEAN /\ cut_short' = cut_short
    BY <1>1, <2>7 DEF OptionsTyped
  <2> HIDE DEF r
  <2> QED
    BY <1>1, <2>3, <2>4, <2>6, <2>7, <2>8, <2>9, LegKeeps
<1>4. ASSUME NEW n \in Units, _enter_sell(n) PROVE OptionsIInv'
  <2> DEFINE r == [at |-> "entered"]
  <2>1. job.at = "selling" /\ n \in 0 .. SellUpTo(job.plan, job.hedge_filled)
    BY <1>4 DEF _enter_sell
  <2>2. job.plan \in PlanRow /\ job.seen = FlatLegs /\ job.hedge_filled \in 1 .. MaxUnits
    BY <1>1, <2>1, JobFields DEF SellJob
  <2>3. n <= job.hedge_filled
    BY <2>1, <2>2 DEF PlanRow, SellUpTo
  <2>4. r \in OptionJob
    BY DEF OptionJob, EndJob
  <2>5. legs' = [legs EXCEPT !.sell = n]
    <3>1. job.seen.sell + n = n
      BY <2>2 DEF FlatLegs, Units
    <3>2. legs' = [legs EXCEPT !.sell = job.seen.sell + n]
      BY <1>4 DEF _enter_sell, SetLeg
    <3> HIDE DEF job
    <3> QED
      BY <3>1, <3>2
  <2>6. legs' \in Legs /\ legs'.sell = n /\ legs'.buy = legs.buy
    BY <1>1, <2>5 DEF OptionsTyped, Legs, Units
  <2>7. /\ Set("evaluate", r) /\ UNCHANGED <<view, option_plan, signal, squareoff, spread, restarts, mixed, cut_short>>
        /\ Working("evaluate")
    BY <1>4, <2>1 DEF _enter_sell, Working
  <2>8. ASSUME JobFits(job, legs), legs.sell <= legs.buy PROVE legs'.sell <= legs'.buy /\ JobFits(r, legs')
    <3>1. legs.buy = job.hedge_filled
      BY <2>1, <2>8 DEF JobFits
    <3> QED
      BY <2>3, <2>6, <3>1 DEF JobFits
  <2>9. cut_short' \in BOOLEAN /\ cut_short' = cut_short /\ view' \in Direction \union {"none"} /\ squareoff' \in {"far", "near", "past"}
    BY <1>1, <2>7 DEF OptionsTyped
  <2> HIDE DEF r
  <2> QED
    BY <1>1, <2>4, <2>6, <2>7, <2>8, <2>9, LegKeeps
<1>5. ASSUME _enter_done PROVE OptionsIInv'
  <2>1. NoWork \in OptionJob /\ NoWork.at = "idle" /\ Set("evaluate", NoWork)
    BY <1>5 DEF OptionJob, NoWork, _enter_done
  <2>2. /\ trader' \in [Trader -> OptionJob] /\ trader'["evaluate"] = NoWork
        /\ \A u \in Trader \ {"evaluate"} : trader'[u] = trader[u]
    BY <1>1, <2>1, JobSet
  <2>3. \A t \in Trader : trader'[t] # trader[t] => trader'[t] = NoWork
    BY <2>2
  <2>4. /\ option_plan' \in {NoPlan} \union PlanRow /\ view' \in Direction \union {"none"}
        /\ signal' \in {"none", "BUY", "SELL"} /\ squareoff' \in {"far", "near", "past"}
        /\ restarts' \in 0 .. MaxOptionRestarts /\ UNCHANGED <<legs, spread, mixed, cut_short>>
    BY <1>1, <1>5 DEF _enter_done, OptionsTyped
  <2> QED
    BY <2>2, <2>3, <2>4, QuietKeeps
<1> QED
  BY <1>2, <1>3, <1>4, <1>5

\* A leg that is closed, all of it or in part.
LEMMA CloseLegKeeps ==
    ASSUME OptionsIInv, NEW t \in Trader, NEW n \in Units, close_leg(t, n)
    PROVE  OptionsIInv'
<1> DEFINE job == trader[t]
           left == job.seen[job.leg] - n
           r == IF HedgeNext(t, left) THEN [job EXCEPT !.leg = "buy"] ELSE NoWork
<1>1. OptionsTyped /\ job \in OptionJob
  BY DEF OptionsIInv, OptionsTyped
<1>2. /\ job.at = "closing" /\ left >= 0 /\ legs' = [legs EXCEPT ![job.leg] = left] /\ Set(t, r)
      /\ cut_short' = (cut_short \/ (t = "operator" /\ job.leg = "sell" /\ left > 0))
      /\ UNCHANGED <<view, option_plan, signal, squareoff, spread, restarts, mixed>> /\ Working(t)
  BY DEF close_leg, SetLeg, Working
<1>3. job \in LegJob
  BY <1>1, <1>2, JobFields
<1>4. /\ job.leg \in {"buy", "sell"} /\ job.seen \in Legs
      /\ job.seen[job.leg] \in Units /\ left \in Units /\ left <= job.seen[job.leg]
  BY <1>2, <1>3, PaperOptionsAssumption DEF LegJob, Legs, Units
<1>5. r \in OptionJob
  BY <1>3 DEF OptionJob, LegJob
<1>6. /\ legs' \in Legs
      /\ job.leg = "buy" => legs'.buy = left /\ legs'.sell = legs.sell
      /\ job.leg = "sell" => legs'.sell = left /\ legs'.buy = legs.buy
  BY <1>1, <1>2, <1>4 DEF OptionsTyped, Legs
<1>7. /\ cut_short' \in BOOLEAN /\ cut_short' = FALSE => cut_short = FALSE
      /\ cut_short' = FALSE => ~(t = "operator" /\ job.leg = "sell" /\ left > 0)
  <2>1. cut_short \in BOOLEAN
    BY <1>1 DEF OptionsTyped
  <2> HIDE DEF left, job
  <2> QED
    BY <1>2, <2>1, Zenon
<1>8. ASSUME cut_short' = FALSE, JobFits(job, legs), legs.sell <= legs.buy
      PROVE  legs'.sell <= legs'.buy /\ JobFits(r, legs')
  <2>0. legs.sell \in Nat /\ legs.buy \in Nat /\ left \in Nat
    BY <1>1, <1>4 DEF OptionsTyped, Legs, Units
  <2>1. CASE job.leg = "sell"
    <3>1. left <= legs.sell /\ legs'.sell = left /\ legs'.buy = legs.buy
      BY <1>2, <1>4, <1>6, <1>8, <2>1 DEF JobFits
    <3>2. HedgeNext(t, left) => left = 0
      BY <1>7, <1>8, <2>0, <2>1 DEF HedgeNext
    <3>3. JobFits(r, legs')
      BY <1>2, <1>3, <3>1, <3>2 DEF JobFits, NoWork, LegJob
    <3> QED
      BY <1>8, <2>0, <3>1, <3>3
  <2>2. CASE job.leg = "buy"
    <3>1. legs.sell = 0 /\ legs'.sell = 0 /\ legs'.buy = left
      BY <1>2, <1>6, <1>8, <2>2 DEF JobFits
    <3>2. r = NoWork
      BY <2>2 DEF HedgeNext
    <3> QED
      BY <2>0, <3>1, <3>2 DEF JobFits, NoWork
  <2> QED
    BY <1>4, <2>1, <2>2
<1>9. view' \in Direction \union {"none"} /\ squareoff' \in {"far", "near", "past"}
  BY <1>1, <1>2 DEF OptionsTyped
<1> HIDE DEF r, left
<1> QED
  BY <1>2, <1>5, <1>6, <1>7, <1>8, <1>9, LegKeeps

\* Every step of the option desk keeps its invariant.
LEMMA OptionsStep == OptionsIInv /\ [OptionsNext]_optionVars => OptionsIInv'
<1> SUFFICES ASSUME OptionsIInv, [OptionsNext]_optionVars PROVE OptionsIInv'
  OBVIOUS
<1> USE PaperOptionsAssumption
<1>1. /\ OptionsTyped /\ NoWork \in OptionJob
      /\ trader \in [Trader -> OptionJob]
      /\ view \in Direction \union {"none"} /\ option_plan \in {NoPlan} \union PlanRow
      /\ signal \in {"none", "BUY", "SELL"} /\ squareoff \in {"far", "near", "past"}
      /\ restarts \in 0 .. MaxOptionRestarts
  BY DEF OptionsIInv, OptionsTyped, OptionJob
<1>2. CASE UNCHANGED optionVars
  BY <1>1, <1>2, QuietKeeps DEF optionVars
<1>3. ASSUME NEW s \in {"BUY", "SELL"}, new_option_signal(s) PROVE OptionsIInv'
  BY <1>1, <1>3, QuietKeeps DEF new_option_signal
<1>4. ASSUME NEW n \in Units, plan_entry(n) PROVE OptionsIInv'
  <2>1. option_plan' \in PlanRow
    BY <1>4 DEF plan_entry, PlanRow, Units, Direction, direction_for_signal
  <2> QED
    BY <1>1, <1>4, <2>1, QuietKeeps DEF plan_entry
<1>5. ASSUME clear_plan PROVE OptionsIInv'
  BY <1>1, <1>5, QuietKeeps DEF clear_plan
<1>6. ASSUME NEW t \in Trader, Begin(t, CloseJob),
             UNCHANGED <<legs, view, option_plan, signal, squareoff, spread, restarts, cut_short>>
      PROVE  OptionsIInv'
  BY <1>1, <1>6, CloseFits, BeginKeeps
<1>7. CASE \E stop \in BOOLEAN : evaluate_option_subscription(stop)
  BY <1>6, <1>7 DEF evaluate_option_subscription, Trader
<1>8. CASE close_all_positions
  BY <1>6, <1>8 DEF close_all_positions, Trader
<1>9. CASE run_expiry_sweep
  BY <1>6, <1>9 DEF run_expiry_sweep, Trader
<1>10. CASE days_pass
  <2>1. squareoff' \in {"far", "near", "past"}
    BY <1>10 DEF days_pass
  <2> QED
    BY <1>1, <1>10, <2>1, QuietKeeps DEF days_pass
<1>11. ASSUME NEW t \in Trader, close_refused(t) PROVE OptionsIInv'
  <2>1. /\ trader' \in [Trader -> OptionJob] /\ trader'[t] = NoWork
        /\ \A u \in Trader \ {t} : trader'[u] = trader[u]
    BY <1>1, <1>11, JobSet DEF close_refused
  <2>2. \A u \in Trader : trader'[u] # trader[u] => trader'[u] = NoWork
    BY <2>1
  <2> QED
    BY <1>1, <1>11, <2>1, <2>2, QuietKeeps DEF close_refused
<1>12. CASE OptionsRestart
  <2>1. /\ trader' \in [Trader -> OptionJob] /\ \A u \in Trader : trader'[u] = NoWork
        /\ restarts' \in 0 .. MaxOptionRestarts
    BY <1>1, <1>12 DEF OptionsRestart
  <2> QED
    BY <1>1, <1>12, <2>1, QuietKeeps DEF OptionsRestart
<1>13. CASE \E n \in Units : plan_entry(n) \/ _enter_buy(n) \/ _enter_sell(n)
  BY <1>4, <1>13, EntryKeeps
<1>14. CASE \E t \in Trader : close_refused(t) \/ \E n \in Units : close_leg(t, n)
  BY <1>11, <1>14, CloseLegKeeps
<1>15. CASE _enter \/ _enter_done
  BY <1>15, EntryKeeps
<1> QED
  BY <1>2, <1>3, <1>5, <1>7, <1>8, <1>9, <1>10, <1>12, <1>13, <1>14, <1>15, Zenon DEF OptionsNext

\* The option desk's own properties follow.
LEMMA OptionsFollow == OptionsIInv => OptionsTypeOK /\ HedgedUnlessCut
<1> SUFFICES ASSUME OptionsIInv PROVE OptionsTypeOK /\ HedgedUnlessCut
  OBVIOUS
<1>1. OptionsTypeOK
  <2>1. \A t \in Trader : trader[t].at \in {"idle", "buying", "selling", "entered", "closing"}
    BY JobFields DEF OptionsIInv, OptionsTyped
  <2>2. option_plan \in {NoPlan} \union [direction: Direction, quantity: Units]
    BY PaperOptionsAssumption DEF OptionsIInv, OptionsTyped, PlanRow, Units
  <2> QED
    BY <2>1, <2>2 DEF OptionsIInv, OptionsTyped, OptionsTypeOK, Legs
<1>2. HedgedUnlessCut
  <2>1. (mixed = TRUE \/ mixed = FALSE) /\ (cut_short = TRUE \/ cut_short = FALSE)
    BY DEF OptionsIInv, OptionsTyped
  <2> QED
    BY <2>1 DEF OptionsIInv, OneAtATime, HedgedUnlessCut
<1> QED
  BY <1>1, <1>2

-----------------------------------------------------------------------------
(* What an option structure can lose.                                      *)

\* Option structures by themselves.
OptionRiskSpec == OptionRiskInit /\ [][OptionRiskNext]_riskVars

\* A leg, and the two shapes a set of legs may have: one bought, or one sold against one
\* bought of its kind.
Leg == [side: {"buy", "sell"}, kind: {"CE", "PE"}, strike: Strike, quantity: Nat]
IsPair(b, s) == b.side = "buy" /\ s.side = "sell" /\ b.kind = s.kind
PlanFits(ls) ==
    \/ ls = NoLegs
    \/ \E b \in Leg : b.side = "buy" /\ ls = {b}
    \/ \E b, s \in Leg : IsPair(b, s) /\ ls = {b, s}

\* Of the legs held, no more is sold than is bought.
HeldFits(ls) ==
    \/ ls = NoLegs
    \/ \E b \in Leg : b.side = "buy" /\ ls = {b}
    \/ \E b, s \in Leg : IsPair(b, s) /\ s.quantity <= b.quantity /\ ls = {b, s}

\* The inductive invariant of the structures.
OptionRiskIInv ==
    /\ chain \in [Strike -> LotSize \union {0}] /\ expiries \subseteq Expiry
    /\ preview \in {NotShown} \union [shown: {TRUE}, fits: {"yes", "no", "unknown"}]
    /\ PlanFits(planned) /\ HeldFits(structure.legs)
    /\ structure.cost \in Int
    /\ structure.legs = NoLegs => structure.cost = 0

-----------------------------------------------------------------------------
(* How the legs are chosen.                                                *)

\* Of the strikes below a price, as many as width, there is one that is furthest.
LEMMA OneBelow ==
    ASSUME NEW strikes \in SUBSET Nat, NEW atm \in Nat, NEW k \in strikes, NEW l \in strikes,
           Cardinality({o \in strikes : k <= o /\ o < atm}) = Cardinality({o \in strikes : l <= o /\ o < atm}),
           Cardinality({o \in strikes : k <= o /\ o < atm}) # 0
    PROVE  k = l
<1> DEFINE B(a) == {o \in strikes : a <= o /\ o < atm}
<1>1. ASSUME NEW a \in strikes, NEW b \in strikes, a < b, Cardinality(B(a)) = Cardinality(B(b)),
             Cardinality(B(b)) # 0
      PROVE  FALSE
  <2>1. IsFiniteSet(B(a))
    <3>1. B(a) \in SUBSET Nat
      OBVIOUS
    <3>2. ASSUME NEW o \in B(a) PROVE o <= atm
      <4>1. o \in Nat /\ o < atm
        BY <3>2
      <4> QED
        BY <4>1
    <3> HIDE DEF B
    <3> QED
      BY <3>1, <3>2, FS_BoundedSetOfNaturals
  <2>2. PICK o \in B(b) : TRUE
    BY <1>1, FS_EmptySet
  <2>3. a \in Nat /\ b \in Nat /\ o \in Nat /\ b <= o /\ o < atm
    BY <2>2
  <2>4. a \in B(a) /\ a \notin B(b)
    BY <1>1, <2>3
  <2>5. ASSUME NEW c \in B(b) PROVE c \in B(a)
    <3>1. c \in strikes /\ c \in Nat /\ b <= c /\ c < atm
      OBVIOUS
    <3>2. a <= c
      BY <1>1, <2>3, <3>1
    <3> QED
      BY <3>1, <3>2
  <2> HIDE DEF B
  <2> QED
    BY <1>1, <2>1, <2>4, <2>5, FS_Subset
<1>2. Cardinality(B(k)) = Cardinality(B(l)) /\ Cardinality(B(k)) # 0
  OBVIOUS
<1>3. k \in Nat /\ l \in Nat
  OBVIOUS
<1> HIDE DEF B
<1>4. ~(k < l) /\ ~(l < k)
  BY <1>1, <1>2
<1> QED
  BY <1>3, <1>4

\* The same of the strikes above it.
LEMMA OneAbove ==
    ASSUME NEW strikes \in SUBSET Nat, NEW atm \in Nat, NEW k \in strikes, NEW l \in strikes,
           Cardinality({o \in strikes : atm < o /\ o <= k}) = Cardinality({o \in strikes : atm < o /\ o <= l}),
           Cardinality({o \in strikes : atm < o /\ o <= k}) # 0
    PROVE  k = l
<1> DEFINE B(a) == {o \in strikes : atm < o /\ o <= a}
<1>1. ASSUME NEW a \in strikes, NEW b \in strikes, a < b, Cardinality(B(a)) = Cardinality(B(b)),
             Cardinality(B(a)) # 0
      PROVE  FALSE
  <2>0. a \in Nat /\ b \in Nat
    OBVIOUS
  <2>1. IsFiniteSet(B(b))
    <3>1. B(b) \in SUBSET Nat
      OBVIOUS
    <3>2. \A o \in B(b) : o <= b
      OBVIOUS
    <3> HIDE DEF B
    <3> QED
      BY <2>0, <3>1, <3>2, FS_BoundedSetOfNaturals
  <2>2. PICK o \in B(a) : TRUE
    BY <1>1, FS_EmptySet
  <2>3. o \in Nat /\ o <= a /\ atm < o
    BY <2>2
  <2>4. b \in B(b) /\ b \notin B(a)
    BY <1>1, <2>0, <2>3
  <2>5. ASSUME NEW c \in B(a) PROVE c \in B(b)
    <3>1. c \in strikes /\ c \in Nat /\ atm < c /\ c <= a
      OBVIOUS
    <3>2. c <= b
      BY <1>1, <2>0, <3>1
    <3> QED
      BY <3>1, <3>2
  <2> HIDE DEF B
  <2> QED
    BY <1>1, <2>1, <2>4, <2>5, FS_Subset
<1>2. Cardinality(B(k)) = Cardinality(B(l)) /\ Cardinality(B(k)) # 0
  OBVIOUS
<1>3. k \in Nat /\ l \in Nat
  OBVIOUS
<1> HIDE DEF B
<1>4. ~(k < l) /\ ~(l < k)
  BY <1>1, <1>2
<1> QED
  BY <1>3, <1>4

\* Where there are strikes, one is nearest.
LEMMA NearestIsStrike ==
    ASSUME NEW strikes \in SUBSET Nat, strikes # {}, NEW spot \in Nat
    PROVE  nearest_strike(strikes, spot) \in strikes
<1>1. \A k \in strikes : Gap(k, spot) \in Nat
  BY DEF Gap
<1> DEFINE G == {Gap(k, spot) : k \in strikes}
<1>2. PICK g \in G : \A c \in G : g <= c
  <2>1. G \in SUBSET Nat /\ G # {}
    BY <1>1
  <2> HIDE DEF G
  <2> QED
    BY <2>1, Least
<1> DEFINE T == {k \in strikes : Gap(k, spot) = g}
<1>3. PICK m \in T : \A c \in T : m <= c
  <2>1. T \in SUBSET Nat /\ T # {}
    BY <1>2
  <2> HIDE DEF T
  <2> QED
    BY <2>1, Least
<1>4. ASSUME NEW o \in strikes PROVE Gap(m, spot) < Gap(o, spot) \/ (Gap(m, spot) = Gap(o, spot) /\ m <= o)
  <2>1. Gap(o, spot) \in G /\ Gap(o, spot) \in Nat /\ Gap(m, spot) = g /\ g \in Nat
    BY <1>1, <1>3
  <2>2. g <= Gap(o, spot)
    BY <1>2, <2>1
  <2>3. Gap(o, spot) = g => m <= o
    BY <1>3
  <2> QED
    BY <2>1, <2>2, <2>3
<1>5. m \in strikes
  BY <1>3
<1>6. \E k \in strikes : \A o \in strikes : Gap(k, spot) < Gap(o, spot) \/ (Gap(k, spot) = Gap(o, spot) /\ k <= o)
  BY <1>4, <1>5
<1> QED
  BY <1>6, Zenon DEF nearest_strike

\* A strategy plans a bought leg alone, or a sold one with one hedge of its kind.
LEMMA PlannedFit ==
    ASSUME chain \in [Strike -> LotSize \union {0}], NEW strategy, NEW bullish \in BOOLEAN, NEW spot \in Strike,
           NEW lots \in Lots, NEW width \in SpreadWidth
    PROVE  PlanFits(plan_legs(strategy, bullish, spot, lots, width))
<1> DEFINE strikes == {k \in Strike : chain[k] > 0}
           atm == nearest_strike(strikes, spot)
<1>1. strikes \in SUBSET Nat /\ spot \in Nat /\ lots \in Nat /\ width \in Nat
  <2>1. Strike \subseteq Nat /\ Lots \subseteq Nat /\ SpreadWidth \subseteq Nat
    BY OptionRiskAssumption, Zenon
  <2>2. strikes \in SUBSET Nat
    BY <2>1
  <2> HIDE DEF strikes
  <2> QED
    BY <2>1, <2>2
<1>2. \A k \in Strike : chain[k] \in Nat
  <2>1. \A n \in LotSize \union {0} : n \in Nat
    <3>1. LotSize \subseteq Nat \ {0}
      BY OptionRiskAssumption, Zenon
    <3> QED
      BY <3>1
  <2>2. \A k \in Strike : chain[k] \in LotSize \union {0}
    OBVIOUS
  <2> QED
    BY <2>1, <2>2
<1>3. \A k \in Strike : lots * chain[k] \in Nat
  BY <1>1, <1>2
<1>4. CASE pick_expiry = {} \/ strikes = {} \/ lots = 0
  <2>1. plan_legs(strategy, bullish, spot, lots, width) = NoLegs
    BY <1>4 DEF plan_legs
  <2> QED
    BY <2>1 DEF PlanFits
<1>5. CASE ~(pick_expiry = {} \/ strikes = {} \/ lots = 0)
  <2>1. atm \in strikes /\ atm \in Strike /\ atm \in Nat
    <3>1. strikes # {}
      BY <1>5
    <3> HIDE DEF strikes
    <3>2. atm \in strikes
      BY <1>1, <3>1, NearestIsStrike
    <3> USE DEF strikes
    <3> HIDE DEF atm
    <3> QED
      BY <1>1, <3>2
  <2>2. CASE strategy = "long_option"
    <3> DEFINE b == [side |-> "buy", kind |-> IF bullish THEN "CE" ELSE "PE", strike |-> atm,
                     quantity |-> lots * chain[atm]]
    <3>1. plan_legs(strategy, bullish, spot, lots, width) = LongOption(bullish, atm, lots)
      BY <1>5, <2>2 DEF plan_legs
    <3> HIDE DEF atm
    <3>2. LongOption(bullish, atm, lots) = {b}
      BY DEF LongOption
    <3>3. b \in Leg /\ b.side = "buy"
      BY <1>3, <2>1 DEF Leg
    <3> QED
      BY <3>1, <3>2, <3>3 DEF PlanFits
  <2>3. CASE strategy # "long_option"
    <3> DEFINE kind   == IF bullish THEN "PE" ELSE "CE"
               Beyond(k) == IF bullish THEN {o \in strikes : k <= o /\ o < atm}
                                       ELSE {o \in strikes : atm < o /\ o <= k}
               hedges == {k \in strikes : Cardinality(Beyond(k)) = width /\ chain[k] = chain[atm]}
               Pair(k) == {[side |-> "buy", kind |-> kind, strike |-> k, quantity |-> lots * chain[k]],
                           [side |-> "sell", kind |-> kind, strike |-> atm, quantity |-> lots * chain[atm]]}
    <3>1. plan_legs(strategy, bullish, spot, lots, width) = VerticalSpread(bullish, strikes, atm, lots, width)
      BY <1>5, <2>3 DEF plan_legs
    <3> HIDE DEF atm
    <3>2. CASE width = 0
      <4>1. VerticalSpread(bullish, strikes, atm, lots, width) = NoLegs
        BY <3>2 DEF VerticalSpread
      <4> QED
        BY <3>1, <4>1 DEF PlanFits
    <3>3. CASE width # 0
      <4>1. VerticalSpread(bullish, strikes, atm, lots, width) = UNION {Pair(k) : k \in hedges}
        BY <3>3 DEF VerticalSpread
      <4>2. ASSUME NEW k \in hedges, NEW l \in hedges PROVE k = l
        <5>1. CASE bullish = TRUE
          <6>1. /\ k \in strikes /\ l \in strikes
                /\ Cardinality({o \in strikes : k <= o /\ o < atm}) = width
                /\ Cardinality({o \in strikes : l <= o /\ o < atm}) = width
            BY <4>2, <5>1
          <6> HIDE DEF strikes
          <6> QED
            BY <1>1, <2>1, <3>3, <6>1, OneBelow
        <5>2. CASE bullish = FALSE
          <6>1. /\ k \in strikes /\ l \in strikes
                /\ Cardinality({o \in strikes : atm < o /\ o <= k}) = width
                /\ Cardinality({o \in strikes : atm < o /\ o <= l}) = width
            BY <4>2, <5>2
          <6> HIDE DEF strikes
          <6> QED
            BY <1>1, <2>1, <3>3, <6>1, OneAbove
        <5> QED
          BY <5>1, <5>2
      <4>3. hedges \subseteq Strike
        OBVIOUS
      <4>4. CASE hedges = {}
        <5> HIDE DEF hedges
        <5>1. UNION {Pair(k) : k \in hedges} = NoLegs
          BY <4>4 DEF NoLegs
        <5> HIDE DEF Pair
        <5> QED
          BY <3>1, <4>1, <5>1 DEF PlanFits
      <4>5. CASE hedges # {}
        <5>1. PICK k \in hedges : TRUE
          BY <4>5
        <5> DEFINE b == [side |-> "buy", kind |-> kind, strike |-> k, quantity |-> lots * chain[k]]
                   s == [side |-> "sell", kind |-> kind, strike |-> atm, quantity |-> lots * chain[atm]]
        <5>2. k \in Strike
          BY <4>3, <5>1
        <5>3. b \in Leg /\ s \in Leg /\ IsPair(b, s)
          BY <1>3, <2>1, <5>2 DEF Leg, IsPair
        <5>4. Pair(k) = {b, s}
          OBVIOUS
        <5> HIDE DEF hedges, Pair
        <5>5. UNION {Pair(j) : j \in hedges} = Pair(k)
          BY <4>2, <5>1
        <5> HIDE DEF b, s
        <5> QED
          BY <3>1, <4>1, <5>3, <5>4, <5>5 DEF PlanFits
      <4> QED
        BY <4>4, <4>5
    <3> QED
      BY <3>2, <3>3
  <2> QED
    BY <2>2, <2>3
<1> QED
  BY <1>4, <1>5

-----------------------------------------------------------------------------
(* What legs cost and lose.                                                *)

\* The bought and the sold part of the shapes.
LEMMA OneLeg ==
    ASSUME NEW b \in Leg, b.side = "buy"
    PROVE  Bought({b}) = {b} /\ Sold({b}) = {}
BY DEF Bought, Sold

\* The same of two legs.
LEMMA TwoLegs ==
    ASSUME NEW b \in Leg, NEW s \in Leg, IsPair(b, s)
    PROVE  Bought({b, s}) = {b} /\ Sold({b, s}) = {s}
BY DEF Bought, Sold, IsPair

\* What legs cost is a number.
LEMMA CostIsNumber ==
    ASSUME NEW ls, HeldFits(ls), NEW price \in Prices
    PROVE  structure_value(ls, price) \in Int
<1> DEFINE Worth(xs) == IF xs = {} THEN 0 ELSE LET l == CHOOSE l \in xs : TRUE
                                               IN l.quantity * price[l.side]
<1>1. structure_value(ls, price) = Worth(Bought(ls)) - Worth(Sold(ls))
  BY DEF structure_value, Bought, Sold
<1>2. \A l \in Leg : l.quantity * price[l.side] \in Int
  <2> TAKE l \in Leg
  <2>1. l.quantity \in Nat /\ price[l.side] \in Nat
    BY OptionRiskAssumption DEF Leg, Prices
  <2> QED
    BY <2>1
<1>3. \A l \in Leg : Worth({l}) \in Int
  <2> TAKE l \in Leg
  <2>1. (CHOOSE x \in {l} : TRUE) = l
    OBVIOUS
  <2> QED
    BY <1>2, <2>1
<1>4. Worth({}) \in Int
  OBVIOUS
<1> HIDE DEF Worth
<1>5. Worth(Bought(ls)) \in Int /\ Worth(Sold(ls)) \in Int
  <2>1. CASE ls = NoLegs
    BY <1>4, <2>1 DEF NoLegs, Bought, Sold
  <2>2. ASSUME NEW b \in Leg, b.side = "buy", ls = {b} PROVE Worth(Bought(ls)) \in Int /\ Worth(Sold(ls)) \in Int
    BY <1>3, <1>4, <2>2, OneLeg
  <2>3. ASSUME NEW b \in Leg, NEW s \in Leg, IsPair(b, s), ls = {b, s}
        PROVE  Worth(Bought(ls)) \in Int /\ Worth(Sold(ls)) \in Int
    BY <1>3, <2>3, TwoLegs
  <2> QED
    BY <2>1, <2>2, <2>3 DEF HeldFits
<1> QED
  BY <1>1, <1>5

\* What is bought back of a spread is worth no more than its width, for as much as is sold.
LEMMA SpreadIsBounded ==
    ASSUME NEW x \in Nat, NEW y \in Nat, NEW g \in Nat, x <= y + g,
           NEW sold \in Nat, NEW bought \in Nat, sold <= bought
    PROVE  x * sold - y * bought <= g * sold
<1>1. x * sold <= (y + g) * sold
  <2>1. sold * x <= sold * (y + g)
    BY WorthGrows
  <2> QED
    BY <2>1, Z3
<1>2. y * sold <= y * bought
  BY WorthGrows
<1>3. (y + g) * sold = y * sold + g * sold
  BY Z3
<1> DEFINE xs == x * sold
           ys == y * sold
           yb == y * bought
           gs == g * sold
           ygs == (y + g) * sold
<1>4. xs \in Nat /\ ys \in Nat /\ yb \in Nat /\ gs \in Nat /\ ygs \in Nat
  BY Z3
<1>5. xs <= ygs /\ ys <= yb /\ ygs = ys + gs
  BY <1>1, <1>2, <1>3
<1> HIDE DEF xs, ys, yb, gs, ygs
<1>6. xs - yb <= gs
  BY <1>4, <1>5
<1> QED
  BY <1>6 DEF xs, yb, gs

\* The largest of one number.
LEMMA OnlyLargest == ASSUME NEW x \in Int PROVE (CHOOSE w \in {x} : \A v \in {x} : v <= w) = x
<1>1. x \in {x} /\ \A v \in {x} : v <= x
  OBVIOUS
<1> QED
  BY <1>1, Zenon

\* What a leg is worth at expiry, in the money or not.
Inside(leg, at) ==
    LET worth == IF leg.kind = "CE" THEN at - leg.strike ELSE leg.strike - at
    IN IF worth > 0 THEN worth ELSE 0

\* A leg is worth that much for each contract bought, and owed for each sold.
LEMMA PayoffOfLeg ==
    ASSUME NEW l \in Leg, NEW at \in Nat
    PROVE  /\ Inside(l, at) \in Nat /\ l.quantity \in Nat
           /\ l.side = "buy" => Payoff(l, at) = Inside(l, at) * l.quantity
           /\ l.side = "sell" => Payoff(l, at) = -(Inside(l, at) * l.quantity)
<1>1. l.strike \in Nat /\ l.quantity \in Nat
  BY OptionRiskAssumption DEF Leg
<1>2. Inside(l, at) \in Nat
  BY <1>1 DEF Inside
<1>3. Payoff(l, at) = Inside(l, at) * l.quantity * (IF l.side = "buy" THEN 1 ELSE -1)
  BY DEF Payoff, Inside
<1> DEFINE w == Inside(l, at) * l.quantity
<1>4. w \in Nat
  BY <1>1, <1>2, Z3
<1> HIDE DEF w
<1>5. Payoff(l, at) = w * (IF l.side = "buy" THEN 1 ELSE -1)
  BY <1>3 DEF w
<1>6. (l.side = "buy" => Payoff(l, at) = w) /\ (l.side = "sell" => Payoff(l, at) = -w)
  BY <1>4, <1>5
<1> QED
  BY <1>1, <1>2, <1>6 DEF w

\* A structure held never loses more than the loss its stop is measured against.
LEMMA HeldIsBounded ==
    ASSUME HeldFits(structure.legs), structure.cost \in Int,
           structure.legs = NoLegs => structure.cost = 0, NEW at \in Nat
    PROVE  LossAt(at) <= _held_risk_from
<1> DEFINE Worth(ls) == IF ls = {} THEN 0 ELSE Payoff(CHOOSE l \in ls : TRUE, at)
           cost == structure.cost
<1>1. LossAt(at) = cost - Worth(Bought(structure.legs)) - Worth(Sold(structure.legs))
  BY DEF LossAt
<1>2. Worth({}) = 0
  OBVIOUS
<1>3. ASSUME NEW l \in Leg PROVE Worth({l}) = Payoff(l, at)
  <2>1. (CHOOSE x \in {l} : TRUE) = l
    OBVIOUS
  <2> QED
    BY <2>1
<1> HIDE DEF Worth
<1>4. CASE structure.legs = NoLegs
  <2>1. Bought(structure.legs) = {} /\ Sold(structure.legs) = {}
    BY <1>4 DEF Bought, Sold, NoLegs
  <2>2. _held_risk_from = cost
    BY <2>1 DEF _held_risk_from, max_loss
  <2> QED
    BY <1>1, <1>2, <2>1, <2>2
<1>5. ASSUME NEW b \in Leg, b.side = "buy", structure.legs = {b} PROVE LossAt(at) <= _held_risk_from
  <2>1. Bought(structure.legs) = {b} /\ Sold(structure.legs) = {}
    BY <1>5, OneLeg
  <2>2. _held_risk_from = cost
    BY <2>1 DEF _held_risk_from, max_loss
  <2> DEFINE w == Inside(b, at) * b.quantity
  <2>3. Payoff(b, at) = w /\ w \in Nat
    <3>1. Payoff(b, at) = w /\ Inside(b, at) \in Nat /\ b.quantity \in Nat
      BY <1>5, PayoffOfLeg
    <3> QED
      BY <3>1, Z3
  <2>4. LossAt(at) = cost - w - 0
    BY <1>1, <1>2, <1>3, <2>1, <2>3
  <2> HIDE DEF w
  <2> QED
    BY <2>2, <2>3, <2>4
<1>6. ASSUME NEW b \in Leg, NEW s \in Leg, IsPair(b, s), s.quantity <= b.quantity, structure.legs = {b, s}
      PROVE  LossAt(at) <= _held_risk_from
  <2>1. Bought(structure.legs) = {b} /\ Sold(structure.legs) = {s}
    BY <1>6, TwoLegs
  <2>2. /\ b.strike \in Nat /\ s.strike \in Nat /\ b.quantity \in Nat /\ s.quantity \in Nat
        /\ b.side = "buy" /\ s.side = "sell" /\ b.kind = s.kind
    BY <1>6, OptionRiskAssumption DEF Leg, IsPair
  <2> DEFINE g == Gap(s.strike, b.strike)
             x == Inside(s, at)
             y == Inside(b, at)
             widths == {Gap(p.strike, q.strike) * Lesser(p.quantity, q.quantity)
                          : p \in Sold(structure.legs), q \in Bought(structure.legs)}
  <2>3. Lesser(s.quantity, b.quantity) = s.quantity
    BY <1>6, <2>2 DEF Lesser
  <2>4. g \in Nat /\ x \in Nat /\ y \in Nat /\ x <= y + g
    BY <2>2 DEF Gap, Inside
  <2>5. g * s.quantity \in Nat /\ x * s.quantity \in Nat /\ y * b.quantity \in Nat
    BY <2>2, <2>4, Z3
  <2>6. widths = {g * s.quantity}
    BY <2>1, <2>3
  <2> HIDE DEF g
  <2>7. (CHOOSE w \in widths : \A v \in widths : v <= w) = g * s.quantity
    <3> HIDE DEF widths
    <3>1. g * s.quantity \in Int
      BY <2>5
    <3> QED
      BY <2>6, <3>1, OnlyLargest
  <2>8. _held_risk_from = g * s.quantity + cost
    <3>1. Sold(structure.legs) # {}
      BY <2>1
    <3>2. _held_risk_from = (CHOOSE w \in widths : \A v \in widths : v <= w) + cost
      BY <3>1 DEF _held_risk_from, max_loss
    <3> HIDE DEF widths
    <3> QED
      BY <2>7, <3>2
  <2>9. Payoff(b, at) = y * b.quantity /\ Payoff(s, at) = -(x * s.quantity)
    BY <2>2, PayoffOfLeg
  <2>10. LossAt(at) = cost - y * b.quantity - (-(x * s.quantity))
    BY <1>1, <1>3, <2>1, <2>9
  <2>11. x * s.quantity - y * b.quantity <= g * s.quantity
    BY <1>6, <2>2, <2>4, SpreadIsBounded
  <2> DEFINE xs == x * s.quantity
             yb == y * b.quantity
             gs == g * s.quantity
  <2>12. /\ xs \in Nat /\ yb \in Nat /\ gs \in Nat /\ xs - yb <= gs
         /\ LossAt(at) = cost - yb - (-xs) /\ _held_risk_from = gs + cost
    BY <2>5, <2>8, <2>10, <2>11
  <2> HIDE DEF xs, yb, gs, cost
  <2>13. cost \in Int
    BY DEF cost
  <2> QED
    BY <2>12, <2>13
<1> QED
  BY <1>4, <1>5, <1>6 DEF HeldFits

-----------------------------------------------------------------------------
(* The steps.                                                              *)

\* What a book fills of a leg is a leg.
LEMMA FilledLeg ==
    ASSUME NEW l \in Leg, NEW wanted \in Nat, NEW depth \in Depths
    PROVE  /\ Filled(l, wanted, depth) \in Leg
           /\ Filled(l, wanted, depth).side = l.side /\ Filled(l, wanted, depth).kind = l.kind
           /\ Filled(l, wanted, depth).quantity <= wanted
<1>1. depth[l.side] \in Nat
  BY OptionRiskAssumption DEF Leg, Depths
<1>2. Lesser(wanted, depth[l.side]) \in Nat /\ Lesser(wanted, depth[l.side]) <= wanted
  BY <1>1 DEF Lesser
<1> QED
  BY <1>2 DEF Filled, Leg

\* Entered legs are held in one of the shapes.
LEMMA EnteredFit ==
    ASSUME PlanFits(planned), NEW price \in Prices, NEW depth \in Depths, enter_structure(price, depth)
    PROVE  /\ HeldFits(structure'.legs) /\ structure'.cost \in Int
           /\ structure'.legs = NoLegs => structure'.cost = 0
<1> DEFINE hedge  == {Filled(l, l.quantity, depth) : l \in Bought(planned)}
           filled == (CHOOSE h \in hedge : TRUE).quantity
           sold   == {Filled(l, SoldUpTo(l, filled), depth) : l \in Sold(planned)}
           entered   == {l \in hedge \union sold : l.quantity > 0}
<1>1. structure' = [legs |-> entered, cost |-> structure_value(entered, price)] /\ planned # NoLegs
  BY DEF enter_structure
<1>2. HeldFits(entered)
  <2>1. ASSUME NEW b \in Leg, b.side = "buy", planned = {b} PROVE HeldFits(entered)
    <3> DEFINE h == Filled(b, b.quantity, depth)
    <3>1. Bought(planned) = {b} /\ Sold(planned) = {}
      BY <2>1, OneLeg
    <3>2. b.quantity \in Nat
      BY DEF Leg
    <3>3. h \in Leg /\ h.side = "buy"
      BY <2>1, <3>2, FilledLeg
    <3> HIDE DEF filled, h
    <3>4. hedge \union sold = {h}
      BY <3>1 DEF h
    <3>5. entered = {} \/ entered = {h}
      BY <3>4
    <3> HIDE DEF entered
    <3> QED
      BY <3>3, <3>5 DEF HeldFits, NoLegs
  <2>2. ASSUME NEW b \in Leg, NEW s \in Leg, IsPair(b, s), planned = {b, s} PROVE HeldFits(entered)
    <3> DEFINE h == Filled(b, b.quantity, depth)
               f == Filled(s, SoldUpTo(s, h.quantity), depth)
    <3>1. Bought(planned) = {b} /\ Sold(planned) = {s}
      BY <2>2, TwoLegs
    <3>2. b.quantity \in Nat /\ s.quantity \in Nat
      BY DEF Leg
    <3>3. h \in Leg /\ h.side = "buy" /\ h.kind = b.kind
      BY <2>2, <3>2, FilledLeg DEF IsPair
    <3>4. h.quantity \in Nat /\ SoldUpTo(s, h.quantity) \in Nat /\ SoldUpTo(s, h.quantity) <= h.quantity
      BY <3>2, <3>3 DEF Leg, SoldUpTo, Lesser
    <3>5. /\ f \in Leg /\ f.side = "sell" /\ f.kind = s.kind /\ f.quantity <= SoldUpTo(s, h.quantity)
      BY <2>2, <3>4, FilledLeg DEF IsPair
    <3>6. f.quantity \in Nat /\ f.quantity <= h.quantity /\ IsPair(h, f)
      BY <2>2, <3>3, <3>4, <3>5 DEF Leg, IsPair
    <3>7. hedge = {h}
      BY <3>1
    <3>8. filled = h.quantity
      BY <3>7
    <3>9. sold = {f}
      BY <3>1, <3>8
    <3> HIDE DEF hedge, filled, sold, h, f
    <3>10. entered = {} \/ entered = {h} \/ entered = {h, f}
      BY <3>4, <3>6, <3>7, <3>9
    <3> HIDE DEF entered
    <3> QED
      BY <3>3, <3>5, <3>6, <3>10 DEF HeldFits, NoLegs
  <2> HIDE DEF entered
  <2> QED
    BY <1>1, <2>1, <2>2 DEF PlanFits
<1> HIDE DEF entered
<1>3. structure_value(entered, price) \in Int
  BY <1>2, CostIsNumber
<1>4. entered = NoLegs => structure_value(entered, price) = 0
  BY DEF structure_value, NoLegs
<1> QED
  BY <1>1, <1>2, <1>3, <1>4

\* Nothing is planned or held at first.
LEMMA OptionRiskStart == OptionRiskInit => OptionRiskIInv
BY DEF OptionRiskInit, OptionRiskIInv, PlanFits, HeldFits, Unheld, NoLegs, NotShown

\* Every step keeps the invariant.
LEMMA OptionRiskStep == OptionRiskIInv /\ [OptionRiskNext]_riskVars => OptionRiskIInv'
<1> SUFFICES ASSUME OptionRiskIInv, [OptionRiskNext]_riskVars PROVE OptionRiskIInv'
  OBVIOUS
<1>1. CASE UNCHANGED riskVars
  BY <1>1 DEF riskVars, OptionRiskIInv, PlanFits, HeldFits
<1>2. ASSUME NEW strategy \in {"long_option", "vertical_spread"}, NEW spot \in Strike, NEW lots \in Lots,
             NEW width \in SpreadWidth, NEW bullish \in BOOLEAN,
             plan_entry_step(strategy, bullish, spot, lots, width)
      PROVE  OptionRiskIInv'
  <2>1. PlanFits(planned')
    BY <1>2, PlannedFit DEF plan_entry_step, OptionRiskIInv
  <2> QED
    BY <1>2, <2>1 DEF plan_entry_step, OptionRiskIInv, HeldFits
<1>3. ASSUME NEW kind \in {"equity", "future", "option"}, NEW strategy, NEW spot \in Strike, NEW lots \in Lots,
             NEW width \in SpreadWidth, preview_enrolment(kind, strategy, spot, lots, width)
      PROVE  OptionRiskIInv'
  <2>1. \A fits : Told(fits) \in {"yes", "no"}
    BY DEF Told
  <2>2. \E fits \in {"yes", "no", "unknown"} : preview' = [shown |-> TRUE, fits |-> fits]
    BY <1>3, <2>1, Zenon DEF preview_enrolment
  <2>3. preview' \in [shown: {TRUE}, fits: {"yes", "no", "unknown"}]
    BY <2>2
  <2> QED
    BY <1>3, <2>3 DEF preview_enrolment, OptionRiskIInv, PlanFits, HeldFits
<1>4. ASSUME NEW price \in Prices, NEW depth \in Depths, enter_structure(price, depth) PROVE OptionRiskIInv'
  <2>1. /\ HeldFits(structure'.legs) /\ structure'.cost \in Int
        /\ structure'.legs = NoLegs => structure'.cost = 0
    BY <1>4, EnteredFit DEF OptionRiskIInv
  <2>2. planned' = NoLegs /\ UNCHANGED <<chain, expiries, preview>>
    BY <1>4 DEF enter_structure
  <2> QED
    BY <2>1, <2>2 DEF OptionRiskIInv, PlanFits, HeldFits
<1>5. CASE PlanLapses
  BY <1>5 DEF PlanLapses, OptionRiskIInv, PlanFits, HeldFits
<1> QED
  BY <1>1, <1>2, <1>3, <1>4, <1>5, Zenon DEF OptionRiskNext

\* The properties of the structures follow.
LEMMA OptionRiskFollows == OptionRiskIInv => OptionRiskTypeOK /\ LossIsBounded
<1> SUFFICES ASSUME OptionRiskIInv PROVE OptionRiskTypeOK /\ LossIsBounded
  OBVIOUS
<1>1. OptionRiskTypeOK
  <2>1. planned \subseteq Leg /\ structure.legs \subseteq Leg
    BY DEF OptionRiskIInv, PlanFits, HeldFits, NoLegs
  <2>2. \A l \in planned \union structure.legs :
          l.side \in {"buy", "sell"} /\ l.kind \in {"CE", "PE"} /\ l.strike \in Strike
    BY <2>1 DEF Leg
  <2> QED
    BY <2>2 DEF OptionRiskIInv, OptionRiskTypeOK
<1>2. ASSUME NEW at \in Settlement PROVE LossAt(at) <= _held_risk_from
  <2>1. at \in Nat
    BY OptionRiskAssumption DEF Settlement
  <2>2. structure.legs = NoLegs => structure.cost = 0
    BY DEF OptionRiskIInv, Unheld
  <2> QED
    BY <2>1, <2>2, HeldIsBounded DEF OptionRiskIInv
<1> QED
  BY <1>1, <1>2 DEF LossIsBounded

\* A structure never loses more than the loss its stop is measured against, whatever the
\* strikes, premiums, lots, books and settlement (margin.py, paper_options.py).
THEOREM LossIsBoundedHolds == OptionRiskSpec => []LossIsBounded
<1> QED
  BY OptionRiskStart, OptionRiskStep, OptionRiskFollows, PTL DEF OptionRiskSpec

-----------------------------------------------------------------------------
(* The gate every order passes.                                            *)

\* The gate by itself.
GateSpec == RiskGateInit /\ [][RiskGateNext]_gateOrderVars

\* What is held, an order not yet passed, and what was said of the last one.
HeldRow == [quantity: Nat \ {0}, avg_cost: Nat, tick: Nat, capital: GateCapital]
OrderRow == [side: {"buy", "sell"}, quantity: Nat \ {0}, price: GatePrice, reference: Nat,
             limits: {NoLimits} \union [lower: Nat, upper: Nat], portfolio: GateCapital, stop: BOOLEAN]
VerdictRow == [refused: {TRUE}, stop: BOOLEAN, halted: BOOLEAN, price: GatePrice, portfolio: GateCapital]

\* What is held passed the position limit when it was bought, at the price of its tick.
HeldPassed == held # NotHeld => ~check_position_limit(held.quantity * held.tick, held.capital)

\* An order to sell is for all that is held, and nothing has been said since it was decided.
OrderFits ==
    order # NoOrder =>
        /\ verdict = NoVerdict
        /\ order.side = "sell" => held # NotHeld /\ order.quantity = held.quantity
        /\ order.stop = TRUE => order.side = "sell"

\* A stop that was refused while the kill switch was clear was over the position limit.
RefusalFits ==
    verdict # NoVerdict /\ verdict.stop = TRUE /\ verdict.halted = FALSE =>
        /\ held # NotHeld
        /\ check_position_limit(held.quantity * verdict.price, verdict.portfolio)

\* The inductive invariant of the gate.
GateTyped ==
    /\ capital \in GateCapital /\ quote \in Quotes
    /\ held \in {NotHeld} \union HeldRow /\ order \in {NoOrder} \union OrderRow
    /\ verdict \in {NoVerdict} \union VerdictRow
    /\ traded \in BOOLEAN /\ edit \in GateCapital \union {0} /\ halted \in BOOLEAN
GateIInv == GateTyped /\ HeldPassed /\ OrderFits /\ RefusalFits

\* The prices of a quote are numbers.
LEMMA QuoteFields ==
    ASSUME NEW q \in Quotes
    PROVE  q.price \in GatePrice /\ q.price \in Nat \ {0}
           /\ q.limits \in {NoLimits} \union [lower: Nat, upper: Nat]
<1>1. PICK p \in GatePrice, l \in {NoLimits} \union {[lower |-> a, upper |-> a + BandWidth] : a \in GatePrice} :
        q = [price |-> p, limits |-> l]
  BY DEF Quotes
<1>2. ASSUME NEW a \in GatePrice PROVE a \in Nat \ {0} /\ a + BandWidth \in Nat
  <2>1. a \in Nat \ {0} /\ BandWidth \in Nat
    BY RiskGateAssumption, Zenon
  <2> QED
    BY <2>1
<1> QED
  BY <1>1, <1>2

\* The gate starts with nothing held.
LEMMA GateStart == RiskGateInit => GateIInv
<1> SUFFICES ASSUME RiskGateInit PROVE GateIInv
  OBVIOUS
<1>1. /\ capital \in GateCapital /\ quote \in Quotes /\ held = NotHeld /\ traded = FALSE
      /\ edit = 0 /\ order = NoOrder /\ halted = FALSE /\ verdict = NoVerdict
  BY DEF RiskGateInit
<1>2. traded \in BOOLEAN /\ halted \in BOOLEAN
  BY <1>1
<1> QED
  BY <1>1, <1>2 DEF GateIInv, GateTyped, HeldPassed, OrderFits, RefusalFits

\* An order that a tick decides: all that is held, or an entry of some shares.
LEMMA DecidedKeeps ==
    ASSUME GateIInv, order = NoOrder, NEW side \in {"buy", "sell"}, NEW n \in Nat \ {0}, NEW r \in Nat,
           NEW stop \in BOOLEAN, Decided(side, n, r, stop),
           side = "sell" => held # NotHeld /\ n = held.quantity,
           stop = TRUE => side = "sell"
    PROVE  GateIInv'
<1>1. /\ order' = [side |-> side, quantity |-> n, price |-> quote.price, reference |-> r,
                   limits |-> quote.limits, portfolio |-> capital, stop |-> stop]
      /\ verdict' = NoVerdict /\ UNCHANGED <<capital, quote, held, traded, edit, halted>>
  BY DEF Decided
<1>2. GateTyped
  BY DEF GateIInv
<1>3. quote.price \in GatePrice /\ quote.limits \in {NoLimits} \union [lower: Nat, upper: Nat]
  BY <1>2, QuoteFields DEF GateTyped
<1>4. order' \in OrderRow
  BY <1>1, <1>2, <1>3 DEF OrderRow, GateTyped
<1>5. GateTyped'
  BY <1>1, <1>2, <1>4 DEF GateTyped
<1>6. HeldPassed'
  BY <1>1 DEF GateIInv, HeldPassed
<1>7. OrderFits'
  BY <1>1 DEF OrderFits
<1>8. RefusalFits'
  BY <1>1 DEF RefusalFits
<1> QED
  BY <1>5, <1>6, <1>7, <1>8 DEF GateIInv

\* A tick that decides.
LEMMA DecideKeeps == ASSUME GateIInv, tick_decides PROVE GateIInv'
<1>1. GateTyped /\ order = NoOrder
  BY DEF GateIInv, tick_decides
<1>2. /\ held.quantity > 0 => held # NotHeld /\ held.quantity \in Nat \ {0} /\ held.avg_cost \in Nat
  BY <1>1 DEF GateTyped, NotHeld, HeldRow
<1>3. CASE stop_loss_triggers /\ Decided("sell", held.quantity, held.avg_cost, TRUE)
  BY <1>1, <1>2, <1>3, DecidedKeeps DEF stop_loss_triggers
<1>4. ASSUME NEW r \in GatePrice, held.quantity > 0, Decided("sell", held.quantity, r, FALSE) PROVE GateIInv'
  <2>1. r \in Nat
    BY RiskGateAssumption
  <2> QED
    BY <1>1, <1>2, <1>4, <2>1, DecidedKeeps
<1>5. ASSUME NEW r \in GatePrice, equity_entry_quantity > 0, Decided("buy", equity_entry_quantity, r, FALSE)
      PROVE  GateIInv'
  <2>1. r \in Nat
    BY RiskGateAssumption
  <2>2. capital \in Nat \ {0} /\ SizePct \in Nat /\ quote.price \in Nat \ {0}
    BY <1>1, RiskGateAssumption, QuoteFields DEF GateTyped
  <2>3. equity_entry_quantity \in Nat \ {0}
    <3> DEFINE worth == capital * SizePct
               price == 100 * quote.price
    <3>1. worth \in Nat /\ price \in Nat \ {0}
      BY <2>2, Z3
    <3>2. equity_entry_quantity = worth \div price
      BY DEF equity_entry_quantity
    <3> HIDE DEF worth, price
    <3>3. worth \div price \in Int
      BY <3>1
    <3> QED
      BY <1>5, <3>2, <3>3
  <2> HIDE DEF equity_entry_quantity
  <2> QED
    BY <1>1, <1>5, <2>1, <2>3, DecidedKeeps
<1> QED
  BY <1>3, <1>4, <1>5 DEF tick_decides

\* An order that the gate refuses.
LEMMA RefuseKeeps == ASSUME GateIInv, create_order_intent_refuses PROVE GateIInv'
<1>1. GateTyped /\ order \in OrderRow /\ (halted \/ run_compliance_checks(order))
  BY DEF GateIInv, GateTyped, create_order_intent_refuses
<1>2. /\ order' = NoOrder /\ UNCHANGED <<capital, quote, held, traded, edit, halted>>
      /\ verdict' = [refused |-> TRUE, stop |-> order.stop, halted |-> halted,
                     price |-> order.price, portfolio |-> order.portfolio]
  BY DEF create_order_intent_refuses
<1>3. verdict' \in VerdictRow
  BY <1>1, <1>2 DEF VerdictRow, OrderRow, GateTyped
<1>4. GateTyped'
  BY <1>1, <1>2, <1>3 DEF GateTyped
<1>5. HeldPassed' /\ OrderFits'
  BY <1>2 DEF GateIInv, HeldPassed, OrderFits
<1>6. RefusalFits'
  <2> SUFFICES ASSUME order.stop = TRUE, halted = FALSE
               PROVE  held # NotHeld /\ check_position_limit(held.quantity * order.price, order.portfolio)
    BY <1>2 DEF RefusalFits
  <2>1. held # NotHeld /\ order.quantity = held.quantity
    BY DEF GateIInv, OrderFits, create_order_intent_refuses
  <2>2. check_position_limit(order.quantity * order.price, order.portfolio)
    BY <1>1, Zenon DEF run_compliance_checks
  <2> QED
    BY <2>1, <2>2
<1> QED
  BY <1>4, <1>5, <1>6 DEF GateIInv

\* An order that fills.
LEMMA FillsKeeps == ASSUME GateIInv, order_fills PROVE GateIInv'
<1>1. /\ GateTyped /\ order \in OrderRow /\ verdict = NoVerdict
      /\ ~check_position_limit(order.quantity * order.price, order.portfolio)
  <2>1. GateTyped /\ order # NoOrder /\ ~run_compliance_checks(order)
    BY DEF GateIInv, order_fills
  <2>2. order \in OrderRow /\ verdict = NoVerdict
    BY <2>1 DEF GateIInv, GateTyped, OrderFits
  <2>3. ~check_position_limit(order.quantity * order.price, order.portfolio)
    BY <2>1, Zenon DEF run_compliance_checks
  <2> QED
    BY <2>1, <2>2, <2>3
<1>2. order' = NoOrder /\ traded' = TRUE /\ UNCHANGED <<capital, quote, edit, halted, verdict>>
  BY DEF order_fills
<1>3. /\ held' \in {NotHeld} \union HeldRow
      /\ held' # NotHeld => held'.quantity = order.quantity /\ held'.tick = order.price /\ held'.capital = order.portfolio
  <2>1. CASE held' = NotHeld
    BY <2>1
  <2>2. CASE held' # NotHeld
    <3>1. PICK over \in {0, ThinBook} :
             held' = [quantity |-> order.quantity, avg_cost |-> order.price + over,
                      tick |-> order.price, capital |-> order.portfolio]
      BY <2>2 DEF order_fills
    <3>2. order.price \in GatePrice /\ order.quantity \in Nat \ {0} /\ order.portfolio \in GateCapital
      BY <1>1 DEF OrderRow
    <3>3. order.price \in Nat /\ over \in Nat
      <4>1. order.price \in Nat \ {0} /\ ThinBook \in Nat
        BY <3>2, RiskGateAssumption, Zenon
      <4> QED
        BY <4>1
    <3>4. order.price + over \in Nat
      BY <3>3
    <3> QED
      BY <3>1, <3>2, <3>3, <3>4 DEF HeldRow
  <2> QED
    BY <2>1, <2>2
<1>4. GateTyped'
  BY <1>1, <1>2, <1>3 DEF GateTyped
<1>5. HeldPassed'
  BY <1>1, <1>3 DEF HeldPassed, check_position_limit
<1>6. OrderFits' /\ RefusalFits'
  BY <1>1, <1>2 DEF OrderFits, RefusalFits
<1> QED
  BY <1>4, <1>5, <1>6 DEF GateIInv

\* Every step of the gate keeps its invariant.
LEMMA GateStep == GateIInv /\ [RiskGateNext]_gateOrderVars => GateIInv'
<1> SUFFICES ASSUME GateIInv, [RiskGateNext]_gateOrderVars PROVE GateIInv'
  OBVIOUS
<1>1. GateTyped
  BY DEF GateIInv
<1>2. ASSUME UNCHANGED <<held, order, verdict>>, GateTyped' PROVE GateIInv'
  BY <1>2 DEF GateIInv, HeldPassed, OrderFits, RefusalFits
<1>3. CASE UNCHANGED gateOrderVars
  BY <1>1, <1>2, <1>3 DEF gateOrderVars, GateTyped
<1>4. CASE QuoteArrives
  BY <1>1, <1>2, <1>4 DEF QuoteArrives, GateTyped
<1>5. CASE KillSwitchTurns
  <2>1. halted' \in BOOLEAN
    BY <1>5 DEF KillSwitchTurns
  <2> QED
    BY <1>1, <1>2, <1>5, <2>1 DEF KillSwitchTurns, GateTyped
<1>6. CASE plan_settings_change
  BY <1>1, <1>2, <1>6 DEF plan_settings_change, GateTyped
<1>7. CASE update_capital_commit
  BY <1>1, <1>2, <1>7 DEF update_capital_commit, GateTyped
<1> QED
  BY <1>3, <1>4, <1>5, <1>6, <1>7, DecideKeeps, RefuseKeeps, FillsKeeps, Zenon DEF RiskGateNext

\* The gate's own properties follow.
LEMMA GateFollows == GateIInv => RiskGateTypeOK /\ StopGetsOut
<1> SUFFICES ASSUME GateIInv PROVE RiskGateTypeOK /\ StopGetsOut
  OBVIOUS
<1>1. GateTyped
  BY DEF GateIInv
<1>2. RiskGateTypeOK
  <2>1. held.quantity \in Nat
    BY <1>1 DEF GateTyped, HeldRow, NotHeld
  <2>2. order.side \in {"none", "buy", "sell"}
    BY <1>1 DEF GateTyped, OrderRow, NoOrder
  <2>3. verdict.refused \in BOOLEAN
    <3>1. CASE verdict = NoVerdict
      BY <3>1 DEF NoVerdict
    <3>2. CASE verdict \in VerdictRow
      BY <3>2 DEF VerdictRow
    <3> QED
      BY <1>1, <3>1, <3>2 DEF GateTyped
  <2> QED
    BY <1>1, <2>1, <2>2, <2>3 DEF GateTyped, RiskGateTypeOK
<1>3. StopGetsOut
  <2> SUFFICES ASSUME verdict.refused, verdict.stop, ~verdict.halted
               PROVE  verdict.price > held.tick \/ verdict.portfolio # held.capital
    BY DEF StopGetsOut
  <2>1. verdict # NoVerdict /\ verdict \in VerdictRow
    BY <1>1 DEF GateTyped, NoVerdict
  <2>2. verdict.stop = TRUE /\ verdict.halted = FALSE
    BY <2>1 DEF VerdictRow
  <2>3. held # NotHeld /\ check_position_limit(held.quantity * verdict.price, verdict.portfolio)
    BY <2>1, <2>2 DEF GateIInv, RefusalFits
  <2>4. ~check_position_limit(held.quantity * held.tick, held.capital) /\ held \in HeldRow
    BY <1>1, <2>3 DEF GateIInv, HeldPassed, GateTyped
  <2>5. /\ held.quantity \in Nat /\ held.tick \in Nat /\ held.capital \in Nat
        /\ verdict.price \in Nat /\ verdict.portfolio \in Nat
    BY <2>1, <2>4, RiskGateAssumption DEF HeldRow, VerdictRow
  <2>6. ASSUME verdict.price <= held.tick, verdict.portfolio = held.capital PROVE FALSE
    <3> DEFINE now == held.quantity * verdict.price
               then == held.quantity * held.tick
               limit == PositionLimitPct * held.capital
    <3>1. now <= then /\ now \in Nat /\ then \in Nat
      BY <2>5, <2>6, WorthGrows
    <3>2. limit \in Nat
      BY <2>5, RiskGateAssumption
    <3>3. now * 100 > limit /\ ~(then * 100 > limit)
      BY <2>3, <2>4, <2>6 DEF check_position_limit
    <3> HIDE DEF now, then, limit
    <3> QED
      BY <3>1, <3>2, <3>3
  <2> QED
    BY <2>5, <2>6
<1> QED
  BY <1>2, <1>3

\* A stop gets out, whatever the prices, the limits and the capital (risk_gate.py).
THEOREM StopGetsOutHolds == GateSpec => []StopGetsOut
<1> QED
  BY GateStart, GateStep, GateFollows, PTL DEF GateSpec

-----------------------------------------------------------------------------
(* The breaker of a broker.                                                *)

\* A breaker is created closed and has never opened.
LEMMA BreakerStart == BreakerInit => BreakerIInv
BY BreakerAssumption DEF BreakerInit, BreakerIInv, BreakerTypeOK,
    BeganSound, ClosedSound, CoolingKeepsOut

\* Letting a call through, its three outcomes and the passing of time keep the
\* invariant: a closed breaker has sat out its cooldown, and an opening is
\* stamped with the present.
LEMMA BreakerStep == BreakerIInv /\ [BreakerNext]_breakerVars => BreakerIInv'
<1> SUFFICES ASSUME BreakerIInv, [BreakerNext]_breakerVars PROVE BreakerIInv'
  OBVIOUS
<1> USE BreakerAssumption DEF BreakerIInv, BreakerTypeOK, BeganSound, ClosedSound, CoolingKeepsOut
<1>1. CASE Advance
  BY <1>1 DEF Advance
<1>2. ASSUME NEW c \in BrokerCaller, call_begin(c) PROVE BreakerIInv'
  BY <1>2 DEF call_begin, Cooled
<1>3. ASSUME NEW c \in BrokerCaller, call_succeeds(c) PROVE BreakerIInv'
  BY <1>3 DEF call_succeeds, Return
<1>4. ASSUME NEW c \in BrokerCaller, call_server_error(c) PROVE BreakerIInv'
  BY <1>4 DEF call_server_error, Return
<1>5. ASSUME NEW c \in BrokerCaller, call_other_error(c) PROVE BreakerIInv'
  BY <1>5 DEF call_other_error, Return
<1>6. CASE UNCHANGED breakerVars
  BY <1>6 DEF breakerVars
<1> QED
  BY <1>1, <1>2, <1>3, <1>4, <1>5, <1>6 DEF BreakerNext

\* The inductive invariant.
THEOREM BreakerInvariance == BreakerSpec => []BreakerIInv
<1>1. BreakerInit => BreakerIInv
  BY BreakerStart
<1>2. BreakerIInv /\ [BreakerNext]_breakerVars => BreakerIInv'
  BY BreakerStep
<1> QED
  BY <1>1, <1>2, PTL DEF BreakerSpec

\* However calls overlap, none is let through within a cooldown of an opening.
THEOREM CoolingKeepsOutHolds == BreakerSpec => []CoolingKeepsOut
<1>1. BreakerIInv => CoolingKeepsOut
  BY DEF BreakerIInv
<1> QED
  BY <1>1, BreakerInvariance, PTL

\* When calls do not overlap, a trial finds the failures still counted.
LEMMA TrialStep ==
    ASSUME OneCaller, BreakerIInv, TrialSound, [BreakerNext]_breakerVars
    PROVE  TrialSound'
<1> USE BreakerAssumption DEF BreakerIInv, BreakerTypeOK, TrialSound, OneCaller
<1>1. CASE Advance
  BY <1>1 DEF Advance
<1>2. ASSUME NEW c \in BrokerCaller, call_begin(c) PROVE TrialSound'
  BY <1>2 DEF call_begin
<1>3. ASSUME NEW c \in BrokerCaller, call_succeeds(c) PROVE TrialSound'
  BY <1>3 DEF call_succeeds, Return
<1>4. ASSUME NEW c \in BrokerCaller, call_server_error(c) PROVE TrialSound'
  BY <1>4 DEF call_server_error, Return, Opens
<1>5. ASSUME NEW c \in BrokerCaller, call_other_error(c) PROVE TrialSound'
  BY <1>5 DEF call_other_error, Return
<1>6. CASE UNCHANGED breakerVars
  BY <1>6 DEF breakerVars
<1> QED
  BY <1>1, <1>2, <1>3, <1>4, <1>5, <1>6 DEF BreakerNext

\* When calls do not overlap, a trial call that fails opens the breaker again.
THEOREM TrialFailureReopensHolds == OneCaller => (BreakerSpec => TrialFailureReopens)
<1> SUFFICES ASSUME OneCaller PROVE BreakerSpec => TrialFailureReopens
  OBVIOUS
<1>1. BreakerInit => TrialSound
  BY BreakerAssumption DEF BreakerInit, TrialSound
<1>2. BreakerIInv /\ TrialSound /\ [BreakerNext]_breakerVars => TrialSound'
  BY TrialStep
<1>3. BreakerIInv /\ TrialSound /\ [BreakerNext]_breakerVars
      => [\A c \in BrokerCaller :
             broker_call[c] = "trial" /\ call_server_error(c) => breaker_state' = "open"]_breakerVars
  <2> SUFFICES ASSUME BreakerIInv, TrialSound, NEW c \in BrokerCaller,
                      broker_call[c] = "trial", call_server_error(c)
               PROVE  breaker_state' = "open"
    OBVIOUS
  <2>1. consecutive_failures' >= Threshold
    BY BreakerAssumption DEF BreakerIInv, BreakerTypeOK, TrialSound, call_server_error
  <2> QED
    BY <2>1 DEF call_server_error, Opens
<1> QED
  BY <1>1, <1>2, <1>3, BreakerInvariance, PTL DEF BreakerSpec, TrialFailureReopens

-----------------------------------------------------------------------------
(* The adapters and the instrument lists.                                  *)

\* The brokers by themselves.
BrokersAllNext == exchange_lists \/ list_time_passes \/ KiteNext \/ UpstoxNext \/ AdapterNext
BrokersSpec == BrokersInit /\ [][BrokersAllNext]_brokersVars

\* What a caller of Kite and one of Upstox is at.
KeySet == [symbol: Contract, list: 1 .. listed, at: 0 .. list_time]
KiteAsk ==
    {Free} \union [at: {"keys"}, todo: SUBSET Contract, keys: SUBSET KeySet]
           \union [at: {"download"}, since: 0 .. list_time, symbol: Contract,
                   todo: SUBSET Contract, keys: SUBSET KeySet]
UpstoxAsk ==
    {Free} \union [at: {"lock"}] \union [at: {"download"}, since: 0 .. list_time]
           \union [at: {"parse"}, since: 0 .. list_time, list: 1 .. listed]

\* The list published now has not been left; a cached one was there when its download began
\* and was left, if at all, after that.
ListsAreDated ==
    /\ \A v \in listed .. MaxLists : left_at[v] = MaxListTime
    /\ nfo_cache # NoList => nfo_cache.list \in 1 .. listed /\ left_at[nfo_cache.list] >= nfo_cache.at

\* One caller at a time is past the lock, and the old list is not asked for again before
\* the pause after a failure is over.
LockIsHeldOnce ==
    \A c, d \in BrokerAsker : upx_ask[c].at \in {"download", "parse"}
                              /\ upx_ask[d].at \in {"download", "parse"} => c = d
PauseHolds == upx_index # 0 => valid_until >= failed_at + RetryAfter

\* The adapter in use is the one built from the fingerprint it was built for.
AdapterMatches ==
    \/ adapter = Nobody /\ fingerprint = NoKeys
    \/ /\ adapter # Nobody /\ adapter[2] # 0 /\ fingerprint[adapter[1]] = adapter[2]
       /\ adapter[1] = "upstox" => fingerprint["zerodha"] = 0

\* The inductive invariants of the three parts.
ListsTyped ==
    /\ list_time \in 0 .. MaxListTime /\ listed \in 1 .. MaxLists
    /\ left_at \in [1 .. MaxLists -> 0 .. MaxListTime]
KiteIInv ==
    /\ nfo_cache \in [list: 0 .. listed, at: 0 .. list_time]
    /\ nfo_index \in [list: 0 .. listed, at: 0 .. list_time]
    /\ kite_ask \in [BrokerAsker -> KiteAsk] /\ ListsAreDated /\ NamesAreRecent
UpstoxIInv ==
    /\ upx_index \in 0 .. listed /\ valid_until \in Nat /\ failed_at \in Never .. list_time
    /\ upx_ask \in [BrokerAsker -> UpstoxAsk] /\ LockIsHeldOnce /\ PauseHolds /\ RefreshIsPaced
AdapterIInv ==
    /\ saved \in [{"zerodha", "upstox"} -> 0 .. MaxSavedKeys] /\ store_opens \in BOOLEAN
    /\ AdapterMatches /\ AdapterIsCurrent

\* The inductive invariant of the adapters and the lists.
BrokersIInv == ListsTyped /\ KiteIInv /\ UpstoxIInv /\ AdapterIInv

\* Nothing has been asked for.
LEMMA BrokersStart == BrokersInit => BrokersIInv
<1> SUFFICES ASSUME BrokersInit PROVE BrokersIInv
  OBVIOUS
<1> USE BrokersAssumption DEF BrokersInit
<1>1. ListsTyped
  BY DEF ListsTyped
<1>2. KiteIInv
  <2>1. kite_ask \in [BrokerAsker -> KiteAsk] /\ ListsAreDated
    BY DEF KiteAsk, Free, ListsAreDated
  <2>2. NamesAreRecent
    BY DEF NamesAreRecent, Free
  <2> QED
    BY <2>1, <2>2 DEF KiteIInv, NoList
<1>3. UpstoxIInv
  <2>1. upx_ask \in [BrokerAsker -> UpstoxAsk] /\ \A c \in BrokerAsker : upx_ask[c].at = "idle"
    BY DEF UpstoxAsk, Free
  <2>2. failed_at \in Never .. list_time /\ valid_until \in Nat /\ upx_index = 0
    BY DEF Never
  <2> QED
    BY <2>1, <2>2 DEF UpstoxIInv, LockIsHeldOnce, PauseHolds, RefreshIsPaced
<1>4. AdapterIInv
  BY DEF AdapterIInv, AdapterMatches, AdapterIsCurrent, NoKeys
<1> QED
  BY <1>1, <1>2, <1>3, <1>4 DEF BrokersIInv

\* As time passes and lists are published, what was asked for stays well formed.
LEMMA AsksGrow ==
    ASSUME listed \in Nat, list_time \in Nat, listed' \in Nat, list_time' \in Nat,
           listed <= listed', list_time <= list_time'
    PROVE  KiteAsk \subseteq KiteAsk' /\ UpstoxAsk \subseteq UpstoxAsk'
<1>1. 1 .. listed \subseteq 1 .. listed' /\ 0 .. list_time \subseteq 0 .. list_time'
  OBVIOUS
<1>2. KeySet \subseteq KeySet'
  BY <1>1 DEF KeySet
<1>3. KiteAsk \subseteq KiteAsk'
  BY <1>1, <1>2 DEF KiteAsk
<1> QED
  BY <1>1, <1>3 DEF UpstoxAsk

\* The exchange replaces its list: the one left was published until now, after every key
\* that was made with it.
LEMMA ExchangeKeeps == ASSUME BrokersIInv, exchange_lists PROVE BrokersIInv'
<1> USE BrokersAssumption
<1>1. /\ listed' = listed + 1 /\ listed < MaxLists /\ list_time' = list_time
      /\ listed \in 1 .. MaxLists /\ list_time \in 0 .. MaxListTime
      /\ left_at' \in [1 .. MaxLists -> 0 .. MaxListTime] /\ left_at'[listed] = list_time
      /\ \A v \in (1 .. MaxLists) \ {listed} : left_at'[v] = left_at[v]
      /\ UNCHANGED <<kiteVars, upstoxVars, adapterVars>>
  BY DEF exchange_lists, BrokersIInv, ListsTyped
<1>2. ListsTyped'
  BY <1>1 DEF ListsTyped
<1>3. KiteAsk \subseteq KiteAsk' /\ UpstoxAsk \subseteq UpstoxAsk'
  BY <1>1, AsksGrow
<1>4. KiteIInv'
  <2>1. /\ nfo_cache' = nfo_cache /\ nfo_index' = nfo_index /\ kite_ask' = kite_ask
        /\ nfo_cache \in [list: 0 .. listed, at: 0 .. list_time]
        /\ nfo_index \in [list: 0 .. listed, at: 0 .. list_time]
    BY <1>1 DEF kiteVars, BrokersIInv, KiteIInv
  <2>2. 0 .. listed \subseteq 0 .. listed' /\ nfo_cache.at <= list_time
    BY <1>1, <2>1
  <2>3. nfo_cache' \in [list: 0 .. listed', at: 0 .. list_time'] /\ nfo_index' \in [list: 0 .. listed', at: 0 .. list_time']
    BY <1>1, <2>1, <2>2
  <2>4. kite_ask' \in [BrokerAsker -> KiteAsk']
    BY <1>3, <2>1 DEF BrokersIInv, KiteIInv
  <2>5. ListsAreDated'
    <3>1. \A v \in listed' .. MaxLists : left_at'[v] = MaxListTime
      <4> SUFFICES ASSUME NEW v \in listed' .. MaxLists PROVE left_at'[v] = MaxListTime
        OBVIOUS
      <4>1. v \in listed .. MaxLists /\ v \in (1 .. MaxLists) \ {listed}
        BY <1>1
      <4> QED
        BY <1>1, <4>1 DEF BrokersIInv, KiteIInv, ListsAreDated
    <3>2. ASSUME nfo_cache # NoList
          PROVE  nfo_cache.list \in 1 .. listed' /\ left_at'[nfo_cache.list] >= nfo_cache.at
      <4>1. nfo_cache.list \in 1 .. listed /\ left_at[nfo_cache.list] >= nfo_cache.at
        BY <3>2 DEF BrokersIInv, KiteIInv, ListsAreDated
      <4> QED
        BY <1>1, <2>1, <2>2, <4>1
    <3> QED
      BY <2>1, <3>1, <3>2 DEF ListsAreDated
  <2>6. NamesAreRecent'
    <3> SUFFICES ASSUME NEW c \in BrokerAsker, kite_ask[c].at # "idle", NEW k \in kite_ask[c].keys
                 PROVE  left_at'[k.list] > k.at - NfoTtl
      BY <2>1 DEF NamesAreRecent
    <3>1. left_at[k.list] > k.at - NfoTtl
      BY DEF BrokersIInv, KiteIInv, NamesAreRecent
    <3>2. k \in KeySet
      BY DEF BrokersIInv, KiteIInv, KiteAsk, Free
    <3>3. k.list \in 1 .. listed /\ k.at \in 0 .. list_time
      BY <3>2 DEF KeySet
    <3> QED
      BY <1>1, <3>1, <3>3
  <2> QED
    BY <2>3, <2>4, <2>5, <2>6 DEF KiteIInv
<1>5. UpstoxIInv'
  <2>1. /\ upx_index' = upx_index /\ valid_until' = valid_until /\ failed_at' = failed_at
        /\ upx_ask' = upx_ask
    BY <1>1 DEF upstoxVars
  <2>2. 0 .. listed \subseteq 0 .. listed'
    BY <1>1
  <2> QED
    BY <1>1, <1>3, <2>1, <2>2 DEF BrokersIInv, UpstoxIInv, LockIsHeldOnce, PauseHolds, RefreshIsPaced
<1>6. AdapterIInv'
  BY <1>1 DEF adapterVars, BrokersIInv, AdapterIInv, AdapterMatches, AdapterIsCurrent
<1> QED
  BY <1>2, <1>4, <1>5, <1>6 DEF BrokersIInv

\* Time passes.
LEMMA TimeKeeps == ASSUME BrokersIInv, list_time_passes PROVE BrokersIInv'
<1> USE BrokersAssumption
<1>1. /\ list_time' = list_time + 1 /\ list_time < MaxListTime /\ listed' = listed
      /\ listed \in 1 .. MaxLists /\ list_time \in 0 .. MaxListTime
      /\ left_at' = left_at /\ UNCHANGED <<kiteVars, upstoxVars, adapterVars>>
  BY DEF list_time_passes, BrokersIInv, ListsTyped
<1>2. ListsTyped'
  BY <1>1 DEF BrokersIInv, ListsTyped
<1>3. KiteAsk \subseteq KiteAsk' /\ UpstoxAsk \subseteq UpstoxAsk'
  BY <1>1, AsksGrow
<1>4. 0 .. list_time \subseteq 0 .. list_time'
  BY <1>1
<1>5. KiteIInv'
  <2>1. nfo_cache' = nfo_cache /\ nfo_index' = nfo_index /\ kite_ask' = kite_ask
    BY <1>1 DEF kiteVars
  <2>2. nfo_cache' \in [list: 0 .. listed', at: 0 .. list_time'] /\ nfo_index' \in [list: 0 .. listed', at: 0 .. list_time']
    BY <1>1, <1>4, <2>1 DEF BrokersIInv, KiteIInv
  <2>3. kite_ask' \in [BrokerAsker -> KiteAsk']
    BY <1>3, <2>1 DEF BrokersIInv, KiteIInv
  <2> QED
    BY <1>1, <2>1, <2>2, <2>3 DEF BrokersIInv, KiteIInv, ListsAreDated, NamesAreRecent
<1>6. UpstoxIInv'
  <2>1. /\ upx_index' = upx_index /\ valid_until' = valid_until /\ failed_at' = failed_at
        /\ upx_ask' = upx_ask
    BY <1>1 DEF upstoxVars
  <2>2. Never .. list_time \subseteq Never .. list_time'
    BY <1>1 DEF Never
  <2> QED
    BY <1>1, <1>3, <2>1, <2>2 DEF BrokersIInv, UpstoxIInv, LockIsHeldOnce, PauseHolds, RefreshIsPaced
<1>7. AdapterIInv'
  BY <1>1 DEF adapterVars, BrokersIInv, AdapterIInv, AdapterMatches, AdapterIsCurrent
<1> QED
  BY <1>2, <1>5, <1>6, <1>7 DEF BrokersIInv

\* A name is looked up in rows that were current no longer ago than the cache lives: the key
\* it gets is recent, and the index is the one of the rows.
LEMMA KeyIsRecent ==
    ASSUME BrokersIInv, NEW c \in BrokerAsker, NEW symbol \in Contract, NEW rows,
           rows.list \in 1 .. listed, rows \in [list: 0 .. listed, at: 0 .. list_time],
           left_at[rows.list] > list_time - NfoTtl,
           kite_ask[c].todo \in SUBSET Contract, kite_ask[c].keys \in SUBSET KeySet, kite_ask[c].at # "idle",
           _key_for(c, symbol, rows), UNCHANGED listVars
    PROVE  /\ kite_ask' \in [BrokerAsker -> KiteAsk'] /\ NamesAreRecent'
           /\ nfo_index' \in [list: 0 .. listed', at: 0 .. list_time']
<1> USE BrokersAssumption
<1>1. nfo_index' = rows /\ listed' = listed /\ list_time' = list_time /\ left_at' = left_at
  BY DEF _key_for, _option_index, listVars
<1>2. PICK key : /\ key \in {{}, {[symbol |-> symbol, list |-> rows.list, at |-> list_time]}}
                 /\ kite_ask' = [kite_ask EXCEPT ![c] = [at |-> "keys", todo |-> kite_ask[c].todo \ {symbol},
                                                        keys |-> kite_ask[c].keys \union key]]
  BY DEF _key_for, _option_index, Kite
<1>3. list_time \in 0 .. list_time /\ listed \in Nat /\ list_time \in Nat
  BY DEF BrokersIInv, ListsTyped
<1>4. key \in SUBSET KeySet
  BY <1>2, <1>3 DEF KeySet
<1>5. kite_ask[c].keys \union key \in SUBSET KeySet /\ kite_ask[c].todo \ {symbol} \in SUBSET Contract
  BY <1>4
<1>6. kite_ask' \in [BrokerAsker -> KiteAsk]
  <2>1. [at |-> "keys", todo |-> kite_ask[c].todo \ {symbol}, keys |-> kite_ask[c].keys \union key] \in KiteAsk
    BY <1>5 DEF KiteAsk
  <2> QED
    BY <1>2, <2>1 DEF BrokersIInv, KiteIInv
<1>7. KiteAsk' = KiteAsk
  BY <1>1 DEF KiteAsk, KeySet
<1>8. NamesAreRecent'
  <2> SUFFICES ASSUME NEW d \in BrokerAsker, kite_ask'[d].at # "idle", NEW k \in kite_ask'[d].keys
               PROVE  left_at[k.list] > k.at - NfoTtl
    BY <1>1 DEF NamesAreRecent
  <2>1. CASE d # c \/ k \in kite_ask[c].keys
    <3>1. kite_ask[d].at # "idle" /\ k \in kite_ask[d].keys
      BY <1>2, <2>1 DEF BrokersIInv, KiteIInv
    <3> QED
      BY <3>1 DEF BrokersIInv, KiteIInv, NamesAreRecent
  <2>2. CASE d = c /\ k \notin kite_ask[c].keys
    <3>1. k \in key
      BY <1>2, <2>2 DEF BrokersIInv, KiteIInv
    <3>2. k.list = rows.list /\ k.at = list_time
      BY <1>2, <3>1
    <3> QED
      BY <3>2
  <2> QED
    BY <2>1, <2>2
<1> QED
  BY <1>1, <1>6, <1>7, <1>8

\* A caller that keeps the keys it has, or has none, keeps the claim about the keys.
LEMMA AskKeeps ==
    ASSUME BrokersIInv, NEW c \in BrokerAsker, NEW ask \in KiteAsk, Kite(c, ask),
           ask.at # "idle" => \A k \in ask.keys : kite_ask[c].at # "idle" /\ k \in kite_ask[c].keys,
           UNCHANGED <<nfo_cache, nfo_index, listVars>>
    PROVE  KiteIInv'
<1>1. /\ UNCHANGED <<nfo_cache, nfo_index, list_time, listed, left_at>>
      /\ kite_ask' = [kite_ask EXCEPT ![c] = ask]
  BY DEF Kite, listVars
<1>2. kite_ask' \in [BrokerAsker -> KiteAsk']
  <2>1. KiteAsk' = KiteAsk
    BY <1>1 DEF KiteAsk, KeySet
  <2> QED
    BY <1>1, <2>1 DEF BrokersIInv, KiteIInv
<1>3. NamesAreRecent'
  <2> SUFFICES ASSUME NEW d \in BrokerAsker, kite_ask'[d].at # "idle", NEW k \in kite_ask'[d].keys
               PROVE  left_at[k.list] > k.at - NfoTtl
    BY <1>1 DEF NamesAreRecent
  <2>1. kite_ask[d].at # "idle" /\ k \in kite_ask[d].keys
    BY <1>1 DEF BrokersIInv, KiteIInv, Free
  <2> QED
    BY <2>1 DEF BrokersIInv, KiteIInv, NamesAreRecent
<1> QED
  BY <1>1, <1>2, <1>3 DEF BrokersIInv, KiteIInv, ListsAreDated

\* What a batch or a download carries.
LEMMA AskFields ==
    ASSUME BrokersIInv, NEW c \in BrokerAsker
    PROVE  /\ kite_ask[c].at = "keys" =>
                 kite_ask[c] \in [at: {"keys"}, todo: SUBSET Contract, keys: SUBSET KeySet]
           /\ kite_ask[c].at = "download" =>
                 kite_ask[c] \in [at: {"download"}, since: 0 .. list_time, symbol: Contract,
                                  todo: SUBSET Contract, keys: SUBSET KeySet]
<1>1. kite_ask[c] \in KiteAsk
  BY DEF BrokersIInv, KiteIInv
<1> QED
  BY <1>1 DEF KiteAsk, Free

\* Kite: a fresh cache was published no longer ago than it lives, and a download is
\* stamped with a time before it, however many overlap.
LEMMA KiteKeeps == ASSUME BrokersIInv, KiteNext PROVE BrokersIInv'
<1> USE BrokersAssumption
<1>1. ListsTyped' /\ UpstoxIInv' /\ AdapterIInv'
  <2>1. UNCHANGED <<listVars, upstoxVars, adapterVars>>
    BY DEF KiteNext, get_quotes, nfo_downloaded, kite_fails, quotes_answered, key_from_cache,
           _get_nfo_instruments, KiteUnchanged
  <2>2. ListsTyped'
    BY <2>1 DEF listVars, BrokersIInv, ListsTyped
  <2>3. UpstoxAsk' = UpstoxAsk
    BY <2>1 DEF listVars, UpstoxAsk
  <2>4. UpstoxIInv'
    BY <2>1, <2>3 DEF listVars, upstoxVars, BrokersIInv, UpstoxIInv, LockIsHeldOnce, PauseHolds, RefreshIsPaced
  <2>5. AdapterIInv'
    BY <2>1 DEF adapterVars, BrokersIInv, AdapterIInv, AdapterMatches, AdapterIsCurrent
  <2> QED
    BY <2>2, <2>4, <2>5
<1>2. list_time \in 0 .. MaxListTime /\ listed \in 1 .. MaxLists
      /\ left_at \in [1 .. MaxLists -> 0 .. MaxListTime]
      /\ nfo_cache \in [list: 0 .. listed, at: 0 .. list_time]
  BY DEF BrokersIInv, ListsTyped, KiteIInv
<1>3. ASSUME NEW c \in BrokerAsker, get_quotes(c) PROVE KiteIInv'
  <2>1. PICK symbols \in SUBSET Contract : Kite(c, [at |-> "keys", todo |-> symbols, keys |-> {}])
    BY <1>3 DEF get_quotes
  <2>2. [at |-> "keys", todo |-> symbols, keys |-> {}] \in KiteAsk
    BY DEF KiteAsk
  <2>3. UNCHANGED <<nfo_cache, nfo_index, listVars>>
    BY <1>3 DEF get_quotes, KiteUnchanged
  <2>4. [at |-> "keys", todo |-> symbols, keys |-> {}].keys = {}
    OBVIOUS
  <2> QED
    BY <2>1, <2>2, <2>3, <2>4, AskKeeps
<1>4. ASSUME NEW c \in BrokerAsker, kite_fails(c) \/ quotes_answered(c) PROVE KiteIInv'
  <2>1. Kite(c, Free) /\ UNCHANGED <<nfo_cache, nfo_index, listVars>> /\ Free \in KiteAsk
        /\ Free.at = "idle"
    BY <1>4 DEF kite_fails, quotes_answered, KiteUnchanged, KiteAsk, Free
  <2> QED
    BY <2>1, AskKeeps
<1>5. ASSUME NEW c \in BrokerAsker, NEW symbol \in Contract, _get_nfo_instruments(c, symbol)
      PROVE  KiteIInv'
  <2> DEFINE ask == [at |-> "download", since |-> list_time, symbol |-> symbol,
                     todo |-> kite_ask[c].todo, keys |-> kite_ask[c].keys]
  <2>1. kite_ask[c].at = "keys" /\ Kite(c, ask) /\ UNCHANGED <<nfo_cache, nfo_index, listVars>>
    BY <1>5 DEF _get_nfo_instruments, Batched, KiteUnchanged
  <2>2. kite_ask[c].todo \in SUBSET Contract /\ kite_ask[c].keys \in SUBSET KeySet
    BY <2>1, AskFields
  <2>3. ask \in KiteAsk
    BY <1>2, <2>2 DEF KiteAsk
  <2> QED
    BY <2>1, <2>3, AskKeeps
<1>6. ASSUME NEW c \in BrokerAsker, NEW symbol \in Contract, key_from_cache(c, symbol)
      PROVE  KiteIInv'
  <2>1. /\ kite_ask[c].at = "keys" /\ Fresh /\ _key_for(c, symbol, nfo_cache)
        /\ UNCHANGED <<nfo_cache, listVars>>
    BY <1>6 DEF key_from_cache, Batched, KiteUnchanged
  <2>2. nfo_cache.list \in 1 .. listed /\ left_at[nfo_cache.list] >= nfo_cache.at
    BY <2>1 DEF Fresh, BrokersIInv, KiteIInv, ListsAreDated
  <2>3. left_at[nfo_cache.list] > list_time - NfoTtl
    <3>1. list_time - nfo_cache.at < NfoTtl
      BY <2>1 DEF Fresh
    <3> QED
      BY <1>2, <2>2, <3>1
  <2>4. kite_ask[c].todo \in SUBSET Contract /\ kite_ask[c].keys \in SUBSET KeySet
    BY <2>1, AskFields
  <2>5. /\ kite_ask' \in [BrokerAsker -> KiteAsk'] /\ NamesAreRecent'
        /\ nfo_index' \in [list: 0 .. listed', at: 0 .. list_time']
    <3>1. nfo_cache \in [list: 0 .. listed, at: 0 .. list_time] /\ kite_ask[c].at # "idle"
      BY <1>2, <2>1
    <3>2. _key_for(c, symbol, nfo_cache) /\ UNCHANGED listVars
      BY <2>1
    <3> QED
      BY <2>2, <2>3, <2>4, <3>1, <3>2, KeyIsRecent
  <2> QED
    BY <1>2, <2>1, <2>5 DEF listVars, BrokersIInv, KiteIInv, ListsAreDated
<1>7. ASSUME NEW c \in BrokerAsker, nfo_downloaded(c) PROVE KiteIInv'
  <2>1. /\ kite_ask[c].at = "download" /\ nfo_cache' = [list |-> listed, at |-> kite_ask[c].since]
        /\ _key_for(c, kite_ask[c].symbol, nfo_cache') /\ UNCHANGED listVars
    BY <1>7 DEF nfo_downloaded, KiteUnchanged
  <2>2. /\ kite_ask[c].todo \in SUBSET Contract /\ kite_ask[c].keys \in SUBSET KeySet
        /\ kite_ask[c].symbol \in Contract /\ kite_ask[c].since \in 0 .. list_time
    BY <2>1, AskFields
  <2>3. nfo_cache' \in [list: 0 .. listed, at: 0 .. list_time] /\ nfo_cache'.list = listed
    BY <1>2, <2>1, <2>2
  <2>4. left_at[listed] = MaxListTime /\ listed \in 1 .. listed
    BY <1>2 DEF BrokersIInv, KiteIInv, ListsAreDated
  <2>5. /\ kite_ask' \in [BrokerAsker -> KiteAsk'] /\ NamesAreRecent'
        /\ nfo_index' \in [list: 0 .. listed', at: 0 .. list_time']
    <3>1. nfo_cache'.list \in 1 .. listed /\ left_at[nfo_cache'.list] > list_time - NfoTtl
      BY <1>2, <2>3, <2>4, BrokersAssumption
    <3>2. _key_for(c, kite_ask[c].symbol, nfo_cache') /\ UNCHANGED listVars /\ kite_ask[c].at # "idle"
      BY <2>1
    <3> QED
      BY <2>2, <2>3, <3>1, <3>2, KeyIsRecent
  <2>6. ListsAreDated'
    BY <1>2, <2>1, <2>2, <2>3, <2>4 DEF listVars, BrokersIInv, KiteIInv, ListsAreDated
  <2> QED
    BY <2>1, <2>3, <2>5, <2>6 DEF listVars, KiteIInv
<1> QED
  BY <1>1, <1>3, <1>4, <1>5, <1>6, <1>7 DEF KiteNext, BrokersIInv

\* A caller's step keeps the claims about the lock and the pause when it leaves the index
\* and the times alone.
LEMMA UpstoxAskKeeps ==
    ASSUME BrokersIInv, NEW c \in BrokerAsker, NEW ask \in UpstoxAsk, Upstox(c, ask),
           UNCHANGED <<upx_index, valid_until, failed_at, listVars>>,
           ask.at \in {"download", "parse"} =>
              /\ ~ LockHeld \/ upx_ask[c].at \in {"download", "parse"}
              /\ upx_index # 0 => ask.since >= failed_at + RetryAfter
    PROVE  UpstoxIInv'
<1>1. /\ UNCHANGED <<upx_index, valid_until, failed_at, list_time, listed, left_at>>
      /\ upx_ask' = [upx_ask EXCEPT ![c] = ask] /\ upx_ask \in [BrokerAsker -> UpstoxAsk]
  BY DEF Upstox, listVars, BrokersIInv, UpstoxIInv
<1>2. UpstoxAsk' = UpstoxAsk
  BY <1>1 DEF UpstoxAsk
<1>3. LockIsHeldOnce'
  BY <1>1 DEF BrokersIInv, UpstoxIInv, LockIsHeldOnce, LockHeld
<1>4. RefreshIsPaced'
  BY <1>1 DEF BrokersIInv, UpstoxIInv, RefreshIsPaced
<1> QED
  BY <1>1, <1>2, <1>3, <1>4 DEF BrokersIInv, UpstoxIInv, PauseHolds

\* Upstox: the list is judged under the lock, so what follows a failure waits out the pause
\* as long as there is an old list to serve.
LEMMA UpstoxKeeps == ASSUME BrokersIInv, UpstoxNext PROVE BrokersIInv'
<1> USE BrokersAssumption
<1>1. ListsTyped' /\ KiteIInv' /\ AdapterIInv' /\ UNCHANGED listVars
  <2>1. UNCHANGED <<listVars, kiteVars, adapterVars>>
    BY DEF UpstoxNext, _current_index, refreshed_meanwhile, _download, parse_instrument_file,
           index_loaded, refresh_failed, UpstoxUnchanged
  <2>2. ListsTyped'
    BY <2>1 DEF listVars, BrokersIInv, ListsTyped
  <2>3. KiteAsk' = KiteAsk
    BY <2>1 DEF listVars, KiteAsk, KeySet
  <2>4. KiteIInv'
    BY <2>1, <2>3 DEF listVars, kiteVars, BrokersIInv, KiteIInv, ListsAreDated, NamesAreRecent
  <2>5. AdapterIInv'
    BY <2>1 DEF adapterVars, BrokersIInv, AdapterIInv, AdapterMatches, AdapterIsCurrent
  <2> QED
    BY <2>1, <2>2, <2>4, <2>5
<1>2. list_time \in 0 .. MaxListTime /\ listed \in 1 .. MaxLists
  BY DEF BrokersIInv, ListsTyped
<1>3. /\ upx_index \in 0 .. listed /\ valid_until \in Nat /\ failed_at \in Never .. list_time
      /\ Never \in Int /\ upx_ask \in [BrokerAsker -> UpstoxAsk]
  BY DEF BrokersIInv, UpstoxIInv, Never
<1>4. ASSUME NEW c \in BrokerAsker, _current_index(c) PROVE UpstoxIInv'
  <2>1. [at |-> "lock"] \in UpstoxAsk
    BY DEF UpstoxAsk
  <2> QED
    BY <1>1, <1>4, <2>1, UpstoxAskKeeps DEF _current_index
<1>5. ASSUME NEW c \in BrokerAsker, refreshed_meanwhile(c) PROVE UpstoxIInv'
  <2>1. Free \in UpstoxAsk /\ Free.at = "idle"
    BY DEF UpstoxAsk, Free
  <2> QED
    BY <1>1, <1>5, <2>1, UpstoxAskKeeps DEF refreshed_meanwhile
<1>6. ASSUME NEW c \in BrokerAsker, _download(c) PROVE UpstoxIInv'
  <2> DEFINE ask == [at |-> "download", since |-> list_time]
  <2>1. ask \in UpstoxAsk
    BY <1>2 DEF UpstoxAsk
  <2>2. ~ LockHeld /\ (upx_index = 0 \/ ~ (list_time < valid_until)) /\ Upstox(c, ask)
    BY <1>6 DEF _download, StillStale, IndexValid
  <2>3. upx_index # 0 => ask.since >= failed_at + RetryAfter
    <3>1. upx_index # 0 => valid_until >= failed_at + RetryAfter
      BY DEF BrokersIInv, UpstoxIInv, PauseHolds
    <3> QED
      BY <1>2, <1>3, <2>2, <3>1
  <2>4. UNCHANGED <<upx_index, valid_until, failed_at, listVars>>
    BY <1>1, <1>6 DEF _download
  <2> QED
    BY <2>1, <2>2, <2>3, <2>4, UpstoxAskKeeps
<1>7. ASSUME NEW c \in BrokerAsker, parse_instrument_file(c) PROVE UpstoxIInv'
  <2> DEFINE ask == [at |-> "parse", since |-> upx_ask[c].since, list |-> listed]
  <2>1. upx_ask[c] \in [at: {"download"}, since: 0 .. list_time] /\ upx_ask[c].at = "download"
    BY <1>3, <1>7 DEF parse_instrument_file, UpstoxAsk, Free
  <2>2. ask \in UpstoxAsk
    BY <1>2, <2>1 DEF UpstoxAsk
  <2>3. upx_index # 0 => ask.since >= failed_at + RetryAfter
    BY <2>1 DEF BrokersIInv, UpstoxIInv, RefreshIsPaced
  <2>4. UNCHANGED <<upx_index, valid_until, failed_at, listVars>> /\ Upstox(c, ask)
    BY <1>1, <1>7 DEF parse_instrument_file
  <2> QED
    BY <2>1, <2>2, <2>3, <2>4, UpstoxAskKeeps
<1>8. ASSUME NEW c \in BrokerAsker, index_loaded(c) \/ refresh_failed(c) PROVE UpstoxIInv'
  <2>1. /\ upx_ask[c].at \in {"download", "parse"} /\ upx_ask' = [upx_ask EXCEPT ![c] = Free]
        /\ list_time' = list_time /\ listed' = listed
    BY <1>1, <1>8 DEF index_loaded, refresh_failed, Upstox, listVars
  <2>2. \A d \in BrokerAsker : upx_ask'[d].at \notin {"download", "parse"}
    BY <1>3, <2>1 DEF BrokersIInv, UpstoxIInv, LockIsHeldOnce, Free
  <2>3. upx_ask' \in [BrokerAsker -> UpstoxAsk']
    BY <1>3, <2>1 DEF UpstoxAsk
  <2>4. CASE index_loaded(c)
    <3>1. upx_index' = upx_ask[c].list /\ valid_until' = list_time + IndexTtl /\ failed_at' = failed_at
          /\ upx_ask[c].at = "parse"
      BY <2>4 DEF index_loaded
    <3>2. upx_ask[c].list \in 1 .. listed
      BY <1>3, <3>1 DEF UpstoxAsk, Free
    <3>3. valid_until' \in Nat /\ valid_until' >= failed_at + RetryAfter
      BY <1>2, <1>3, <3>1
    <3>4. upx_index' \in 0 .. listed
      BY <1>2, <3>1, <3>2
    <3> QED
      BY <1>3, <2>1, <2>2, <2>3, <3>1, <3>3, <3>4
      DEF UpstoxIInv, LockIsHeldOnce, PauseHolds, RefreshIsPaced, Never
  <2>5. CASE refresh_failed(c)
    <3>1. /\ failed_at' = list_time /\ upx_index' = upx_index
          /\ valid_until' = IF upx_index = 0 THEN valid_until ELSE list_time + RetryAfter
      BY <2>5 DEF refresh_failed
    <3>2. valid_until' \in Nat /\ (upx_index # 0 => valid_until' = failed_at' + RetryAfter)
      BY <1>2, <1>3, <3>1
    <3>3. failed_at' \in Never .. list_time
      BY <1>2, <3>1 DEF Never
    <3> QED
      BY <1>3, <2>1, <2>2, <2>3, <3>1, <3>2, <3>3
      DEF UpstoxIInv, LockIsHeldOnce, PauseHolds, RefreshIsPaced, Never
  <2> QED
    BY <1>8, <2>4, <2>5
<1> QED
  BY <1>1, <1>4, <1>5, <1>6, <1>7, <1>8 DEF UpstoxNext, BrokersIInv

\* The adapter that is built is the first connected broker's, with its stored credentials.
LEMMA BuiltFirst ==
    ASSUME store_opens = TRUE, saved \in [{"zerodha", "upstox"} -> 0 .. MaxSavedKeys], saved # NoKeys
    PROVE  \/ saved["zerodha"] # 0 /\ build_configured_adapter = <<"zerodha", saved["zerodha"]>>
           \/ /\ saved["zerodha"] = 0 /\ saved["upstox"] # 0
              /\ build_configured_adapter = <<"upstox", saved["upstox"]>>
<1> DEFINE First(i) == saved[KNOWN_BROKERS[i]] # 0 /\ \A j \in 1 .. i - 1 : saved[KNOWN_BROKERS[j]] = 0
           first == CHOOSE i \in DOMAIN KNOWN_BROKERS : First(i)
<1>1. /\ DOMAIN KNOWN_BROKERS = {1, 2} /\ KNOWN_BROKERS[1] = "zerodha" /\ KNOWN_BROKERS[2] = "upstox"
      /\ 1 .. 1 - 1 = {} /\ 1 .. 2 - 1 = {1}
  BY DEF KNOWN_BROKERS
<1>2. build_configured_adapter = <<KNOWN_BROKERS[first], saved[KNOWN_BROKERS[first]]>>
  BY DEF build_configured_adapter
<1>3. CASE saved["zerodha"] # 0
  <2>1. First(1) /\ ~ First(2)
    BY <1>1, <1>3
  <2>2. first = 1
    BY <1>1, <2>1
  <2> QED
    BY <1>1, <1>2, <1>3, <2>2
<1>4. CASE saved["zerodha"] = 0
  <2>1. saved["upstox"] # 0
    BY <1>4 DEF NoKeys
  <2>2. First(2) /\ ~ First(1)
    BY <1>1, <1>4, <2>1
  <2>3. first = 2
    BY <1>1, <2>2
  <2> QED
    BY <1>1, <1>2, <1>4, <2>1, <2>3
<1> QED
  BY <1>3, <1>4

\* A job gets what was built from the credentials stored now: the adapter is built again
\* whenever they are not the ones it was built from.
LEMMA AdapterKeeps == ASSUME BrokersIInv, AdapterNext PROVE BrokersIInv'
<1> USE BrokersAssumption
<1>1. ListsTyped' /\ KiteIInv' /\ UpstoxIInv'
  <2>1. UNCHANGED <<listVars, kiteVars, upstoxVars>>
    BY DEF AdapterNext, save_credentials, get_secrets_store, get_live_adapter, AdapterUnchanged
  <2>2. ListsTyped'
    BY <2>1 DEF listVars, BrokersIInv, ListsTyped
  <2>3. KiteAsk' = KiteAsk /\ UpstoxAsk' = UpstoxAsk
    BY <2>1 DEF listVars, KiteAsk, KeySet, UpstoxAsk
  <2>4. KiteIInv'
    BY <2>1, <2>3 DEF listVars, kiteVars, BrokersIInv, KiteIInv, ListsAreDated, NamesAreRecent
  <2>5. UpstoxIInv'
    BY <2>1, <2>3 DEF listVars, upstoxVars, BrokersIInv, UpstoxIInv, LockIsHeldOnce, PauseHolds, RefreshIsPaced
  <2> QED
    BY <2>2, <2>4, <2>5
<1>2. saved \in [{"zerodha", "upstox"} -> 0 .. MaxSavedKeys] /\ store_opens \in BOOLEAN
  BY DEF BrokersIInv, AdapterIInv
<1>3. ASSUME NEW b \in DOMAIN saved, save_credentials(b) PROVE AdapterIInv'
  <2>1. saved' \in [{"zerodha", "upstox"} -> 0 .. MaxSavedKeys]
    BY <1>2, <1>3 DEF save_credentials
  <2>2. UNCHANGED <<store_opens, fingerprint, adapter, handed>>
    BY <1>3 DEF save_credentials
  <2> QED
    BY <2>1, <2>2 DEF BrokersIInv, AdapterIInv, AdapterMatches, AdapterIsCurrent
<1>4. ASSUME get_secrets_store PROVE AdapterIInv'
  <2>1. store_opens' \in BOOLEAN
    BY <1>4, Zenon DEF get_secrets_store
  <2>2. UNCHANGED <<saved, fingerprint, adapter, handed>>
    BY <1>4 DEF get_secrets_store
  <2>3. saved' \in [{"zerodha", "upstox"} -> 0 .. MaxSavedKeys]
    BY <1>2, <2>2
  <2>4. AdapterMatches' /\ AdapterIsCurrent'
    BY <2>2 DEF BrokersIInv, AdapterIInv, AdapterMatches, AdapterIsCurrent
  <2> QED
    BY <2>1, <2>3, <2>4 DEF AdapterIInv
<1>5. ASSUME get_live_adapter PROVE AdapterIInv'
  <2>1. /\ fingerprint' = configured_broker_fingerprint
        /\ adapter' = IF fingerprint' # fingerprint THEN build_configured_adapter ELSE adapter
        /\ handed' = [got |-> adapter', of |-> fingerprint'] /\ UNCHANGED <<saved, store_opens>>
    BY <1>5 DEF get_live_adapter, configured_broker_fingerprint
  <2>2. AdapterMatches'
    <3>1. CASE fingerprint' = fingerprint
      BY <2>1, <3>1 DEF BrokersIInv, AdapterIInv, AdapterMatches
    <3>2. CASE fingerprint' # fingerprint /\ fingerprint' = NoKeys
      <4>1. build_configured_adapter = Nobody
        BY <2>1, <3>2 DEF configured_broker_fingerprint, build_configured_adapter
      <4> QED
        BY <2>1, <3>2, <4>1 DEF AdapterMatches
    <3>3. CASE fingerprint' # fingerprint /\ fingerprint' # NoKeys
      <4>1. store_opens = TRUE /\ fingerprint' = saved
        BY <1>2, <2>1, <3>3 DEF configured_broker_fingerprint
      <4>2. \/ saved["zerodha"] # 0 /\ adapter' = <<"zerodha", saved["zerodha"]>>
            \/ /\ saved["zerodha"] = 0 /\ saved["upstox"] # 0
               /\ adapter' = <<"upstox", saved["upstox"]>>
        BY <1>2, <2>1, <3>3, <4>1, BuiltFirst
      <4> QED
        BY <4>1, <4>2 DEF AdapterMatches, Nobody
    <3> QED
      BY <3>1, <3>2, <3>3
  <2>3. AdapterIsCurrent'
    BY <2>1, <2>2 DEF AdapterMatches, AdapterIsCurrent
  <2>4. saved' \in [{"zerodha", "upstox"} -> 0 .. MaxSavedKeys]
    BY <1>2, <2>1
  <2>5. store_opens' \in BOOLEAN
    BY <1>2, <2>1, Zenon
  <2> QED
    BY <2>2, <2>3, <2>4, <2>5 DEF AdapterIInv
<1> QED
  BY <1>1, <1>3, <1>4, <1>5 DEF AdapterNext, BrokersIInv

\* Publications, time, and the three parts.
LEMMA BrokersStep == BrokersIInv /\ [BrokersAllNext]_brokersVars => BrokersIInv'
<1> SUFFICES ASSUME BrokersIInv, [BrokersAllNext]_brokersVars PROVE BrokersIInv'
  OBVIOUS
<1>1. CASE BrokersAllNext
  BY <1>1, ExchangeKeeps, TimeKeeps, KiteKeeps, UpstoxKeeps, AdapterKeeps DEF BrokersAllNext
<1>2. CASE UNCHANGED brokersVars
  <2>1. UNCHANGED listVars /\ UNCHANGED kiteVars /\ UNCHANGED upstoxVars /\ UNCHANGED adapterVars
    BY <1>2 DEF brokersVars
  <2>2. KiteAsk' = KiteAsk /\ UpstoxAsk' = UpstoxAsk
    BY <2>1 DEF listVars, KiteAsk, KeySet, UpstoxAsk
  <2>3. ListsTyped' /\ KiteIInv'
    BY <2>1, <2>2 DEF listVars, kiteVars, BrokersIInv, ListsTyped, KiteIInv, ListsAreDated, NamesAreRecent
  <2>4. UpstoxIInv'
    BY <2>1, <2>2 DEF listVars, upstoxVars, BrokersIInv, UpstoxIInv, LockIsHeldOnce, PauseHolds, RefreshIsPaced
  <2>5. AdapterIInv'
    BY <2>1 DEF adapterVars, BrokersIInv, AdapterIInv, AdapterMatches, AdapterIsCurrent
  <2> QED
    BY <2>3, <2>4, <2>5 DEF BrokersIInv
<1> QED
  BY <1>1, <1>2

\* What the invariant says of the three parts.
LEMMA BrokersFollow == BrokersIInv => BrokersTypeOK /\ AdapterIsCurrent /\ NamesAreRecent /\ RefreshIsPaced
<1> SUFFICES ASSUME BrokersIInv PROVE BrokersTypeOK /\ AdapterIsCurrent /\ NamesAreRecent /\ RefreshIsPaced
  OBVIOUS
<1>1. AdapterIsCurrent /\ NamesAreRecent /\ RefreshIsPaced
  BY DEF BrokersIInv, KiteIInv, UpstoxIInv, AdapterIInv
<1>2. \A c \in BrokerAsker : kite_ask[c].at \in {"idle", "keys", "download"}
  <2>1. ASSUME NEW c \in BrokerAsker PROVE kite_ask[c] \in KiteAsk
    BY DEF BrokersIInv, KiteIInv
  <2>2. \A ask \in KiteAsk : ask.at \in {"idle", "keys", "download"}
    BY DEF KiteAsk, Free
  <2> QED
    BY <2>1, <2>2
<1>3. \A c \in BrokerAsker : upx_ask[c].at \in {"idle", "lock", "download", "parse"}
  <2>1. ASSUME NEW c \in BrokerAsker PROVE upx_ask[c] \in UpstoxAsk
    BY DEF BrokersIInv, UpstoxIInv
  <2>2. \A ask \in UpstoxAsk : ask.at \in {"idle", "lock", "download", "parse"}
    BY DEF UpstoxAsk, Free
  <2> QED
    BY <2>1, <2>2
<1>4. nfo_cache.list \in 0 .. listed /\ nfo_index.list \in 0 .. listed /\ nfo_cache.at \in 0 .. list_time
  BY DEF BrokersIInv, KiteIInv
<1> QED
  BY <1>1, <1>2, <1>3, <1>4 DEF BrokersIInv, ListsTyped, UpstoxIInv, AdapterIInv, BrokersTypeOK

\* Names go through a list that is not out of date, for any number of overlapping downloads,
\* lists and names in a batch (zerodha.py).
THEOREM NamesAreRecentHolds == BrokersSpec => []NamesAreRecent
BY BrokersStart, BrokersStep, BrokersFollow, PTL DEF BrokersSpec

-----------------------------------------------------------------------------
(* The desk as a whole.  A step is a step of one part and a stutter of the *)
(* others.                                                                 *)

\* Every variable of the parts.
paperVars == <<component, feedVars, deskVars, optionVars, riskVars, gateOrderVars, breakerVars, brokersVars>>

\* The parts together, as the run explores them.
PaperSpec == PaperInit /\ [][PaperNext]_paperVars

\* Their invariants, together.
PaperIInv ==
    FeedIInv /\ DeskIInv /\ OptionsIInv /\ OptionRiskIInv /\ GateIInv /\ BreakerIInv /\ BrokersIInv

\* What a step is to each of them.
LEMMA PaperSteps ==
    ASSUME [PaperNext]_paperVars
    PROVE  /\ [FeedNext]_feedVars /\ [DeskNext]_deskVars /\ [OptionsNext]_optionVars
           /\ [OptionRiskNext]_riskVars /\ [RiskGateNext]_gateOrderVars /\ [BreakerNext]_breakerVars
           /\ [BrokersAllNext]_brokersVars
<1>1. CASE PaperNext
  BY <1>1, Zenon DEF PaperNext, BrokersAllNext
<1>2. CASE UNCHANGED paperVars
  BY <1>2, Zenon DEF paperVars
<1> QED
  BY <1>1, <1>2

\* Each starts and steps by itself.
LEMMA PaperKeeps ==
    /\ PaperInit => PaperIInv
    /\ PaperIInv /\ [PaperNext]_paperVars => PaperIInv'
<1>1. PaperInit => /\ FeedInit /\ DeskInit /\ OptionsInit /\ OptionRiskInit /\ RiskGateInit
                   /\ BreakerInit /\ BrokersInit
  BY Zenon DEF PaperInit
<1>2. PaperInit => PaperIInv
  BY <1>1, FeedStart, DeskStart, OptionsStart, OptionRiskStart, GateStart, BreakerStart, BrokersStart DEF PaperIInv
<1>3. PaperIInv /\ [PaperNext]_paperVars => PaperIInv'
  BY PaperSteps, FeedStep, DeskStep, OptionsStep, OptionRiskStep, GateStep, BreakerStep, BrokersStep DEF PaperIInv
<1> QED
  BY <1>2, <1>3

\* Every row, file, order, job and counter of the desk keeps its type, for every value of
\* the constants.
THEOREM PaperTyped == PaperSpec => []PaperTypeOK
<1>1. PaperIInv => PaperTypeOK
  BY DeskFollows, OptionsFollow, OptionRiskFollows, GateFollows, BrokersFollow
  DEF PaperIInv, PaperTypeOK, FeedIInv, BreakerIInv
<1> QED
  BY <1>1, PaperKeeps, PTL DEF PaperSpec

\* A broker is asked rightly: a rejection is lifted by new credentials, jobs get the adapter
\* of the credentials stored now, names go through a list that is not out of date, and a list
\* that cannot be had is not asked for by everyone at once (tick_source.py, factory.py,
\* zerodha.py, upstox_instruments.py).
THEOREM BrokersAsked == PaperSpec => []BrokersAskedRightly
<1>1. PaperIInv => BrokersAskedRightly
  BY BrokersFollow DEF PaperIInv, FeedIInv, BrokersAskedRightly
<1> QED
  BY <1>1, PaperKeeps, PTL DEF PaperSpec

\* A position is its fills, is one entry at most and is not left behind unannounced, next to
\* the other parts (paper_trading.py, paper_subscription_controls.py).
THEOREM BookHonest == PaperSpec => []BookIsHonest
<1>1. PaperIInv => BookIsHonest
  BY DeskFollows DEF PaperIInv
<1> QED
  BY <1>1, PaperKeeps, PTL DEF PaperSpec

\* What can be lost is bounded: a sold option is hedged, a structure loses no more than the
\* loss its stop is measured against, and the gate lets a stop out (paper_options.py,
\* margin.py, risk_gate.py).
THEOREM RiskBounded == PaperSpec => []RiskIsBounded
<1>1. PaperIInv => RiskIsBounded
  BY OptionsFollow, OptionRiskFollows, GateFollows DEF PaperIInv, RiskIsBounded
<1> QED
  BY <1>1, PaperKeeps, PTL DEF PaperSpec
=============================================================================
