------------------------------ MODULE TickFeed ------------------------------
(***************************************************************************)
(* The price feed of the paper desk: the brokers asked in turn, what the   *)
(* process remembers of a broker that refused its credentials, and the     *)
(* back-off of a symbol that keeps failing                                 *)
(* (backend/src/brokers/{tick_source,feed_health}.py and                   *)
(* engine/paper_trading/tick_feed.py).                                     *)
(*                                                                         *)
(* One publish job runs at a time (the scheduler allows one instance) and  *)
(* asks broker 1, then broker 2, for one symbol.  The console changes the  *)
(* credentials while it waits for a broker.  Clocks are what they decide:  *)
(* a suspension or a back-off holds or is over.                            *)
(***************************************************************************)
EXTENDS Naturals

CONSTANT MaxCredentials   \* credential changes of a broker (bound)

ASSUME TickFeedAssumption == MaxCredentials \in Nat \ {0}

VARIABLES
    credentials,   \* version of the stored credentials; 0: none
    accepted,      \* the broker still accepts them
    source,        \* the cached tick source: its fingerprint and suspensions
    rejections,    \* feed_health: brokers known to have refused the credentials
    backoff,       \* the symbol's back-off: its step and whether it still holds
    feed_job,      \* the publish job
    quote_state    \* the newest outcome for the symbol

feedVars == <<credentials, accepted, source, rejections, backoff, feed_job, quote_state>>

Broker == 1 .. 2
Asleep == [at |-> "idle"]
NoBackoff == [step |-> 0, holds |-> FALSE]
NoSource == [fingerprint |-> [b \in Broker |-> MaxCredentials + 1],
             suspended |-> [b \in Broker |-> "no"]]

FeedInit ==
    /\ credentials \in [Broker -> 0 .. 1] /\ accepted = [b \in Broker |-> TRUE]
    /\ source = NoSource /\ rejections = {} /\ backoff = NoBackoff
    /\ feed_job = Asleep /\ quote_state = "none"

Connected == {b \in Broker : credentials[b] > 0}
-----------------------------------------------------------------------------
(* The console and the broker.                                             *)

\* New keys or a fresh token: what the broker said of the old ones is forgotten.
set_credentials(b) ==
    /\ credentials[b] < MaxCredentials
    /\ credentials' = [credentials EXCEPT ![b] = @ + 1]
    /\ accepted' = [accepted EXCEPT ![b] = TRUE] /\ rejections' = rejections \ {b}
    /\ UNCHANGED <<source, backoff, feed_job, quote_state>>

\* external: a token expires or is revoked at the broker.
TokenLapses(b) ==
    /\ b \in Connected /\ accepted[b] /\ accepted' = [accepted EXCEPT ![b] = FALSE]
    /\ UNCHANGED <<credentials, source, rejections, backoff, feed_job, quote_state>>

SuspensionEnds(b) ==
    /\ source.suspended[b] = "held" /\ source' = [source EXCEPT !.suspended[b] = "due"]
    /\ UNCHANGED <<credentials, accepted, rejections, backoff, feed_job, quote_state>>

BackoffEnds ==
    /\ backoff.holds /\ backoff' = [backoff EXCEPT !.holds = FALSE]
    /\ UNCHANGED <<credentials, accepted, source, rejections, feed_job, quote_state>>
-----------------------------------------------------------------------------
(* The publish job.                                                        *)

Current == source.fingerprint = credentials

get_tick_source_Keeps ==
    /\ source' = IF Current THEN source
                 ELSE [fingerprint |-> credentials, suspended |-> [b \in Broker |-> "no"]]
    /\ backoff' = IF Current \/ source = NoSource THEN backoff ELSE NoBackoff
    /\ UNCHANGED rejections

\* A change of credentials builds a new source, and with it forgets the rejections and
\* every back-off of the old one.
get_tick_source ==
    /\ source' = IF Current THEN source
                 ELSE [fingerprint |-> credentials, suspended |-> [b \in Broker |-> "no"]]
    /\ rejections' = IF Current THEN rejections ELSE {}
    /\ backoff' = IF Current \/ source = NoSource THEN backoff ELSE NoBackoff

\* A symbol still backed off is counted as failed without asking anyone, and no broker
\* connected is a feed that says so.
publish_ticks_once ==
    /\ feed_job.at = "idle" /\ get_tick_source
    /\ feed_job' = IF backoff'.holds \/ Connected = {} THEN Asleep
                   ELSE [at |-> "asking", broker |-> 1, unavailable |-> {}]
    /\ UNCHANGED <<credentials, accepted, quote_state>>

\* The call of broker b with the credentials the source was built from.
Asks(b) == feed_job.at = "asking" /\ feed_job.broker = b
Accepts(b) == source.fingerprint[b] = credentials[b] /\ accepted[b]

symbol_failed ==
    backoff' = [step |-> IF backoff.step < 2 THEN backoff.step + 1 ELSE 2, holds |-> TRUE]

\* On to the next broker; after the last one the symbol has failed, unless every broker
\* was unavailable, which is the feed's failure and not the symbol's.
next_broker(b, down) ==
    LET unavailable == feed_job.unavailable \cup down
    IN  IF b = 1 THEN /\ feed_job' = [feed_job EXCEPT !.broker = 2, !.unavailable = unavailable]
                      /\ UNCHANGED <<backoff, quote_state>>
        ELSE /\ feed_job' = Asleep
             /\ IF unavailable = Broker THEN UNCHANGED <<backoff, quote_state>>
                ELSE symbol_failed /\ quote_state' = "failed"

\* Not connected, or suspended and not yet due a probe: nothing is sent.
not_polled(b) ==
    /\ Asks(b) /\ (source.fingerprint[b] = 0 \/ source.suspended[b] = "held")
    /\ next_broker(b, {b})
    /\ UNCHANGED <<credentials, accepted, source, rejections>>

Polled(b) == Asks(b) /\ source.fingerprint[b] > 0 /\ source.suspended[b] # "held"

\* HTTP 401/403: the broker is left alone for a while and the rejection is kept for the
\* console, the reminder and the alerts.
_guarded_rejected(b) ==
    /\ Polled(b) /\ ~Accepts(b)
    /\ source' = [source EXCEPT !.suspended[b] = "held"] /\ rejections' = rejections \cup {b}
    /\ next_broker(b, {b}) /\ UNCHANGED <<credentials, accepted>>

\* Any answer after a suspension lifts it.
Answered(b) ==
    IF source.suspended[b] = "no" THEN UNCHANGED <<source, rejections>>
    ELSE source' = [source EXCEPT !.suspended[b] = "no"] /\ rejections' = rejections \ {b}

quote_published(b) ==
    /\ Polled(b) /\ Accepts(b) /\ Answered(b)
    /\ feed_job' = Asleep /\ backoff' = NoBackoff /\ quote_state' = "published"
    /\ UNCHANGED <<credentials, accepted>>

\* The exchange's own stamp is too old: the symbol is settled as refused, without a
\* back-off and without asking the next broker.
quote_refused(b) ==
    /\ Polled(b) /\ Accepts(b) /\ Answered(b)
    /\ feed_job' = Asleep /\ quote_state' = "refused"
    /\ UNCHANGED <<credentials, accepted, backoff>>

\* No price for the symbol, or an outage of the broker.
quote_missing(b, outage) ==
    /\ Polled(b)
    /\ IF outage THEN UNCHANGED <<source, rejections>> ELSE Accepts(b) /\ Answered(b)
    /\ next_broker(b, {}) /\ UNCHANGED <<credentials, accepted>>

FeedNext ==
    \/ \E b \in Broker : \/ set_credentials(b) \/ TokenLapses(b) \/ SuspensionEnds(b)
                         \/ not_polled(b) \/ _guarded_rejected(b)
                         \/ quote_published(b) \/ quote_refused(b)
                         \/ \E outage \in BOOLEAN : quote_missing(b, outage)
    \/ BackoffEnds \/ publish_ticks_once
-----------------------------------------------------------------------------
FeedTypeOK ==
    /\ credentials \in [Broker -> 0 .. MaxCredentials] /\ accepted \in [Broker -> BOOLEAN]
    /\ source.suspended \in [Broker -> {"no", "held", "due"}]
    /\ rejections \subseteq Broker /\ backoff \in [step: 0 .. 2, holds: BOOLEAN]
    /\ quote_state \in {"none", "published", "refused", "failed"}

(* A rejection the console shows is one the source in use is suspended for, so that  *)
(* the first answer of the broker clears it: a rejection recorded by a call that was *)
(* in flight while the credentials were replaced never outlives the next publish     *)
(* (_RefreshingTickSource.__call__ and BrokerQuoteTickSource._guarded).              *)
RejectionCanClear ==
    \A b \in rejections : Current => source.suspended[b] # "no"
=============================================================================
