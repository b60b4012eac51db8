------------------------------ MODULE Inbound -------------------------------
(***************************************************************************)
(* Instructions that arrive over a chat channel                            *)
(* (backend/src/api/routes/webhooks.py, notifications/replay_guard.py,     *)
(* verification.py, inbound_router.py and core/rate_limit.py).             *)
(*                                                                         *)
(* One message of one sender, which the channel delivers at least once and *)
(* anyone may send again later.  Time is counted in units of Slack's       *)
(* timestamp tolerance, five minutes; a replay key lives two of them and a *)
(* request less than one.  A signature that does not verify, a channel     *)
(* that is off and a message that is no text end a delivery without a      *)
(* trace.                                                                  *)
(***************************************************************************)
EXTENDS Naturals, Sequences

CONSTANTS
    Delivery,       \* deliveries of the message
    MaxClock,       \* the last moment looked at (bound)
    RateLimit       \* messages of a sender per window

ASSUME InboundAssumption == MaxClock \in Nat \ {0} /\ RateLimit \in Nat \ {0}

VARIABLES
    chat,           \* slack, telegram or discord
    clock,
    replay_key,     \* when the replay key of the message expires; 0: not set
    window_count,   \* the sender's messages in the current window of a minute
    delivery,       \* what each delivery is doing
    allowed,        \* the sender is on the allowlist and the channel is on
    runs_started    \* when an organization run was started for the message

inboundVars == <<chat, clock, replay_key, window_count, delivery, allowed, runs_started>>

Chat == {"slack", "telegram", "discord"}

InboundInit ==
    /\ chat \in Chat /\ clock = 1 /\ replay_key = 0 /\ window_count = 0
    /\ delivery = [d \in Delivery |-> "none"] /\ allowed = TRUE /\ runs_started = <<>>

Moves(d, at) == delivery' = [delivery EXCEPT ![d] = at]

InHand(d) == delivery[d] \in {"verified", "recorded", "routed"}

Tick ==
    /\ clock < MaxClock /\ (\A d \in Delivery : ~InHand(d)) /\ clock' = clock + 1
    /\ window_count' = 0
    /\ UNCHANGED <<chat, replay_key, delivery, allowed, runs_started>>

WindowTurns ==
    /\ window_count > 0 /\ window_count' = 0
    /\ UNCHANGED <<chat, clock, replay_key, delivery, allowed, runs_started>>

write_channel ==
    /\ allowed' = ~allowed
    /\ UNCHANGED <<chat, clock, replay_key, window_count, delivery, runs_started>>

ToleranceUnits == 1
ReplayTtlUnits_Short == 1
ReplayTtlUnits == 2

\* The message was signed at moment 1.  Slack's signature covers its age; Telegram's
\* secret and Discord's signature do not.
verify_slack_signature == clock - 1 <= ToleranceUnits

Accepted(d) ==
    /\ delivery[d] = "none" /\ allowed /\ Moves(d, "verified")
    /\ UNCHANGED <<chat, clock, replay_key, window_count, allowed, runs_started>>

telegram_webhook(d) == chat = "telegram" /\ Accepted(d)
discord_webhook(d) == chat = "discord" /\ Accepted(d)
slack_webhook(d) == chat = "slack" /\ verify_slack_signature /\ Accepted(d)

\* SET NX EX: one of two deliveries at once is the first.  The key is set before
\* anything is done for the message.
check_and_record_replay(d) ==
    /\ delivery[d] = "verified"
    /\ IF clock < replay_key THEN Moves(d, "replayed") /\ UNCHANGED replay_key
       ELSE Moves(d, "recorded") /\ replay_key' = clock + ReplayTtlUnits
    /\ UNCHANGED <<chat, clock, window_count, allowed, runs_started>>

fixed_window_increment == window_count' = window_count + 1

check_rate_limit(d) ==
    /\ delivery[d] = "recorded" /\ fixed_window_increment
    /\ Moves(d, IF window_count' <= RateLimit THEN "routed" ELSE "limited")
    /\ UNCHANGED <<chat, clock, replay_key, allowed, runs_started>>

\* The channel's settings are read again.  An instruction starts a run and is answered;
\* a question is only answered.
classify_message == {"objective", "query"}

\* A reply the channel does not take is a result, not an error.
send_to_channel == {"answered", "unanswered"}

route_inbound_message(d, class, reply) ==
    /\ delivery[d] = "routed"
    /\ IF ~allowed THEN Moves(d, "refused") /\ UNCHANGED runs_started
       ELSE /\ Moves(d, reply)
            /\ runs_started' = IF class = "objective" THEN Append(runs_started, clock)
                               ELSE runs_started
    /\ UNCHANGED <<chat, clock, replay_key, window_count, allowed>>

\* The process dies with the delivery in hand.
DeliveryFails(d) ==
    /\ InHand(d) /\ Moves(d, "failed")
    /\ UNCHANGED <<chat, clock, replay_key, window_count, allowed, runs_started>>

InboundNext ==
    \/ Tick \/ WindowTurns \/ write_channel
    \/ \E d \in Delivery : \/ telegram_webhook(d) \/ discord_webhook(d) \/ slack_webhook(d)
                           \/ check_and_record_replay(d) \/ check_rate_limit(d)
                           \/ \E class \in classify_message, reply \in send_to_channel :
                                route_inbound_message(d, class, reply)
                           \/ DeliveryFails(d)
-----------------------------------------------------------------------------
InboundTypeOK ==
    /\ chat \in Chat /\ clock \in 1 .. MaxClock /\ allowed \in BOOLEAN
    /\ delivery \in [Delivery -> {"none", "verified", "replayed", "recorded", "limited",
                                  "routed", "refused", "failed"}
                                 \cup send_to_channel]

(* A message delivered again and again, at once or later, starts one run while its   *)
(* replay key lives; for Slack, whose signature ages, it starts one run ever, since   *)
(* the key outlives the signature (check_and_record_replay before routing, and the   *)
(* time to live against SLACK_TIMESTAMP_TOLERANCE_SECONDS).                          *)
OneRunPerMessage ==
    /\ \A i, j \in DOMAIN runs_started : i < j => runs_started[j] >= runs_started[i] + 2
    /\ chat = "slack" => Len(runs_started) <= 1
=============================================================================
