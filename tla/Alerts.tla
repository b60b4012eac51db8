------------------------------- MODULE Alerts -------------------------------
(***************************************************************************)
(* Engine alerts: a condition that needs a person opens an episode, the    *)
(* subscribed channels are told once, and told again when it clears        *)
(* (backend/src/orchestration/engine_alerts.py and                         *)
(* engine_alert_watcher.py, api/routes/alertmanager_webhook.py,            *)
(* notifications/dispatch.py and channel_store.py).                        *)
(*                                                                         *)
(* Three sources write episodes: the watcher, once a minute, for the rules *)
(* of the paper desk; Alertmanager's webhook, whose requests overlap; and  *)
(* the trading flow, for things that happened.  A message is sent before   *)
(* the row that remembers it is committed.  The sources write keys of      *)
(* their own: a behaviour follows one of them, with one condition, rule or *)
(* event.                                                                  *)
(***************************************************************************)
EXTENDS Naturals

CONSTANTS
    HookReq,        \* webhook requests that may overlap
    MaxEpisodes,    \* episodes of the Prometheus rule (bound)
    MaxAlertCrashes \* process restarts (bound)

ASSUME AlertsAssumption == MaxEpisodes \in Nat /\ MaxAlertCrashes \in Nat

VARIABLES
    alert_source,  \* the source this behaviour follows
    condition,     \* what the attention rules find: none, warning or critical
    market_open,
    watched,       \* the open episode of the condition
    watch_job,
    rule,          \* the open episode of the Prometheus rule, by number; 0: none
    episodes,      \* episodes of the rule so far
    hook,          \* what each webhook request is doing
    event,         \* an event of the trading flow: recorded, then sent in the background
    told,          \* the newest message about each key
    channel_file,  \* the encrypted file of notification channels
    alert_crashes,
    broken         \* a caller of notify was interrupted by it

alertVars == <<alert_source, condition, market_open, watched, watch_job, rule, episodes, hook,
               event, told, channel_file, alert_crashes, broken>>

Severity == {"warning", "critical"}
Episode == [severity: Severity, notified: BOOLEAN, ripe: BOOLEAN]
NoRow == [severity |-> "none"]
AtRest == [at |-> "idle"]

AlertsInit ==
    /\ alert_source \in {"watcher", "alertmanager", "event"}
    /\ condition = "none" /\ market_open = TRUE /\ watched = NoRow /\ watch_job = AtRest
    /\ rule = 0 /\ episodes = 0 /\ hook = [r \in HookReq |-> AtRest] /\ event = "none"
    /\ told = [k \in {"watched", "rule"} |-> "nothing"]
    /\ channel_file = "good" /\ alert_crashes = 0 /\ broken = FALSE

\* The world: the condition comes, worsens and goes; the market opens and closes.
ConditionChanges(s) ==
    /\ s # condition /\ condition' = s
    /\ UNCHANGED <<market_open, watched, watch_job, rule, episodes, hook, event, told,
                   channel_file, alert_crashes, broken>>
MarketTurns ==
    /\ market_open' = ~market_open
    /\ UNCHANGED <<condition, watched, watch_job, rule, episodes, hook, event, told,
                   channel_file, alert_crashes, broken>>

\* A warning has been open for the confirmation time.
ConfirmationPasses ==
    /\ watched # NoRow /\ ~watched.ripe /\ watch_job = AtRest /\ watched' = [watched EXCEPT !.ripe = TRUE]
    /\ UNCHANGED <<condition, market_open, watch_job, rule, episodes, hook, event, told,
                   channel_file, alert_crashes, broken>>
-----------------------------------------------------------------------------
(* Sending.                                                                *)

\* The list of subscribed channels is read outside the guard around each send: a file
\* that cannot be decrypted raises into the caller.  No file or an empty one is nobody
\* subscribed.  A send that fails is a result, not an error.
notify(key, message) ==
    /\ channel_file # "torn" /\ told' = [told EXCEPT ![key] = message] /\ UNCHANGED broken

notify_raises == channel_file = "torn" /\ broken' = TRUE /\ UNCHANGED told

\* Saving a channel rewrites the whole file in place.
set_config ==
    /\ channel_file # "torn" /\ channel_file' = "good"
    /\ UNCHANGED <<condition, market_open, watched, watch_job, rule, episodes, hook, event,
                   told, alert_crashes, broken>>

\* The process dies inside the write: an empty file or part of one.
WriteCutShort(file) ==
    /\ alert_crashes < MaxAlertCrashes /\ channel_file = "good" /\ channel_file' = file
    /\ alert_crashes' = alert_crashes + 1
    /\ watch_job' = AtRest /\ hook' = [r \in HookReq |-> AtRest]
    /\ event' = IF event = "sending" THEN "lost" ELSE event
    /\ UNCHANGED <<condition, market_open, watched, rule, episodes, told, broken>>
-----------------------------------------------------------------------------
(* The watcher.                                                            *)

\* Mutant: every resolved episode is announced.
announce_resolved_Always(row) == "cleared"

\* Only an episode that was announced is announced as over.
announce_resolved(row) == IF row.notified THEN "cleared" ELSE "none"

announce_opened(row) ==
    IF ~row.notified /\ (row.severity = "critical" \/ row.ripe) THEN "opened" ELSE "none"

\* Mutant: nothing is watched out of market hours.
scope_MarketHours == IF market_open THEN Severity ELSE {}

\* Out of market hours a warning is neither opened nor resolved.
scope == IF market_open THEN Severity ELSE {"critical"}

open_or_refresh(s) ==
    IF watched = NoRow THEN [severity |-> s, notified |-> FALSE, ripe |-> FALSE]
    ELSE [watched EXCEPT !.severity = s]

\* One pass: the episode is opened or refreshed, or resolved when its condition is no
\* longer wanted, and what is to be said follows from the row.
sync_watched ==
    IF condition \in scope
    THEN LET row == open_or_refresh(condition)
             says == announce_opened(row)
         IN  [at |-> "announce", says |-> says,
              row |-> [row EXCEPT !.notified = @ \/ says = "opened"]]
    ELSE IF watched # NoRow /\ watched.severity \in scope
         THEN [at |-> "announce", says |-> announce_resolved(watched), row |-> NoRow]
         ELSE [at |-> "announce", says |-> "none", row |-> watched]

run_engine_alert_watch ==
    /\ watch_job.at = "idle" /\ watch_job' = sync_watched
    /\ UNCHANGED <<condition, market_open, watched, rule, episodes, hook, event, told,
                   channel_file, alert_crashes, broken>>

watch_announces ==
    /\ watch_job.at = "announce"
    /\ \/ /\ watch_job.says = "none" /\ watch_job' = [watch_job EXCEPT !.at = "commit"]
          /\ UNCHANGED <<told, broken>>
       \/ /\ watch_job.says # "none" /\ notify("watched", watch_job.says)
          /\ watch_job' = [watch_job EXCEPT !.at = "commit"]
       \/ watch_job.says # "none" /\ notify_raises /\ watch_job' = AtRest
    /\ UNCHANGED <<condition, market_open, watched, rule, episodes, hook, event,
                   channel_file, alert_crashes>>

watch_commits ==
    /\ watch_job.at = "commit" /\ watch_job' = AtRest /\ watched' = watch_job.row
    /\ UNCHANGED <<condition, market_open, rule, episodes, hook, event, told,
                   channel_file, alert_crashes, broken>>
-----------------------------------------------------------------------------
(* Alertmanager's webhook.                                                 *)

SetHook(r, job) == hook' = [hook EXCEPT ![r] = job]
HookOnly == UNCHANGED <<condition, market_open, watched, watch_job, event, channel_file, alert_crashes>>

\* A rule that is firing: an open episode is only refreshed.
webhook_firing(r) ==
    /\ hook[r].at = "idle" /\ rule = 0 /\ SetHook(r, [at |-> "insert"])
    /\ HookOnly /\ UNCHANGED <<rule, episodes, told, broken>>

\* A rule that resolved: an unknown episode is ignored.  Only announced episodes are
\* ever committed here, so that the end is announced too.
webhook_resolved(r) ==
    /\ hook[r].at = "idle" /\ rule # 0
    /\ SetHook(r, [at |-> "announce", closes |-> rule,
                   says |-> announce_resolved([notified |-> TRUE])])
    /\ HookOnly /\ UNCHANGED <<rule, episodes, told, broken>>

Inserted(r) == hook[r].at \in {"announce", "commit"} /\ hook[r].closes = 0

\* The unique index on open episodes makes an insert wait for another's transaction.
insert_episode(r) ==
    /\ hook[r].at = "insert" /\ ~\E q \in HookReq : Inserted(q)
    /\ episodes < MaxEpisodes
    /\ SetHook(r, IF rule = 0 THEN [at |-> "announce", says |-> "opened", closes |-> 0]
                  ELSE [at |-> "winner"])
    /\ HookOnly /\ UNCHANGED <<rule, episodes, told, broken>>

\* The loser of the insert refreshes the winner's row, or fails when that row has been
\* resolved meanwhile: a failed request is delivered again.
refresh_winner(r) ==
    /\ hook[r].at = "winner" /\ SetHook(r, AtRest)
    /\ HookOnly /\ UNCHANGED <<rule, episodes, told, broken>>

webhook_announces(r) ==
    /\ hook[r].at = "announce"
    /\ \/ notify("rule", hook[r].says) /\ SetHook(r, [hook[r] EXCEPT !.at = "commit"])
       \/ notify_raises /\ SetHook(r, AtRest)
    /\ HookOnly /\ UNCHANGED <<rule, episodes>>

webhook_commits(r) ==
    /\ hook[r].at = "commit" /\ SetHook(r, AtRest)
    /\ IF hook[r].closes = 0 THEN rule' = episodes + 1 /\ episodes' = episodes + 1
       ELSE rule' = (IF rule = hook[r].closes THEN 0 ELSE rule) /\ UNCHANGED episodes
    /\ HookOnly /\ UNCHANGED <<told, broken>>
-----------------------------------------------------------------------------
(* Events of the trading flow.                                             *)

EventOnly == UNCHANGED <<condition, market_open, watched, watch_job, rule, episodes, hook, told,
                         channel_file, alert_crashes, broken>>

\* Recorded as notified at once; the message is a task in the background, whose failure
\* is only logged.
record_event_safely == event = "none" /\ event' = "sending" /\ EventOnly
_announce_in_background ==
    /\ event = "sending" /\ event' = IF channel_file = "torn" THEN "lost" ELSE "sent"
    /\ EventOnly

AlertsRestart ==
    /\ alert_crashes < MaxAlertCrashes /\ alert_crashes' = alert_crashes + 1
    /\ watch_job' = AtRest /\ hook' = [r \in HookReq |-> AtRest]
    /\ event' = IF event = "sending" THEN "lost" ELSE event
    /\ UNCHANGED <<condition, market_open, watched, rule, episodes, told, channel_file, broken>>

WatchStep == run_engine_alert_watch \/ watch_announces \/ watch_commits
WatcherActs == alert_source = "watcher" /\ WatchStep /\ UNCHANGED alert_source
TimePasses == alert_source = "watcher" /\ ConfirmationPasses /\ UNCHANGED alert_source

AlertsNext ==
    /\ UNCHANGED alert_source
    /\ \/ set_config
       \/ \E file \in {"empty", "torn"} : WriteCutShort(file)
       \/ AlertsRestart
       \/ /\ alert_source = "watcher"
          /\ \/ \E s \in Severity \cup {"none"} : ConditionChanges(s)
             \/ MarketTurns \/ ConfirmationPasses \/ WatchStep
       \/ /\ alert_source = "alertmanager"
          /\ \E r \in HookReq : \/ webhook_firing(r) \/ webhook_resolved(r) \/ insert_episode(r)
                                \/ refresh_winner(r) \/ webhook_announces(r) \/ webhook_commits(r)
       \/ alert_source = "event" /\ (record_event_safely \/ _announce_in_background)

-----------------------------------------------------------------------------
AlertsTypeOK ==
    /\ condition \in Severity \cup {"none"} /\ market_open \in BOOLEAN
    /\ watched \in {NoRow} \cup Episode
    /\ rule \in 0 .. MaxEpisodes /\ episodes \in 0 .. MaxEpisodes
    /\ event \in {"none", "sending", "sent", "lost"}
    /\ channel_file \in {"good", "empty", "torn"} /\ broken \in BOOLEAN
    /\ told \in [{"watched", "rule"} -> {"nothing", "opened", "cleared"}]

(* Nobody is told that something is over which they were never told had begun,       *)
(* whatever restarts, overlapping webhooks and unconfirmed warnings come between     *)
(* (announce_resolved, _announce in sync_watched).                                   *)
ClearedAfterOpened ==
    [][\A k \in DOMAIN told :
         told'[k] = "cleared" /\ told[k] # "cleared" => told[k] = "opened"]_told

(* Under a fair watcher a critical condition that lasts is announced, and its end is *)
(* announced too.  A restart between a message and the commit that remembers it can  *)
(* cost the next message about the same episode, never the first; a channel file     *)
(* that cannot be read excuses both (run_engine_alert_watch, sync_watched).          *)
OperatorLearns ==
    /\ condition = "critical"
         ~> \/ told["watched"] = "opened" \/ condition # "critical" \/ channel_file = "torn"
            \/ told["watched"] = "cleared" /\ alert_crashes > 0
    /\ condition = "none" /\ told["watched"] = "opened" /\ market_open
         ~> \/ told["watched"] = "cleared" \/ condition # "none" \/ ~market_open
            \/ channel_file = "torn" \/ alert_crashes > 0

(* "Never raises. A caller ... must never have its own transaction/flow broken by a  *)
(* notification failure" (the header of notifications/dispatch.py).                  *)
NotifyNeverRaises == ~broken
=============================================================================
