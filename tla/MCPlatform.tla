----------------------------- MODULE MCPlatform -----------------------------
(***************************************************************************)
(* The components the desk stands on, for TLC: who may come in and stay,   *)
(* the audit chain, the gateway and its connections, backups and jobs, and *)
(* the agents with their router, memory, sandbox, prompts and viewers.     *)
(*                                                                         *)
(* They share no state, so a behaviour explores one of them and leaves the *)
(* others in one fixed initial state: the state spaces add up instead of   *)
(* multiplying.  Components names the ones a run explores.                 *)
(***************************************************************************)
EXTENDS Accounts, Sessions, AuditLog, Connections, Inbound, Gateway, Backups, JobSchedules,
        PlanGraph, PromptVersions, LlmRouter, Memory, LiveFeeds, Sandbox, AgentPipeline

CONSTANT Components

VARIABLE component   \* the one explored

Fixed(c, b) == component # c => b

PlatformInit ==
    /\ component \in Components
    /\ AccountsInit /\ SessionsInit /\ AuditInit /\ ConnectionsInit /\ GatewayInit
    /\ BackupsInit /\ JobsInit /\ PromptInit /\ FeedsInit /\ PlanGraphInit
    /\ InboundInit    /\ Fixed("inbound", chat = "slack")
    /\ LlmRouterInit  /\ Fixed("llm", order = CHOOSE o \in Orders : TRUE)
    /\ MemoryInit     /\ Fixed("memory", env_choice = "none")
    /\ create_session /\ Fixed("chat", ~ pinned_model)
    /\ SandboxInit    /\ Fixed("sandbox", runtime = "process")
    /\ PipelineInit   /\ Fixed("pipeline", off = {})

PlatformNext ==
    /\ UNCHANGED component
    /\ IF component = "accounts"    THEN AccountsNext    ELSE UNCHANGED accountsVars
    /\ IF component = "sessions"    THEN SessionsNext    ELSE UNCHANGED sessionsVars
    /\ IF component = "audit"       THEN AuditNext       ELSE UNCHANGED auditVars
    /\ IF component = "connections" THEN ConnectionsNext ELSE UNCHANGED connectionVars
    /\ IF component = "inbound"     THEN InboundNext     ELSE UNCHANGED inboundVars
    /\ IF component = "gateway"     THEN GatewayNext     ELSE UNCHANGED gatewayVars
    /\ IF component = "backups"     THEN BackupsNext     ELSE UNCHANGED backupVars
    /\ IF component = "jobs"        THEN JobsNext        ELSE UNCHANGED jobVars
    /\ IF component = "prompts"     THEN PromptNext      ELSE UNCHANGED promptVars
    /\ IF component = "llm"         THEN LlmRouterNext   ELSE UNCHANGED routerVars
    /\ IF component = "memory"      THEN MemoryNext      ELSE UNCHANGED memoryVars
    /\ IF component = "chat"        THEN ChatNext        ELSE UNCHANGED chatVars
    /\ IF component = "feeds"       THEN FeedsNext       ELSE UNCHANGED feedsVars
    /\ IF component = "sandbox"     THEN SandboxNext     ELSE UNCHANGED sandboxVars
    /\ IF component = "pipeline"    THEN PipelineNext    ELSE UNCHANGED pipelineVars
    /\ IF component = "planner"     THEN PlanGraphNext   ELSE UNCHANGED planGraphVars

-----------------------------------------------------------------------------
\* Every table row, file, cache and job of every component has its type.
PlatformTypeOK ==
    /\ AccountsTypeOK /\ SessionsTypeOK /\ AuditTypeOK /\ ConnectionsTypeOK /\ InboundTypeOK
    /\ GatewayTypeOK /\ BackupsTypeOK /\ JobsTypeOK /\ PromptTypeOK /\ LlmRouterTypeOK
    /\ MemoryTypeOK /\ ChatTypeOK /\ FeedsTypeOK /\ SandboxTypeOK /\ PipelineTypeOK
    /\ PlanGraphTypeOK

(* Access is what it was made to be: there is an administrator, an ended session     *)
(* stays ended, and a broker's token goes with the key it was issued for             *)
(* (routes/admin.py, routes/auth.py, broker_oauth.py).                               *)
AccessHolds == SomeAdministrator /\ SessionEndIsFinal /\ TokenOfItsKey

(* What may happen once happens once: a message delivered twice starts one run, of   *)
(* two edits of one configuration version one is applied, and a pipeline run has one *)
(* ending (webhooks.py, gateway/service.py, pipeline_events.py).                     *)
OnceOnly == OneRunPerMessage /\ OneEditPerVersion /\ EndedOnce

(* What was kept or sent can be had again: a backup, a job's schedule, a lesson, an  *)
(* answer nobody stopped, the events of a run                                        *)
(* (pg_backup.py, job_schedule_store.py, memory/service.py, chat.py, events.py).     *)
WhatIsKeptStays ==
    BackupsCanBeTrusted /\ ScheduleSurvives /\ RememberedStays /\ AbortedWasAsked /\ NothingMissed

(* What the agents are held to: an answer of one model, code judged as the caller's  *)
(* own, and no plan started whose tasks could wait for one another or run out of the *)
(* safety order (llm_router.py, warm_pool.py, planner.py).                           *)
AgentsAreHeld == OneVoice /\ AnswerIsOwn /\ PlanVerdict

-----------------------------------------------------------------------------
AllComponents == {"accounts", "sessions", "audit", "connections", "inbound", "gateway",
                  "backups", "jobs", "prompts", "llm", "memory", "chat", "feeds", "sandbox",
                  "pipeline", "planner"}

PlanKeys == {"news", "sentiment", "market_analysis", "portfolio_read"} \union Range(SAFETY_ORDER)

Specs(K, C, n) == [key : K, capability : C, depends_on : BoundedSeq(K, n)]

\* Every plan of three tasks with at most two dependencies each, over a capability outside
\* the safety order and two inside it.  Of plans that differ by the order of their tasks
\* alone, one whose capabilities are sorted is kept.
ThreeTasks ==
    LET K == <<"news", "sentiment", "portfolio_read">>
        rank == [c \in {"stub", "code_validation", "backtesting"} |->
                    CASE c = "stub" -> 0 [] c = "code_validation" -> 1 [] c = "backtesting" -> 2]
    IN  {g \in [1 .. 3 -> Specs(Range(K), DOMAIN rank, 2)] :
           /\ \A i \in 1 .. 3 : g[i].key = K[i]
           /\ \A i \in 1 .. 2 : rank[g[i].capability] <= rank[g[i + 1].capability]}

\* Plans with an unknown capability, a key used twice or a dependency on no task.
WrongNames ==
    {g \in [1 .. 3 -> Specs({"news", "sentiment", "backtesting"}, {"unknown", "backtesting"}, 1)] :
        g[1].key = "news" /\ g[2].key = "sentiment" /\ g[3].key # "backtesting"}

SmallPlans == ThreeTasks \union WrongNames \union {<<>>, fake_llm_planner}
=============================================================================
