------------------------------ MODULE DataLake ------------------------------
(***************************************************************************)
(* The daily price history of one symbol, and the jobs and requests that   *)
(* fetch it (backend/src/data/lake.py, broker_provider.py, providers.py,   *)
(* bhavcopy.py, backup.py, orchestration/market_data.py and                *)
(* market_data_scheduler.py).                                              *)
(*                                                                         *)
(* A fetch chooses its broker, waits for the candles, and stores them;     *)
(* several may be under way at once.  Brokers connect and disconnect.  The *)
(* history is one file, rewritten in place.                                *)
(***************************************************************************)
EXTENDS Naturals, FiniteSets

CONSTANTS
    Feed,           \* the brokers
    Fetcher,        \* fetches that may be under way
    MaxLakeDays,    \* trading days looked at (bound)
    MinHistory,     \* MIN_HISTORY_ROWS
    RepairDays      \* REPAIR_WINDOW_DAYS

ASSUME DataLakeAssumption ==
    /\ MaxLakeDays \in Nat \ {0} /\ MinHistory \in Nat /\ RepairDays \in Nat
    /\ Feed \cap {"none", "unknown", "synthetic"} = {}

VARIABLES
    synthetic_mode, \* the generated provider is configured
    linked,         \* brokers that are connected
    lake_day, session_over,  \* the newest trading day, and whether it has closed
    bars,           \* by day: the source of the stored bar, unknown, or none
    forming,        \* days whose stored bar was taken before the day had closed
    torn_file,      \* the process died inside a write
    fetch,          \* what each fetch is doing
    fresh_days,     \* freshness records
    lake_copy,      \* there is a nightly copy
    overlapped      \* history: fetches from two sources have been under way at once

lakeVars == <<synthetic_mode, linked, lake_day, session_over, bars, forming, torn_file, fetch,
              fresh_days, lake_copy, overlapped>>

LakeDay == 1 .. MaxLakeDays
UNREAL == {"none", "unknown", "synthetic"}
NoFetch == [at |-> "idle"]

LakeInit ==
    /\ synthetic_mode \in BOOLEAN /\ linked \in SUBSET Feed /\ lake_day = 1 /\ session_over = FALSE
    /\ bars = [d \in LakeDay |-> "none"] /\ forming = {} /\ torn_file = FALSE
    /\ fetch = [f \in Fetcher |-> NoFetch] /\ fresh_days = {} /\ lake_copy = FALSE
    /\ overlapped = FALSE

\* A broker is connected, or its connection ends.
Links(b) ==
    /\ linked' = IF b \in linked THEN linked \ {b} ELSE linked \cup {b}
    /\ UNCHANGED <<synthetic_mode, lake_day, session_over, bars, forming, torn_file, fetch,
                   fresh_days, lake_copy, overlapped>>

\* The session closes; then the next one opens.
LakeClock ==
    /\ IF session_over THEN lake_day < MaxLakeDays /\ lake_day' = lake_day + 1 /\ session_over' = FALSE
       ELSE session_over' = TRUE /\ UNCHANGED lake_day
    /\ UNCHANGED <<synthetic_mode, linked, bars, forming, torn_file, fetch, fresh_days, lake_copy,
                   overlapped>>
-----------------------------------------------------------------------------
(* Reading.                                                                *)

_real_mask == {d \in LakeDay : bars[d] \notin UNREAL}
_real_history_state == Cardinality(_real_mask)

\* The source of the newest real bar.
pinned_source ==
    IF _real_mask = {} THEN "none" ELSE bars[CHOOSE d \in _real_mask : \A e \in _real_mask : e <= d]

\* Mutant: another broker serves a symbol whose own is not connected.
history_adapter_AnyBroker == linked

\* The pinned broker, or nothing when it is not connected; without a pin, one that lists
\* the symbol.
history_adapter == IF pinned_source = "none" THEN linked ELSE linked \cap {pinned_source}
-----------------------------------------------------------------------------
(* Fetching.                                                               *)

SetFetch(f, job) == fetch' = [fetch EXCEPT ![f] = job]
FetchOnly == UNCHANGED <<synthetic_mode, linked, lake_day, session_over, lake_copy>>
BarsKept == UNCHANGED <<bars, forming, torn_file, fresh_days>>

start_fetch(f, days, purge) ==
    /\ fetch[f] = NoFetch /\ ~torn_file
    /\ \E source \in IF synthetic_mode THEN {"synthetic"} ELSE history_adapter :
          /\ SetFetch(f, [at |-> "candles", days |-> days, source |-> source, purge |-> purge])
          /\ overlapped' = (overlapped \/ \E g \in Fetcher :
                              fetch[g] # NoFetch /\ fetch[g].source # source)
    /\ FetchOnly /\ BarsKept

run_incremental_daily_job(f) == start_fetch(f, {lake_day}, FALSE)
run_daily_ingestion_endpoint(f) == \E d \in 1 .. lake_day : start_fetch(f, {d}, FALSE)
run_symbol_history_backfill(f) == start_fetch(f, 1 .. lake_day, TRUE)

\* A long history is fetched again when there is little of it; else the days since the
\* newest bar, and a few more, without removing anything.
run_history_gap_repair(f) ==
    IF _real_history_state < MinHistory THEN run_symbol_history_backfill(f)
    ELSE LET newest == CHOOSE d \in _real_mask : \A e \in _real_mask : e <= d
             gap == lake_day - newest + 2
             days == IF gap > RepairDays THEN gap ELSE RepairDays
         IN  start_fetch(f, {d \in 1 .. lake_day : lake_day <= d + days}, FALSE)

\* The broker's answer holds the forming bar of a day that is still open.
daily_bars(f) ==
    /\ fetch[f].at = "candles"
    /\ SetFetch(f, [at |-> "store", days |-> fetch[f].days, source |-> fetch[f].source,
                    purge |-> fetch[f].purge, open |-> IF session_over THEN 0 ELSE lake_day])
    /\ FetchOnly /\ BarsKept /\ UNCHANGED overlapped

\* A fetch that fails is an outcome on record and stores nothing.
fetch_fails(f) ==
    /\ fetch[f] # NoFetch /\ SetFetch(f, NoFetch)
    /\ FetchOnly /\ BarsKept /\ UNCHANGED overlapped

\* Whether today's bar is final is asked after the answer has come.
Final(job) == {d \in job.days : synthetic_mode \/ session_over \/ d < lake_day}

purge_unreal_daily_rows(job) ==
    [d \in LakeDay |-> IF job.purge /\ bars[d] \in UNREAL THEN "none" ELSE bars[d]]

\* The new bars replace those of the same day.
_write_partitioned(rows, days, from) == [d \in LakeDay |-> IF d \in days THEN from ELSE rows[d]]

\* The record of freshness is of the newest day stored.
_upsert_freshness_record(days) ==
    fresh_days' = fresh_days \cup {d \in days : \A e \in days : e <= d}

write_daily_bars(f) ==
    LET job == fetch[f]
        stored == Final(job)
    IN  /\ job.at = "store" /\ stored # {} /\ ~torn_file
        /\ bars' = _write_partitioned(purge_unreal_daily_rows(job), stored, job.source)
        /\ forming' = (forming \ stored) \cup (stored \cap {job.open})
        /\ _upsert_freshness_record(stored)
        /\ SetFetch(f, NoFetch)
        /\ FetchOnly /\ UNCHANGED <<torn_file, overlapped>>

\* The process dies inside the write; every later read of the file fails.
LakeProcessDies ==
    /\ \E f \in Fetcher : fetch[f] # NoFetch /\ fetch[f].at = "store" /\ torn_file' = TRUE
    /\ fetch' = [f \in Fetcher |-> NoFetch]
    /\ FetchOnly /\ UNCHANGED <<bars, forming, fresh_days, overlapped>>

\* The exchange's file, or generated bars when it cannot be had: neither is a real source.
run_bhavcopy_fallback(d, fetched) ==
    /\ d <= lake_day /\ ~torn_file
    /\ bars' = _write_partitioned(bars, {d}, IF fetched THEN "unknown" ELSE "synthetic")
    /\ forming' = forming \ {d} /\ _upsert_freshness_record({d})
    /\ FetchOnly /\ UNCHANGED <<fetch, torn_file, overlapped>>

create_backup == ~torn_file   \* every file copied is read, and one that cannot be read raises

\* The nightly copy; a copy that raises leaves no manifest and no record.
run_nightly_backup ==
    /\ create_backup /\ lake_copy' = TRUE
    /\ UNCHANGED <<synthetic_mode, linked, lake_day, session_over, bars, forming, torn_file, fetch,
                   fresh_days, overlapped>>

LakeNext ==
    \/ \E b \in Feed : Links(b)
    \/ LakeClock
    \/ \E f \in Fetcher :
          \/ run_incremental_daily_job(f) \/ run_history_gap_repair(f)
          \/ run_symbol_history_backfill(f) \/ run_daily_ingestion_endpoint(f)
          \/ daily_bars(f) \/ fetch_fails(f) \/ write_daily_bars(f)
    \/ LakeProcessDies
    \/ \E d \in LakeDay, fetched \in BOOLEAN : run_bhavcopy_fallback(d, fetched)
    \/ run_nightly_backup
-----------------------------------------------------------------------------
LakeTypeOK ==
    /\ linked \subseteq Feed /\ lake_day \in LakeDay /\ bars \in [LakeDay -> Feed \cup UNREAL]
    /\ forming \subseteq LakeDay /\ fresh_days \subseteq LakeDay
    /\ lake_copy \in BOOLEAN

(* "A symbol's history is pinned to the source it started with and never blended with *)
(* another": unless fetches from two brokers were once under way together, all real   *)
(* bars are of one broker, whatever connects, fails, is purged or overwritten         *)
(* meanwhile (history_adapter, pinned_source).                                        *)
RealSources == {bars[d] : d \in _real_mask}
OneSourcePerSymbol == ~overlapped => Cardinality(RealSources) <= 1

(* "A symbol's history is ... never blended with another".                           *)
NeverBlended == Cardinality(RealSources) <= 1

(* "no signal may be computed from a partial day": the bars a strategy is evaluated  *)
(* on after the session has closed are final.                                        *)
OnlyFinalBars == session_over => forming \cap _real_mask = {}
=============================================================================
