------------------------------ MODULE Brokers -------------------------------
(***************************************************************************)
(* What stands between the engine's own names and a broker: the adapter    *)
(* built from the stored credentials, and the instrument lists through     *)
(* which a contract's name becomes the broker's                            *)
(* (backend/src/brokers/factory.py, zerodha.py, upstox.py,                 *)
(* upstox_instruments.py and base.py).                                     *)
(*                                                                         *)
(* The lists are caches of the process, shared by every coroutine.  Kite's *)
(* is refreshed by whoever finds it old, several at once if they overlap,  *)
(* and a failed download is the caller's error.  Upstox's is refreshed     *)
(* under a lock, and a failed download keeps the old list for a while.     *)
(* The last part is the circuit breaker that every call to a broker passes.*)
(***************************************************************************)
EXTENDS Integers, Sequences

CONSTANTS
    BrokerAsker,     \* coroutines that ask at once (bound)
    Contract,        \* option contracts, by the engine's own names
    MaxLists,        \* lists the exchange publishes (bound)
    Listing,         \* the contracts each of them holds
    MaxListTime,     \* bound on the clock
    NfoTtl,          \* _NFO_INSTRUMENTS_CACHE_TTL_SECONDS
    IndexTtl,        \* CACHE_TTL_SECONDS
    RetryAfter,      \* RETRY_AFTER_FAILURE_SECONDS
    MaxSavedKeys     \* credentials ever saved (bound)

ASSUME BrokersAssumption ==
    /\ NfoTtl \in Nat \ {0} /\ IndexTtl \in Nat \ {0} /\ RetryAfter \in Nat \ {0}
    /\ RetryAfter <= IndexTtl   \* ten minutes, and six hours
    /\ MaxLists \in Nat \ {0} /\ MaxListTime \in Nat /\ MaxSavedKeys \in Nat
    /\ Listing \in [1 .. MaxLists -> SUBSET Contract]

VARIABLES
    list_time, listed,        \* the clock, and the list the exchange publishes now
    left_at,                  \* when each list was replaced by the next
    nfo_cache, nfo_index,     \* _nfo_instruments_cache (with its time), _nfo_option_index
    kite_ask,                 \* what each coroutine asks of Kite
    upx_index, valid_until,   \* UpstoxInstruments._index (0: none) and _valid_until
    upx_ask, failed_at,       \* its callers, and the last download that failed
    saved, store_opens,       \* the stored credentials of each broker, and is the store readable
    fingerprint, adapter,     \* RefreshingConfiguredAdapter
    handed                    \* what a job was last given, and what was stored then

listVars    == <<list_time, listed, left_at>>
kiteVars    == <<nfo_cache, nfo_index, kite_ask>>
upstoxVars  == <<upx_index, valid_until, upx_ask, failed_at>>
adapterVars == <<saved, store_opens, fingerprint, adapter, handed>>
brokersVars == <<listVars, kiteVars, upstoxVars, adapterVars>>

KNOWN_BROKERS == <<"zerodha", "upstox">>
NoKeys == [b \in {"zerodha", "upstox"} |-> 0]
NoList == [list |-> 0, at |-> 0]
Free   == [at |-> "idle"]
Nobody == <<"none", 0>>
Never  == 0 - RetryAfter

BrokersInit ==
    /\ list_time = 0 /\ listed = 1 /\ left_at = [v \in 1 .. MaxLists |-> MaxListTime]
    /\ nfo_cache = NoList /\ nfo_index = NoList /\ kite_ask = [c \in BrokerAsker |-> Free]
    /\ upx_index = 0 /\ valid_until = 0 /\ failed_at = Never
    /\ upx_ask = [c \in BrokerAsker |-> Free]
    /\ saved = NoKeys /\ store_opens = TRUE
    /\ fingerprint = NoKeys /\ adapter = Nobody /\ handed = [got |-> Nobody, of |-> NoKeys]

\* The exchange publishes the next list, with contracts come and gone.
exchange_lists ==
    /\ listed < MaxLists
    /\ listed' = listed + 1 /\ left_at' = [left_at EXCEPT ![listed] = list_time]
    /\ UNCHANGED <<list_time, kiteVars, upstoxVars, adapterVars>>

list_time_passes ==
    /\ list_time < MaxListTime /\ list_time' = list_time + 1
    /\ UNCHANGED <<listed, left_at, kiteVars, upstoxVars, adapterVars>>
-----------------------------------------------------------------------------
(* zerodha.py: a batch of quotes, each name looked up in the option index. *)

KiteUnchanged == UNCHANGED <<listVars, upstoxVars, adapterVars>>
Kite(c, ask) == kite_ask' = [kite_ask EXCEPT ![c] = ask]

\* A batch names each contract once; get_quote is a batch of one.
get_quotes(c) ==
    /\ kite_ask[c] = Free
    /\ \E symbols \in (SUBSET Contract) \ {{}} :
          Kite(c, [at |-> "keys", todo |-> symbols, keys |-> {}])
    /\ UNCHANGED <<nfo_cache, nfo_index>> /\ KiteUnchanged

Fresh == nfo_cache # NoList /\ list_time - nfo_cache.at < NfoTtl

\* Mutant: an index once built is used for good.
_option_index_Kept(rows) == IF nfo_index # NoList THEN nfo_index ELSE rows

\* The index belongs to the rows it was built from; other rows build it again.
_option_index(rows) == IF nfo_index = rows THEN nfo_index ELSE rows

\* A contract the index does not hold has no key and is left out of the batch.
_key_for(c, symbol, rows) ==
    LET index == _option_index(rows)
        key == IF symbol \in Listing[index.list]
               THEN {[symbol |-> symbol, list |-> index.list, at |-> list_time]} ELSE {}
    IN  /\ nfo_index' = index
        /\ Kite(c, [at |-> "keys", todo |-> kite_ask[c].todo \ {symbol},
                    keys |-> kite_ask[c].keys \union key])

Batched(c, symbol) == kite_ask[c].at = "keys" /\ symbol \in kite_ask[c].todo

key_from_cache(c, symbol) ==
    /\ Batched(c, symbol) /\ Fresh
    /\ _key_for(c, symbol, nfo_cache)
    /\ UNCHANGED nfo_cache /\ KiteUnchanged

\* The time is read before the download, the cache stamped with it afterwards.
_get_nfo_instruments(c, symbol) ==
    /\ Batched(c, symbol) /\ ~ Fresh
    /\ Kite(c, [at |-> "download", since |-> list_time, symbol |-> symbol,
                todo |-> kite_ask[c].todo, keys |-> kite_ask[c].keys])
    /\ UNCHANGED <<nfo_cache, nfo_index>> /\ KiteUnchanged

nfo_downloaded(c) ==
    /\ kite_ask[c].at = "download"
    /\ nfo_cache' = [list |-> listed, at |-> kite_ask[c].since]
    /\ _key_for(c, kite_ask[c].symbol, nfo_cache')
    /\ KiteUnchanged

\* Unreachable, a 5xx, a 4xx: the batch fails with it, an old list or not.
kite_fails(c) ==
    /\ kite_ask[c].at = "download" \/ (kite_ask[c].at = "keys" /\ kite_ask[c].todo = {})
    /\ Kite(c, Free) /\ UNCHANGED <<nfo_cache, nfo_index>> /\ KiteUnchanged

\* The quotes of the keys; a contract without a price is left out.
quotes_answered(c) ==
    /\ kite_ask[c].at = "keys" /\ kite_ask[c].todo = {}
    /\ Kite(c, Free) /\ UNCHANGED <<nfo_cache, nfo_index>> /\ KiteUnchanged

KiteNext ==
    \E c \in BrokerAsker :
        \/ get_quotes(c) \/ nfo_downloaded(c) \/ kite_fails(c) \/ quotes_answered(c)
        \/ \E symbol \in Contract : key_from_cache(c, symbol) \/ _get_nfo_instruments(c, symbol)
-----------------------------------------------------------------------------
(* upstox_instruments.py: UpstoxInstruments._current_index.                *)

UpstoxUnchanged == UNCHANGED <<listVars, kiteVars, adapterVars>>
Upstox(c, ask) == upx_ask' = [upx_ask EXCEPT ![c] = ask]
IndexValid == upx_index # 0 /\ list_time < valid_until
LockHeld == \E c \in BrokerAsker : upx_ask[c].at \in {"download", "parse"}

\* A valid index answers at once, which is no step; otherwise the caller queues at the lock.
_current_index(c) ==
    /\ upx_ask[c] = Free /\ ~ IndexValid
    /\ Upstox(c, [at |-> "lock"])
    /\ UNCHANGED <<upx_index, valid_until, failed_at>> /\ UpstoxUnchanged

\* Mutant: whoever gets the lock downloads.
StillStale_Always == TRUE

StillStale == ~ IndexValid

refreshed_meanwhile(c) ==
    /\ upx_ask[c].at = "lock" /\ ~ LockHeld /\ ~ StillStale
    /\ Upstox(c, Free)
    /\ UNCHANGED <<upx_index, valid_until, failed_at>> /\ UpstoxUnchanged

_download(c) ==
    /\ upx_ask[c].at = "lock" /\ ~ LockHeld /\ StillStale
    /\ Upstox(c, [at |-> "download", since |-> list_time])
    /\ UNCHANGED <<upx_index, valid_until, failed_at>> /\ UpstoxUnchanged

\* The file is read, and parsed on a thread while others run.
parse_instrument_file(c) ==
    /\ upx_ask[c].at = "download"
    /\ Upstox(c, [at |-> "parse", since |-> upx_ask[c].since, list |-> listed])
    /\ UNCHANGED <<upx_index, valid_until, failed_at>> /\ UpstoxUnchanged

index_loaded(c) ==
    /\ upx_ask[c].at = "parse"
    /\ upx_index' = upx_ask[c].list /\ valid_until' = list_time + IndexTtl
    /\ Upstox(c, Free) /\ UNCHANGED failed_at /\ UpstoxUnchanged

\* Unreachable, refused or unreadable: the old list serves a while longer, or, without one,
\* the caller gets the error.
refresh_failed(c) ==
    /\ upx_ask[c].at \in {"download", "parse"}
    /\ failed_at' = list_time
    /\ valid_until' = IF upx_index = 0 THEN valid_until ELSE list_time + RetryAfter
    /\ Upstox(c, Free) /\ UNCHANGED upx_index /\ UpstoxUnchanged

UpstoxNext ==
    \E c \in BrokerAsker :
        \/ _current_index(c) \/ refreshed_meanwhile(c) \/ _download(c)
        \/ parse_instrument_file(c) \/ index_loaded(c) \/ refresh_failed(c)
-----------------------------------------------------------------------------
(* factory.py: RefreshingConfiguredAdapter.                                *)

AdapterUnchanged == UNCHANGED <<listVars, kiteVars, upstoxVars>>

\* Credentials are saved, saved again or removed in the settings.
save_credentials(b) ==
    /\ \/ saved[b] < MaxSavedKeys /\ saved' = [saved EXCEPT ![b] = @ + 1]
       \/ saved[b] # 0 /\ saved' = [saved EXCEPT ![b] = 0]
    /\ UNCHANGED <<store_opens, fingerprint, adapter, handed>> /\ AdapterUnchanged

\* The store cannot be opened (SecretsStoreError), or can again.
get_secrets_store ==
    /\ store_opens' = ~ store_opens
    /\ UNCHANGED <<saved, fingerprint, adapter, handed>> /\ AdapterUnchanged

\* Mutant: which brokers are connected, without their credentials.
configured_broker_fingerprint_Names ==
    [b \in DOMAIN saved |-> IF store_opens /\ saved[b] # 0 THEN 1 ELSE 0]

configured_broker_fingerprint == IF store_opens THEN saved ELSE NoKeys

\* The first known broker with credentials.
build_configured_adapter ==
    IF ~ store_opens \/ saved = NoKeys THEN Nobody
    ELSE LET first == CHOOSE i \in DOMAIN KNOWN_BROKERS :
                        /\ saved[KNOWN_BROKERS[i]] # 0
                        /\ \A j \in 1 .. i - 1 : saved[KNOWN_BROKERS[j]] = 0
         IN  <<KNOWN_BROKERS[first], saved[KNOWN_BROKERS[first]]>>

\* A job asks at each firing; the adapter is built again when the fingerprint changed.
\* Before the first build both are what an empty store gives.
get_live_adapter ==
    /\ fingerprint' = configured_broker_fingerprint
    /\ adapter' = IF fingerprint' # fingerprint THEN build_configured_adapter ELSE adapter
    /\ handed' = [got |-> adapter', of |-> IF store_opens THEN saved ELSE NoKeys]
    /\ UNCHANGED <<saved, store_opens>> /\ AdapterUnchanged

AdapterNext == (\E b \in DOMAIN saved : save_credentials(b)) \/ get_secrets_store \/ get_live_adapter
-----------------------------------------------------------------------------
BrokersTypeOK ==
    /\ list_time \in 0 .. MaxListTime /\ listed \in 1 .. MaxLists
    /\ left_at \in [1 .. MaxLists -> 0 .. MaxListTime]
    /\ nfo_cache.list \in 0 .. listed /\ nfo_index.list \in 0 .. listed
    /\ nfo_cache.at \in 0 .. list_time
    /\ \A c \in BrokerAsker : kite_ask[c].at \in {"idle", "keys", "download"}
    /\ \A c \in BrokerAsker : upx_ask[c].at \in {"idle", "lock", "download", "parse"}
    /\ upx_index \in 0 .. listed /\ valid_until \in Nat /\ failed_at \in Never .. list_time
    /\ saved \in [{"zerodha", "upstox"} -> 0 .. MaxSavedKeys] /\ store_opens \in BOOLEAN

(* Every contract is looked up in a list the exchange still published within the       *)
(* cache's lifetime, whichever of several overlapping downloads wrote the cache last   *)
(* and however many names of a batch were looked up before it (_get_nfo_instruments,   *)
(* _option_index).                                                                     *)
NamesAreRecent ==
    \A c \in BrokerAsker : kite_ask[c].at # "idle" =>
        \A k \in kite_ask[c].keys : left_at[k.list] > k.at - NfoTtl

(* While there is an old list to serve, a failed download is tried again after the     *)
(* pause and not by each caller that waited for it (_current_index).                   *)
RefreshIsPaced ==
    \A c \in BrokerAsker :
        upx_ask[c].at \in {"download", "parse"} /\ upx_index # 0 =>
            upx_ask[c].since >= failed_at + RetryAfter

(* A job is given the adapter of the first connected broker with the credentials       *)
(* stored at that moment, and none when none is stored (RefreshingConfiguredAdapter).  *)
AdapterIsCurrent ==
    \/ handed.got = Nobody /\ handed.of = NoKeys
    \/ /\ handed.got # Nobody /\ handed.got[2] # 0 /\ handed.of[handed.got[1]] = handed.got[2]
       /\ handed.got[1] = "upstox" => handed.of["zerodha"] = 0

-----------------------------------------------------------------------------
(***************************************************************************)
(* BrokerCircuitBreaker (backend/src/engine/risk/circuit_breaker.py) with  *)
(* calls that overlap: the breaker of a broker is one object, shared by    *)
(* every coroutine that talks to that broker, and its call() awaits the    *)
(* request between its test and its bookkeeping.  A refused call           *)
(* (CircuitOpenError) changes nothing and is not a step.                   *)
(***************************************************************************)

CONSTANTS
    BrokerCaller, \* coroutines that may be inside call() at once (bound)
    Threshold,    \* failure_threshold
    Cooldown,     \* cooldown_seconds, in ticks of the clock
    MaxTime,      \* bound on the clock
    NeverOpened   \* opened_at before the breaker ever opened

ASSUME BreakerAssumption ==
    /\ Threshold \in Nat \ {0} /\ Cooldown \in Nat \ {0} /\ MaxTime \in Nat
    /\ NeverOpened \notin Nat

VARIABLES
    breaker_state, consecutive_failures, opened_at,
    breaker_clock, \* time.monotonic
    broker_call,   \* "idle", "normal", or "trial": the call that ended a cooldown
    call_began     \* when the call was let through

breakerVars == <<breaker_state, consecutive_failures, opened_at, breaker_clock,
                 broker_call, call_began>>

BreakerInit ==
    /\ breaker_state = "closed" /\ consecutive_failures = 0 /\ opened_at = NeverOpened
    /\ breaker_clock = 0
    /\ broker_call = [c \in BrokerCaller |-> "idle"] /\ call_began = [c \in BrokerCaller |-> 0]

Advance == /\ breaker_clock < MaxTime
           /\ breaker_clock' = breaker_clock + 1
           /\ UNCHANGED <<breaker_state, consecutive_failures, opened_at, broker_call, call_began>>

Cooled_Always == TRUE

Cooled == breaker_clock - opened_at >= Cooldown

\* The test before the await: closed, or the cooldown has elapsed.
call_begin(c) ==
    /\ broker_call[c] = "idle"
    /\ call_began' = [call_began EXCEPT ![c] = breaker_clock]
    /\ \/ /\ breaker_state = "closed"
          /\ broker_call' = [broker_call EXCEPT ![c] = "normal"]
          /\ UNCHANGED breaker_state
       \/ /\ breaker_state = "open" /\ Cooled
          /\ breaker_state' = "closed"
          /\ broker_call' = [broker_call EXCEPT ![c] = "trial"]
    /\ UNCHANGED <<consecutive_failures, opened_at, breaker_clock>>

Return(c) == /\ broker_call' = [broker_call EXCEPT ![c] = "idle"]
             /\ UNCHANGED <<breaker_clock, call_began>>

call_succeeds(c) ==
    /\ broker_call[c] # "idle"
    /\ consecutive_failures' = 0
    /\ Return(c) /\ UNCHANGED <<breaker_state, opened_at>>

Opens(n) == n >= Threshold

call_server_error_StampsDeadline(c) ==
    /\ broker_call[c] # "idle"
    /\ consecutive_failures' = consecutive_failures + 1
    /\ IF Opens(consecutive_failures')
       THEN breaker_state' = "open" /\ opened_at' = breaker_clock + Cooldown
       ELSE UNCHANGED <<breaker_state, opened_at>>
    /\ Return(c)

\* BrokerServerError.
call_server_error(c) ==
    /\ broker_call[c] # "idle"
    /\ consecutive_failures' = consecutive_failures + 1
    /\ IF Opens(consecutive_failures')
       THEN breaker_state' = "open" /\ opened_at' = breaker_clock
       ELSE UNCHANGED <<breaker_state, opened_at>>
    /\ Return(c)

\* Any other exception leaves the breaker alone.
call_other_error(c) ==
    /\ broker_call[c] # "idle"
    /\ Return(c) /\ UNCHANGED <<breaker_state, consecutive_failures, opened_at>>

BreakerNext ==
    \/ Advance
    \/ \E c \in BrokerCaller : \/ call_begin(c) \/ call_succeeds(c)
                               \/ call_server_error(c) \/ call_other_error(c)

BreakerSpec == BreakerInit /\ [][BreakerNext]_breakerVars

-----------------------------------------------------------------------------
BreakerTypeOK ==
    /\ breaker_state \in {"closed", "open"} /\ consecutive_failures \in Nat
    /\ breaker_clock \in 0 .. MaxTime /\ opened_at \in 0 .. breaker_clock \cup {NeverOpened}
    /\ broker_call \in [BrokerCaller -> {"idle", "normal", "trial"}]
    /\ call_began \in [BrokerCaller -> Nat]

\* Once the breaker has opened, nothing is let through to the broker until a full
\* cooldown after the last time it opened: whatever is out began before or after
\* (circuit_breaker.call).
CoolingKeepsOut ==
    opened_at # NeverOpened =>
        \A c \in BrokerCaller : broker_call[c] # "idle" =>
            call_began[c] <= opened_at \/ call_began[c] >= opened_at + Cooldown

\* A trial call that fails opens the breaker again at once (circuit_breaker.call,
\* "a fresh failure below re-opens immediately").  So it is while calls do not
\* overlap (OneCaller); a late success of an overlapping call, which zeroes the
\* count while the breaker is open, breaks it.
TrialFailureReopens ==
    [][\A c \in BrokerCaller :
          broker_call[c] = "trial" /\ call_server_error(c) => breaker_state' = "open"]_breakerVars

-----------------------------------------------------------------------------
(* The inductive invariants behind them.                                   *)

BeganSound == \A c \in BrokerCaller : call_began[c] <= breaker_clock

\* A breaker that is closed again has sat out its cooldown.
ClosedSound ==
    breaker_state = "closed" /\ opened_at # NeverOpened => breaker_clock >= opened_at + Cooldown

BreakerIInv ==
    /\ BreakerTypeOK /\ BeganSound /\ ClosedSound /\ CoolingKeepsOut
    /\ breaker_state = "open" => opened_at # NeverOpened

\* Calls do not overlap.
OneCaller == \A c, d \in BrokerCaller : c = d

\* Then a trial finds the failures that opened the breaker still counted.
TrialSound ==
    /\ breaker_state = "open" => consecutive_failures >= Threshold
    /\ \A c \in BrokerCaller : broker_call[c] = "trial" => consecutive_failures >= Threshold
    /\ breaker_state = "open" => \A c \in BrokerCaller : broker_call[c] = "idle"
=============================================================================
