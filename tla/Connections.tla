---------------------------- MODULE Connections -----------------------------
(***************************************************************************)
(* The stored broker connection and its sign-in                            *)
(* (backend/src/security/secrets_store.py,                                 *)
(* api/routes/broker_credentials.py and broker_oauth.py).                  *)
(*                                                                         *)
(* One broker.  The store reads and rewrites its file without giving up    *)
(* the event loop, so each of its calls is one step; a sign-in callback    *)
(* reads the record, waits for the broker's token exchange and writes the  *)
(* record it read with the token added.  An API key is its number, and a   *)
(* token carries the key it was issued for.                                *)
(***************************************************************************)
EXTENDS Naturals

CONSTANTS
    Callback,         \* sign-in callbacks that may overlap
    MaxApiKeys        \* API keys saved over time (bound)

ASSUME ConnectionsAssumption == MaxApiKeys \in Nat \ {0}

VARIABLES
    record,      \* the stored record; NoRecord: the broker is not configured
    last_key,    \* the newest API key
    callback,    \* what each callback is doing
    connected,   \* audit entries broker_oauth.connected, by the key signed in with
    secrets_file \* good, or cut short by a crash inside a write

connectionVars == <<record, last_key, callback, connected, secrets_file>>

NoRecord == [key |-> 0, token |-> 0, redirect |-> "default", expiry |-> "none"]
NoCallback == [at |-> "idle"]
Redirect == {"default", "custom"}
BrokerRecord == [key: 0 .. MaxApiKeys, token: 0 .. MaxApiKeys, redirect: Redirect,
                 expiry: {"none", "next_6am"}]

ConnectionsInit ==
    /\ record = NoRecord /\ last_key = 0 /\ connected = {} /\ secrets_file = "good"
    /\ callback = [c \in Callback |-> NoCallback]

Configured == record # NoRecord
Readable == secrets_file = "good"

\* New keys replace the record; a redirect address that is not given is kept.  A token
\* may be pasted together with its key.
write_broker_credentials(pasted) ==
    /\ Readable /\ last_key < MaxApiKeys /\ last_key' = last_key + 1
    /\ record' = [NoRecord EXCEPT !.key = last_key + 1, !.redirect = record.redirect,
                                  !.token = IF pasted THEN last_key + 1 ELSE 0]
    /\ UNCHANGED <<callback, connected, secrets_file>>

delete_broker_credentials ==
    /\ Readable /\ Configured /\ record' = NoRecord
    /\ UNCHANGED <<last_key, callback, connected, secrets_file>>

write_broker_redirect_uri(r) ==
    /\ Readable /\ Configured /\ r # record.redirect /\ record' = [record EXCEPT !.redirect = r]
    /\ UNCHANGED <<last_key, callback, connected, secrets_file>>

\* The process dies inside the write: a file that cannot be decrypted, or an empty one,
\* which reads as nothing configured.
SecretsWriteCutShort(file) ==
    /\ Readable /\ callback' = [c \in Callback |-> NoCallback]
    /\ IF file = "empty" THEN record' = NoRecord /\ UNCHANGED secrets_file
       ELSE secrets_file' = "torn" /\ UNCHANGED record
    /\ UNCHANGED <<last_key, connected>>
-----------------------------------------------------------------------------
(* The sign-in callback.                                                   *)

oauth_callback(c) ==
    /\ callback[c].at = "idle" /\ Readable /\ Configured
    /\ callback' = [callback EXCEPT ![c] = [at |-> "exchange", creds |-> record]]
    /\ UNCHANGED <<record, last_key, connected, secrets_file>>

\* The broker cannot be reached or refuses the code.
exchange_refused(c) ==
    /\ callback[c].at = "exchange" /\ callback' = [callback EXCEPT ![c] = NoCallback]
    /\ UNCHANGED <<record, last_key, connected, secrets_file>>

\* An extended Upstox token has no expiry; every other one ends at the next 6 in the morning.
Signed_InPlace(creds, expiry) == [record EXCEPT !.token = creds.key, !.expiry = expiry]
Signed(creds, expiry) == [creds EXCEPT !.token = creds.key, !.expiry = expiry]

token_stored(c, expiry) ==
    /\ callback[c].at = "exchange" /\ Readable
    /\ record' = Signed(callback[c].creds, expiry)
    /\ callback' = [callback EXCEPT ![c] = [at |-> "audit", creds |-> @.creds]]
    /\ UNCHANGED <<last_key, connected, secrets_file>>

connected_audited(c) ==
    /\ callback[c].at = "audit" /\ callback' = [callback EXCEPT ![c] = NoCallback]
    /\ connected' = connected \cup {callback[c].creds.key}
    /\ UNCHANGED <<record, last_key, secrets_file>>

ConnectionsNext ==
    \/ \E pasted \in BOOLEAN : write_broker_credentials(pasted)
    \/ delete_broker_credentials
    \/ \E r \in Redirect : write_broker_redirect_uri(r)
    \/ \E file \in {"empty", "torn"} : SecretsWriteCutShort(file)
    \/ \E c \in Callback : \/ oauth_callback(c) \/ exchange_refused(c) \/ connected_audited(c)
                           \/ \E expiry \in {"none", "next_6am"} : token_stored(c, expiry)
-----------------------------------------------------------------------------
ConnectionsTypeOK ==
    /\ record \in BrokerRecord /\ last_key \in 0 .. MaxApiKeys
    /\ connected \subseteq 1 .. MaxApiKeys /\ secrets_file \in {"good", "torn"}
    /\ \A c \in Callback : callback[c].at \in {"idle", "exchange", "audit"}

(* The token the adapters send is always one issued for the API key they send with   *)
(* it, however sign-ins overlap with each other and with keys being changed or       *)
(* deleted: a callback writes the whole record it read and never its token alone     *)
(* (zerodha_callback_endpoint, upstox_callback_endpoint).                            *)
TokenOfItsKey == record.token # 0 => record.token = record.key
=============================================================================
