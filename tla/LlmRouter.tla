----------------------------- MODULE LlmRouter ------------------------------
(***************************************************************************)
(* The LLM router: a call goes to the providers in their order of          *)
(* preference until one answers                                            *)
(* (backend/src/agents/llm_router.py and api/routes/llm_providers.py).     *)
(*                                                                         *)
(* Calls overlap, and the order of the providers, their stored keys and    *)
(* models and the providers themselves change while a call waits.  A call  *)
(* may be streamed: its text goes out piece by piece before the provider   *)
(* is known to have finished.                                              *)
(***************************************************************************)
EXTENDS Naturals, Sequences, SequencesExt

CONSTANTS
    Provider,       \* the LLM providers
    LlmCall         \* calls that may overlap

VARIABLES
    order,          \* the fallback order of the configuration in force
    usable,         \* providers with a key or address and a model to ask for
    up,             \* providers that answer
    llm_call,       \* what each call is doing
    health          \* the newest outcome of each provider

routerVars == <<order, usable, up, llm_call, health>>

Orders == SetToSeqs(Provider) \cup {<<p>> : p \in Provider}
NoCall == [at |-> "idle"]

LlmRouterInit ==
    /\ order \in Orders /\ usable = Provider /\ up = Provider
    /\ llm_call = [c \in LlmCall |-> NoCall] /\ health = [p \in Provider |-> "unknown"]

SetCall(c, r) == llm_call' = [llm_call EXCEPT ![c] = r]

\* Settings, the gateway configuration and the world.
write_llm_provider_credentials(p) ==
    /\ p \notin usable /\ usable' = usable \cup {p} /\ UNCHANGED <<order, up, llm_call, health>>
delete_llm_provider_credentials(p) ==
    /\ p \in usable /\ usable' = usable \ {p} /\ UNCHANGED <<order, up, llm_call, health>>
ReorderProviders(o) == o # order /\ order' = o /\ UNCHANGED <<usable, up, llm_call, health>>
ProviderTurns(p) ==
    /\ up' = IF p \in up THEN up \ {p} ELSE up \cup {p}
    /\ UNCHANGED <<order, usable, llm_call, health>>

\* A preferred provider is asked first, in the order or not; without one the order is
\* taken as it is, which is its own first provider preferred.
_fallback_order(preferred) ==
    <<preferred>> \o SelectSeq(order, LAMBDA p : p # preferred)

StartCall(c, stream, asked) ==
    /\ llm_call[c].at = "idle"
    /\ SetCall(c, [at |-> "asking", stream |-> stream, order |-> asked, idx |-> 1,
                   clients |-> usable, heard |-> <<>>])
    /\ UNCHANGED <<order, usable, up, health>>

\* The order, the clients and the models are read once, when the call starts.
complete(c, preferred) == StartCall(c, FALSE, _fallback_order(preferred))
stream_complete(c, preferred) == StartCall(c, TRUE, _fallback_order(preferred))

Asked(c) == llm_call[c].order[llm_call[c].idx]
Answers(c) == Asked(c) \in llm_call[c].clients /\ Asked(c) \in up

\* On to the next provider; after the last one the call has failed with every reason.
next_provider(c) ==
    SetCall(c, IF llm_call[c].idx < Len(llm_call[c].order)
               THEN [llm_call[c] EXCEPT !.idx = @ + 1]
               ELSE [llm_call[c] EXCEPT !.at = "exhausted"])

stream_breaks_Continues(c) == next_provider(c)

\* Text that went out cannot be taken back: a stream that breaks after its first piece
\* fails instead of starting again with another provider.
stream_breaks(c) ==
    IF llm_call[c].heard = <<>> THEN next_provider(c)
    ELSE SetCall(c, [llm_call[c] EXCEPT !.at = "failed"])

provider_fails(c) ==
    /\ llm_call[c].at = "asking" /\ ~Answers(c)
    /\ health' = [health EXCEPT ![Asked(c)] = "failed"]
    /\ IF llm_call[c].stream THEN stream_breaks(c) ELSE next_provider(c)
    /\ UNCHANGED <<order, usable, up>>

Served(c) == IF llm_call[c].idx > 1 THEN "fallback" ELSE "ok"

provider_answers(c) ==
    /\ llm_call[c].at = "asking" /\ ~llm_call[c].stream /\ Answers(c)
    /\ health' = [health EXCEPT ![Asked(c)] = Served(c)]
    /\ SetCall(c, [llm_call[c] EXCEPT !.at = "answered", !.heard = <<Asked(c)>>])
    /\ UNCHANGED <<order, usable, up>>

\* The pieces a text is sent in (bound).
_word_chunks == 0 .. 2

stream_chunk(c) ==
    /\ llm_call[c].at = "asking" /\ llm_call[c].stream /\ Answers(c) 
    /\ Len(llm_call[c].heard) + 1 \in _word_chunks
    /\ SetCall(c, [llm_call[c] EXCEPT !.heard = Append(@, Asked(c))])
    /\ UNCHANGED <<order, usable, up, health>>

stream_ends(c) ==
    /\ llm_call[c].at = "asking" /\ llm_call[c].stream /\ Answers(c)
    /\ health' = [health EXCEPT ![Asked(c)] = Served(c)]
    /\ SetCall(c, [llm_call[c] EXCEPT !.at = "answered"])
    /\ UNCHANGED <<order, usable, up>>

\* The tokens are counted in Redis after the answer: when that fails, so does the call.
usage_not_recorded(c) ==
    /\ llm_call[c].at = "answered" /\ SetCall(c, [llm_call[c] EXCEPT !.at = "failed"])
    /\ UNCHANGED <<order, usable, up, health>>

Returned(c) ==
    /\ llm_call[c].at \in {"answered", "failed", "exhausted"} /\ SetCall(c, NoCall)
    /\ UNCHANGED <<order, usable, up, health>>

LlmRouterNext ==
    \/ \E p \in Provider : \/ write_llm_provider_credentials(p)
                           \/ delete_llm_provider_credentials(p) \/ ProviderTurns(p)
    \/ \E o \in Orders : ReorderProviders(o)
    \/ \E c \in LlmCall : \/ \E p \in Provider : complete(c, p) \/ stream_complete(c, p)
                          \/ provider_fails(c) \/ provider_answers(c)
                          \/ stream_chunk(c) \/ stream_ends(c)
                          \/ usage_not_recorded(c) \/ Returned(c)
-----------------------------------------------------------------------------
LlmRouterTypeOK ==
    /\ order \in Orders /\ usable \subseteq Provider /\ up \subseteq Provider
    /\ health \in [Provider -> {"unknown", "failed", "ok", "fallback"}]
    /\ \A c \in LlmCall :
         llm_call[c].at \in {"idle", "asking", "answered", "failed", "exhausted"}

(* What a caller hears in one call is the words of one provider, and the provider an *)
(* answer is credited to is the one that spoke, whatever fails, recovers or is       *)
(* reconfigured while the call runs (the any_yielded check of stream_complete).      *)
OneVoice ==
    \A c \in LlmCall : llm_call[c].at # "idle" =>
        \A i \in DOMAIN llm_call[c].heard : llm_call[c].heard[i] = Asked(c)
=============================================================================
