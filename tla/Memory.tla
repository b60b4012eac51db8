------------------------------- MODULE Memory -------------------------------
(***************************************************************************)
(* The agents' long-term memory (backend/src/memory/service.py, store.py,  *)
(* lessons.py, embeddings.py, settings_store.py, api/routes/memory.py).    *)
(*                                                                         *)
(* A text is embedded by the model the operator has chosen, then written   *)
(* to the collection of its kind, which is created for the size of the     *)
(* first vector.  Each of these is a call of its own; the choice may       *)
(* change, another writer may come between, and a pipeline that waits too  *)
(* long drops its call.                                                    *)
(***************************************************************************)
EXTENDS Naturals, FiniteSets

CONSTANTS
    Kind,           \* MEMORY_KINDS
    Lesson,         \* texts, up to whitespace and letter case
    EmbeddingModel, \* models the operator may choose
    LargeModel,     \* of these, the ones with the larger vectors
    Rememberer,     \* calls that may be under way
    RecallLimit,    \* memory_recall_limit
    MaxQueryLimit   \* MAX_QUERY_LIMIT

ASSUME MemoryAssumption ==
    LargeModel \subseteq EmbeddingModel /\ RecallLimit \in Nat /\ MaxQueryLimit \in Nat \ {0}

VARIABLES
    saved_choice, env_choice,   \* the model in the database and in the environment, or none
    store_up, embedder_up,      \* the services answer
    probe,          \* the cached answer of a model to a status check
    collection,     \* by kind: the size it was created for, or none
    points,         \* by kind: the stored texts, each with the size of its vector
    remembering,    \* what each call is doing
    told_stored     \* history: what a caller was told is stored, and nobody has deleted

memoryVars == <<saved_choice, env_choice, store_up, embedder_up, probe, collection, points,
                remembering, told_stored>>
choiceVars == <<saved_choice, env_choice, store_up, embedder_up, probe>>
storeVars == <<collection, points, told_stored>>

Size(model) == IF model \in LargeModel THEN "large" ELSE "small"
NotCalled == [at |-> "idle"]

MemoryInit ==
    /\ saved_choice = "none" /\ env_choice \in EmbeddingModel \cup {"none"}
    /\ store_up = TRUE /\ embedder_up = TRUE /\ probe = [m \in EmbeddingModel |-> "none"]
    /\ collection = [k \in Kind |-> "none"] /\ points = [k \in Kind |-> {}]
    /\ remembering = [w \in Rememberer |-> NotCalled] /\ told_stored = [k \in Kind |-> {}]
-----------------------------------------------------------------------------
(* The choice of model, and whether memory is available.                   *)

effective_choice == IF saved_choice # "none" THEN saved_choice ELSE env_choice

\* No model is built without a choice; one whose key or server is missing does not answer.
build_embedding_provider == effective_choice # "none"

save_choice(m) == saved_choice # m /\ saved_choice' = m

put_memory_settings(m) ==
    /\ save_choice(m)
    /\ UNCHANGED <<env_choice, store_up, embedder_up, probe, storeVars, remembering>>

reset_memory_settings ==
    /\ save_choice("none")
    /\ UNCHANGED <<env_choice, store_up, embedder_up, probe, storeVars, remembering>>

ServiceChanges ==
    /\ \/ store_up' = ~store_up /\ UNCHANGED embedder_up
       \/ embedder_up' = ~embedder_up /\ UNCHANGED store_up
    /\ UNCHANGED <<saved_choice, env_choice, probe, storeVars, remembering>>

\* A status check asks the model, or repeats the answer of the last minute.
_probe_embedder(m) ==
    /\ probe[m] = "none" /\ probe' = [probe EXCEPT ![m] = IF embedder_up THEN "ok" ELSE "failed"]
    /\ UNCHANGED <<saved_choice, env_choice, store_up, embedder_up, storeVars, remembering>>

memory_status == build_embedding_provider /\ _probe_embedder(effective_choice)

ProbeExpires(m) ==
    /\ probe[m] # "none" /\ probe' = [probe EXCEPT ![m] = "none"]
    /\ UNCHANGED <<saved_choice, env_choice, store_up, embedder_up, storeVars, remembering>>
-----------------------------------------------------------------------------
(* Writing.                                                                *)

SetRemember(w, job) == remembering' = [remembering EXCEPT ![w] = job] /\ UNCHANGED choiceVars

\* The model is resolved when the call begins.
remember(w, k, t) ==
    /\ remembering[w] = NotCalled /\ build_embedding_provider
    /\ SetRemember(w, [at |-> "embed", kind |-> k, text |-> t, model |-> effective_choice])
    /\ UNCHANGED storeVars

embed(w) ==
    /\ remembering[w].at = "embed" /\ embedder_up
    /\ SetRemember(w, [remembering[w] EXCEPT !.at = "ensure"]) /\ UNCHANGED storeVars

\* Mutant: a collection of another size is created anew.
ensure_collection_Recreates(w) ==
    LET job == remembering[w]
    IN  /\ job.at = "ensure" /\ store_up
        /\ IF collection[job.kind] \notin {"none", Size(job.model)}
           THEN points' = [points EXCEPT ![job.kind] = {}]
                /\ collection' = [collection EXCEPT ![job.kind] = Size(job.model)]
                /\ SetRemember(w, [job EXCEPT !.at = "upsert"])
           ELSE /\ SetRemember(w, [job EXCEPT !.at = IF collection[job.kind] = "none" THEN "create"
                                                     ELSE "upsert"])
                /\ UNCHANGED <<collection, points>>
        /\ UNCHANGED told_stored

\* A collection of another size is reported, not resolved.
ensure_collection(w) ==
    LET job == remembering[w]
    IN  /\ job.at = "ensure" /\ store_up
        /\ \/ collection[job.kind] = "none" /\ SetRemember(w, [job EXCEPT !.at = "create"])
           \/ /\ collection[job.kind] = Size(job.model)
              /\ SetRemember(w, [job EXCEPT !.at = "upsert"])
           \/ /\ collection[job.kind] \notin {"none", Size(job.model)}
              /\ SetRemember(w, NotCalled)
        /\ UNCHANGED storeVars

\* Of two that create the same collection the second is refused.
create_collection(w) ==
    LET job == remembering[w]
    IN  /\ job.at = "create" /\ store_up
        /\ IF collection[job.kind] = "none"
           THEN /\ collection' = [collection EXCEPT ![job.kind] = Size(job.model)]
                /\ SetRemember(w, [job EXCEPT !.at = "upsert"])
           ELSE SetRemember(w, NotCalled) /\ UNCHANGED collection
        /\ UNCHANGED <<points, told_stored>>

\* The same text is the same memory.
upsert(w) ==
    LET job == remembering[w]
        others == {p \in points[job.kind] : p.text # job.text}
    IN  /\ job.at = "upsert" /\ store_up
        /\ points' = [points EXCEPT ![job.kind] =
                         others \cup {[text |-> job.text, size |-> Size(job.model)]}]
        /\ told_stored' = [told_stored EXCEPT ![job.kind] = @ \cup {job.text}]
        /\ SetRemember(w, NotCalled) /\ UNCHANGED collection

\* The service does not answer, or the pipeline no longer waits: the call ends where it is.
record_lesson(w) ==
    /\ remembering[w] # NotCalled /\ SetRemember(w, NotCalled) /\ UNCHANGED storeVars

forget(k, t) ==
    /\ store_up /\ \E p \in points[k] : p.text = t
    /\ points' = [points EXCEPT ![k] = {p \in @ : p.text # t}]
    /\ told_stored' = [told_stored EXCEPT ![k] = @ \ {t}]
    /\ UNCHANGED <<choiceVars, collection, remembering>>
-----------------------------------------------------------------------------
(* Reading: the answers a search may give, none of them when it is         *)
(* refused.  Of what is stored no more than the limit is returned, and     *)
(* nothing below a floor; which, the vectors decide, and those of another  *)
(* model of the same size compare as they please.                          *)

search(k, size, limit) ==
    IF collection[k] = "none" THEN {{}}
    ELSE IF collection[k] # size THEN {}
    ELSE {hits \in SUBSET points[k] : Cardinality(hits) <= limit}

query(k, limit) ==
    IF ~build_embedding_provider \/ ~embedder_up \/ ~store_up THEN {}
    ELSE search(k, Size(effective_choice), IF limit < MaxQueryLimit THEN limit ELSE MaxQueryLimit)

\* A pipeline recalls lessons or none; it never fails for want of them.
recall(k) ==
    IF RecallLimit = 0 \/ query(k, RecallLimit) = {} THEN {{}} ELSE query(k, RecallLimit)

MemoryNext ==
    \/ \E m \in EmbeddingModel : put_memory_settings(m) \/ ProbeExpires(m)
    \/ reset_memory_settings \/ ServiceChanges \/ memory_status
    \/ \E w \in Rememberer :
          \/ \E k \in Kind, t \in Lesson : remember(w, k, t)
          \/ embed(w) \/ ensure_collection(w) \/ create_collection(w) \/ upsert(w)
          \/ record_lesson(w)
    \/ \E k \in Kind, t \in Lesson : forget(k, t)
-----------------------------------------------------------------------------
MemoryTypeOK ==
    /\ effective_choice \in EmbeddingModel \cup {"none"}
    /\ collection \in [Kind -> {"none", "small", "large"}]
    /\ \A k \in Kind : points[k] \subseteq [text : Lesson, size : {"small", "large"}]

(* "Vectors of different sizes cannot share a collection, and silently re-creating it    *)
(* would destroy what the agents have learned": what a caller was told is stored stays   *)
(* until it is deleted, among vectors of one size, though models change between          *)
(* embedding and writing, two writers create one collection, and writers are dropped     *)
(* half-way; and while the services answer, a model of the collection's size is chosen   *)
(* and anything is recalled at all, none of it is out of reach of a recall near to it.   *)
RememberedStays ==
    \A k \in Kind :
        /\ told_stored[k] \subseteq {p.text : p \in points[k]}
        /\ \A p \in points[k] : p.size = collection[k]
        /\ (store_up /\ embedder_up /\ build_embedding_provider
              /\ Size(effective_choice) = collection[k] /\ RecallLimit > 0) =>
                \A t \in told_stored[k] : \E hits \in recall(k) : t \in {p.text : p \in hits}
=============================================================================
