------------------------------ MODULE LiveFeeds -----------------------------
(***************************************************************************)
(* What a browser is sent as it happens.  First the WebSocket feeds of a   *)
(* log (backend/src/api/routes/websockets.py, api/ws_auth.py,              *)
(* api/ws_lifetime.py, core/ws_ticket.py): the organisational events       *)
(* (orchestration/events.py) and the audit log are numbered alike.  Then a *)
(* chat session.                                                           *)
(*                                                                         *)
(* A row is numbered under an advisory lock held until its commit, and     *)
(* published afterwards.  A polling viewer is shown the newest rows, and   *)
(* then those above the last number it has shown; a subscribed viewer is   *)
(* sent what is published while it listens.  A viewer opens a socket with  *)
(* a ticket, once.                                                         *)
(***************************************************************************)
EXTENDS Naturals, FiniteSets

CONSTANTS
    Emitter,        \* transactions that add a row
    Viewer,         \* sockets
    Ticket,         \* tickets
    BackfillRows,   \* _AUDIT_INITIAL_BACKFILL_ROWS
    MaxRows         \* rows (bound)

ASSUME FeedsAssumption == MaxRows \in Nat /\ BackfillRows \in Nat \ {0}

VARIABLES
    rows,           \* committed numbers
    emitter,        \* the number each transaction has taken, and whether it has committed
    ticket,         \* new, issued or spent
    viewer          \* what each socket is doing

feedsVars == <<rows, emitter, ticket, viewer>>

NotEmitting == [at |-> "idle"]
Closed == [at |-> "closed"]

FeedsInit ==
    /\ rows = {} /\ emitter = [e \in Emitter |-> NotEmitting]
    /\ ticket = [k \in Ticket |-> "new"] /\ viewer = [v \in Viewer |-> Closed]
-----------------------------------------------------------------------------
(* The log.                                                                *)

Highest == IF rows = {} THEN 0 ELSE CHOOSE n \in rows : \A m \in rows : m <= n
SetEmitter(e, job) == emitter' = [emitter EXCEPT ![e] = job]

\* Mutant: the lock ends with the statement that took it.
RunLockFree_Always == TRUE
RunLockFree == \A e \in Emitter : emitter[e].at # "open"

\* The number is the highest committed one and one; without the lock two may take the same,
\* and the second is refused at its commit.
emit_event(e) ==
    /\ emitter[e] = NotEmitting /\ RunLockFree /\ Highest < MaxRows
    /\ \E n \in {m \in 1 .. MaxRows : m > Highest /\ m <= Highest + Cardinality(Emitter)} :
          /\ n = 1 + Highest + Cardinality({f \in Emitter : emitter[f].at = "open"})
          /\ SetEmitter(e, [at |-> "open", number |-> n])
    /\ UNCHANGED <<rows, ticket, viewer>>

emit_commits(e) ==
    /\ emitter[e].at = "open" /\ rows' = rows \cup {emitter[e].number}
    /\ SetEmitter(e, [emitter[e] EXCEPT !.at = "publish"]) /\ UNCHANGED <<ticket, viewer>>

emit_rolls_back(e) ==
    /\ emitter[e].at = "open" /\ SetEmitter(e, NotEmitting) /\ UNCHANGED <<rows, ticket, viewer>>

\* Whoever listens is sent the row; a publication that fails is only logged.
Forwarded(n) ==
    [v \in Viewer |-> IF viewer[v].at = "subscribed" THEN [viewer[v] EXCEPT !.shown = @ \cup {n}]
                      ELSE viewer[v]]

emit_publishes(e) ==
    /\ emitter[e].at = "publish" /\ SetEmitter(e, NotEmitting)
    /\ viewer' \in {viewer, Forwarded(emitter[e].number)} /\ UNCHANGED <<rows, ticket>>
-----------------------------------------------------------------------------
(* Sockets.                                                                *)

SetViewer(v, socket) == viewer' = [viewer EXCEPT ![v] = socket]

issue_ws_ticket(k) ==
    /\ ticket[k] = "new" /\ ticket' = [ticket EXCEPT ![k] = "issued"]
    /\ UNCHANGED <<rows, emitter, viewer>>

TicketExpires(k) ==
    /\ ticket[k] = "issued" /\ ticket' = [ticket EXCEPT ![k] = "spent"]
    /\ UNCHANGED <<rows, emitter, viewer>>

\* Read and removed in one call.
redeem_ws_ticket(k) == ticket[k] = "issued" /\ ticket' = [ticket EXCEPT ![k] = "spent"]

\* A closed account's ticket is spent and its socket refused.
authenticate_websocket(v, k, active) ==
    /\ viewer[v] = Closed /\ redeem_ws_ticket(k)
    /\ SetViewer(v, IF active THEN [at |-> "accepted", ticket |-> k] ELSE Closed)
    /\ UNCHANGED <<rows, emitter>>

Newest == {n \in rows : n + BackfillRows > Highest}

\* The newest rows first, and from there on what is new; opened (history): the highest then.
stream_backfill(v) ==
    /\ viewer[v].at = "accepted"
    /\ SetViewer(v, [at |-> "polling", ticket |-> viewer[v].ticket, last |-> Highest,
                     opened |-> Highest, shown |-> Newest])
    /\ UNCHANGED <<rows, emitter, ticket>>

organization_events_ws(v) ==
    /\ viewer[v].at = "accepted"
    /\ SetViewer(v, [at |-> "subscribed", ticket |-> viewer[v].ticket, shown |-> {}])
    /\ UNCHANGED <<rows, emitter, ticket>>

\* The rows above the last are read, then sent one by one.
_stream_audit_log(v) ==
    LET new == {n \in rows : n > viewer[v].last}
    IN  /\ viewer[v].at = "polling" /\ new # {}
        /\ SetViewer(v, [viewer[v] EXCEPT !.last = Highest, !.shown = @ \cup new])
        /\ UNCHANGED <<rows, emitter, ticket>>

serve_until_client_leaves(v) ==
    /\ viewer[v] # Closed /\ SetViewer(v, Closed) /\ UNCHANGED <<rows, emitter, ticket>>

FeedsNext ==
    \/ \E e \in Emitter :
          emit_event(e) \/ emit_commits(e) \/ emit_rolls_back(e) \/ emit_publishes(e)
    \/ \E k \in Ticket : issue_ws_ticket(k) \/ TicketExpires(k)
    \/ \E v \in Viewer :
          \/ \E k \in Ticket, active \in BOOLEAN : authenticate_websocket(v, k, active)
          \/ stream_backfill(v) \/ organization_events_ws(v) \/ _stream_audit_log(v)
          \/ serve_until_client_leaves(v)
-----------------------------------------------------------------------------
FeedsTypeOK ==
    /\ rows \subseteq 1 .. MaxRows
    /\ \A v \in Viewer : viewer[v].at \in {"closed", "accepted", "polling", "subscribed"}

(* A polling viewer misses nothing once it watches: every row up to the last number it   *)
(* has shown has been shown, but for those that were older than the backfill's limit     *)
(* when it opened, because no row can be committed below a number already committed; and *)
(* the log has no gaps, whatever transactions roll back (emit, _stream_audit_log).       *)
NothingMissed ==
    /\ rows = 1 .. Highest
    /\ \A v \in Viewer : viewer[v].at = "polling" =>
          {n \in rows : n <= viewer[v].last /\ n + BackfillRows > viewer[v].opened}
              \subseteq viewer[v].shown
    /\ \A v, w \in Viewer : v # w /\ viewer[v] # Closed /\ viewer[w] # Closed =>
            viewer[v].ticket # viewer[w].ticket

-----------------------------------------------------------------------------
(***************************************************************************)
(* One chat session with the organisation (backend/src/orchestration/      *)
(* chat.py, api/routes/chat.py).                                           *)
(*                                                                         *)
(* A message is stored, then answered by a stream of chunks which the      *)
(* operator may abort through a flag in Redis, looked at after each chunk. *)
(* Two tabs may send to the same session, and the browser may leave.       *)
(***************************************************************************)

CONSTANTS
    Tab,            \* senders that may overlap
    MaxTurns,       \* messages (bound)
    MaxChunks       \* chunks of one reply (bound)

ASSUME ChatAssumption == {MaxTurns, MaxChunks} \subseteq Nat \ {0}

VARIABLES
    chat_session,   \* present, or deleted
    pinned_model,   \* the provider the session prefers, or none
    abort_flag,
    tab,            \* the reply each tab is receiving
    turns,          \* messages stored
    replies         \* replies stored: aborted, and (history) whether an abort was asked for

chatVars == <<chat_session, pinned_model, abort_flag, tab, turns, replies>>

NoReply == [at |-> "idle"]

create_session ==
    /\ chat_session = TRUE /\ pinned_model \in BOOLEAN /\ abort_flag = FALSE
    /\ tab = [t \in Tab |-> NoReply] /\ turns = 0 /\ replies = {}

SetTab(t, reply) == tab' = [tab EXCEPT ![t] = reply]

update_session ==
    /\ chat_session /\ pinned_model' = ~pinned_model
    /\ UNCHANGED <<chat_session, abort_flag, tab, turns, replies>>

\* The messages go with the session.
delete_session ==
    /\ chat_session /\ chat_session' = FALSE /\ turns' = 0 /\ replies' = {}
    /\ UNCHANGED <<pinned_model, abort_flag, tab>>

\* The message is stored and committed; the history it is answered from was read before it.
send_message(t) ==
    /\ chat_session /\ tab[t] = NoReply /\ turns < MaxTurns /\ turns' = turns + 1
    /\ SetTab(t, [at |-> "clear"]) /\ UNCHANGED <<chat_session, pinned_model, abort_flag, replies>>

\* Mutant: a flag left over from an earlier reply is not cleared.
_clear_abort_Kept(t) ==
    /\ tab[t].at = "clear" /\ SetTab(t, [at |-> "stream", chunks |-> 0, asked |-> FALSE])
    /\ UNCHANGED <<chat_session, pinned_model, abort_flag, turns, replies>>

_clear_abort(t) ==
    /\ tab[t].at = "clear" /\ abort_flag' = FALSE
    /\ SetTab(t, [at |-> "stream", chunks |-> 0, asked |-> FALSE])
    /\ UNCHANGED <<chat_session, pinned_model, turns, replies>>

\* Every reply that is streaming was asked to stop.
request_abort ==
    /\ chat_session /\ abort_flag' = TRUE
    /\ tab' = [t \in Tab |-> IF tab[t].at = "stream" THEN [tab[t] EXCEPT !.asked = TRUE] ELSE tab[t]]
    /\ abort_flag = FALSE \/ tab' # tab
    /\ UNCHANGED <<chat_session, pinned_model, turns, replies>>

AbortFlagExpires ==
    /\ abort_flag /\ abort_flag' = FALSE
    /\ UNCHANGED <<chat_session, pinned_model, tab, turns, replies>>

\* A chunk is sent, and then the flag is looked at.
reply_chunk(t) ==
    /\ tab[t].at = "stream" /\ tab[t].chunks < MaxChunks
    /\ SetTab(t, IF abort_flag THEN [at |-> "store", aborted |-> TRUE, asked |-> tab[t].asked]
                 ELSE [tab[t] EXCEPT !.chunks = @ + 1])
    /\ UNCHANGED <<chat_session, pinned_model, abort_flag, turns, replies>>

\* The stream is over, or no provider could answer and a fixed text stands in.
reply_ends(t) ==
    /\ tab[t].at = "stream"
    /\ SetTab(t, [at |-> "store", aborted |-> FALSE, asked |-> tab[t].asked])
    /\ UNCHANGED <<chat_session, pinned_model, abort_flag, turns, replies>>

\* The browser leaves: the stream is closed where it is and no reply is stored.
browser_leaves(t) ==
    /\ tab[t].at \in {"clear", "stream"} /\ SetTab(t, NoReply)
    /\ UNCHANGED <<chat_session, pinned_model, abort_flag, turns, replies>>

\* The reply is stored, unless its session has gone; then the flag is cleared.
stream_assistant_reply(t) ==
    /\ tab[t].at = "store" /\ SetTab(t, NoReply)
    /\ IF chat_session
       THEN /\ replies' = replies \cup {[aborted |-> tab[t].aborted, asked |-> tab[t].asked]}
            /\ abort_flag' = FALSE
       ELSE UNCHANGED <<replies, abort_flag>>
    /\ UNCHANGED <<chat_session, pinned_model, turns>>

ChatNext ==
    \/ update_session \/ delete_session \/ request_abort \/ AbortFlagExpires
    \/ \E t \in Tab : \/ send_message(t) \/ _clear_abort(t) \/ reply_chunk(t) \/ reply_ends(t)
                      \/ browser_leaves(t) \/ stream_assistant_reply(t)
-----------------------------------------------------------------------------
ChatTypeOK ==
    /\ turns \in 0 .. MaxTurns /\ replies \subseteq [aborted : BOOLEAN, asked : BOOLEAN]
    /\ \A t \in Tab : tab[t].at \in {"idle", "clear", "stream", "store"}

(* A reply recorded as aborted was aborted: the operator asked while it was streaming,   *)
(* not during an earlier reply whose flag was left behind when its browser went away, or *)
(* set after its last chunk (stream_assistant_reply, request_abort).                     *)
AbortedWasAsked == \A r \in replies : r.aborted => r.asked
=============================================================================
