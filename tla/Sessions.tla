------------------------------ MODULE Sessions ------------------------------
(***************************************************************************)
(* Sessions: sign-in, the rotation of refresh tokens, sign-out, the        *)
(* administrator's revocations and the rotation of the signing key         *)
(* (backend/src/api/routes/{auth,admin,system}.py over core/security.py).  *)
(* The accounts themselves, and who may be an administrator, are module    *)
(* Accounts'; here an account is active or not.                            *)
(*                                                                         *)
(* Of time only the grace after a token is redeemed is kept; an expired    *)
(* token is refused wherever it is presented, so it is a token nobody      *)
(* presents again.  A request that commits between two reads, or reads     *)
(* before it commits, is two steps; the rest hold a row lock or are one    *)
(* statement and are one.  A refused request changes nothing and is not a  *)
(* step.                                                                   *)
(***************************************************************************)
EXTENDS Naturals, Sequences, FiniteSets

CONSTANTS
    SessionUser,  \* the accounts that sign in
    AuthReq,      \* requests that may be open at once (bound)
    MaxTokens,    \* bound on the refresh tokens ever issued
    MaxKeys       \* bound on the signing keys ever made

ASSUME SessionsAssumption ==
    /\ MaxTokens \in Nat /\ MaxKeys \in Nat \ {0}

VARIABLES
    active,          \* the accounts with is_active
    refresh_tokens,  \* the refresh_tokens table, in the order of issue
    signing_key,     \* the newest row of jwt_signing_keys
    auth_req,        \* what each request in flight has read
    ended,           \* families ended by sign-out, reuse, an administrator or a rotation
    raced            \* the families ended while a refresh of theirs was in flight

sessionsVars == <<active, refresh_tokens, signing_key, auth_req, ended, raced>>

Idle == [op |-> "idle"]


\* Only the newest row of jwt_signing_keys signs and verifies.
SigningKey == 1 .. MaxKeys

\* used: how many tokens had been issued when this one was redeemed (0: never).
TokenRow == [user: SessionUser, family: 1 .. MaxTokens, used: 0 .. MaxTokens, revoked: BOOLEAN,
             in_grace: BOOLEAN, key: SigningKey]

SessionsInit ==
    /\ active = SessionUser /\ refresh_tokens = <<>>
    /\ signing_key = 1 /\ auth_req = [r \in AuthReq |-> Idle]
    /\ ended = {} /\ raced = {}

Open(r, req) == auth_req' = [auth_req EXCEPT ![r] = req]
Close(r) == Open(r, Idle)
-----------------------------------------------------------------------------
(* Tokens.                                                                 *)

decode_token(t) == t.key = signing_key

create_refresh_token(u, family) ==
    [user |-> u, family |-> family, used |-> 0, revoked |-> FALSE,
     in_grace |-> FALSE, key |-> signing_key]

start_session(u, family) ==
    /\ Len(refresh_tokens) < MaxTokens
    /\ refresh_tokens' = Append(refresh_tokens, create_refresh_token(u, family))

\* UPDATE refresh_tokens SET revoked_at WHERE ... AND revoked_at IS NULL.
Revoke(rows) ==
    refresh_tokens' = [i \in DOMAIN refresh_tokens |->
        IF i \in rows THEN [refresh_tokens[i] EXCEPT !.revoked = TRUE] ELSE refresh_tokens[i]]

OfFamily(f) == {i \in DOMAIN refresh_tokens : refresh_tokens[i].family = f}
OfUser(u) == {i \in DOMAIN refresh_tokens : refresh_tokens[i].user = u}
FamiliesOf(rows) == {refresh_tokens[i].family : i \in rows}
InFlight(f) == \E r \in AuthReq : auth_req[r].op \in {"rotate", "retry"} /\ auth_req[r].family = f
EndFamilies(fs) == /\ ended' = ended \union fs
                   /\ raced' = raced \union {f \in fs : InFlight(f)}
-----------------------------------------------------------------------------
(* routes/auth.py.                                                         *)

\* The account's row is locked FOR UPDATE from the read to the commit.  The lockout
\* of an account that keeps failing is module Accounts's.
login(u) ==
    /\ u \in active
    /\ start_session(u, Len(refresh_tokens) + 1)
    /\ UNCHANGED <<active, signing_key, auth_req, ended, raced>>

\* Redeemed within the grace, and the first token of the family issued since is
\* neither used nor revoked.
lost_reply_retried_AnySuccessor(i) ==
    LET t == refresh_tokens[i]
        issued_since == {j \in DOMAIN refresh_tokens : j > t.used /\ refresh_tokens[j].family = t.family}
    IN  t.used > 0 /\ t.in_grace /\ issued_since # {}

lost_reply_retried(i) ==
    LET t == refresh_tokens[i]
        issued_since == {j \in DOMAIN refresh_tokens :
                           j > t.used /\ j # i /\ refresh_tokens[j].family = t.family}
    IN  /\ t.used > 0 /\ t.in_grace
        /\ \E s \in issued_since :
             /\ \A j \in issued_since : s <= j
             /\ refresh_tokens[s].used = 0 /\ ~refresh_tokens[s].revoked

RowLocked(i) == \E r \in AuthReq : auth_req[r].op = "retry" /\ auth_req[r].token = i

Presents(i) == i \in DOMAIN refresh_tokens /\ decode_token(refresh_tokens[i]) /\ ~RowLocked(i)
UserActive(i) == refresh_tokens[i].user \in active

\* First commit of a rotation: the presented token is retired.
refresh_retire(r, i) ==
    /\ auth_req[r] = Idle /\ Presents(i) /\ ~refresh_tokens[i].revoked /\ UserActive(i)
    /\ refresh_tokens' = [refresh_tokens EXCEPT
           ![i] = [@ EXCEPT !.used = Len(refresh_tokens), !.revoked = TRUE, !.in_grace = TRUE]]
    /\ Open(r, [op |-> "rotate", user |-> refresh_tokens[i].user,
                family |-> refresh_tokens[i].family])
    /\ UNCHANGED <<active, signing_key, ended, raced>>

\* A retired token that comes back as the retry of a lost reply: read, not yet answered.
refresh_retry(r, i) ==
    /\ auth_req[r] = Idle /\ Presents(i) /\ lost_reply_retried(i) /\ UserActive(i)
    /\ Open(r, [op |-> "retry", user |-> refresh_tokens[i].user,
                family |-> refresh_tokens[i].family, token |-> i])
    /\ UNCHANGED <<active, refresh_tokens, signing_key, ended, raced>>

\* Second commit: the successor is stored and the reply sent.
refresh_answer(r) ==
    /\ auth_req[r].op \in {"rotate", "retry"}
    /\ start_session(auth_req[r].user, auth_req[r].family) /\ Close(r)
    /\ UNCHANGED <<active, signing_key, ended, raced>>

\* A retired token that comes back any other way ends its whole family.
refresh_reuse(i) ==
    /\ Presents(i) /\ refresh_tokens[i].used > 0 /\ ~lost_reply_retried(i)
    /\ Revoke(OfFamily(refresh_tokens[i].family)) /\ EndFamilies({refresh_tokens[i].family})
    /\ UNCHANGED <<active, signing_key, auth_req>>

logout_PresentedOnly(i) ==
    /\ i \in DOMAIN refresh_tokens /\ decode_token(refresh_tokens[i])
    /\ refresh_tokens' = [refresh_tokens EXCEPT ![i].revoked = TRUE]
    /\ EndFamilies({refresh_tokens[i].family})
    /\ UNCHANGED <<active, signing_key, auth_req>>

logout(i) ==
    /\ i \in DOMAIN refresh_tokens /\ decode_token(refresh_tokens[i])
    /\ Revoke(OfFamily(refresh_tokens[i].family)) /\ EndFamilies({refresh_tokens[i].family})
    /\ UNCHANGED <<active, signing_key, auth_req>>
-----------------------------------------------------------------------------
(* routes/admin.py and routes/system.py: what ends or suspends sessions.    *)

\* Deactivation leaves the refresh tokens alone: refresh and login read is_active.
set_is_active(u) ==
    /\ active' = (IF u \in active THEN active \ {u} ELSE active \union {u})
    /\ UNCHANGED <<refresh_tokens, signing_key, auth_req, ended, raced>>

revoke_user_sessions(u) ==
    /\ Revoke(OfUser(u)) /\ EndFamilies(FamiliesOf(OfUser(u)))
    /\ UNCHANGED <<active, signing_key, auth_req>>

\* routes/system.py: a new key and every session revoked, in one transaction.
rotate_jwt_signing_key ==
    /\ signing_key < MaxKeys
    /\ signing_key' = signing_key + 1
    /\ Revoke(DOMAIN refresh_tokens) /\ EndFamilies(FamiliesOf(DOMAIN refresh_tokens))
    /\ UNCHANGED <<active, auth_req>>
-----------------------------------------------------------------------------
(* The passing of time, and a request that dies with its connection.       *)

grace_ends(i) ==
    /\ i \in DOMAIN refresh_tokens /\ refresh_tokens[i].in_grace
    /\ refresh_tokens' = [refresh_tokens EXCEPT ![i].in_grace = FALSE]
    /\ UNCHANGED <<active, signing_key, auth_req, ended, raced>>

request_lost(r) ==
    /\ auth_req[r] # Idle /\ Close(r)
    /\ UNCHANGED <<active, refresh_tokens, signing_key, ended, raced>>

SessionsNext ==
    \/ \E r \in AuthReq :
         \/ refresh_answer(r) \/ request_lost(r)
         \/ \E i \in 1 .. MaxTokens : refresh_retire(r, i) \/ refresh_retry(r, i)
    \/ \E i \in 1 .. MaxTokens : refresh_reuse(i) \/ logout(i) \/ grace_ends(i)
    \/ \E u \in SessionUser : login(u) \/ set_is_active(u) \/ revoke_user_sessions(u)
    \/ rotate_jwt_signing_key
-----------------------------------------------------------------------------
SessionsTypeOK ==
    /\ active \subseteq SessionUser
    /\ refresh_tokens \in Seq(TokenRow) /\ Len(refresh_tokens) <= MaxTokens
    /\ signing_key \in SigningKey
    /\ \A r \in AuthReq : auth_req[r].op \in {"idle", "rotate", "retry"}
    /\ ended \subseteq 1 .. MaxTokens

\* A session that was ended (sign-out, a replayed token, an administrator, a new
\* signing key) stays ended: none of its family's tokens is live, unless a refresh of
\* that family was between its two commits when it was ended, in which case the
\* successor it then stores is live.
SessionEndIsFinal ==
    \A i \in DOMAIN refresh_tokens :
        refresh_tokens[i].family \in ended \ raced => refresh_tokens[i].revoked
=============================================================================
