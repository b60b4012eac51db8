--------------------------- MODULE PlatformProofs ---------------------------
(***************************************************************************)
(* What the components the desk stands on guarantee for any number of      *)
(* accounts, requests, tokens, writers, messages, workers, evaluations and *)
(* restarts.                                                               *)
(*                                                                         *)
(* Each component has its inductive invariant, the proof that its actions  *)
(* keep it, and the theorem that follows; the last two sections put them   *)
(* together, for what must happen by itself and for the platform.          *)
(***************************************************************************)
EXTENDS MCPlatform, MCWatch, Lemmas

-----------------------------------------------------------------------------
(* Sessions.                                                               *)

SessionsSpec == SessionsInit /\ [][SessionsNext]_sessionsVars

\* A request in flight carries the account and the family of the token it read.
AuthReqSet ==
    {Idle} \union [op: {"rotate"}, user: SessionUser, family: 1 .. MaxTokens]
           \union [op: {"retry"}, user: SessionUser, family: 1 .. MaxTokens, token: 1 .. MaxTokens]

\* A family is numbered by its first token, so the next session's is a new one, and is
\* one account's.
TokensIssued ==
    \A i \in DOMAIN refresh_tokens :
        /\ refresh_tokens[i].family \in DOMAIN refresh_tokens
        /\ refresh_tokens[refresh_tokens[i].family].user = refresh_tokens[i].user
\* The family a request is about has been issued, to the account the request is of.
RequestsIssued ==
    \A r \in AuthReq : auth_req[r] # Idle =>
        /\ auth_req[r].family \in DOMAIN refresh_tokens
        /\ refresh_tokens[auth_req[r].family].user = auth_req[r].user

\* A refresh in flight of a family that was ended was in flight when it was ended.
InFlightWasRaced ==
    \A r \in AuthReq : auth_req[r] # Idle /\ auth_req[r].family \in ended
                         => auth_req[r].family \in raced

\* The inductive invariant of the sessions.
SessionsIInv ==
    /\ SessionsTypeOK /\ auth_req \in [AuthReq -> AuthReqSet]
    /\ TokensIssued /\ RequestsIssued /\ ended \subseteq DOMAIN refresh_tokens
    /\ InFlightWasRaced /\ SessionEndIsFinal

\* What redeeming a token makes of its row.
LEMMA Retired ==
    ASSUME NEW t \in TokenRow, NEW n \in 0 .. MaxTokens
    PROVE  LET s == [t EXCEPT !.used = n, !.revoked = TRUE, !.in_grace = TRUE]
           IN  s \in TokenRow /\ s.family = t.family /\ s.user = t.user /\ s.revoked
BY DEF TokenRow

\* Nothing has been issued or ended.
LEMMA SessionsStart == SessionsInit => SessionsIInv
BY SessionsAssumption, EmptySeq
   DEF SessionsInit, SessionsIInv, SessionsTypeOK, AuthReqSet, TokensIssued, RequestsIssued,
       InFlightWasRaced, SessionEndIsFinal, SigningKey, Idle

\* Rows are only ever revoked, stamped or added at the end; a family that is ended takes
\* all its rows with it, and one whose refresh is in flight is remembered as raced.
LEMMA SessionsStep == SessionsIInv /\ [SessionsNext]_sessionsVars => SessionsIInv'
<1> SUFFICES ASSUME SessionsIInv, [SessionsNext]_sessionsVars PROVE SessionsIInv'
  OBVIOUS
<1> USE SessionsAssumption DEF SessionsIInv, SessionsTypeOK
<1> DEFINE rt == refresh_tokens
           SameRow(i) == rt'[i].family = rt[i].family /\ rt'[i].user = rt[i].user
<1>0. /\ DOMAIN rt = 1 .. Len(rt) /\ Len(rt) \in Nat /\ \A i \in DOMAIN rt : rt[i] \in TokenRow
  BY LenProperties
<1>a. ASSUME DOMAIN rt \subseteq DOMAIN rt', \A i \in DOMAIN rt : SameRow(i)
      PROVE  /\ \A i \in DOMAIN rt : /\ rt'[i].family \in DOMAIN rt'
                                     /\ rt'[rt'[i].family].user = rt'[i].user
             /\ (\A r \in AuthReq : auth_req'[r] \in {Idle, auth_req[r]}) => RequestsIssued'
  <2>1. ASSUME NEW i \in DOMAIN rt
        PROVE  rt'[i].family \in DOMAIN rt' /\ rt'[rt'[i].family].user = rt'[i].user
    <3>1. rt[i].family \in DOMAIN rt /\ rt[rt[i].family].user = rt[i].user
      BY DEF TokensIssued
    <3> QED
      BY <1>a, <3>1
  <2>2. ASSUME \A r \in AuthReq : auth_req'[r] \in {Idle, auth_req[r]} PROVE RequestsIssued'
    BY <1>a, <2>2 DEF RequestsIssued
  <2> QED
    BY <2>1, <2>2
<1>1. ASSUME NEW u \in SessionUser, NEW f \in 1 .. MaxTokens, start_session(u, f),
             f \in ended => f \in raced,
             f = Len(rt) + 1 \/ (f \in DOMAIN rt /\ rt[f].user = u),
             \A r \in AuthReq : auth_req'[r] \in {Idle, auth_req[r]},
             UNCHANGED <<active, signing_key, ended, raced>>
      PROVE  /\ rt' \in Seq(TokenRow) /\ Len(rt') <= MaxTokens /\ DOMAIN rt \subseteq DOMAIN rt'
             /\ TokensIssued' /\ RequestsIssued' /\ SessionEndIsFinal'
  <2> DEFINE t == create_refresh_token(u, f)
  <2>1. t \in TokenRow /\ t.family = f /\ t.user = u
    BY <1>1 DEF create_refresh_token, TokenRow
  <2>2. rt' = Append(rt, t) /\ Len(rt) < MaxTokens
    BY <1>1 DEF start_session
  <2> HIDE DEF t
  <2>3. /\ rt' \in Seq(TokenRow) /\ Len(rt') = Len(rt) + 1
        /\ DOMAIN rt' = 1 .. Len(rt) + 1
        /\ \A i \in 1 .. Len(rt) : rt'[i] = rt[i]
        /\ rt'[Len(rt) + 1] = t
    BY <2>1, <2>2, Added
  <2>4. TokensIssued' /\ RequestsIssued'
    BY <1>0, <1>a, <1>1, <2>1, <2>3 DEF TokensIssued
  <2> QED
    BY <1>0, <1>1, <2>1, <2>2, <2>3, <2>4 DEF SessionEndIsFinal
<1>2. ASSUME NEW u \in SessionUser, login(u) PROVE SessionsIInv'
  <2>1. Len(rt) + 1 \in 1 .. MaxTokens /\ Len(rt) + 1 \notin ended
    BY <1>0, <1>2 DEF login, start_session
  <2> QED
    BY <1>1, <1>2, <2>1 DEF login, InFlightWasRaced
<1>3. ASSUME NEW r \in AuthReq, refresh_answer(r) PROVE SessionsIInv'
  <2>1. /\ auth_req[r] # Idle /\ auth_req[r].user \in SessionUser
        /\ auth_req[r].family \in 1 .. MaxTokens
    BY <1>3 DEF refresh_answer, AuthReqSet, Idle
  <2>2. auth_req' = [auth_req EXCEPT ![r] = Idle] /\ UNCHANGED <<active, signing_key, ended, raced>>
    BY <1>3 DEF refresh_answer, Close, Open
  <2>3. /\ rt' \in Seq(TokenRow) /\ Len(rt') <= MaxTokens /\ DOMAIN rt \subseteq DOMAIN rt'
        /\ TokensIssued' /\ RequestsIssued' /\ SessionEndIsFinal'
    BY <1>1, <1>3, <2>1, <2>2 DEF refresh_answer, RequestsIssued, InFlightWasRaced
  <2> QED
    BY <2>2, <2>3 DEF AuthReqSet, Idle, InFlightWasRaced
<1>4. ASSUME NEW r \in AuthReq, request_lost(r) PROVE SessionsIInv'
  <2>1. auth_req' = [auth_req EXCEPT ![r] = Idle]
    BY <1>4 DEF request_lost, Close, Open
  <2>2. UNCHANGED <<active, refresh_tokens, signing_key, ended, raced>>
    BY <1>4 DEF request_lost
  <2> QED
    BY <2>1, <2>2 DEF AuthReqSet, Idle, TokensIssued, RequestsIssued, InFlightWasRaced, SessionEndIsFinal
<1>5. ASSUME NEW i \in DOMAIN rt, NEW t \in TokenRow, rt' = [rt EXCEPT ![i] = t],
             t.family = rt[i].family, t.user = rt[i].user, rt[i].revoked => t.revoked,
             UNCHANGED <<active, signing_key, ended, raced>>
      PROVE  /\ rt' \in Seq(TokenRow) /\ Len(rt') = Len(rt) /\ DOMAIN rt' = DOMAIN rt
             /\ \A j \in DOMAIN rt : SameRow(j)
             /\ TokensIssued' /\ SessionEndIsFinal'
  <2>1. /\ rt' \in Seq(TokenRow) /\ Len(rt') = Len(rt) /\ DOMAIN rt' = DOMAIN rt
    BY <1>0, <1>5, Rewritten
  <2>2. \A j \in DOMAIN rt : SameRow(j) /\ (rt[j].revoked => rt'[j].revoked)
    BY <1>5
  <2> QED
    BY <1>a, <1>5, <2>1, <2>2 DEF TokensIssued, SessionEndIsFinal
<1>6. ASSUME NEW r \in AuthReq, NEW i \in 1 .. MaxTokens, refresh_retire(r, i) PROVE SessionsIInv'
  <2> DEFINE t == [rt[i] EXCEPT !.used = Len(rt), !.revoked = TRUE, !.in_grace = TRUE]
             q == [op |-> "rotate", user |-> rt[i].user, family |-> rt[i].family]
  <2>1. i \in DOMAIN rt /\ rt' = [rt EXCEPT ![i] = t] /\ ~rt[i].revoked
    BY <1>6 DEF refresh_retire, Presents
  <2>2. rt[i] \in TokenRow /\ Len(rt) \in 0 .. MaxTokens
    BY <1>0, <2>1
  <2>3. /\ t \in TokenRow /\ t.family = rt[i].family /\ t.revoked /\ t.user = rt[i].user
    BY <2>2, Retired
  <2>4. q \in AuthReqSet /\ q.family = rt[i].family /\ q.user = rt[i].user
    BY <2>2 DEF AuthReqSet, TokenRow
  <2>5. auth_req' = [auth_req EXCEPT ![r] = q] /\ UNCHANGED <<active, signing_key, ended, raced>>
    BY <1>6 DEF refresh_retire, Open
  <2> HIDE DEF t, q
  <2>6. /\ rt' \in Seq(TokenRow) /\ Len(rt') = Len(rt) /\ DOMAIN rt' = DOMAIN rt
        /\ \A j \in DOMAIN rt : SameRow(j)
        /\ TokensIssued' /\ SessionEndIsFinal'
    BY <1>5, <2>1, <2>3, <2>5
  <2>7. RequestsIssued'
    BY <2>1, <2>4, <2>5, <2>6 DEF RequestsIssued, TokensIssued
  <2>8. InFlightWasRaced'
    BY <2>1, <2>4, <2>5 DEF InFlightWasRaced, SessionEndIsFinal
  <2>9. auth_req' \in [AuthReq -> AuthReqSet] /\ \A p \in AuthReq : auth_req'[p].op \in {"idle", "rotate", "retry"}
    BY <2>4, <2>5 DEF AuthReqSet, Idle
  <2> QED
    BY <2>5, <2>6, <2>7, <2>8, <2>9
<1>7. ASSUME NEW r \in AuthReq, NEW i \in 1 .. MaxTokens, refresh_retry(r, i) PROVE SessionsIInv'
  <2> DEFINE q == [op |-> "retry", user |-> rt[i].user, family |-> rt[i].family, token |-> i]
  <2>1. i \in DOMAIN rt /\ rt[i] \in TokenRow
    BY <1>0, <1>7 DEF refresh_retry, Presents
  <2>2. rt[i].family \in ended => rt[i].family \in raced
    BY <1>7 DEF refresh_retry, lost_reply_retried, SessionEndIsFinal
  <2>3. q \in AuthReqSet /\ q.family = rt[i].family /\ q.user = rt[i].user
    BY <2>1 DEF AuthReqSet, TokenRow
  <2>4. auth_req' = [auth_req EXCEPT ![r] = q] /\ UNCHANGED <<active, refresh_tokens, signing_key, ended, raced>>
    BY <1>7 DEF refresh_retry, Open
  <2> HIDE DEF q
  <2>5. RequestsIssued' /\ TokensIssued'
    BY <2>1, <2>3, <2>4 DEF RequestsIssued, TokensIssued
  <2>6. InFlightWasRaced' /\ SessionEndIsFinal'
    BY <2>2, <2>3, <2>4 DEF InFlightWasRaced, SessionEndIsFinal
  <2>7. auth_req' \in [AuthReq -> AuthReqSet] /\ \A p \in AuthReq : auth_req'[p].op \in {"idle", "rotate", "retry"}
    BY <2>3, <2>4 DEF AuthReqSet, Idle
  <2> QED
    BY <2>4, <2>5, <2>6, <2>7
<1>8. ASSUME NEW gone \in SUBSET DOMAIN rt, Revoke(gone), EndFamilies(FamiliesOf(gone)),
             \A i, j \in DOMAIN rt : i \in gone /\ rt[i].family = rt[j].family => j \in gone,
             UNCHANGED <<active, auth_req>>, signing_key' \in SigningKey
      PROVE  SessionsIInv'
  <2>1. \A i \in DOMAIN rt : LET t == [rt[i] EXCEPT !.revoked = TRUE]
                             IN  t \in TokenRow /\ t.family = rt[i].family /\ t.user = rt[i].user /\ t.revoked
    BY <1>0 DEF TokenRow
  <2>2. rt' \in [DOMAIN rt -> TokenRow]
    BY <1>0, <1>8, <2>1 DEF Revoke
  <2>3. rt' \in Seq(TokenRow) /\ Len(rt') = Len(rt) /\ DOMAIN rt' = DOMAIN rt
    BY <2>2, Rewritten
  <2>4. \A i \in DOMAIN rt : SameRow(i) /\ (i \in gone \/ rt[i].revoked => rt'[i].revoked)
    BY <1>8, <2>1 DEF Revoke
  <2>5. TokensIssued' /\ RequestsIssued'
    BY <1>a, <1>8, <2>3, <2>4 DEF TokensIssued
  <2>6. InFlightWasRaced'
    BY <1>8 DEF EndFamilies, InFlight, AuthReqSet, InFlightWasRaced
  <2>7. SessionEndIsFinal'
    BY <1>8, <2>3, <2>4 DEF EndFamilies, FamiliesOf, SessionEndIsFinal
  <2>8. ended' \subseteq DOMAIN rt' /\ ended' \subseteq 1 .. MaxTokens
    <3>1. FamiliesOf(gone) \subseteq DOMAIN rt
      BY <1>8 DEF FamiliesOf, TokensIssued
    <3>2. ended' = ended \union FamiliesOf(gone)
      BY <1>8 DEF EndFamilies
    <3>3. ended' \subseteq DOMAIN rt
      BY <3>1, <3>2
    <3> QED
      BY <1>0, <2>3, <3>3
  <2> QED
    BY <1>8, <2>3, <2>5, <2>6, <2>7, <2>8
<1>9. ASSUME NEW i \in DOMAIN rt, Revoke(OfFamily(rt[i].family)), EndFamilies({rt[i].family}),
             UNCHANGED <<active, signing_key, auth_req>>
      PROVE  SessionsIInv'
  <2>1. FamiliesOf(OfFamily(rt[i].family)) = {rt[i].family}
    BY DEF FamiliesOf, OfFamily
  <2> QED
    BY <1>8, <1>9, <2>1 DEF OfFamily
<1>10. ASSUME NEW i \in 1 .. MaxTokens, refresh_reuse(i) PROVE SessionsIInv'
  BY <1>9, <1>10 DEF refresh_reuse, Presents
<1>11. ASSUME NEW i \in 1 .. MaxTokens, logout(i) PROVE SessionsIInv'
  BY <1>9, <1>11 DEF logout
<1>12. ASSUME NEW i \in 1 .. MaxTokens, grace_ends(i) PROVE SessionsIInv'
  <2> DEFINE t == [rt[i] EXCEPT !.in_grace = FALSE]
  <2>1. i \in DOMAIN rt /\ rt' = [rt EXCEPT ![i] = t] /\ UNCHANGED <<active, signing_key, auth_req, ended, raced>>
    BY <1>12 DEF grace_ends
  <2>2. t \in TokenRow /\ t.family = rt[i].family /\ t.user = rt[i].user /\ t.revoked = rt[i].revoked
    BY <1>0, <2>1 DEF TokenRow
  <2> HIDE DEF t
  <2>3. /\ rt' \in Seq(TokenRow) /\ Len(rt') = Len(rt) /\ DOMAIN rt' = DOMAIN rt
        /\ \A j \in DOMAIN rt : SameRow(j)
        /\ TokensIssued' /\ SessionEndIsFinal'
    BY <1>5, <2>1, <2>2
  <2> QED
    BY <1>a, <2>1, <2>3 DEF InFlightWasRaced
<1>13. ASSUME NEW u \in SessionUser, set_is_active(u) PROVE SessionsIInv'
  BY <1>13 DEF set_is_active, TokensIssued, RequestsIssued, InFlightWasRaced, SessionEndIsFinal
<1>14. ASSUME NEW u \in SessionUser, revoke_user_sessions(u) PROVE SessionsIInv'
  BY <1>8, <1>14 DEF revoke_user_sessions, OfUser, TokensIssued
<1>15. CASE rotate_jwt_signing_key
  BY <1>8, <1>15 DEF rotate_jwt_signing_key, SigningKey
<1>16. CASE UNCHANGED sessionsVars
  BY <1>16 DEF sessionsVars, TokensIssued, RequestsIssued, InFlightWasRaced, SessionEndIsFinal
<1> QED
  BY <1>2, <1>3, <1>4, <1>6, <1>7, <1>10, <1>11, <1>12, <1>13, <1>14, <1>15, <1>16 DEF SessionsNext

\* However sign-ins, refreshes, sign-outs and revocations overlap, an ended session stays
\* ended unless one of its refreshes was between its two commits.
THEOREM SessionEndIsFinalHolds == SessionsSpec => []SessionEndIsFinal
<1>1. SessionsIInv => SessionEndIsFinal
  BY DEF SessionsIInv
<1> QED
  BY <1>1, SessionsStart, SessionsStep, PTL DEF SessionsSpec

-----------------------------------------------------------------------------
(* Accounts.                                                               *)

AccountsSpec == AccountsInit /\ [][AccountsNext]_accountsVars

\* A change under way carries what it was asked for.
AccountReqSet ==
    {NoReq} \union [op: {"register"}]
            \union [op: {"change_role"}, user: User, role: Role]
            \union [op: {"deactivate"}, user: User]

\* Unless two changes overlapped there is one at most, and whoever it is about there is
\* another active administrator: the one counted, or the one who asked for it.
SpareAdministrator ==
    \A r \in AccountReq : PendingChange(r) =>
        /\ Exists(account_req[r].user)
        /\ ~overlapped => /\ ActiveAdmins \ {account_req[r].user} # {}
                          /\ \A q \in AccountReq : PendingChange(q) => q = r

\* The inductive invariant of the accounts.
AccountsIInv ==
    /\ AccountsTypeOK /\ account_req \in [AccountReq -> AccountReqSet]
    /\ SpareAdministrator /\ SomeAdministrator

\* What a sign-in makes of an account's row: neither its role nor whether it is active.
LEMMA AfterSuccess ==
    ASSUME NEW row \in UserRow
    PROVE  /\ after_success(row) \in UserRow /\ after_success(row).role = row.role
           /\ after_success(row).is_active = row.is_active
<1>1. 0 \in 0 .. MaxFailures - 1
  BY AccountsAssumption
<1> QED
  BY <1>1 DEF after_success, UserRow

\* What a failed sign-in makes of it: neither, again.
LEMMA AfterFailure ==
    ASSUME NEW row \in UserRow
    PROVE  /\ after_failure(row) \in UserRow /\ after_failure(row).role = row.role
           /\ after_failure(row).is_active = row.is_active
<1> DEFINE previous == IF row.lock = "ran_out" \/ ~row.recent THEN 0 ELSE row.failures
<1>1. previous \in 0 .. MaxFailures - 1
  BY AccountsAssumption DEF UserRow
<1>2. CASE previous + 1 >= MaxFailures
  <2>1. after_failure(row) = [row EXCEPT !.failures = 0, !.recent = TRUE, !.lock = "holds"]
    BY <1>2 DEF after_failure
  <2>2. 0 \in 0 .. MaxFailures - 1
    BY AccountsAssumption
  <2> QED
    BY <2>1, <2>2 DEF UserRow
<1>3. CASE ~(previous + 1 >= MaxFailures)
  <2>1. after_failure(row) = [row EXCEPT !.failures = previous + 1, !.recent = TRUE, !.lock = "none"]
    BY <1>3 DEF after_failure
  <2>2. previous + 1 \in 0 .. MaxFailures - 1
    BY <1>1, <1>3, AccountsAssumption
  <2> HIDE DEF previous
  <2> QED
    BY <2>1, <2>2 DEF UserRow
<1> QED
  BY <1>2, <1>3

\* Two different accounts are in question, or the count of the others was above zero.
LEMMA AnotherAdministrator ==
    ASSUME NEW a \in User, NEW u \in User, require_role(a),
           would_remove_last_admin(u) => active_admin_count(u) > 0
    PROVE  ActiveAdmins \ {u} # {}
<1>1. a \in ActiveAdmins
  BY DEF require_role, get_current_user, ActiveAdmins
<1>2. CASE u \in ActiveAdmins
  BY <1>2, FS_EmptySet DEF would_remove_last_admin, active_admin_count
<1> QED
  BY <1>1, <1>2

\* There is no account yet.
LEMMA AccountsStart == AccountsInit => AccountsIInv
<1> SUFFICES ASSUME AccountsInit PROVE AccountsIInv
  OBVIOUS
<1>1. AccountsTypeOK /\ account_req \in [AccountReq -> AccountReqSet]
  BY DEF AccountsInit, AccountsTypeOK, AccountReqSet, NoReq
<1>2. SpareAdministrator
  BY DEF AccountsInit, SpareAdministrator, PendingChange, NoReq
<1>3. SomeAdministrator
  BY DEF AccountsInit, SomeAdministrator, Exists
<1> QED
  BY <1>1, <1>2, <1>3 DEF AccountsIInv

\* An account never goes away, and only the commit of a change takes an administrator's
\* role or activity: with one change open at a time the other administrator is there.
LEMMA AccountsStep == AccountsIInv /\ [AccountsNext]_accountsVars => AccountsIInv'
<1> SUFFICES ASSUME AccountsIInv, [AccountsNext]_accountsVars PROVE AccountsIInv'
  OBVIOUS
<1> USE AccountsAssumption DEF AccountsIInv, AccountsTypeOK
<1>0. \A u \in User : Exists(u) => users[u] \in UserRow
  BY DEF Exists
<1>1. ASSUME NEW u \in User, NEW row \in UserRow, users' = [users EXCEPT ![u] = row],
             u \in ActiveAdmins => row.role = Admin /\ row.is_active,
             Exists(u) \/ ActiveAdmins # {} \/ (row.role = Admin /\ row.is_active),
             account_req' = account_req \/ \E r \in AccountReq : account_req' = [account_req EXCEPT ![r] = NoReq],
             UNCHANGED overlapped
      PROVE  AccountsIInv'
  <2>1. users' \in [User -> UserRow \union {NoUser}]
    BY <1>1
  <2>2. row # NoUser
    BY DEF UserRow, NoUser
  <2>3. \A v \in User : (Exists(v) => Exists(v)') /\ (v \in ActiveAdmins => v \in ActiveAdmins')
    BY <1>1, <2>2 DEF Exists, ActiveAdmins
  <2>4. ActiveAdmins \subseteq ActiveAdmins'
    BY <2>3 DEF ActiveAdmins
  <2>5. /\ account_req' \in [AccountReq -> AccountReqSet]
        /\ \A r \in AccountReq : account_req'[r] \in {NoReq, account_req[r]}
    BY <1>1 DEF AccountReqSet
  <2>6. \A r \in AccountReq : PendingChange(r)' => PendingChange(r) /\ account_req'[r] = account_req[r]
    BY <2>5 DEF PendingChange, NoReq
  <2>7. SpareAdministrator'
    <3> SUFFICES ASSUME NEW r \in AccountReq, PendingChange(r)'
                 PROVE  /\ Exists(account_req[r].user)'
                        /\ ~overlapped' => /\ ActiveAdmins' \ {account_req[r].user}' # {}
                                           /\ \A q \in AccountReq : PendingChange(q)' => q = r
      BY DEF SpareAdministrator
    <3>1. PendingChange(r) /\ account_req'[r] = account_req[r]
      BY <2>6
    <3>2. account_req[r].user \in User
      BY <3>1 DEF PendingChange, AccountReqSet, NoReq
    <3> QED
      BY <1>1, <2>3, <2>4, <2>6, <3>1, <3>2 DEF SpareAdministrator
  <2>8. SomeAdministrator'
    BY <1>1, <2>2, <2>3, <2>4 DEF SomeAdministrator, Exists, ActiveAdmins
  <2>9. \A r \in AccountReq : account_req'[r].op \in {"idle", "register", "change_role", "deactivate"}
    BY <2>5 DEF NoReq
  <2> QED
    BY <1>1, <2>1, <2>5, <2>7, <2>8, <2>9
<1>2. ASSUME NEW r \in AccountReq, account_req[r] # NoReq, account_req' = [account_req EXCEPT ![r] = NoReq],
             UNCHANGED <<users, overlapped>>
      PROVE  AccountsIInv'
  <2>1. \A q \in AccountReq : PendingChange(q)' => PendingChange(q) /\ account_req'[q] = account_req[q]
    BY <1>2 DEF PendingChange, NoReq
  <2>2. SpareAdministrator' /\ SomeAdministrator'
    BY <1>2, <2>1 DEF SpareAdministrator, SomeAdministrator, Exists, ActiveAdmins
  <2> QED
    BY <1>2, <2>2 DEF AccountReqSet, NoReq
<1>3. ASSUME NEW r \in AccountReq, NEW req \in AccountReqSet, account_req[r] = NoReq,
             account_req' = [account_req EXCEPT ![r] = req],
             req.op \in {"change_role", "deactivate"} =>
                /\ Overlap /\ Exists(req.user) /\ ActiveAdmins \ {req.user} # {},
             req.op = "register" => UNCHANGED overlapped, req # NoReq,
             UNCHANGED users
      PROVE  AccountsIInv'
  <2>1. \A q \in AccountReq : q # r => (PendingChange(q)' <=> PendingChange(q)) /\ account_req'[q] = account_req[q]
    BY <1>3 DEF PendingChange
  <2>2. ~PendingChange(r) /\ account_req'[r] = req /\ (PendingChange(r)' <=> req.op \in {"change_role", "deactivate"})
    BY <1>3 DEF PendingChange, NoReq
  <2>3. \A u : (Exists(u)' <=> Exists(u)) /\ ActiveAdmins' = ActiveAdmins
    BY <1>3 DEF Exists, ActiveAdmins
  <2>0. req.op = "register" \/ req.op \in {"change_role", "deactivate"}
    BY <1>3 DEF AccountReqSet
  <2>4. overlapped' \in BOOLEAN /\ (overlapped => overlapped')
    <3>1. CASE Overlap
      BY <3>1 DEF Overlap
    <3>2. CASE overlapped' = overlapped
      BY <3>2
    <3> QED
      BY <1>3, <2>0, <3>1, <3>2
  <2>5. SpareAdministrator'
    <3>1. CASE req.op = "register"
      BY <1>3, <2>1, <2>2, <2>3, <3>1 DEF SpareAdministrator
    <3>2. CASE req.op # "register"
      <4>1. overlapped' <=> overlapped \/ \E q \in AccountReq : PendingChange(q)
        BY <1>3, <2>0, <3>2, Zenon DEF Overlap
      <4> QED
        BY <1>3, <2>0, <2>1, <2>2, <2>3, <3>2, <4>1 DEF SpareAdministrator
    <3> QED
      BY <3>1, <3>2
  <2>6. SomeAdministrator'
    BY <2>3, <2>4 DEF SomeAdministrator
  <2> QED
    BY <1>3, <2>4, <2>5, <2>6 DEF AccountReqSet, NoReq
<1>4. ASSUME NEW r \in AccountReq, register_count(r) PROVE AccountsIInv'
  <2> DEFINE req == [op |-> "register"]
  <2>1. req \in AccountReqSet /\ req # NoReq /\ req.op = "register"
    BY DEF AccountReqSet, NoReq
  <2> HIDE DEF req
  <2> QED
    BY <1>3, <1>4, <2>1 DEF register_count, OpenReq, req
<1>5. ASSUME NEW r \in AccountReq, NEW u \in User, register_insert(r, u) PROVE AccountsIInv'
  <2>1. account_req' = [account_req EXCEPT ![r] = NoReq] /\ account_req[r] # NoReq /\ UNCHANGED overlapped
    BY <1>5 DEF register_insert, CloseReq, OpenReq, NoReq
  <2>2. CASE UNCHANGED users
    BY <1>2, <2>1, <2>2
  <2>3. CASE ~UNCHANGED users
    <3>1. NewUser(Admin) \in UserRow /\ NewUser(Admin).role = Admin /\ NewUser(Admin).is_active
      BY DEF NewUser, UserRow, Role
    <3>2. users' = [users EXCEPT ![u] = NewUser(Admin)]
      BY <1>5, <2>3 DEF register_insert, SetUser
    <3> QED
      BY <1>1, <2>1, <3>1, <3>2
  <2> QED
    BY <2>2, <2>3
<1>6. ASSUME NEW r \in AccountReq, NEW a \in User, NEW u \in User, NEW role \in Role,
             change_user_role_read(r, a, u, role)
      PROVE  AccountsIInv'
  <2>1. ActiveAdmins \ {u} # {}
    <3>1. would_remove_last_admin(u) => role # Admin
      BY <1>6 DEF change_user_role_read, would_remove_last_admin, ActiveAdmins
    <3> QED
      BY <1>6, <3>1, AnotherAdministrator DEF change_user_role_read
  <2> QED
    <3> DEFINE req == [op |-> "change_role", user |-> u, role |-> role]
    <3>1. req \in AccountReqSet /\ req # NoReq /\ req.op = "change_role" /\ req.user = u
      BY DEF AccountReqSet, NoReq
    <3>2. /\ account_req[r] = NoReq /\ account_req' = [account_req EXCEPT ![r] = req]
          /\ Exists(u) /\ Overlap /\ UNCHANGED users
      BY <1>6 DEF change_user_role_read, OpenReq
    <3> HIDE DEF req
    <3> QED
      BY <1>3, <2>1, <3>1, <3>2
<1>7. ASSUME NEW r \in AccountReq, NEW a \in User, NEW u \in User, deactivate_user_read(r, a, u)
      PROVE  AccountsIInv'
  <2>1. ActiveAdmins \ {u} # {}
    BY <1>7, AnotherAdministrator DEF deactivate_user_read
  <2> QED
    <3> DEFINE req == [op |-> "deactivate", user |-> u]
    <3>1. req \in AccountReqSet /\ req # NoReq /\ req.op = "deactivate" /\ req.user = u
      BY DEF AccountReqSet, NoReq
    <3>2. /\ account_req[r] = NoReq /\ account_req' = [account_req EXCEPT ![r] = req]
          /\ Exists(u) /\ Overlap /\ UNCHANGED users
      BY <1>7 DEF deactivate_user_read, OpenReq
    <3> HIDE DEF req
    <3> QED
      BY <1>3, <2>1, <3>1, <3>2
<1>8. ASSUME NEW r \in AccountReq, admin_commit(r) PROVE AccountsIInv'
  <2> DEFINE u == account_req[r].user
             row == IF account_req[r].op = "change_role"
                    THEN [users[u] EXCEPT !.role = account_req[r].role]
                    ELSE [users[u] EXCEPT !.is_active = FALSE]
  <2>1. /\ PendingChange(r) /\ users' = [users EXCEPT ![u] = row]
        /\ account_req' = [account_req EXCEPT ![r] = NoReq] /\ UNCHANGED overlapped
    BY <1>8 DEF admin_commit, CloseReq, OpenReq, SetUser
  <2>2. /\ u \in User /\ Exists(u) /\ users[u] \in UserRow
        /\ account_req[r].op = "change_role" => account_req[r].role \in Role
    BY <1>0, <2>1 DEF PendingChange, SpareAdministrator, AccountReqSet, NoReq
  <2>3. row \in UserRow
    BY <2>2 DEF UserRow
  <2>4. row # NoUser
    BY <2>3 DEF UserRow, NoUser
  <2> HIDE DEF row
  <2>5. \A v \in User : Exists(v)' <=> Exists(v)
    BY <2>1, <2>2, <2>4 DEF Exists
  <2>6. ActiveAdmins \ {u} \subseteq ActiveAdmins'
    BY <2>1, <2>5 DEF ActiveAdmins
  <2>7. \A q \in AccountReq : PendingChange(q)' => q # r /\ PendingChange(q) /\ account_req'[q] = account_req[q]
    BY <2>1 DEF PendingChange, NoReq
  <2>8. SpareAdministrator'
    <3> SUFFICES ASSUME NEW q \in AccountReq, PendingChange(q)'
                 PROVE  Exists(account_req[q].user)' /\ overlapped'
      BY DEF SpareAdministrator
    <3>1. PendingChange(q) /\ q # r /\ account_req'[q] = account_req[q]
      BY <2>7
    <3>2. account_req[q].user \in User
      BY <3>1 DEF PendingChange, AccountReqSet, NoReq
    <3> QED
      BY <2>1, <2>5, <3>1, <3>2 DEF SpareAdministrator
  <2>9. SomeAdministrator'
    BY <2>1, <2>6 DEF SomeAdministrator, SpareAdministrator
  <2> QED
    BY <2>1, <2>3, <2>8, <2>9 DEF AccountReqSet, NoReq
<1>9. ASSUME NEW u \in User, NEW row \in UserRow, Exists(u), users' = [users EXCEPT ![u] = row],
             row.role = users[u].role, row.is_active \/ row.is_active = users[u].is_active,
             UNCHANGED <<account_req, overlapped>>
      PROVE  AccountsIInv'
  BY <1>1, <1>9 DEF ActiveAdmins
<1>10. ASSUME NEW u \in User, login_wrong_password(u) PROVE AccountsIInv'
  <2>1. users[u] \in UserRow
    BY <1>0, <1>10 DEF login_wrong_password
  <2>2. /\ after_failure(users[u]) \in UserRow /\ after_failure(users[u]).role = users[u].role
        /\ after_failure(users[u]).is_active = users[u].is_active
    BY <2>1, AfterFailure
  <2> QED
    BY <1>9, <1>10, <2>2 DEF login_wrong_password, SetUser
<1>11. \A u \in User : Exists(u) =>
          /\ after_success(users[u]) \in UserRow /\ after_success(users[u]).role = users[u].role
          /\ after_success(users[u]).is_active = users[u].is_active
  BY <1>0, AfterSuccess
<1>12. ASSUME NEW u \in User, login_success(u) PROVE AccountsIInv'
  BY <1>9, <1>11, <1>12 DEF login_success, SetUser
<1>13. ASSUME NEW a \in User, NEW u \in User, NEW role \in Role, create_user(a, u, role)
       PROVE  AccountsIInv'
  <2>1. NewUser(role) \in UserRow
    BY DEF NewUser, UserRow
  <2> QED
    BY <1>1, <1>13, <2>1 DEF create_user, SetUser, require_role, get_current_user, ActiveAdmins
<1>14. ASSUME NEW a \in User, NEW u \in User, reactivate_user(a, u) PROVE AccountsIInv'
  <2>1. LET row == [users[u] EXCEPT !.is_active = TRUE]
        IN  row \in UserRow /\ row.role = users[u].role /\ row.is_active
    BY <1>0, <1>14 DEF reactivate_user, UserRow
  <2> QED
    BY <1>9, <1>14, <2>1 DEF reactivate_user, SetUser
<1>15. ASSUME NEW a \in User, NEW u \in User, unlock_user(a, u) PROVE AccountsIInv'
  BY <1>9, <1>11, <1>15 DEF unlock_user, SetUser
<1>16. ASSUME NEW u \in User, window_ends(u) PROVE AccountsIInv'
  <2>1. LET row == [users[u] EXCEPT !.recent = FALSE]
        IN  row \in UserRow /\ row.role = users[u].role /\ row.is_active = users[u].is_active
    BY <1>0, <1>16 DEF window_ends, UserRow
  <2> QED
    BY <1>9, <1>16, <2>1 DEF window_ends, SetUser
<1>17. ASSUME NEW u \in User, lock_runs_out(u) PROVE AccountsIInv'
  <2>1. LET row == [users[u] EXCEPT !.lock = "ran_out"]
        IN  row \in UserRow /\ row.role = users[u].role /\ row.is_active = users[u].is_active
    BY <1>0, <1>17 DEF lock_runs_out, UserRow
  <2> QED
    BY <1>9, <1>17, <2>1 DEF lock_runs_out, SetUser
<1>18. ASSUME NEW r \in AccountReq, account_request_lost(r) PROVE AccountsIInv'
  BY <1>2, <1>18 DEF account_request_lost, CloseReq, OpenReq
<1>19. CASE UNCHANGED accountsVars
  BY <1>19 DEF accountsVars, SpareAdministrator, SomeAdministrator, PendingChange, Exists, ActiveAdmins
<1> QED
  BY <1>4, <1>5, <1>6, <1>7, <1>8, <1>10, <1>12, <1>13, <1>14, <1>15, <1>16, <1>17, <1>18, <1>19
     DEF AccountsNext

\* However requests overlap, there is an active administrator once somebody has registered,
\* unless two changes to administrators were open at once.
THEOREM SomeAdministratorHolds == AccountsSpec => []SomeAdministrator
<1>1. AccountsIInv => SomeAdministrator
  BY DEF AccountsIInv
<1> QED
  BY <1>1, AccountsStart, AccountsStep, PTL DEF AccountsSpec

-----------------------------------------------------------------------------
(* Connections.                                                            *)

ConnectionsSpec == ConnectionsInit /\ [][ConnectionsNext]_connectionVars

\* A record with an API key; a callback holds the one it read.
KeyedRecord == {b \in BrokerRecord : b.key # 0}
CallbackSet == {NoCallback} \union [at: {"exchange", "audit"}, creds: KeyedRecord]

\* The inductive invariant of the broker connections.
ConnectionsIInv ==
    /\ ConnectionsTypeOK /\ callback \in [Callback -> CallbackSet]
    /\ record = NoRecord \/ record \in KeyedRecord
    /\ TokenOfItsKey

\* The broker is not configured.
LEMMA ConnectionsStart == ConnectionsInit => ConnectionsIInv
BY ConnectionsAssumption
   DEF ConnectionsInit, ConnectionsIInv, ConnectionsTypeOK, CallbackSet, NoCallback, TokenOfItsKey,
       NoRecord, BrokerRecord, Redirect

\* A record is written whole: a new key without a token or with its own, or one that was
\* read with the token of the key it holds.
LEMMA ConnectionsStep == ConnectionsIInv /\ [ConnectionsNext]_connectionVars => ConnectionsIInv'
<1> SUFFICES ASSUME ConnectionsIInv, [ConnectionsNext]_connectionVars PROVE ConnectionsIInv'
  OBVIOUS
<1> USE ConnectionsAssumption DEF ConnectionsIInv, ConnectionsTypeOK
<1>0. NoRecord \in BrokerRecord /\ NoRecord.token = 0 /\ NoRecord.key = 0
  BY DEF NoRecord, BrokerRecord, Redirect
<1>1. ASSUME NEW pasted \in BOOLEAN, write_broker_credentials(pasted) PROVE ConnectionsIInv'
  <2> DEFINE n == last_key + 1
             b == [NoRecord EXCEPT !.key = n, !.redirect = record.redirect,
                                   !.token = IF pasted THEN n ELSE 0]
  <2>1. n \in 1 .. MaxApiKeys /\ n \in 0 .. MaxApiKeys /\ n # 0
    BY <1>1 DEF write_broker_credentials
  <2>2. record.redirect \in Redirect /\ 0 \in 0 .. MaxApiKeys
    BY DEF BrokerRecord
  <2>3. record' = b /\ last_key' = n /\ UNCHANGED <<callback, connected, secrets_file>>
    BY <1>1 DEF write_broker_credentials
  <2> HIDE DEF n
  <2>4. b \in BrokerRecord /\ b.key = n /\ b.token \in {0, n}
    BY <1>0, <2>1, <2>2, Zenon DEF BrokerRecord
  <2> HIDE DEF b
  <2> QED
    BY <2>1, <2>3, <2>4 DEF KeyedRecord, TokenOfItsKey
<1>2. CASE delete_broker_credentials
  BY <1>0, <1>2 DEF delete_broker_credentials, TokenOfItsKey
<1>3. ASSUME NEW r \in Redirect, write_broker_redirect_uri(r) PROVE ConnectionsIInv'
  BY <1>3 DEF write_broker_redirect_uri, Configured, KeyedRecord, BrokerRecord, TokenOfItsKey
<1>4. ASSUME NEW file \in {"empty", "torn"}, SecretsWriteCutShort(file) PROVE ConnectionsIInv'
  BY <1>0, <1>4 DEF SecretsWriteCutShort, CallbackSet, NoCallback, TokenOfItsKey
<1>5. ASSUME NEW c \in Callback, oauth_callback(c) PROVE ConnectionsIInv'
  BY <1>5 DEF oauth_callback, Configured, CallbackSet, NoCallback, TokenOfItsKey
<1>6. ASSUME NEW c \in Callback, exchange_refused(c) PROVE ConnectionsIInv'
  BY <1>6 DEF exchange_refused, CallbackSet, NoCallback, TokenOfItsKey
<1>7. ASSUME NEW c \in Callback, connected_audited(c) PROVE ConnectionsIInv'
  <2>1. callback[c].creds.key \in 1 .. MaxApiKeys
    BY <1>7 DEF connected_audited, CallbackSet, NoCallback, KeyedRecord, BrokerRecord
  <2> QED
    BY <1>7, <2>1 DEF connected_audited, CallbackSet, NoCallback, TokenOfItsKey
<1>8. ASSUME NEW c \in Callback, NEW expiry \in {"none", "next_6am"}, token_stored(c, expiry)
      PROVE  ConnectionsIInv'
  <2> DEFINE creds == callback[c].creds
  <2>1. creds \in KeyedRecord /\ callback' = [callback EXCEPT ![c] = [at |-> "audit", creds |-> creds]]
    BY <1>8 DEF token_stored, CallbackSet, NoCallback
  <2>2. /\ Signed(creds, expiry) \in KeyedRecord
        /\ Signed(creds, expiry).token = Signed(creds, expiry).key
    BY <2>1 DEF Signed, KeyedRecord, BrokerRecord
  <2>3. record' = Signed(creds, expiry) /\ UNCHANGED <<last_key, connected, secrets_file>>
    BY <1>8 DEF token_stored
  <2> HIDE DEF creds
  <2> QED
    BY <2>1, <2>2, <2>3 DEF CallbackSet, NoCallback, KeyedRecord, TokenOfItsKey
<1>9. CASE UNCHANGED connectionVars
  BY <1>9 DEF connectionVars, TokenOfItsKey
<1> QED
  BY <1>1, <1>2, <1>3, <1>4, <1>5, <1>6, <1>7, <1>8, <1>9 DEF ConnectionsNext

\* However sign-ins and changes of the key overlap, the stored token is of the stored key.
THEOREM TokenOfItsKeyHolds == ConnectionsSpec => []TokenOfItsKey
<1>1. ConnectionsIInv => TokenOfItsKey
  BY DEF ConnectionsIInv
<1> QED
  BY <1>1, ConnectionsStart, ConnectionsStep, PTL DEF ConnectionsSpec

-----------------------------------------------------------------------------
(* The audit log.                                                          *)

AuditSpec == AuditInit /\ [][AuditNext]_auditVars

\* A table, or a file, whose rows are numbered from one and carry their hash.
Hashed(row) == row.hash = compute_entry_hash(row.previous_hash, row.sequence, row.entity)
Numbered(s, n) == \A i \in DOMAIN s : s[i].sequence = n + i /\ Hashed(s[i])

\* The row a writer has flushed follows the last one committed: it holds the lock.
FlushedRow(w) == \E e \in Entity : writing[w] = <<NextRow(e)>>
\* At most one writer has flushed a row that is not committed: it holds the lock.
OneWriter ==
    \A w \in Writer : writing[w] # <<>> =>
        /\ FlushedRow(w) /\ Len(audit_log) < MaxEntries
        /\ \A v \in Writer : writing[v] # <<>> => v = w

\* What a sweep has selected goes on where the archive ends.
SweepFollows ==
    /\ Numbered(sweep, Len(archive))
    /\ restores = 0 => /\ Len(archive) + Len(sweep) <= Len(audit_log)
                       /\ \A i \in DOMAIN archive : archive[i] = audit_log[i]
                       /\ \A i \in DOMAIN sweep : sweep[i] = audit_log[Len(archive) + i]

\* The inductive invariant of the log, its archive and the sweep.
AuditIInv ==
    /\ AuditTypeOK /\ Len(audit_log) <= MaxEntries
    /\ writing \in [Writer -> Seq(AuditRow)]
    /\ Numbered(audit_log, 0) /\ verify_chain(audit_log)
    /\ Numbered(archive, 0) /\ OneWriter /\ SweepFollows

\* The numbers of a run of rows of a numbered table.
LEMMA RowsCounted ==
    ASSUME NEW S, NEW s \in Seq(S), \A i \in DOMAIN s : s[i].sequence = i,
           NEW k \in 0 .. Len(s), NEW m \in k .. Len(s)
    PROVE  Cardinality({s[j] : j \in k + 1 .. m}) = m - k
<1> DEFINE T == {s[j] : j \in k + 1 .. m}
           f == [j \in k + 1 .. m |-> s[j]]
<1>0. Len(s) \in Nat /\ DOMAIN s = 1 .. Len(s)
  BY LenProperties
<1>1. k + 1 .. m \subseteq DOMAIN s
  BY <1>0
<1>2. f \in [k + 1 .. m -> T]
  OBVIOUS
<1>3. \A a, b \in k + 1 .. m : f[a] = f[b] => a = b
  BY <1>1
<1>4. \A t \in T : \E a \in k + 1 .. m : f[a] = t
  OBVIOUS
<1>5. f \in Bijection(k + 1 .. m, T)
  BY <1>2, <1>3, <1>4, Fun_IsBij
<1>6. ExistsBijection(k + 1 .. m, T)
  BY <1>5 DEF ExistsBijection
<1>7. IsFiniteSet(k + 1 .. m) /\ Cardinality(k + 1 .. m) = m - k
  <2>1. k + 1 \in Int /\ m \in Int /\ (IF k + 1 > m THEN 0 ELSE m - (k + 1) + 1) = m - k
    BY <1>0
  <2> QED
    BY <2>1, FS_Interval
<1> QED
  BY <1>6, <1>7, FS_Bijection

\* The rows of a numbered table past a number are those at the positions past it.
LEMMA RowsPast ==
    ASSUME NEW S, NEW s \in Seq(S), \A i \in DOMAIN s : s[i].sequence = 0 + i, NEW k \in Nat
    PROVE  {row \in ToSet(s) : row.sequence > k} = {s[j] : j \in k + 1 .. Len(s)}
<1>0. Len(s) \in Nat /\ DOMAIN s = 1 .. Len(s)
  BY LenProperties
<1>1. \A i \in 1 .. Len(s) : s[i].sequence = i
  BY <1>0
<1>2. \A i \in 1 .. Len(s) : s[i].sequence > k <=> i \in k + 1 .. Len(s)
  BY <1>0, <1>1
<1>3. \A i \in k + 1 .. Len(s) : i \in 1 .. Len(s)
  BY <1>0
<1> QED
  BY <1>0, <1>2, <1>3 DEF ToSet

\* Selecting the rows of a numbered table past a number, in order, gives its tail.
LEMMA SelectedInOrder ==
    ASSUME NEW S, NEW s \in Seq(S), \A i \in DOMAIN s : s[i].sequence = i, NEW k \in 0 .. Len(s)
    PROVE  order_by_sequence({s[j] : j \in k + 1 .. Len(s)}) = [i \in 1 .. Len(s) - k |-> s[k + i]]
<1> DEFINE R == {s[j] : j \in k + 1 .. Len(s)}
           upto(j) == {r \in R : r.sequence <= j}
<1>0. Len(s) \in Nat /\ DOMAIN s = 1 .. Len(s)
  BY LenProperties
<1>1. Cardinality(R) = Len(s) - k
  <2>1. Len(s) \in k .. Len(s)
    BY <1>0
  <2> QED
    BY <2>1, RowsCounted
<1>2. ASSUME NEW j \in k + 1 .. Len(s) PROVE Cardinality({r \in R : r.sequence <= j}) = j - k
  <2>1. {r \in R : r.sequence <= j} = {s[a] : a \in k + 1 .. j}
    BY <1>0
  <2>2. j \in k .. Len(s)
    BY <1>0
  <2> QED
    BY <2>1, <2>2, RowsCounted
<1>5. ASSUME NEW j \in k + 1 .. Len(s) PROVE Cardinality({r \in R : r.sequence < j}) = j - k - 1
  <2> DEFINE m == j - 1
  <2>1. {r \in R : r.sequence < j} = {s[a] : a \in k + 1 .. m}
    BY <1>0
  <2>2. m \in k .. Len(s) /\ m - k = j - k - 1
    BY <1>0
  <2> HIDE DEF m
  <2>3. Cardinality({s[a] : a \in k + 1 .. m}) = m - k
    BY <2>2, RowsCounted
  <2> QED
    BY <2>1, <2>2, <2>3
<1>3. ASSUME NEW i \in 1 .. Len(s) - k
      PROVE  (CHOOSE row \in R : /\ Cardinality({r \in R : r.sequence < row.sequence}) < i
                                 /\ Cardinality({r \in R : r.sequence <= row.sequence}) >= i) = s[k + i]
  <2>1. \A j \in k + 1 .. Len(s) :
           /\ s[j] \in R /\ s[j].sequence = j
           /\ Cardinality({r \in R : r.sequence < s[j].sequence}) = j - k - 1
           /\ Cardinality({r \in R : r.sequence <= s[j].sequence}) = j - k
    BY <1>0, <1>2, <1>5
  <2>2. k + i \in k + 1 .. Len(s) /\ (k + i) - k = i /\ i \in Int
    BY <1>0
  <2> DEFINE C(row) == /\ Cardinality({r \in R : r.sequence < row.sequence}) < i
                       /\ Cardinality({r \in R : r.sequence <= row.sequence}) >= i
  <2>3. s[k + i] \in R /\ C(s[k + i])
    <3>1. /\ s[k + i] \in R
          /\ Cardinality({r \in R : r.sequence < s[k + i].sequence}) = (k + i) - k - 1
          /\ Cardinality({r \in R : r.sequence <= s[k + i].sequence}) = (k + i) - k
      BY <2>1, <2>2
    <3>2. (k + i) - k - 1 < i /\ (k + i) - k >= i
      BY <2>2
    <3> QED
      BY <3>1, <3>2, Zenon
  <2>4. \A row \in R : C(row) => row = s[k + i]
    <3> SUFFICES ASSUME NEW j \in k + 1 .. Len(s), C(s[j]) PROVE s[j] = s[k + i]
      OBVIOUS
    <3>1. j - k = i
      <4>1. j - k - 1 < i /\ j - k >= i
        BY <2>1
      <4> QED
        BY <1>0, <4>1
    <3>2. j = k + i
      BY <1>0, <3>1
    <3> QED
      BY <3>2
  <2> HIDE DEF C
  <2>5. (CHOOSE row \in R : C(row)) = s[k + i]
    BY <2>3, <2>4
  <2> QED
    BY <2>5 DEF C
<1> HIDE DEF R
<1>4. order_by_sequence(R) = [i \in 1 .. Len(s) - k |-> s[k + i]]
  BY <1>1, <1>3 DEF order_by_sequence
<1> QED
  BY <1>4 DEF R

\* The row that would be written next continues the chain.
LEMMA NextRowFits ==
    ASSUME AuditIInv, NEW e \in Entity, Len(audit_log) < MaxEntries
    PROVE  /\ NextRow(e) \in AuditRow /\ Hashed(NextRow(e))
           /\ NextRow(e).sequence = Len(audit_log) + 1
           /\ NextRow(e).previous_hash = IF Len(audit_log) = 0 THEN GENESIS_HASH
                                         ELSE audit_log[Len(audit_log)].hash
<1> DEFINE n == Len(audit_log)
           p == IF audit_log = <<>> THEN GENESIS_HASH ELSE Last(audit_log).hash
           q == IF audit_log = <<>> THEN 1 ELSE Last(audit_log).sequence + 1
<1> USE AuditAssumption DEF AuditIInv, AuditTypeOK
<1>1. n \in Nat /\ DOMAIN audit_log = 1 .. n /\ (audit_log = <<>> <=> n = 0)
  BY LenProperties, EmptySeq
<1>2. n # 0 => audit_log[n] \in AuditRow /\ audit_log[n].sequence = n
  BY <1>1, ElementOfSeq DEF Numbered
<1>3. p \in HashOf(MaxEntries) /\ q = n + 1 /\ q \in 1 .. MaxEntries
  BY <1>1, <1>2, EmptySeq DEF Last, AuditRow, HashOf, GENESIS_HASH
<1>4. compute_entry_hash(p, q, e) \in HashOf(MaxEntries)
  BY <1>3, Added DEF compute_entry_hash, HashOf
<1>5. NextRow(e) = [sequence |-> q, previous_hash |-> p, entity |-> e, hash |-> compute_entry_hash(p, q, e)]
  BY DEF NextRow
<1>6. p = IF n = 0 THEN GENESIS_HASH ELSE audit_log[n].hash
  BY <1>1 DEF Last
<1> HIDE DEF p, q
<1> QED
  BY <1>3, <1>4, <1>5, <1>6 DEF AuditRow, Hashed

\* Nothing has been written.
LEMMA AuditStart == AuditInit => AuditIInv
<1> SUFFICES ASSUME AuditInit PROVE AuditIInv
  OBVIOUS
<1>1. AuditTypeOK /\ writing \in [Writer -> Seq(AuditRow)]
  <2>1. <<>> \in Seq(AuditRow) /\ Len(<<>>) <= 1
    BY EmptySeq
  <2>2. torn \in BOOLEAN
    BY DEF AuditInit
  <2>3. restores \in 0 .. MaxRestores
    BY AuditAssumption DEF AuditInit
  <2> QED
    BY <2>1, <2>2, <2>3 DEF AuditInit, AuditTypeOK
<1>2. DOMAIN audit_log = {} /\ DOMAIN archive = {} /\ DOMAIN sweep = {} /\ Len(audit_log) = 0
      /\ Len(archive) = 0 /\ Len(sweep) = 0
  BY EmptySeq DEF AuditInit
<1>3. Numbered(audit_log, 0) /\ verify_chain(audit_log) /\ Numbered(archive, 0) /\ SweepFollows
  BY <1>2 DEF Numbered, verify_chain, SweepFollows
<1>4. OneWriter
  BY DEF AuditInit, OneWriter
<1> QED
  BY <1>1, <1>2, <1>3, <1>4, AuditAssumption DEF AuditIInv

\* A row is written under the lock and is the next one when it is committed; the archive
\* grows by what follows it, in whole or in part; a restore shortens the log.
LEMMA AuditStep == AuditIInv /\ [AuditNext]_auditVars => AuditIInv'
<1> SUFFICES ASSUME AuditIInv, [AuditNext]_auditVars PROVE AuditIInv'
  OBVIOUS
<1> USE AuditAssumption DEF AuditIInv, AuditTypeOK
<1>0. /\ Len(audit_log) \in Nat /\ DOMAIN audit_log = 1 .. Len(audit_log)
      /\ Len(archive) \in Nat /\ DOMAIN archive = 1 .. Len(archive)
      /\ Len(sweep) \in Nat /\ DOMAIN sweep = 1 .. Len(sweep)
  BY LenProperties
<1>1. ASSUME NEW w \in Writer, NEW e \in Entity, write_audit_entry(w, e) PROVE AuditIInv'
  <2>1. /\ Len(audit_log) < MaxEntries /\ writing' = [writing EXCEPT ![w] = <<NextRow(e)>>]
        /\ UNCHANGED <<audit_log, archive, torn, sweep, restores>>
        /\ \A v \in Writer : writing[v] = <<>>
    BY <1>1 DEF write_audit_entry, LockFree
  <2>2. <<NextRow(e)>> \in Seq(AuditRow) /\ Len(<<NextRow(e)>>) = 1 /\ <<NextRow(e)>> # <<>>
    BY <2>1, NextRowFits
  <2>3. \A x : NextRow(x)' = NextRow(x)
    BY <2>1 DEF NextRow
  <2>4. OneWriter'
    BY <2>1, <2>3 DEF OneWriter, FlushedRow
  <2> QED
    BY <2>1, <2>2, <2>4 DEF SweepFollows, Numbered, verify_chain
<1>2. ASSUME NEW w \in Writer, Commit(w) PROVE AuditIInv'
  <2>1. PICK e \in Entity : writing[w] = <<NextRow(e)>>
    BY <1>2 DEF Commit, OneWriter, FlushedRow
  <2> DEFINE row == NextRow(e)
  <2>2. /\ Len(audit_log) < MaxEntries /\ audit_log' = audit_log \o <<row>>
        /\ writing' = [writing EXCEPT ![w] = <<>>] /\ UNCHANGED <<archive, torn, sweep, restores>>
        /\ \A v \in Writer : v # w => writing[v] = <<>>
    BY <1>2, <2>1 DEF Commit, OneWriter
  <2>3. /\ row \in AuditRow /\ Hashed(row) /\ row.sequence = Len(audit_log) + 1
        /\ row.previous_hash = IF Len(audit_log) = 0 THEN GENESIS_HASH
                               ELSE audit_log[Len(audit_log)].hash
    BY <2>2, NextRowFits
  <2> HIDE DEF row
  <2>4. audit_log' = Append(audit_log, row)
    BY <2>2, <2>3, AppendIsConcat
  <2>5. /\ audit_log' \in Seq(AuditRow) /\ Len(audit_log') = Len(audit_log) + 1
        /\ DOMAIN audit_log' = 1 .. Len(audit_log) + 1
        /\ \A i \in 1 .. Len(audit_log) : audit_log'[i] = audit_log[i]
        /\ audit_log'[Len(audit_log) + 1] = row
    BY <2>3, <2>4, Added
  <2>6. \A i \in DOMAIN audit_log' : i \in DOMAIN audit_log \/ i = Len(audit_log) + 1
    BY <1>0, <2>5
  <2>7. Numbered(audit_log, 0)'
    <3> SUFFICES ASSUME NEW i \in DOMAIN audit_log'
                 PROVE  audit_log'[i].sequence = 0 + i /\ Hashed(audit_log'[i])
      BY DEF Numbered, Hashed, compute_entry_hash
    <3>1. CASE i \in DOMAIN audit_log
      BY <1>0, <2>5, <3>1 DEF Numbered
    <3>2. CASE i = Len(audit_log) + 1
      BY <1>0, <2>3, <2>5, <3>2
    <3> QED
      BY <2>6, <3>1, <3>2
  <2>8. verify_chain(audit_log)'
    <3> SUFFICES ASSUME NEW i \in DOMAIN audit_log'
                 PROVE  /\ audit_log'[i].previous_hash = (IF i = 1 THEN GENESIS_HASH ELSE audit_log'[i - 1].hash)
                        /\ audit_log'[i].hash = compute_entry_hash(audit_log'[i].previous_hash,
                                                  audit_log'[i].sequence, audit_log'[i].entity)
      BY DEF verify_chain, GENESIS_HASH, compute_entry_hash
    <3>1. CASE i \in DOMAIN audit_log
      <4>1. i # 1 => i - 1 \in 1 .. Len(audit_log)
        BY <1>0, <3>1
      <4>2. audit_log'[i] = audit_log[i]
        BY <1>0, <2>5, <3>1
      <4> QED
        BY <2>5, <3>1, <4>1, <4>2 DEF verify_chain
    <3>2. CASE i = Len(audit_log) + 1
      <4>1. audit_log'[i] = row
        BY <2>5, <3>2
      <4>2. Len(audit_log) = 0 <=> i = 1
        BY <1>0, <3>2
      <4>3. i # 1 => i - 1 = Len(audit_log) /\ i - 1 \in 1 .. Len(audit_log)
        BY <1>0, <3>2
      <4> QED
        BY <2>3, <2>5, <4>1, <4>2, <4>3 DEF Hashed
    <3> QED
      BY <2>6, <3>1, <3>2
  <2>9. writing' \in [Writer -> Seq(AuditRow)] /\ \A v \in Writer : writing'[v] = <<>>
    BY <2>2, EmptySeq
  <2>10. SweepFollows'
    BY <1>0, <2>2, <2>5 DEF SweepFollows, Numbered
  <2>11. OneWriter'
    BY <2>9 DEF OneWriter
  <2>12. \A v \in Writer : writing'[v] \in Seq(AuditRow) /\ Len(writing'[v]) <= 1
    BY <2>9, EmptySeq
  <2> QED
    BY <2>2, <2>5, <2>7, <2>8, <2>9, <2>10, <2>11, <2>12 DEF Numbered
<1>3. ASSUME NEW w \in Writer, Rollback(w) PROVE AuditIInv'
  <2>1. /\ writing' = [writing EXCEPT ![w] = <<>>] /\ UNCHANGED <<audit_log, archive, torn, sweep, restores>>
    BY <1>3 DEF Rollback
  <2>2. <<>> \in Seq(AuditRow) /\ Len(<<>>) <= 1
    BY EmptySeq
  <2>3. \A x : NextRow(x)' = NextRow(x)
    BY <2>1 DEF NextRow
  <2>4. OneWriter'
    BY <2>1, <2>3 DEF OneWriter, FlushedRow
  <2> QED
    BY <2>1, <2>2, <2>4 DEF SweepFollows, Numbered, verify_chain
<1>4. ASSUME NEW w \in Writer, run_divergence_check_job(w) \/ verify_audit_chain(w) PROVE AuditIInv'
  BY <1>1, <1>4 DEF run_divergence_check_job, verify_audit_chain
<1>5. CASE run_archival_sweep
  <2> DEFINE k == Len(archive)
             n == Len(audit_log)
  <2>1. last_archived_sequence = k
    <3>1. CASE archive = <<>>
      BY <3>1 DEF last_archived_sequence
    <3>2. CASE archive # <<>>
      <4>1. k # 0
        BY <1>0, <3>2, EmptySeq
      <4>2. k \in DOMAIN archive
        BY <1>0, <4>1
      <4>3. archive[k].sequence = k
        <5>1. archive[k].sequence = 0 + k
          BY <4>2 DEF Numbered
        <5> QED
          BY <1>0, <5>1
      <4> QED
        BY <3>2, <4>3 DEF last_archived_sequence, Last
    <3> QED
      BY <3>1, <3>2
  <2>2. /\ sweep' = order_by_sequence({row \in ToSet(audit_log) : row.sequence > k})
        /\ sweep' # <<>> /\ UNCHANGED <<audit_log, writing, archive, torn, restores>>
    BY <1>5, <2>1 DEF run_archival_sweep
  <2>3. {row \in ToSet(audit_log) : row.sequence > k} = {audit_log[j] : j \in k + 1 .. n}
    <3>1. audit_log \in Seq(AuditRow) /\ k \in Nat /\ \A i \in DOMAIN audit_log : audit_log[i].sequence = 0 + i
      BY <1>0 DEF Numbered
    <3> HIDE DEF AuditIInv, AuditTypeOK, k
    <3> QED
      BY <3>1, RowsPast DEF n
  <2>4. k < n
    <3> SUFFICES ASSUME ~(k < n) PROVE FALSE
      OBVIOUS
    <3>1. {audit_log[j] : j \in k + 1 .. n} = {}
      BY <1>0
    <3>2. sweep' = order_by_sequence({}) /\ Cardinality({}) = 0
      BY <2>2, <2>3, <3>1, FS_EmptySet
    <3>3. 1 .. 0 = {}
      OBVIOUS
    <3>4. sweep' = <<>>
      BY <3>2, <3>3 DEF order_by_sequence
    <3> QED
      BY <2>2, <3>4
  <2>5. sweep' = [i \in 1 .. n - k |-> audit_log[k + i]]
    <3>0. \A i \in DOMAIN audit_log : audit_log[i].sequence = 0 + i
      BY DEF Numbered
    <3>1. k \in 0 .. Len(audit_log) /\ \A i \in DOMAIN audit_log : audit_log[i].sequence = i
      BY <1>0, <2>4, <3>0
    <3>2. order_by_sequence({audit_log[j] : j \in k + 1 .. Len(audit_log)})
            = [i \in 1 .. Len(audit_log) - k |-> audit_log[k + i]]
      <4>1. audit_log \in Seq(AuditRow)
        OBVIOUS
      <4> QED
        BY ONLY <3>1, <4>1, SelectedInOrder, ZenonT(60)
    <3> QED
      BY <2>2, <2>3, <3>2
  <2>6. \A i \in 1 .. n - k : k + i \in DOMAIN audit_log /\ audit_log[k + i] \in AuditRow
    BY <1>0, ElementOfSeq
  <2>7. sweep' \in Seq(AuditRow) /\ Len(sweep') = n - k /\ DOMAIN sweep' = 1 .. n - k
    <3>1. n - k \in Nat /\ sweep' \in [1 .. n - k -> AuditRow]
      BY <1>0, <2>4, <2>5, <2>6
    <3>2. sweep' \in Seq(AuditRow)
      BY ONLY <3>1, IsASeq
    <3>3. DOMAIN sweep' = 1 .. n - k /\ Len(sweep') \in Nat /\ DOMAIN sweep' = 1 .. Len(sweep')
      BY <3>1, <3>2, LenProperties
    <3> HIDE DEF n, k
    <3> QED
      BY <3>1, <3>2, <3>3
  <2>8. SweepFollows'
    <3>1. \A i \in 1 .. n - k : /\ sweep'[i] = audit_log[k + i]
                                /\ audit_log[k + i].sequence = k + i /\ Hashed(audit_log[k + i])
      BY <1>0, <2>5, <2>6 DEF Numbered
    <3>2. Numbered(sweep, Len(archive))'
      BY <2>2, <2>7, <3>1 DEF Numbered, Hashed, compute_entry_hash
    <3>3. k + (n - k) <= n
      BY <1>0
    <3>4. restores = 0 => \A i \in DOMAIN archive : archive[i] = audit_log[i]
      BY DEF SweepFollows
    <3> QED
      BY <2>2, <2>7, <3>1, <3>2, <3>3, <3>4 DEF SweepFollows
  <2>9. OneWriter'
    <3>1. \A x : NextRow(x)' = NextRow(x)
      BY <2>2 DEF NextRow
    <3> QED
      BY <2>2, <3>1 DEF OneWriter, FlushedRow
  <2> QED
    BY <2>2, <2>7, <2>8, <2>9 DEF Numbered, verify_chain
<1>6. ASSUME NEW m \in 0 .. Len(sweep), archive' = archive \o SubSeq(sweep, 1, m), sweep' = <<>>,
             UNCHANGED <<audit_log, restores>>
      PROVE  /\ archive' \in Seq(AuditRow) /\ sweep' \in Seq(AuditRow)
             /\ Numbered(archive, 0)' /\ SweepFollows' /\ Numbered(audit_log, 0)' /\ verify_chain(audit_log)'
  <2> DEFINE t == SubSeq(sweep, 1, m)
             k == Len(archive)
  <2>1. /\ t \in Seq(AuditRow) /\ Len(t) = m /\ \A i \in 1 .. m : t[i] = sweep[i]
    BY <1>0, SubSeqProperties
  <2> HIDE DEF t
  <2>2. /\ archive' \in Seq(AuditRow) /\ Len(archive') = k + m /\ DOMAIN archive' = 1 .. k + m
        /\ \A i \in 1 .. k : archive'[i] = archive[i]
        /\ \A i \in 1 .. m : archive'[k + i] = sweep[i]
    BY <1>0, <1>6, <2>1, ConcatProperties, LenProperties DEF t
  <2>3. \A i \in DOMAIN archive' : i \in 1 .. k \/ (i - k \in 1 .. m /\ i = k + (i - k))
    BY <1>0, <2>2
  <2>4. Numbered(archive, 0)'
    <3> SUFFICES ASSUME NEW i \in DOMAIN archive'
                 PROVE  archive'[i].sequence = 0 + i /\ Hashed(archive'[i])
      BY DEF Numbered, Hashed, compute_entry_hash
    <3>1. CASE i \in 1 .. k
      BY <1>0, <2>2, <3>1 DEF Numbered
    <3>2. CASE i - k \in 1 .. m /\ i = k + (i - k)
      <4>1. i - k \in DOMAIN sweep /\ archive'[i] = sweep[i - k]
        BY <1>0, <2>2, <3>2
      <4>2. sweep[i - k].sequence = Len(archive) + (i - k) /\ Hashed(sweep[i - k])
        BY <4>1 DEF SweepFollows, Numbered
      <4> QED
        BY <1>0, <3>2, <4>1, <4>2
    <3> QED
      BY <2>3, <3>1, <3>2
  <2>5. sweep' \in Seq(AuditRow) /\ DOMAIN sweep' = {} /\ Len(sweep') = 0
    BY <1>6, EmptySeq
  <2>6. SweepFollows'
    <3>1. Numbered(sweep, Len(archive))'
      BY <2>5 DEF Numbered
    <3>2. ASSUME restores' = 0
          PROVE  /\ Len(archive') + Len(sweep') <= Len(audit_log')
                 /\ \A i \in DOMAIN archive' : archive'[i] = audit_log'[i]
      <4>1. /\ k + Len(sweep) <= Len(audit_log)
            /\ \A i \in 1 .. k : archive[i] = audit_log[i]
            /\ \A i \in 1 .. m : sweep[i] = audit_log[k + i]
        <5>1. SweepFollows /\ restores = 0
          BY <1>6, <3>2
        <5>2. \A i \in 1 .. m : i \in DOMAIN sweep
          BY <1>0
        <5> HIDE DEF AuditIInv
        <5> QED
          BY <1>0, <5>1, <5>2 DEF SweepFollows
      <4>2. ASSUME NEW i \in DOMAIN archive' PROVE archive'[i] = audit_log[i]
        BY <2>2, <2>3, <4>1
      <4> QED
        BY <1>0, <1>6, <2>2, <2>5, <4>1, <4>2
    <3> QED
      BY <2>5, <3>1, <3>2 DEF SweepFollows
  <2> QED
    BY <1>6, <2>2, <2>4, <2>5, <2>6 DEF Numbered, verify_chain
<1>7. CASE append_entries_to_archive
  <2>1. archive' = archive \o SubSeq(sweep, 1, Len(sweep)) /\ Len(sweep) \in 0 .. Len(sweep)
    BY <1>0, <1>7, SubSeqFull DEF append_entries_to_archive
  <2>2. sweep' = <<>> /\ UNCHANGED <<audit_log, writing, torn, restores>>
    BY <1>7 DEF append_entries_to_archive
  <2>3. OneWriter'
    <3>1. \A x : NextRow(x)' = NextRow(x)
      BY <2>2 DEF NextRow
    <3> QED
      BY <2>2, <3>1 DEF OneWriter, FlushedRow
  <2> QED
    BY <1>6, <2>1, <2>2, <2>3
<1>8. CASE CrashAndRestart
  <2>1. PICK m \in 0 .. Len(sweep) :
           archive' = archive \o SubSeq(sweep, 1, m) /\ torn' \in {torn, m < Len(sweep)}
    BY <1>8 DEF CrashAndRestart
  <2>2. sweep' = <<>> /\ writing' = [w \in Writer |-> <<>>] /\ UNCHANGED <<audit_log, restores>>
    BY <1>8 DEF CrashAndRestart
  <2>3. <<>> \in Seq(AuditRow) /\ Len(<<>>) <= 1
    BY EmptySeq
  <2>4. OneWriter'
    BY <2>2 DEF OneWriter
  <2>5. torn' \in BOOLEAN
    <3>1. CASE torn' = torn
      BY <3>1
    <3>2. CASE torn' = (m < Len(sweep))
      BY <3>2
    <3> QED
      BY <2>1, <3>1, <3>2
  <2> QED
    BY <1>6, <2>1, <2>2, <2>3, <2>4, <2>5
<1>9. CASE RestoreBackup
  <2>1. PICK n \in 0 .. Len(audit_log) : audit_log' = SubSeq(audit_log, 1, n)
    BY <1>9 DEF RestoreBackup
  <2>2. /\ restores' = restores + 1 /\ restores' # 0 /\ restores' \in 0 .. MaxRestores
        /\ UNCHANGED <<writing, archive, torn, sweep>> /\ \A w \in Writer : writing[w] = <<>>
    BY <1>9 DEF RestoreBackup, LockFree
  <2>3. /\ audit_log' \in Seq(AuditRow) /\ Len(audit_log') = n /\ DOMAIN audit_log' = 1 .. n
        /\ \A i \in 1 .. n : i \in DOMAIN audit_log /\ audit_log'[i] = audit_log[i]
    BY <1>0, <2>1, SubSeqProperties, LenProperties
  <2>4. Numbered(audit_log, 0)'
    BY <2>3 DEF Numbered
  <2>5. verify_chain(audit_log)'
    <3>1. \A i \in 1 .. n : i # 1 => i - 1 \in 1 .. n
      BY <1>0
    <3> QED
      BY <2>3, <3>1 DEF verify_chain
  <2>6. OneWriter' /\ SweepFollows'
    BY <2>2 DEF OneWriter, SweepFollows, Numbered
  <2> QED
    BY <1>0, <2>2, <2>3, <2>4, <2>5, <2>6 DEF Numbered
<1>10. CASE UNCHANGED auditVars
  <2>1. \A x : NextRow(x)' = NextRow(x)
    BY <1>10 DEF auditVars, NextRow
  <2> QED
    BY <1>10, <2>1 DEF auditVars, OneWriter, FlushedRow, SweepFollows, Numbered, verify_chain
<1> QED
  BY <1>1, <1>2, <1>3, <1>4, <1>5, <1>7, <1>8, <1>9, <1>10 DEF AuditNext

\* A hash covers the one before it, the number and the entity, and two are equal only when
\* all three are.
LEMMA SameAppend ==
    ASSUME NEW S, NEW s \in Seq(S), NEW t \in Seq(S), NEW e \in S, NEW f \in S,
           Append(s, e) = Append(t, f)
    PROVE  s = t /\ e = f
BY AppendInjective

\* What the invariant says of the trail: an export is the log itself, and a row with the
\* number and hash of another is that row, since a hash covers all of it.
LEMMA AuditTrailFollows == ASSUME AuditIInv PROVE AuditTrail
<1> USE DEF AuditIInv, AuditTypeOK
<1>0. /\ Len(audit_log) \in Nat /\ DOMAIN audit_log = 1 .. Len(audit_log)
      /\ Len(archive) \in Nat /\ DOMAIN archive = 1 .. Len(archive)
      /\ Len(sweep) \in Nat
  BY LenProperties
<1>1. ChainUnbroken
  <2>1. {row \in ToSet(audit_log) : row.entity \in Entity} = {audit_log[j] : j \in 0 + 1 .. Len(audit_log)}
    <3>1. \A j \in DOMAIN audit_log : audit_log[j].entity \in Entity
      <4>1. \A j \in DOMAIN audit_log : audit_log[j] \in AuditRow
        BY <1>0, ElementOfSeq
      <4> QED
        BY <4>1 DEF AuditRow
    <3>2. 0 + 1 .. Len(audit_log) = DOMAIN audit_log
      BY <1>0
    <3> QED
      BY <3>1, <3>2 DEF ToSet
  <2>2. export_audit_entries = [i \in 1 .. Len(audit_log) - 0 |-> audit_log[0 + i]]
    <3>1. 0 \in 0 .. Len(audit_log) /\ \A i \in DOMAIN audit_log : audit_log[i].sequence = i
      BY <1>0 DEF Numbered
    <3>2. order_by_sequence({audit_log[j] : j \in 0 + 1 .. Len(audit_log)})
            = [i \in 1 .. Len(audit_log) - 0 |-> audit_log[0 + i]]
      <4>1. audit_log \in Seq(AuditRow)
        OBVIOUS
      <4> QED
        BY ONLY <3>1, <4>1, SelectedInOrder, ZenonT(60)
    <3> QED
      BY <2>1, <3>2 DEF export_audit_entries, apply_filters
  <2>3. export_audit_entries = audit_log
    BY <1>0, <2>2
  <2> QED
    BY <2>3 DEF ChainUnbroken
<1>2. ArchiveIsPrefix
  <2> SUFFICES ASSUME restores = 0 PROVE IsPrefix(archive, audit_log)
    BY DEF ArchiveIsPrefix
  <2>1. Len(archive) <= Len(audit_log) /\ \A i \in 1 .. Len(archive) : archive[i] = audit_log[i]
    BY <1>0 DEF SweepFollows
  <2>2. SubSeq(archive, 1, Len(archive)) = SubSeq(audit_log, 1, Len(archive))
    BY <1>0, <2>1, SubSeqProperties, SeqEqual
  <2> QED
    BY <2>1, <2>2 DEF IsPrefix
<1>3. DivergenceIsExact
  <2>1. ASSUME NEW i \in DOMAIN archive, NEW j \in DOMAIN audit_log,
               archive[i].sequence = audit_log[j].sequence, archive[i].hash = audit_log[j].hash
        PROVE  archive[i] = audit_log[j]
    <3> DEFINE a == archive[i]
               b == audit_log[j]
    <3>1. a \in AuditRow /\ b \in AuditRow /\ Hashed(a) /\ Hashed(b)
      BY <1>0, ElementOfSeq DEF Numbered
    <3>2. Append(a.previous_hash, <<a.sequence, a.entity>>) = Append(b.previous_hash, <<b.sequence, b.entity>>)
      BY <2>1, <3>1 DEF Hashed, compute_entry_hash
    <3>3. a.previous_hash \in HashOf(MaxEntries) /\ b.previous_hash \in HashOf(MaxEntries)
          /\ <<a.sequence, a.entity>> \in (1 .. MaxEntries) \X Entity
          /\ <<b.sequence, b.entity>> \in (1 .. MaxEntries) \X Entity
      BY <3>1 DEF AuditRow
    <3>4. a.previous_hash = b.previous_hash /\ <<a.sequence, a.entity>> = <<b.sequence, b.entity>>
      <4> DEFINE S == (1 .. MaxEntries) \X Entity
                 p == a.previous_hash
                 q == b.previous_hash
                 x == <<a.sequence, a.entity>>
                 y == <<b.sequence, b.entity>>
      <4>1. p \in Seq(S) /\ q \in Seq(S) /\ x \in S /\ y \in S /\ Append(p, x) = Append(q, y)
        BY <3>2, <3>3 DEF HashOf
      <4> HIDE DEF S, p, q, x, y
      <4>2. p = q /\ x = y
        BY ONLY <4>1, SameAppend
      <4> QED
        BY <4>2 DEF p, q, x, y
    <3>5. a.previous_hash = b.previous_hash /\ a.sequence = b.sequence /\ a.entity = b.entity /\ a.hash = b.hash
      BY <2>1, <3>4
    <3> HIDE DEF a, b
    <3>6. \A r \in AuditRow : r = [sequence |-> r.sequence, previous_hash |-> r.previous_hash,
                                     hash |-> r.hash, entity |-> r.entity]
      BY DEF AuditRow
    <3>7. a = b
      BY <3>1, <3>5, <3>6
    <3> QED
      BY <3>7 DEF a, b
  <2>2. ASSUME ToSet(archive) \subseteq ToSet(audit_log) PROVE verify_chain(archive)
    <3>1. \A i \in DOMAIN archive : i \in DOMAIN audit_log /\ archive[i] = audit_log[i]
      <4> TAKE i \in DOMAIN archive
      <4>1. PICK j \in DOMAIN audit_log : archive[i] = audit_log[j]
        BY <2>2 DEF ToSet
      <4>2. archive[i].sequence = i /\ audit_log[j].sequence = j
        BY <1>0 DEF Numbered
      <4> QED
        BY <4>1, <4>2
    <3>2. \A i \in DOMAIN archive : i # 1 => i - 1 \in DOMAIN archive
      BY <1>0
    <3> QED
      BY <3>1, <3>2 DEF verify_chain
  <2>3. ASSUME ToSet(archive) \subseteq ToSet(audit_log) PROVE ~verify_archive_chain_divergence
    BY <2>2, <2>3 DEF verify_archive_chain_divergence
  <2>4. ASSUME ~(ToSet(archive) \subseteq ToSet(audit_log)) PROVE verify_archive_chain_divergence
    <3>1. PICK i \in DOMAIN archive : archive[i] \notin ToSet(audit_log)
      BY <2>4 DEF ToSet
    <3>2. archive # <<>>
      BY <3>1, EmptySeq
    <3>3. ~\E row \in ToSet(audit_log) : row.sequence = archive[i].sequence /\ row.hash = archive[i].hash
      BY <2>1, <3>1 DEF ToSet
    <3> QED
      BY <3>2, <3>3 DEF verify_archive_chain_divergence, ToSet
  <2> QED
    BY <2>3, <2>4 DEF DivergenceIsExact
<1> QED
  BY <1>1, <1>2, <1>3 DEF AuditTrail

\* For any number of writers, entries, sweeps, crashes and restores the log is one chain,
\* the archive a copy of its head until a restore, and the divergence check exact.
THEOREM AuditTrailHolds == AuditSpec => []AuditTrail
<1>1. AuditIInv => AuditTrail
  BY AuditTrailFollows
<1> QED
  BY <1>1, AuditStart, AuditStep, PTL DEF AuditSpec

-----------------------------------------------------------------------------
(* Inbound messages.                                                       *)

InboundSpec == InboundInit /\ [][InboundNext]_inboundVars

\* A delivery that has been recorded and may still start, or has started, a run.
InService(d) == delivery[d] \in {"recorded", "routed"}

\* One delivery at a time is past the replay key, which was set in this very unit of time
\* and after every run: no time passes while a delivery is in hand.
KeyIsHeld ==
    \A d \in Delivery : InService(d) =>
        /\ replay_key = clock + ReplayTtlUnits
        /\ \A i \in DOMAIN runs_started : runs_started[i] + ReplayTtlUnits <= clock
        /\ \A e \in Delivery : InService(e) => e = d

\* A replay key outlives every run by its time to live, and Slack's signature is too old
\* for anything to be in hand by then.
KeyOutlivesRuns ==
    /\ \A i \in DOMAIN runs_started :
         1 <= runs_started[i] /\ runs_started[i] + ReplayTtlUnits <= replay_key
    /\ chat = "slack" =>
         /\ \A i \in DOMAIN runs_started : runs_started[i] <= 1 + ToleranceUnits
         /\ \A d \in Delivery : InHand(d) => clock <= 1 + ToleranceUnits

\* The runs of a message are further apart than its replay key lives.
RunsApart == \A i, j \in DOMAIN runs_started : i < j => runs_started[j] >= runs_started[i] + 2

\* The inductive invariant of the inbound messages.
InboundIInv ==
    /\ InboundTypeOK
    /\ replay_key \in Nat /\ window_count \in Nat /\ runs_started \in Seq(Nat)
    /\ KeyIsHeld /\ KeyOutlivesRuns /\ RunsApart

\* The invariant holds before the first delivery.
LEMMA InboundStart == ASSUME InboundInit PROVE InboundIInv
BY InboundAssumption DEF InboundInit, InboundIInv, InboundTypeOK, KeyIsHeld, KeyOutlivesRuns, RunsApart,
       InService, InHand, send_to_channel

\* Every step keeps it.
LEMMA InboundStep == ASSUME InboundIInv, [InboundNext]_inboundVars PROVE InboundIInv'
<1> USE InboundAssumption DEF InboundIInv, InboundTypeOK, ToleranceUnits, ReplayTtlUnits, send_to_channel
<1>1. CASE Tick
  BY <1>1 DEF Tick, KeyIsHeld, KeyOutlivesRuns, RunsApart, InService, InHand
<1>2. CASE WindowTurns
  BY <1>2 DEF WindowTurns, KeyIsHeld, KeyOutlivesRuns, RunsApart, InService, InHand
<1>3. CASE write_channel
  <2>1. allowed' \in BOOLEAN
    BY <1>3, Zenon DEF write_channel
  <2> QED
    BY <1>3, <2>1 DEF write_channel, KeyIsHeld, KeyOutlivesRuns, RunsApart, InService, InHand
<1>4. ASSUME NEW d \in Delivery, telegram_webhook(d) \/ discord_webhook(d) \/ slack_webhook(d)
      PROVE  InboundIInv'
  BY <1>4 DEF telegram_webhook, discord_webhook, slack_webhook, verify_slack_signature, Accepted,
              Moves, KeyIsHeld, KeyOutlivesRuns, RunsApart, InService, InHand
<1>5. ASSUME NEW d \in Delivery, check_and_record_replay(d)
      PROVE  InboundIInv'
  BY <1>5 DEF check_and_record_replay, Moves, KeyIsHeld, KeyOutlivesRuns, RunsApart, InService, InHand
<1>6. ASSUME NEW d \in Delivery, check_rate_limit(d)
      PROVE  InboundIInv'
  BY <1>6 DEF check_rate_limit, fixed_window_increment, Moves, KeyIsHeld, KeyOutlivesRuns, RunsApart,
              InService, InHand
<1>7. ASSUME NEW d \in Delivery, NEW class \in classify_message, NEW reply \in send_to_channel,
             route_inbound_message(d, class, reply)
      PROVE  InboundIInv'
  <2>1. /\ InService(d) /\ InHand(d) /\ UNCHANGED <<chat, clock, replay_key, window_count, allowed>>
        /\ \E at \in {"refused", "answered", "unanswered"} : delivery' = [delivery EXCEPT ![d] = at]
    BY <1>7 DEF route_inbound_message, Moves, InService, InHand
  <2>2. /\ delivery' \in [Delivery -> {"none", "verified", "replayed", "recorded", "limited",
                                       "routed", "refused", "failed"} \cup send_to_channel]
        /\ \A e \in Delivery : ~InService(e)'
        /\ \A e \in Delivery : InHand(e)' => InHand(e)
    BY <2>1 DEF KeyIsHeld, InService, InHand
  <2>3. CASE UNCHANGED runs_started
    BY <2>1, <2>2, <2>3 DEF KeyIsHeld, KeyOutlivesRuns, RunsApart
  <2>4. CASE runs_started' = Append(runs_started, clock)
    <3>1. clock \in Nat /\ Len(runs_started) \in Nat
      BY LenProperties
    <3>2. /\ runs_started' \in Seq(Nat)
          /\ DOMAIN runs_started = 1 .. Len(runs_started) /\ DOMAIN runs_started' = 1 .. Len(runs_started) + 1
          /\ \A i \in 1 .. Len(runs_started) : runs_started'[i] = runs_started[i] /\ runs_started[i] \in Nat
          /\ runs_started'[Len(runs_started) + 1] = clock
      BY <2>4, <3>1, Added, ElementOfSeq
    <3> DEFINE n == Len(runs_started)
               s == runs_started
               t == runs_started'
    <3>5. /\ n \in Nat /\ clock \in Nat /\ DOMAIN s = 1 .. n /\ DOMAIN t = 1 .. n + 1
          /\ \A i \in 1 .. n : t[i] = s[i] /\ s[i] \in Nat /\ s[i] + 2 <= clock
          /\ t[n + 1] = clock /\ replay_key' = clock + 2 /\ 1 <= clock
      <4>1. replay_key = clock + 2 /\ \A i \in DOMAIN runs_started : runs_started[i] + 2 <= clock
        BY <2>1 DEF KeyIsHeld
      <4>2. replay_key' = clock + 2 /\ 1 <= clock
        BY <2>1, <4>1
      <4> QED
        BY ONLY <3>1, <3>2, <4>1, <4>2
    <3>6. \A i, j \in 1 .. n : i < j => s[j] >= s[i] + 2
      BY <3>5 DEF RunsApart
    <3>7. \A i \in 1 .. n : 1 <= s[i]
      BY <3>5 DEF KeyOutlivesRuns
    <3> HIDE DEF n, s, t
    <3>3. RunsApart'
      <4> SUFFICES ASSUME NEW i \in 1 .. n + 1, NEW j \in 1 .. n + 1, i < j PROVE t[j] >= t[i] + 2
        BY <3>5 DEF RunsApart, t
      <4>1. i \in 1 .. n
        BY <3>5
      <4>2. CASE j = n + 1
        BY <3>5, <4>1, <4>2
      <4>3. CASE j \in 1 .. n
        BY <3>5, <3>6, <4>1, <4>3
      <4> QED
        BY <3>5, <4>2, <4>3
    <3>4. KeyOutlivesRuns'
      <4>1. \A i \in 1 .. n + 1 : 1 <= t[i] /\ t[i] + 2 <= replay_key'
        <5> TAKE i \in 1 .. n + 1
        <5>1. i \in 1 .. n \/ i = n + 1
          BY <3>5
        <5> QED
          BY <3>5, <3>7, <5>1
      <4>2. ASSUME chat = "slack" PROVE clock <= 2 /\ \A i \in 1 .. n + 1 : t[i] <= 2
        <5>1. clock <= 2
          BY <2>1, <4>2 DEF KeyOutlivesRuns
        <5>2. ASSUME NEW i \in 1 .. n + 1 PROVE t[i] <= 2
          <6>1. i \in 1 .. n \/ i = n + 1
            BY <3>5
          <6> QED
            BY <3>5, <5>1, <6>1
        <5> QED
          BY <5>1, <5>2
      <4> QED
        BY <2>1, <2>2, <3>5, <4>1, <4>2 DEF KeyOutlivesRuns, t
    <3> QED
      BY <2>1, <2>2, <3>2, <3>3, <3>4 DEF KeyIsHeld
  <2> QED
    BY <1>7, <2>3, <2>4 DEF route_inbound_message
<1>8. ASSUME NEW d \in Delivery, DeliveryFails(d)
      PROVE  InboundIInv'
  BY <1>8 DEF DeliveryFails, Moves, KeyIsHeld, KeyOutlivesRuns, RunsApart, InService, InHand
<1>9. CASE UNCHANGED inboundVars
  BY <1>9 DEF inboundVars, KeyIsHeld, KeyOutlivesRuns, RunsApart, InService, InHand
<1> QED
  BY <1>1, <1>2, <1>3, <1>4, <1>5, <1>6, <1>7, <1>8, <1>9 DEF InboundNext

\* What the invariant says of the runs.
LEMMA OneRunFollows == ASSUME InboundIInv PROVE OneRunPerMessage
<1>1. RunsApart
  BY DEF InboundIInv
<1>2. ASSUME chat = "slack" PROVE Len(runs_started) <= 1
  <2>1. Len(runs_started) \in Nat /\ DOMAIN runs_started = 1 .. Len(runs_started)
        /\ \A i \in DOMAIN runs_started : runs_started[i] \in Nat
    BY LenProperties, ElementOfSeq DEF InboundIInv
  <2> SUFFICES ASSUME Len(runs_started) >= 2 PROVE FALSE
    BY <2>1
  <2>2. 1 \in DOMAIN runs_started /\ 2 \in DOMAIN runs_started
    BY <2>1
  <2>3. runs_started[2] >= runs_started[1] + 2
    BY <1>1, <2>2 DEF RunsApart
  <2>4. 1 <= runs_started[1] /\ runs_started[2] <= 2
    BY <1>2, <2>2 DEF InboundIInv, KeyOutlivesRuns, ToleranceUnits
  <2>5. runs_started[1] \in Nat /\ runs_started[2] \in Nat
    BY <2>1, <2>2
  <2> QED
    BY <2>3, <2>4, <2>5
<1> QED
  BY <1>1, <1>2 DEF OneRunPerMessage, RunsApart

\* A message starts one run while its replay key lives, however often and whenever it is
\* delivered (webhooks.py).
THEOREM OneRunPerMessageHolds == InboundSpec => []OneRunPerMessage
<1>1. InboundInit => InboundIInv
  BY InboundStart
<1>2. InboundIInv /\ [InboundNext]_inboundVars => InboundIInv'
  BY InboundStep
<1>3. InboundIInv => OneRunPerMessage
  BY OneRunFollows
<1> QED
  BY <1>1, <1>2, <1>3, PTL DEF InboundSpec

-----------------------------------------------------------------------------
(* Gateway configuration.                                                  *)

GatewaySpec == GatewayInit /\ [][GatewayNext]_gatewayVars

\* What the rows, the edits and the command line hold.
ConfigRow == [status: {"pending", "active", "rejected", "lost"}, text: Texts, base: 0 .. MaxConfigVersions]
EditSet == {IdleEdit} \union [at: {"queued"}, kind: {"patch", "put", "put_broken", "rollback"},
                              expected: 1 .. MaxConfigVersions]
                      \union [at: {"applying"}, row: 1 .. MaxConfigVersions]
CliSet == {IdleEdit} \union [at: {"loaded"}, text: Texts]

\* An edit is applying row n; a version is in force when it was not refused or lost.
Applies(e, n) == edit_req[e].at = "applying" /\ edit_req[e].row = n
InForce(m) == config_versions[m].status \in {"pending", "active"}

\* Types, in the form the steps need.
GatewayTyped ==
    /\ GatewayTypeOK
    /\ config_versions \in Seq(ConfigRow) /\ Len(config_versions) <= MaxConfigVersions
    /\ running_config \in [number: 0 .. MaxConfigVersions, text: Texts \union {NoText}]
    /\ edit_req \in [ConfigEditor -> EditSet] /\ cli_job \in CliSet

\* What is under way names rows of the table: a request the one it was made from, an
\* application a row of its own that is not committed yet.
WorkNamesRows ==
    /\ \A e \in ConfigEditor : edit_req[e].at = "queued" => edit_req[e].expected \in DOMAIN config_versions
    /\ \A e \in ConfigEditor, n \in 1 .. MaxConfigVersions : Applies(e, n) =>
         /\ n \in DOMAIN config_versions /\ config_versions[n].status = "pending" /\ n \notin reload
         /\ \A f \in ConfigEditor : edit_req[f].at = "applying" => f = e
    /\ \A n \in reload : config_versions[n].status = "pending"

\* The configuration in use is committed; an edit was made from a committed version, and
\* once the edit is committed that version is not in use any more, nor ever again.
EditsMoveOn ==
    /\ running_config.number # 0 =>
         /\ running_config.number \in DOMAIN config_versions
         /\ config_versions[running_config.number].status = "active"
    /\ \A m \in DOMAIN config_versions :
         InForce(m) /\ config_versions[m].base # 0 =>
           /\ config_versions[m].base \in DOMAIN config_versions
           /\ config_versions[config_versions[m].base].status = "active"
           /\ config_versions[m].base = running_config.number => \E e \in ConfigEditor : Applies(e, m)

\* The inductive invariant of the gateway configuration.
GatewayIInv == GatewayTyped /\ WorkNamesRows /\ EditsMoveOn /\ OneEditPerVersion

\* A text of the model: broken, or the changes it holds.
LEMMA TextsAre ==
    /\ Broken_text \in Texts /\ \A C \in SUBSET Change : Text(C) \in Texts
    /\ \A t \in Texts : t.holds \in SUBSET Change
    /\ IdleEdit \in EditSet /\ IdleEdit \in CliSet /\ IdleEdit.at = "idle"
<1>1. Broken_text \in Texts /\ \A C \in SUBSET Change : Text(C) \in Texts
  BY DEF Texts
<1>2. \A t \in Texts : t.holds \in SUBSET Change
  <2>1. Broken_text.holds = {} /\ \A C : Text(C).holds = C
    BY DEF Broken_text, Text
  <2> QED
    BY <2>1 DEF Texts
<1>3. IdleEdit \in EditSet /\ IdleEdit \in CliSet /\ IdleEdit.at = "idle"
  BY DEF EditSet, CliSet, IdleEdit
<1> QED
  BY <1>1, <1>2, <1>3

\* The first configuration is applied before the process serves.
LEMMA GatewayStart == ASSUME GatewayInit PROVE GatewayIInv
<1> DEFINE row == [status |-> "active", text |-> Text({}), base |-> 0]
<1>1. row \in ConfigRow /\ Text({}) \in Texts
  BY GatewayAssumption, TextsAre DEF ConfigRow
<1>2. /\ config_versions \in Seq(ConfigRow) /\ Len(config_versions) = 1
      /\ DOMAIN config_versions = {1} /\ config_versions[1] = row
  BY <1>1 DEF GatewayInit
<1>3. GatewayTyped
  <2>1. edit_req \in [ConfigEditor -> EditSet] /\ cli_job \in CliSet
    BY TextsAre DEF GatewayInit
  <2>2. running_config \in [number: 0 .. MaxConfigVersions, text: Texts \union {NoText}]
    BY <1>1, GatewayAssumption DEF GatewayInit
  <2>3. GatewayTypeOK
    <3>1. config_file \in Texts /\ last_content_hash = NoText /\ self_write = NoText
          /\ file_event \in BOOLEAN /\ reload = {}
      BY <1>1 DEF GatewayInit
    <3> QED
      BY <1>2, <3>1 DEF GatewayTypeOK
  <2> QED
    BY <1>2, <2>1, <2>2, <2>3, GatewayAssumption DEF GatewayTyped
<1>4. WorkNamesRows /\ EditsMoveOn /\ OneEditPerVersion
  BY <1>2, TextsAre DEF GatewayInit, WorkNamesRows, EditsMoveOn, OneEditPerVersion, Applies, InForce, IdleEdit
<1> QED
  BY <1>3, <1>4 DEF GatewayIInv

\* What is known of the table and its rows.
LEMMA GatewayFacts ==
    ASSUME GatewayIInv
    PROVE  /\ config_versions \in Seq(ConfigRow) /\ Len(config_versions) \in 0 .. MaxConfigVersions
           /\ DOMAIN config_versions = 1 .. Len(config_versions)
           /\ \A n \in DOMAIN config_versions :
                /\ config_versions[n] \in ConfigRow
                /\ config_versions[n].text \in Texts /\ config_versions[n].base \in 0 .. MaxConfigVersions
<1>1. config_versions \in Seq(ConfigRow) /\ Len(config_versions) <= MaxConfigVersions
  BY DEF GatewayIInv, GatewayTyped
<1>2. /\ Len(config_versions) \in Nat /\ DOMAIN config_versions = 1 .. Len(config_versions)
      /\ \A n \in DOMAIN config_versions : config_versions[n] \in ConfigRow
  BY <1>1, LenProperties, ElementOfSeq
<1>3. \A r \in ConfigRow : r.text \in Texts /\ r.base \in 0 .. MaxConfigVersions
  BY DEF ConfigRow
<1> QED
  BY <1>1, <1>2, <1>3, GatewayAssumption

\* A row that nothing under way names joins the table; an edit is made from the version in
\* use, with no edit under way.
LEMMA RowJoins ==
    ASSUME GatewayIInv, Room, NEW row \in ConfigRow,
           config_versions' = Append(config_versions, row),
           \/ row.base = 0
           \/ row.base = running_config.number /\ _config_lock
    PROVE  /\ config_versions' \in Seq(ConfigRow) /\ Len(config_versions') = NextNumber
           /\ Len(config_versions') <= MaxConfigVersions
           /\ DOMAIN config_versions' = DOMAIN config_versions \union {NextNumber}
           /\ NextNumber \notin DOMAIN config_versions /\ NextNumber \in 1 .. MaxConfigVersions
           /\ \A n \in DOMAIN config_versions : config_versions'[n] = config_versions[n]
           /\ config_versions'[NextNumber] = row
           /\ OneEditPerVersion'
<1>1. /\ Len(config_versions) \in Nat /\ Len(config_versions) < MaxConfigVersions
      /\ DOMAIN config_versions = 1 .. Len(config_versions)
  BY GatewayFacts DEF Room
<1>2. /\ config_versions' \in Seq(ConfigRow) /\ Len(config_versions') = NextNumber
      /\ Len(config_versions') <= MaxConfigVersions
      /\ DOMAIN config_versions' = 1 .. NextNumber
      /\ \A n \in 1 .. Len(config_versions) : config_versions'[n] = config_versions[n]
      /\ config_versions'[NextNumber] = row
  BY <1>1, Added, GatewayAssumption DEF NextNumber, GatewayIInv, GatewayTyped
<1>3. /\ DOMAIN config_versions' = DOMAIN config_versions \union {NextNumber}
      /\ NextNumber \notin DOMAIN config_versions /\ NextNumber \in 1 .. MaxConfigVersions
      /\ \A n \in DOMAIN config_versions : config_versions'[n] = config_versions[n]
  BY <1>1, <1>2, GatewayAssumption DEF NextNumber
<1>4. ASSUME NEW m \in DOMAIN config_versions, InForce(m), config_versions[m].base # 0
      PROVE  config_versions[m].base # row.base
  <2>1. row.base # 0 => ~\E e \in ConfigEditor : Applies(e, m)
    BY <1>4 DEF Applies, _config_lock, GatewayIInv, EditsMoveOn
  <2> QED
    BY <1>4, <2>1 DEF GatewayIInv, EditsMoveOn
<1>5. OneEditPerVersion'
  BY <1>2, <1>3, <1>4 DEF OneEditPerVersion, InForce, GatewayIInv
<1> QED
  BY <1>2, <1>3, <1>5

\* A row under way is committed and is the configuration in use.
LEMMA RowCommits ==
    ASSUME GatewayIInv, NEW n \in DOMAIN config_versions, config_versions[n].status = "pending",
           _record_active(n)
    PROVE  /\ config_versions' \in Seq(ConfigRow) /\ Len(config_versions') = Len(config_versions)
           /\ DOMAIN config_versions' = DOMAIN config_versions
           /\ \A m \in DOMAIN config_versions :
                /\ config_versions'[m].base = config_versions[m].base
                /\ config_versions'[m].status = IF m = n THEN "active" ELSE config_versions[m].status
           /\ running_config' \in [number: 0 .. MaxConfigVersions, text: Texts \union {NoText}]
           /\ EditsMoveOn' /\ OneEditPerVersion'
<1>1. config_versions[n] \in ConfigRow /\ n \in 1 .. MaxConfigVersions
  BY GatewayFacts, GatewayAssumption
<1> DEFINE row == [config_versions[n] EXCEPT !.status = "active"]
<1>2. row \in ConfigRow /\ row.status = "active" /\ row.base = config_versions[n].base
  BY <1>1 DEF ConfigRow
<1>3. config_versions' = [config_versions EXCEPT ![n] = row]
  BY DEF _record_active
<1> HIDE DEF row
<1>4. /\ config_versions' \in Seq(ConfigRow) /\ Len(config_versions') = Len(config_versions)
      /\ DOMAIN config_versions' = DOMAIN config_versions
  BY <1>2, <1>3, GatewayFacts, ExceptSeq
<1>5. \A m \in DOMAIN config_versions :
        /\ config_versions'[m].base = config_versions[m].base
        /\ config_versions'[m].status = IF m = n THEN "active" ELSE config_versions[m].status
  BY <1>2, <1>3, GatewayFacts
<1>6. /\ running_config' \in [number: 0 .. MaxConfigVersions, text: Texts \union {NoText}]
      /\ running_config'.number = n
  BY <1>1, GatewayFacts, GatewayAssumption DEF _record_active
<1>7. EditsMoveOn'
  <2>1. \A m \in DOMAIN config_versions : InForce(m)' => InForce(m)
    BY <1>4, <1>5 DEF InForce
  <2>2. \A m \in DOMAIN config_versions :
          InForce(m) /\ config_versions[m].base # 0 => config_versions[m].base # n
    BY DEF GatewayIInv, EditsMoveOn
  <2> QED
    BY <1>4, <1>5, <1>6, <2>1, <2>2 DEF GatewayIInv, EditsMoveOn
<1>8. OneEditPerVersion'
  BY <1>4, <1>5 DEF OneEditPerVersion, GatewayIInv
<1> QED
  BY <1>4, <1>5, <1>6, <1>7, <1>8

\* Every step keeps the invariant.
LEMMA GatewayStep == ASSUME GatewayIInv, [GatewayNext]_gatewayVars PROVE GatewayIInv'
<1> USE GatewayAssumption, TextsAre
<1>0. /\ GatewayTyped /\ WorkNamesRows /\ EditsMoveOn /\ OneEditPerVersion
  BY DEF GatewayIInv
<1>1. ASSUME NEW e \in ConfigEditor, get_gateway_config(e) PROVE GatewayIInv'
  <2>1. running_config.number \in 1 .. MaxConfigVersions /\ running_config.number \in DOMAIN config_versions
    BY <1>0, <1>1 DEF get_gateway_config, GatewayTyped, EditsMoveOn
  <2>2. PICK kind \in {"patch", "put", "put_broken"} :
          edit_req' = [edit_req EXCEPT ![e] = [at |-> "queued", kind |-> kind, expected |-> running_config.number]]
    BY <1>1 DEF get_gateway_config, SetEdit
  <2> QED
    BY <1>0, <1>1, <2>1, <2>2
       DEF get_gateway_config, GatewayIInv, GatewayTyped, GatewayTypeOK, EditSet, WorkNamesRows, EditsMoveOn,
           OneEditPerVersion, Applies, InForce
<1>2. ASSUME NEW e \in ConfigEditor, NEW n \in 1 .. MaxConfigVersions, request_rollback(e, n) PROVE GatewayIInv'
  BY <1>0, <1>2
     DEF request_rollback, SetEdit, GatewayIInv, GatewayTyped, GatewayTypeOK, EditSet, WorkNamesRows,
         EditsMoveOn, OneEditPerVersion, Applies, InForce
<1>3. ASSUME NEW e \in ConfigEditor, edit_refused(e) PROVE GatewayIInv'
  BY <1>0, <1>3
     DEF edit_refused, SetEdit, GatewayIInv, GatewayTyped, GatewayTypeOK, WorkNamesRows,
         EditsMoveOn, OneEditPerVersion, Applies, InForce
<1>4. ASSUME NEW e \in ConfigEditor, _write_and_apply(e) PROVE GatewayIInv'
  <2> DEFINE job == edit_req[e]
             text == NewText(e, job)
             row == Row(text, IF job.kind = "rollback" THEN 0 ELSE job.expected)
  <2>1. /\ job \in [at: {"queued"}, kind: {"patch", "put", "put_broken", "rollback"},
                    expected: 1 .. MaxConfigVersions]
        /\ job.expected \in DOMAIN config_versions /\ config_versions[job.expected].text \in Texts
        /\ config_file \in Texts
    BY <1>0, <1>4, GatewayFacts DEF _write_and_apply, GatewayTyped, GatewayTypeOK, WorkNamesRows, EditSet, IdleEdit
  <2>2. text \in Texts
    <3>1. e \in Change /\ config_file.holds \in SUBSET Change
          /\ config_versions[job.expected].text.holds \in SUBSET Change
      BY <2>1 DEF Change
    <3> QED
      BY <2>1, <3>1 DEF NewText
  <2>3. row \in ConfigRow /\ row.base = (IF job.kind = "rollback" THEN 0 ELSE job.expected)
        /\ row.status = IF validate_config_dict(text) THEN "pending" ELSE "rejected"
    BY <2>1, <2>2 DEF Row, ConfigRow
  <2>4. row.base = 0 \/ (row.base = running_config.number /\ _config_lock)
    BY <1>4, <2>3 DEF _write_and_apply, _check_version
  <2>5. /\ Room /\ config_versions' = Append(config_versions, row) /\ _config_lock /\ job.at = "queued"
        /\ UNCHANGED <<running_config, last_content_hash, reload, cli_job, gateway_restarts>>
        /\ IF validate_config_dict(text)
           THEN /\ self_write' = text /\ config_file' = text /\ file_event' = TRUE
                /\ edit_req' = [edit_req EXCEPT ![e] = [at |-> "applying", row |-> NextNumber]]
           ELSE edit_req' = [edit_req EXCEPT ![e] = IdleEdit] /\ UNCHANGED <<self_write, config_file, file_event>>
    BY <1>4 DEF _write_and_apply, _atomic_write, SetEdit
  <2> HIDE DEF row, text, job
  <2>6. /\ config_versions' \in Seq(ConfigRow) /\ Len(config_versions') = NextNumber
        /\ Len(config_versions') <= MaxConfigVersions
        /\ DOMAIN config_versions' = DOMAIN config_versions \union {NextNumber}
        /\ NextNumber \notin DOMAIN config_versions /\ NextNumber \in 1 .. MaxConfigVersions
        /\ \A n \in DOMAIN config_versions : config_versions'[n] = config_versions[n]
        /\ config_versions'[NextNumber] = row
        /\ OneEditPerVersion'
    BY <2>3, <2>4, <2>5, RowJoins
  <2>7. GatewayTyped'
    <3>1. edit_req' \in [ConfigEditor -> EditSet]
      <4>1. [at |-> "applying", row |-> NextNumber] \in EditSet /\ IdleEdit \in EditSet
        BY <2>6 DEF EditSet
      <4>2. edit_req \in [ConfigEditor -> EditSet]
        BY <1>0 DEF GatewayTyped
      <4> QED
        BY <2>5, <4>1, <4>2
    <3>2. config_file' \in Texts /\ self_write' \in Texts \union {NoText} /\ file_event' \in BOOLEAN
      BY <1>0, <2>2, <2>5 DEF GatewayTyped, GatewayTypeOK
    <3>3. \A n \in DOMAIN config_versions' :
            config_versions'[n].status \in {"pending", "active", "rejected", "lost"}
      BY <1>0, <2>3, <2>6 DEF GatewayTyped, GatewayTypeOK
    <3> QED
      BY <1>0, <2>5, <2>6, <3>1, <3>2, <3>3 DEF GatewayTyped, GatewayTypeOK
  <2>8. WorkNamesRows'
    <3>1. \A f \in ConfigEditor : edit_req'[f].at = "applying" =>
             f = e /\ edit_req'[f].row = NextNumber /\ row.status = "pending"
      BY <1>0, <2>3, <2>5 DEF _config_lock, GatewayTyped
    <3>2. \A f \in ConfigEditor : edit_req'[f].at = "queued" => edit_req'[f] = edit_req[f]
      BY <1>0, <2>5 DEF GatewayTyped
    <3>3. \A n \in reload : n \in DOMAIN config_versions
      BY <1>0 DEF GatewayTyped, GatewayTypeOK
    <3> QED
      BY <1>0, <2>5, <2>6, <3>1, <3>2, <3>3 DEF WorkNamesRows, Applies
  <2>9. EditsMoveOn'
    <3>1. \A m \in DOMAIN config_versions :
            InForce(m) /\ config_versions[m].base # 0 => config_versions[m].base # running_config.number
      BY <1>0, <2>5 DEF EditsMoveOn, Applies, _config_lock
    <3>2. row.status \in {"pending", "active"} => edit_req'[e].at = "applying" /\ edit_req'[e].row = NextNumber
      <4>1. CASE validate_config_dict(text)
        <5>1. edit_req' = [edit_req EXCEPT ![e] = [at |-> "applying", row |-> NextNumber]]
          BY <2>5, <4>1
        <5>2. edit_req'[e] = [at |-> "applying", row |-> NextNumber]
          BY <1>0, <5>1 DEF GatewayTyped
        <5> QED
          BY <5>2
      <4>2. CASE ~validate_config_dict(text)
        BY <2>3, <4>2
      <4> QED
        BY <4>1, <4>2
    <3>3. row.base # 0 => row.base \in DOMAIN config_versions /\ config_versions[row.base].status = "active"
      BY <1>0, <2>4 DEF EditsMoveOn
    <3> QED
      <4>1. running_config'.number # 0 => /\ running_config'.number \in DOMAIN config_versions'
                                          /\ config_versions'[running_config'.number].status = "active"
        BY <1>0, <2>5, <2>6 DEF EditsMoveOn
      <4>2. ASSUME NEW m \in DOMAIN config_versions', InForce(m)', config_versions'[m].base # 0
            PROVE  /\ config_versions'[m].base \in DOMAIN config_versions'
                   /\ config_versions'[config_versions'[m].base].status = "active"
                   /\ config_versions'[m].base = running_config'.number =>
                        \E f \in ConfigEditor : Applies(f, m)'
        <5>1. CASE m = NextNumber
          <6>1. config_versions'[m] = row /\ row.base # 0 /\ Applies(e, m)'
            BY <2>6, <3>2, <4>2, <5>1 DEF Applies, InForce
          <6>2. row.base \in DOMAIN config_versions' /\ config_versions'[row.base].status = "active"
            BY <2>6, <3>3, <6>1
          <6> QED
            BY <6>1, <6>2
        <5>2. CASE m \in DOMAIN config_versions
          <6>1. config_versions'[m] = config_versions[m] /\ InForce(m)
            BY <2>6, <4>2, <5>2 DEF InForce
          <6> QED
            BY <1>0, <2>5, <2>6, <3>1, <4>2, <5>2, <6>1 DEF EditsMoveOn
        <5> QED
          BY <2>6, <5>1, <5>2
      <4> QED
        BY <4>1, <4>2 DEF EditsMoveOn
  <2> QED
    BY <2>6, <2>7, <2>8, <2>9 DEF GatewayIInv
<1>5. ASSUME NEW e \in ConfigEditor, edit_applied(e) PROVE GatewayIInv'
  <2> DEFINE n == edit_req[e].row
  <2>1. /\ n \in 1 .. MaxConfigVersions /\ Applies(e, n)
    BY <1>0, <1>5 DEF edit_applied, GatewayTyped, EditSet, IdleEdit, Applies
  <2>2. n \in DOMAIN config_versions /\ config_versions[n].status = "pending" /\ n \notin reload
        /\ \A f \in ConfigEditor : edit_req[f].at = "applying" => f = e
    BY <1>0, <2>1 DEF WorkNamesRows
  <2>3. /\ _record_active(n) /\ edit_req' = [edit_req EXCEPT ![e] = IdleEdit]
        /\ UNCHANGED <<config_file, last_content_hash, self_write, file_event, reload, cli_job>>
    BY <1>5 DEF edit_applied, SetEdit
  <2> HIDE DEF n
  <2>4. /\ config_versions' \in Seq(ConfigRow) /\ Len(config_versions') = Len(config_versions)
        /\ DOMAIN config_versions' = DOMAIN config_versions
        /\ \A m \in DOMAIN config_versions :
             /\ config_versions'[m].base = config_versions[m].base
             /\ config_versions'[m].status = IF m = n THEN "active" ELSE config_versions[m].status
        /\ running_config' \in [number: 0 .. MaxConfigVersions, text: Texts \union {NoText}]
        /\ EditsMoveOn' /\ OneEditPerVersion'
    BY <2>2, <2>3, RowCommits
  <2>5. GatewayTyped'
    BY <1>0, <2>3, <2>4 DEF GatewayTyped, GatewayTypeOK
  <2>6. WorkNamesRows'
    <3>1. edit_req'[e].at = "idle" /\ \A f \in ConfigEditor : f # e => edit_req'[f] = edit_req[f]
      BY <1>0, <2>3 DEF GatewayTyped
    <3>2. \A f \in ConfigEditor : edit_req'[f].at = "queued" => edit_req'[f].expected \in DOMAIN config_versions'
      BY <1>0, <2>4, <3>1 DEF WorkNamesRows
    <3>3. \A f \in ConfigEditor : edit_req'[f].at # "applying"
      BY <2>2, <3>1
    <3>4. \A m \in reload' : config_versions'[m].status = "pending"
      BY <1>0, <2>2, <2>3, <2>4 DEF WorkNamesRows, GatewayTyped, GatewayTypeOK
    <3> QED
      BY <3>2, <3>3, <3>4 DEF WorkNamesRows, Applies
  <2> QED
    BY <2>4, <2>5, <2>6 DEF GatewayIInv
<1>6. CASE watcher_apply
  <2>1. CASE UNCHANGED <<config_versions, reload>>
    <3>1. /\ UNCHANGED <<config_file, running_config, edit_req, cli_job>> /\ file_event' = FALSE
          /\ last_content_hash' = config_file /\ self_write' \in {self_write, NoText}
      BY <1>6 DEF watcher_apply
    <3>2. GatewayTyped'
      BY <1>0, <2>1, <3>1 DEF GatewayTyped, GatewayTypeOK
    <3>3. WorkNamesRows' /\ EditsMoveOn' /\ OneEditPerVersion'
      BY <1>0, <2>1, <3>1 DEF WorkNamesRows, EditsMoveOn, OneEditPerVersion, Applies, InForce
    <3> QED
      BY <3>2, <3>3 DEF GatewayIInv
  <2>2. CASE /\ Room /\ config_versions' = Append(config_versions, Row(config_file, 0))
             /\ reload' = IF validate_config_dict(config_file) THEN reload \cup {NextNumber} ELSE reload
    <3> DEFINE row == Row(config_file, 0)
    <3>1. /\ row \in ConfigRow /\ row.base = 0
          /\ row.status = IF validate_config_dict(config_file) THEN "pending" ELSE "rejected"
      BY <1>0 DEF Row, ConfigRow, GatewayTyped, GatewayTypeOK
    <3>2. config_versions' = Append(config_versions, row)
      BY <2>2
    <3> HIDE DEF row
    <3>3. /\ config_versions' \in Seq(ConfigRow) /\ Len(config_versions') = NextNumber
          /\ Len(config_versions') <= MaxConfigVersions
          /\ DOMAIN config_versions' = DOMAIN config_versions \union {NextNumber}
          /\ NextNumber \notin DOMAIN config_versions /\ NextNumber \in 1 .. MaxConfigVersions
          /\ \A n \in DOMAIN config_versions : config_versions'[n] = config_versions[n]
          /\ config_versions'[NextNumber] = row
          /\ OneEditPerVersion'
      BY <2>2, <3>1, <3>2, RowJoins
    <3>4. /\ UNCHANGED <<config_file, running_config, edit_req, cli_job>> /\ file_event' = FALSE
          /\ last_content_hash' = config_file /\ self_write' \in {self_write, NoText}
      BY <1>6 DEF watcher_apply
    <3>5. GatewayTyped'
      <4>1. \A n \in DOMAIN config_versions' :
              config_versions'[n].status \in {"pending", "active", "rejected", "lost"}
        BY <1>0, <3>1, <3>3 DEF GatewayTyped, GatewayTypeOK
      <4> QED
        BY <1>0, <2>2, <3>3, <3>4, <4>1 DEF GatewayTyped, GatewayTypeOK
    <3>6. WorkNamesRows'
      BY <1>0, <2>2, <3>1, <3>3, <3>4 DEF WorkNamesRows, Applies, GatewayTyped, GatewayTypeOK
    <3>7. EditsMoveOn'
      BY <1>0, <3>1, <3>3, <3>4 DEF EditsMoveOn, InForce, Applies
    <3> QED
      BY <3>3, <3>5, <3>6, <3>7 DEF GatewayIInv
  <2> QED
    BY <1>6, <2>1, <2>2 DEF watcher_apply
<1>7. ASSUME NEW n \in 1 .. MaxConfigVersions, reload_applied(n) PROVE GatewayIInv'
  <2>1. /\ n \in DOMAIN config_versions /\ config_versions[n].status = "pending" /\ n \in reload
        /\ _record_active(n) /\ reload' = reload \ {n}
        /\ UNCHANGED <<config_file, last_content_hash, self_write, file_event, edit_req, cli_job>>
    BY <1>0, <1>7 DEF reload_applied, GatewayTyped, GatewayTypeOK, WorkNamesRows
  <2>2. /\ config_versions' \in Seq(ConfigRow) /\ Len(config_versions') = Len(config_versions)
        /\ DOMAIN config_versions' = DOMAIN config_versions
        /\ \A m \in DOMAIN config_versions :
             /\ config_versions'[m].base = config_versions[m].base
             /\ config_versions'[m].status = IF m = n THEN "active" ELSE config_versions[m].status
        /\ running_config' \in [number: 0 .. MaxConfigVersions, text: Texts \union {NoText}]
        /\ EditsMoveOn' /\ OneEditPerVersion'
    BY <2>1, RowCommits
  <2>3. GatewayTyped'
    BY <1>0, <2>1, <2>2 DEF GatewayTyped, GatewayTypeOK
  <2>4. WorkNamesRows'
    <3>1. \A f \in ConfigEditor : edit_req'[f].at = "queued" => edit_req'[f].expected \in DOMAIN config_versions'
      BY <1>0, <2>1, <2>2 DEF WorkNamesRows
    <3>2. \A m \in reload' : config_versions'[m].status = "pending"
      BY <1>0, <2>1, <2>2 DEF WorkNamesRows, GatewayTyped, GatewayTypeOK
    <3>3. ASSUME NEW f \in ConfigEditor, NEW m \in 1 .. MaxConfigVersions, Applies(f, m)'
          PROVE  /\ m \in DOMAIN config_versions' /\ config_versions'[m].status = "pending" /\ m \notin reload'
                 /\ \A g \in ConfigEditor : edit_req'[g].at = "applying" => g = f
      <4>1. Applies(f, m)
        BY <2>1, <3>3 DEF Applies
      <4> QED
        BY <1>0, <2>1, <2>2, <4>1 DEF WorkNamesRows
    <3> QED
      BY <3>1, <3>2, <3>3 DEF WorkNamesRows
  <2> QED
    BY <2>2, <2>3, <2>4 DEF GatewayIInv
<1>8. CASE AnnouncementExpires
  BY <1>0, <1>8
     DEF AnnouncementExpires, GatewayIInv, GatewayTyped, GatewayTypeOK, WorkNamesRows, EditsMoveOn,
         OneEditPerVersion, Applies, InForce
<1>9. ASSUME doctor \/ \E c \in OutsideChange : cli_command(c) PROVE GatewayIInv'
  <2>1. cli_job' \in CliSet
    <3>1. CASE doctor
      BY <1>0, <3>1 DEF doctor, CliSet, GatewayTyped, GatewayTypeOK
    <3>2. ASSUME NEW c \in OutsideChange, cli_command(c) PROVE cli_job' \in CliSet
      <4>1. config_file.holds \cup {c} \in SUBSET Change
        BY <1>0 DEF Change, GatewayTyped, GatewayTypeOK
      <4> QED
        BY <3>2, <4>1 DEF cli_command, CliSet
    <3> QED
      BY <1>9, <3>1, <3>2
  <2>2. UNCHANGED <<config_file, config_versions, running_config, last_content_hash, self_write,
                    file_event, reload, edit_req, gateway_restarts>>
    BY <1>9 DEF doctor, cli_command
  <2> QED
    BY <1>0, <2>1, <2>2
       DEF GatewayIInv, GatewayTyped, GatewayTypeOK, WorkNamesRows, EditsMoveOn,
           OneEditPerVersion, Applies, InForce
<1>10. CASE cli_writes
  <2> DEFINE row == [status |-> "active", text |-> cli_job.text, base |-> 0]
  <2>1. cli_job.text \in Texts
    BY <1>0, <1>10 DEF cli_writes, GatewayTyped, CliSet, IdleEdit
  <2>2. row \in ConfigRow /\ row.base = 0 /\ row.status = "active"
    BY <2>1 DEF ConfigRow
  <2>3. /\ Room /\ config_versions' = Append(config_versions, row) /\ cli_job' = IdleEdit
        /\ config_file' = cli_job.text /\ file_event' = TRUE
        /\ UNCHANGED <<running_config, last_content_hash, self_write, reload, edit_req>>
    BY <1>10 DEF cli_writes, _atomic_write
  <2> HIDE DEF row
  <2>4. /\ config_versions' \in Seq(ConfigRow) /\ Len(config_versions') = NextNumber
        /\ Len(config_versions') <= MaxConfigVersions
        /\ DOMAIN config_versions' = DOMAIN config_versions \union {NextNumber}
        /\ NextNumber \notin DOMAIN config_versions /\ NextNumber \in 1 .. MaxConfigVersions
        /\ \A n \in DOMAIN config_versions : config_versions'[n] = config_versions[n]
        /\ config_versions'[NextNumber] = row
        /\ OneEditPerVersion'
    BY <2>2, <2>3, RowJoins
  <2>5. GatewayTyped'
    <3>1. \A n \in DOMAIN config_versions' :
            config_versions'[n].status \in {"pending", "active", "rejected", "lost"}
      BY <1>0, <2>2, <2>4 DEF GatewayTyped, GatewayTypeOK
    <3> QED
      BY <1>0, <2>1, <2>3, <2>4, <3>1 DEF GatewayTyped, GatewayTypeOK
  <2>6. WorkNamesRows'
    BY <1>0, <2>3, <2>4 DEF WorkNamesRows, Applies, GatewayTyped, GatewayTypeOK
  <2>7. EditsMoveOn'
    BY <1>0, <2>2, <2>3, <2>4 DEF EditsMoveOn, InForce, Applies
  <2> QED
    BY <2>4, <2>5, <2>6, <2>7 DEF GatewayIInv
<1>11. ASSUME NEW text \in {Text(config_file.holds \cup {c}) : c \in OutsideChange} \cup {Broken_text},
              HandEdit(text)
       PROVE  GatewayIInv'
  <2>1. text \in Texts
    <3>1. config_file.holds \in SUBSET Change /\ OutsideChange \subseteq Change
      BY <1>0 DEF Change, GatewayTyped, GatewayTypeOK
    <3> QED
      BY <3>1
  <2> QED
    BY <1>0, <1>11, <2>1
       DEF HandEdit, _atomic_write, GatewayIInv, GatewayTyped, GatewayTypeOK, WorkNamesRows, EditsMoveOn,
           OneEditPerVersion, Applies, InForce
<1>12. CASE lifespan
  <2> DEFINE kept == [n \in DOMAIN config_versions |->
                        IF config_versions[n].status = "pending"
                        THEN [config_versions[n] EXCEPT !.status = "lost"] ELSE config_versions[n]]
             row == [Row(config_file, 0) EXCEPT !.status = IF @ = "pending" THEN "active" ELSE @]
             len == Len(config_versions)
  <2>1. /\ row \in ConfigRow /\ row.base = 0
        /\ row.status = IF validate_config_dict(config_file) THEN "active" ELSE "rejected"
    BY <1>0 DEF Row, ConfigRow, GatewayTyped, GatewayTypeOK
  <2>2. \A n \in DOMAIN config_versions :
          /\ kept[n] \in ConfigRow /\ kept[n].base = config_versions[n].base
          /\ kept[n].status = IF config_versions[n].status = "pending" THEN "lost" ELSE config_versions[n].status
    BY GatewayFacts DEF ConfigRow
  <2>3. kept \in Seq(ConfigRow) /\ Len(kept) = len /\ DOMAIN kept = DOMAIN config_versions
    <3>1. kept \in [DOMAIN config_versions -> ConfigRow]
      BY <2>2
    <3> HIDE DEF kept
    <3> QED
      BY <3>1, GatewayFacts, Rewritten
  <2>4. /\ config_versions' = Append(kept, row) /\ len < MaxConfigVersions
        /\ running_config' = IF validate_config_dict(config_file)
                             THEN [number |-> NextNumber, text |-> config_file]
                             ELSE [number |-> 0, text |-> NoText]
        /\ last_content_hash' = NoText /\ self_write' = NoText /\ file_event' = FALSE /\ reload' = {}
        /\ edit_req' = [e \in ConfigEditor |-> IdleEdit]
        /\ UNCHANGED <<config_file, cli_job>>
    BY <1>12 DEF lifespan, Room
  <2> HIDE DEF kept, row
  <2>5. /\ config_versions' \in Seq(ConfigRow) /\ Len(config_versions') = len + 1
        /\ DOMAIN config_versions' = DOMAIN config_versions \union {len + 1}
        /\ len + 1 \notin DOMAIN config_versions /\ len + 1 \in 1 .. MaxConfigVersions
        /\ \A n \in DOMAIN config_versions : config_versions'[n] = kept[n]
        /\ config_versions'[len + 1] = row
    <3>1. len \in Nat /\ DOMAIN config_versions = 1 .. len
      BY GatewayFacts
    <3> QED
      BY <2>1, <2>3, <2>4, <3>1, Added
  <2>6. GatewayTyped'
    <3>1. \A n \in DOMAIN config_versions' :
            config_versions'[n].status \in {"pending", "active", "rejected", "lost"}
      BY <1>0, <2>1, <2>2, <2>5 DEF GatewayTyped, GatewayTypeOK
    <3>2. running_config' \in [number: 0 .. MaxConfigVersions, text: Texts \union {NoText}]
      BY <1>0, <2>4, <2>5 DEF GatewayTyped, GatewayTypeOK, NextNumber
    <3> QED
      <4>1. edit_req' \in [ConfigEditor -> EditSet] /\ cli_job' \in CliSet
        BY <1>0, <2>4 DEF GatewayTyped
      <4>2. GatewayTypeOK'
        BY <1>0, <2>4, <3>1 DEF GatewayTyped, GatewayTypeOK
      <4> QED
        BY <2>5, <3>2, <4>1, <4>2 DEF GatewayTyped
  <2>7. WorkNamesRows'
    BY <2>4, <2>5 DEF WorkNamesRows, Applies
  <2>8. \A n \in DOMAIN config_versions : InForce(n)' => InForce(n) /\ config_versions[n].status = "active"
    BY <1>0, <2>2, <2>5 DEF InForce
  <2>9. EditsMoveOn'
    <3>1. running_config'.number # 0 => running_config'.number = len + 1 /\ row.status = "active"
      BY <2>1, <2>4 DEF NextNumber
    <3>2. \A m \in DOMAIN config_versions :
            InForce(m)' /\ config_versions[m].base # 0 =>
              /\ config_versions[m].base \in DOMAIN config_versions
              /\ config_versions[config_versions[m].base].status = "active"
              /\ config_versions[m].base # running_config'.number
      BY <1>0, <2>5, <2>8, <3>1 DEF EditsMoveOn
    <3> QED
      BY <2>1, <2>2, <2>5, <3>1, <3>2 DEF EditsMoveOn
  <2>10. OneEditPerVersion'
    BY <1>0, <2>1, <2>2, <2>5, <2>8 DEF OneEditPerVersion, InForce
  <2> QED
    BY <2>6, <2>7, <2>9, <2>10 DEF GatewayIInv
<1>13. CASE UNCHANGED gatewayVars
  BY <1>0, <1>13
     DEF gatewayVars, GatewayIInv, GatewayTyped, GatewayTypeOK, WorkNamesRows, EditsMoveOn,
         OneEditPerVersion, Applies, InForce
<1> QED
  BY <1>1, <1>2, <1>3, <1>4, <1>5, <1>6, <1>7, <1>8, <1>9, <1>10, <1>11, <1>12, <1>13 DEF GatewayNext

\* Of two edits of one configuration version one is applied, for any number of editors,
\* versions and reloads (gateway/service.py).
THEOREM OneEditPerVersionHolds == GatewaySpec => []OneEditPerVersion
<1>1. GatewayIInv => OneEditPerVersion
  BY DEF GatewayIInv
<1> QED
  BY <1>1, GatewayStart, GatewayStep, PTL DEF GatewaySpec

-----------------------------------------------------------------------------
(* Prompt versions.                                                        *)

PromptSpec == PromptInit /\ [][PromptNext]_promptVars

\* An activation under way carries the version it is for and the one it found active.
PromptReqSet == {Waiting} \union [at: {"supersede", "commit"}, target: Version, current: 0 .. MaxPrompts]

\* The versions are numbered from one on, and an activation is of one of them.
PromptTyped ==
    /\ PromptTypeOK /\ prompt_req \in [PromptReq -> PromptReqSet]
    /\ \E k \in 0 .. MaxPrompts : Stored = 1 .. k
    /\ \A r \in PromptReq : prompt_req[r].at # "idle" =>
         prompt_req[r].target \in Stored /\ prompt_req[r].target # prompt_req[r].current

\* Until two overlap, one activation at most is under way, and what it has read is so still.
ReadIsFresh ==
    prompt_raced = FALSE => \A r \in PromptReq : prompt_req[r].at # "idle" =>
        /\ ActivePrompts = {prompt_req[r].current} \ {0}
        /\ \A q \in PromptReq : prompt_req[q].at # "idle" => q = r

\* The inductive invariant of the prompts.
PromptIInv == PromptTyped /\ ReadIsFresh /\ PromptsInUse

\* There is no version yet.
LEMMA PromptStart == ASSUME PromptInit PROVE PromptIInv
<1>1. PromptTypeOK /\ prompt_req \in [PromptReq -> PromptReqSet]
  <2>1. /\ prompt \in [Version -> {"absent", "draft", "active", "superseded"}]
        /\ diff_from \in [Version -> 0 .. MaxPrompts] /\ replaced \in [Version -> SUBSET Version]
        /\ prompt_req \in [PromptReq -> PromptReqSet]
    BY PromptAssumption DEF PromptInit, PromptReqSet
  <2>2. prompt_raced \in BOOLEAN
    BY DEF PromptInit
  <2> QED
    BY <2>1, <2>2 DEF PromptTypeOK
<1>2. Stored = {} /\ 0 \in 0 .. MaxPrompts /\ 1 .. 0 = {}
  BY PromptAssumption DEF PromptInit, Stored
<1>3. ActivePrompts = {}
  BY DEF PromptInit, ActivePrompts
<1> QED
  BY <1>1, <1>2, <1>3 DEF PromptIInv, PromptTyped, ReadIsFresh, PromptsInUse, PromptInit, Waiting

\* A new version has a number of its own.
LEMMA NewPrompt ==
    ASSUME PromptTyped, create_prompt_version
    PROVE  /\ prompt' = [prompt EXCEPT ![Cardinality(Stored) + 1] = "draft"]
           /\ Cardinality(Stored) + 1 \in Version /\ Cardinality(Stored) + 1 \notin Stored
           /\ Stored = 1 .. Cardinality(Stored)
<1>1. PICK k \in 0 .. MaxPrompts : Stored = 1 .. k
  BY DEF PromptTyped
<1>2. Cardinality(Stored) = k
  <2>1. Cardinality(1 .. k) = IF 1 > k THEN 0 ELSE k - 1 + 1
    BY FS_Interval, PromptAssumption
  <2> QED
    BY <1>1, <2>1, PromptAssumption
<1>3. k # MaxPrompts
  BY <1>1 DEF create_prompt_version, Version
<1> QED
  BY <1>1, <1>2, <1>3, PromptAssumption DEF create_prompt_version, Version

\* The version a query finds active is a version, or none.
LEMMA ActiveType == _get_active \in 0 .. MaxPrompts /\ ActivePrompts \in SUBSET Version
<1>1. \A v \in ActivePrompts : v \in 0 .. MaxPrompts
  BY PromptAssumption DEF ActivePrompts, Version
<1>2. 0 \in 0 .. MaxPrompts
  BY PromptAssumption
<1> QED
  BY <1>1, <1>2 DEF _get_active, ActivePrompts

\* When every version in use is the only one of its kind, the query finds all there are.
LEMMA ActiveFound ==
    ASSUME PromptsInUse, prompt_raced = FALSE PROVE ActivePrompts = {_get_active} \ {0}
<1>1. \A v, w \in ActivePrompts : v = w
  BY DEF PromptsInUse
<1>2. 0 \notin ActivePrompts
  BY DEF ActivePrompts, Version
<1> QED
  BY <1>1, <1>2 DEF _get_active

\* The numbers, the shapes and the targets, through every step.
LEMMA PromptTypedStep == ASSUME PromptTyped, [PromptNext]_promptVars PROVE PromptTyped'
<1> USE PromptAssumption
<1>1. CASE create_prompt_version
  <2> DEFINE n == Cardinality(Stored) + 1
  <2>1. prompt' = [prompt EXCEPT ![n] = "draft"] /\ n \in Version /\ n \notin Stored /\ Stored = 1 .. n - 1
        /\ UNCHANGED <<diff_from, replaced, prompt_raced, prompt_req>>
    <3>1. PICK k \in 0 .. MaxPrompts : Stored = 1 .. k
      BY DEF PromptTyped
    <3>2. Cardinality(Stored) \in Nat
      BY <3>1, FS_Interval, FS_CardinalityType
    <3> QED
      BY <1>1, <3>2, NewPrompt DEF create_prompt_version
  <2> HIDE DEF n
  <2>2. Stored' = Stored \union {n}
    BY <2>1 DEF Stored, PromptTyped, PromptTypeOK
  <2>3. Stored' = 1 .. n /\ n \in 0 .. MaxPrompts
    BY <2>1, <2>2 DEF Version
  <2>4. PromptTypeOK'
    BY <2>1 DEF PromptTyped, PromptTypeOK
  <2> QED
    BY <2>1, <2>2, <2>3, <2>4 DEF PromptTyped
<1>2. ASSUME NEW r \in PromptReq, NEW v \in Version, activate_prompt_version(r, v) PROVE PromptTyped'
  <2> DEFINE job == [at |-> "supersede", target |-> v, current |-> _get_active]
  <2>1. /\ prompt_req' = [prompt_req EXCEPT ![r] = job] /\ UNCHANGED <<prompt, diff_from, replaced>>
        /\ v \in Stored /\ v # _get_active
        /\ prompt_raced' = TRUE \/ prompt_raced' = prompt_raced
    BY <1>2 DEF activate_prompt_version
  <2>2. job \in PromptReqSet /\ job.target = v /\ job.current = _get_active
    BY ActiveType DEF PromptReqSet
  <2> HIDE DEF job
  <2>3. PromptTypeOK' /\ Stored' = Stored
    BY <2>1 DEF PromptTyped, PromptTypeOK, Stored
  <2>4. prompt_req' \in [PromptReq -> PromptReqSet]
    BY <2>1, <2>2 DEF PromptTyped
  <2> QED
    BY <2>1, <2>2, <2>3, <2>4 DEF PromptTyped
<1>3. ASSUME NEW r \in PromptReq, update_status(r) PROVE PromptTyped'
  <2> DEFINE job == [prompt_req[r] EXCEPT !.at = "commit"]
  <2>1. prompt_req[r] \in [at: {"supersede", "commit"}, target: Version, current: 0 .. MaxPrompts]
    BY <1>3 DEF update_status, PromptTyped, PromptReqSet, Waiting
  <2>2. job \in PromptReqSet /\ job.target = prompt_req[r].target /\ job.current = prompt_req[r].current
    BY <2>1 DEF PromptReqSet
  <2>3. prompt_req' = [prompt_req EXCEPT ![r] = job] /\ UNCHANGED <<prompt, diff_from, replaced, prompt_raced>>
        /\ prompt_req[r].at = "supersede"
    BY <1>3 DEF update_status
  <2> HIDE DEF job
  <2> QED
    BY <2>2, <2>3 DEF PromptTyped, PromptTypeOK, Stored
<1>4. ASSUME NEW r \in PromptReq, activation_commits(r) PROVE PromptTyped'
  <2> DEFINE job == prompt_req[r]
  <2>1. /\ job \in [at: {"supersede", "commit"}, target: Version, current: 0 .. MaxPrompts]
        /\ job.target \in Stored
    BY <1>4 DEF activation_commits, PromptTyped, PromptReqSet, Waiting
  <2>2. /\ prompt' = [v \in Version |-> Activated(v, job)]
        /\ diff_from' = [diff_from EXCEPT ![job.target] = job.current]
        /\ replaced' = [replaced EXCEPT ![job.target] = ActivePrompts]
        /\ prompt_req' = [prompt_req EXCEPT ![r] = Waiting] /\ UNCHANGED prompt_raced
    BY <1>4 DEF activation_commits
  <2> HIDE DEF job
  <2>3. \A v \in Version : /\ Activated(v, job) \in {"absent", "draft", "active", "superseded"}
                           /\ Activated(v, job) = "absent" <=> prompt[v] = "absent"
    BY <2>1 DEF Activated, PromptTyped, PromptTypeOK, Stored
  <2>4. Stored' = Stored
    BY <2>2, <2>3 DEF Stored
  <2>5. PromptTypeOK'
    BY <2>1, <2>2, <2>3, ActiveType DEF PromptTyped, PromptTypeOK
  <2>6. prompt_req' \in [PromptReq -> PromptReqSet] /\ Waiting.at = "idle"
    BY <2>2 DEF PromptTyped, PromptReqSet, Waiting
  <2> QED
    BY <2>2, <2>4, <2>5, <2>6 DEF PromptTyped
<1>5. CASE UNCHANGED promptVars
  BY <1>5 DEF promptVars, PromptTyped, PromptTypeOK, Stored
<1> QED
  BY <1>1, <1>2, <1>3, <1>4, <1>5 DEF PromptNext, activate_prompt_version_endpoint

\* What an activation leaves in use: its target, and what was in use and it did not supersede.
LEMMA ActivationLeaves ==
    ASSUME PromptIInv, NEW r \in PromptReq, activation_commits(r)
    PROVE  \E t \in Version, c \in 0 .. MaxPrompts :
             /\ t # c /\ c = prompt_req[r].current
             /\ ActivePrompts' = (ActivePrompts \ {c}) \union {t}
             /\ RightDiff(t)' <=> (ActivePrompts \ {t} = {c} \ {0})
             /\ \A v \in Version : v # t => (RightDiff(v)' <=> RightDiff(v))
<1>1. PICK job \in [at: {"supersede", "commit"}, target: Version, current: 0 .. MaxPrompts] :
        job = prompt_req[r] /\ job.target # job.current
  BY DEF activation_commits, PromptIInv, PromptTyped, PromptReqSet, Waiting
<1>2. /\ prompt' = [v \in Version |-> Activated(v, job)]
      /\ diff_from' = [diff_from EXCEPT ![job.target] = job.current]
      /\ replaced' = [replaced EXCEPT ![job.target] = ActivePrompts]
  BY <1>1 DEF activation_commits
<1>3. PICK t \in Version : t = job.target
  OBVIOUS
<1>4. PICK c \in 0 .. MaxPrompts : c = job.current
  OBVIOUS
<1>5. PromptTypeOK
  BY DEF PromptIInv, PromptTyped
<1>6. \A v \in Version : prompt'[v] = "active" <=> (v = t \/ (prompt[v] = "active" /\ v # c))
  BY <1>2, <1>3, <1>4 DEF Activated
<1>7. ActivePrompts' = (ActivePrompts \ {c}) \union {t}
  BY <1>1, <1>3, <1>4, <1>6 DEF ActivePrompts
<1>8. /\ diff_from'[t] = c /\ replaced'[t] = ActivePrompts
      /\ \A v \in Version : v # t => diff_from'[v] = diff_from[v] /\ replaced'[v] = replaced[v]
  BY <1>2, <1>3, <1>4, <1>5 DEF PromptTypeOK
<1>9. RightDiff(t)' <=> (ActivePrompts \ {t} = {c} \ {0})
  BY <1>8 DEF RightDiff
<1>10. \A v \in Version : v # t => (RightDiff(v)' <=> RightDiff(v))
  BY <1>8 DEF RightDiff
<1> QED
  BY <1>1, <1>3, <1>4, <1>7, <1>9, <1>10

\* Every step keeps the invariant.
LEMMA PromptStep == ASSUME PromptIInv, [PromptNext]_promptVars PROVE PromptIInv'
<1>0. PromptTyped /\ ReadIsFresh /\ PromptsInUse
  BY DEF PromptIInv
<1>1. PromptTyped'
  BY <1>0, PromptTypedStep
<1>2. CASE create_prompt_version
  <2>1. UNCHANGED <<diff_from, replaced, prompt_raced, prompt_req>>
    BY <1>2 DEF create_prompt_version
  <2>2. ActivePrompts' = ActivePrompts
    <3>1. PICK n \in Version : n \notin Stored /\ prompt' = [prompt EXCEPT ![n] = "draft"]
      BY <1>0, <1>2, NewPrompt
    <3>2. prompt[n] # "active" /\ prompt'[n] # "active" /\ \A v \in Version : v # n => prompt'[v] = prompt[v]
      BY <1>0, <3>1 DEF Stored, PromptTyped, PromptTypeOK
    <3> QED
      BY <3>2 DEF ActivePrompts
  <2>3. ReadIsFresh' /\ PromptsInUse'
    BY <1>0, <2>1, <2>2 DEF ReadIsFresh, PromptsInUse, RightDiff
  <2> QED
    BY <1>1, <2>3 DEF PromptIInv
<1>3. ASSUME NEW r \in PromptReq, NEW v \in Version, activate_prompt_version(r, v) PROVE PromptIInv'
  <2> DEFINE job == [at |-> "supersede", target |-> v, current |-> _get_active]
  <2>1. /\ prompt_req' = [prompt_req EXCEPT ![r] = job] /\ UNCHANGED <<prompt, diff_from, replaced>>
        /\ prompt_raced' = FALSE => prompt_raced = FALSE /\ \A q \in PromptReq : prompt_req[q].at = "idle"
    BY <1>3 DEF activate_prompt_version
  <2>2. job.current = _get_active
    OBVIOUS
  <2> HIDE DEF job
  <2>3. ActivePrompts' = ActivePrompts /\ \A w \in Version : RightDiff(w)' <=> RightDiff(w)
    BY <2>1 DEF ActivePrompts, RightDiff
  <2>4. PromptsInUse'
    <3>1. \A w \in ActivePrompts : w \in Version
      BY DEF ActivePrompts
    <3> QED
      BY <1>0, <2>1, <2>3, <3>1 DEF PromptsInUse
  <2>5. ReadIsFresh'
    <3>1. prompt_req'[r] = job /\ \A q \in PromptReq : q # r => prompt_req'[q] = prompt_req[q]
      BY <1>0, <2>1 DEF PromptTyped
    <3>2. ASSUME prompt_raced' = FALSE
          PROVE  \A q \in PromptReq : prompt_req'[q].at # "idle" =>
                   /\ ActivePrompts' = {prompt_req'[q].current} \ {0}
                   /\ \A p \in PromptReq : prompt_req'[p].at # "idle" => p = q
      <4>1. \A q \in PromptReq : prompt_req'[q].at # "idle" => q = r
        BY <2>1, <3>1, <3>2
      <4>2. ActivePrompts = {_get_active} \ {0}
        BY <1>0, <2>1, <3>2, ActiveFound
      <4> QED
        BY <2>2, <2>3, <3>1, <4>1, <4>2
    <3> QED
      BY <3>2 DEF ReadIsFresh
  <2> QED
    BY <1>1, <2>4, <2>5 DEF PromptIInv
<1>4. ASSUME NEW r \in PromptReq, update_status(r) PROVE PromptIInv'
  <2> DEFINE job == [prompt_req[r] EXCEPT !.at = "commit"]
  <2>1. /\ prompt_req' = [prompt_req EXCEPT ![r] = job] /\ UNCHANGED <<prompt, diff_from, replaced, prompt_raced>>
        /\ prompt_req[r].at = "supersede"
    BY <1>4 DEF update_status
  <2>2. prompt_req[r] \in [at: {"supersede", "commit"}, target: Version, current: 0 .. MaxPrompts]
    BY <1>0, <2>1 DEF PromptTyped, PromptReqSet, Waiting
  <2>3. job.current = prompt_req[r].current
    BY <2>2
  <2> HIDE DEF job
  <2>4. prompt_req'[r] = job /\ \A q \in PromptReq : q # r => prompt_req'[q] = prompt_req[q]
    BY <1>0, <2>1 DEF PromptTyped
  <2>5. ActivePrompts' = ActivePrompts
    BY <2>1 DEF ActivePrompts
  <2>6. ReadIsFresh'
    BY <1>0, <2>1, <2>3, <2>4, <2>5 DEF ReadIsFresh
  <2>7. PromptsInUse'
    BY <1>0, <2>1, <2>5 DEF PromptsInUse, RightDiff
  <2> QED
    BY <1>1, <2>6, <2>7 DEF PromptIInv
<1>5. ASSUME NEW r \in PromptReq, activation_commits(r) PROVE PromptIInv'
  <2>1. PICK t \in Version, c \in 0 .. MaxPrompts :
          /\ t # c /\ c = prompt_req[r].current /\ ActivePrompts' = (ActivePrompts \ {c}) \union {t}
          /\ RightDiff(t)' <=> (ActivePrompts \ {t} = {c} \ {0})
          /\ \A v \in Version : v # t => (RightDiff(v)' <=> RightDiff(v))
    BY <1>5, ActivationLeaves
  <2>2. /\ prompt_req' = [prompt_req EXCEPT ![r] = Waiting] /\ UNCHANGED prompt_raced
        /\ prompt_req[r].at = "commit"
    BY <1>5 DEF activation_commits
  <2>3. ActivePrompts \in SUBSET Version
    BY ActiveType
  <2>4. RightDiff(t)' => ActivePrompts' = {t}
    BY <2>1, <2>3 DEF Version
  <2>5. \A v, w \in ActivePrompts' : RightDiff(v)' /\ RightDiff(w)' => v = w
    BY <1>0, <2>1, <2>3, <2>4 DEF PromptsInUse
  <2>6. ASSUME prompt_raced = FALSE
        PROVE  /\ \A v \in ActivePrompts' : RightDiff(v)'
               /\ \A q \in PromptReq : prompt_req'[q].at = "idle"
    <3>1. ActivePrompts = {c} \ {0} /\ \A q \in PromptReq : prompt_req[q].at # "idle" => q = r
      BY <1>0, <2>1, <2>2, <2>6 DEF ReadIsFresh
    <3>2. RightDiff(t)'
      BY <2>1, <3>1
    <3>3. prompt_req'[r].at = "idle" /\ \A q \in PromptReq : q # r => prompt_req'[q] = prompt_req[q]
      BY <1>0, <2>2 DEF PromptTyped, Waiting
    <3> QED
      BY <2>4, <3>1, <3>2, <3>3
  <2>7. PromptsInUse'
    BY <2>2, <2>5, <2>6 DEF PromptsInUse
  <2>8. ReadIsFresh'
    BY <2>2, <2>6 DEF ReadIsFresh
  <2> QED
    BY <1>1, <2>7, <2>8 DEF PromptIInv
<1>6. CASE UNCHANGED promptVars
  BY <1>0, <1>1, <1>6 DEF promptVars, PromptIInv, ReadIsFresh, PromptsInUse, ActivePrompts, RightDiff
<1> QED
  BY <1>2, <1>3, <1>4, <1>5, <1>6 DEF PromptNext, activate_prompt_version_endpoint

\* However activations and rollbacks overlap, at most one version in use was compared with
\* what it replaced, and all were until two have overlapped, for any number of versions and
\* requests (prompt_versions.py).
THEOREM PromptsInUseHolds == PromptSpec => []PromptsInUse
<1>1. PromptIInv => PromptsInUse
  BY DEF PromptIInv
<1> QED
  BY <1>1, PromptStart, PromptStep, PTL DEF PromptSpec

-----------------------------------------------------------------------------
(* Database backups.                                                       *)

BackupsSpec == BackupsInit /\ [][BackupsNext]_backupVars

\* What a dump or a manifest can hold, and what the two jobs are at.
Content == 0 .. MaxDbChanges + 1
BackupJobSet ==
    {NoJob} \union [at: {"facts"}, id: BackupId] \union [at: {"prune"}]
            \union [at: {"dump", "manifest"}, id: BackupId, snapshot: Content]
RestoreJobSet == {NoJob} \union [at: {"load", "verify"}, id: BackupId]

\* Types, in the form the steps need.
BackupsTyped ==
    /\ BackupsTypeOK /\ backup_job \in BackupJobSet /\ restore_job \in RestoreJobSet
    /\ taken_on \in [BackupId -> Nat] /\ backup_day \in Nat \ {0}

\* The job under way owns its identifier: no manifest bears it yet, a dump only once it is
\* made, and that dump is of the snapshot.
JobOwnsFiles ==
    /\ \A b \in BackupId : taken_on[b] = 0 => dump[b] = 0 /\ manifest[b] = 0
    /\ backup_job.at \in {"facts", "dump"} => dump[backup_job.id] = 0 /\ manifest[backup_job.id] = 0
    /\ backup_job.at \in {"dump", "manifest"} => backup_job.snapshot # 0
    /\ backup_job.at = "manifest" => dump[backup_job.id] = backup_job.snapshot /\ manifest[backup_job.id] = 0
    /\ backup_job.at \in {"facts", "dump", "manifest"} => taken_on[backup_job.id] # 0

\* Whatever has both files has them of the same data.
DumpsMatch == \A b \in BackupId : dump[b] # 0 /\ manifest[b] # 0 => dump[b] = manifest[b]

\* Once a backup has finished, there is one with both files.
SomeComplete == finished => \E b \in BackupId : dump[b] # 0 /\ manifest[b] # 0

\* The inductive invariant of the backups.
BackupsIInv == BackupsTyped /\ JobOwnsFiles /\ DumpsMatch /\ SomeComplete

\* There is no backup yet.
LEMMA BackupsStart == ASSUME BackupsInit PROVE BackupsIInv
<1>1. BackupsTyped
  <2>1. BackupsTypeOK
    <3>1. database \in Content /\ dump \in [BackupId -> Content] /\ manifest \in [BackupId -> Content]
      BY BackupsAssumption DEF BackupsInit, Content
    <3>2. damaged \subseteq BackupId /\ finished \in BOOLEAN
      BY DEF BackupsInit
    <3> QED
      BY <3>1, <3>2 DEF BackupsTypeOK, Content
  <2>2. taken_on \in [BackupId -> Nat] /\ backup_day \in Nat \ {0}
    BY DEF BackupsInit
  <2> QED
    BY <2>1, <2>2 DEF BackupsInit, BackupsTyped, BackupJobSet, RestoreJobSet
<1> QED
  BY <1>1, BackupsAssumption DEF BackupsInit, BackupsIInv, JobOwnsFiles, DumpsMatch, SomeComplete, NoJob

\* Retention keeps the newest complete backup.
LEMMA NewestKept ==
    ASSUME NEW b \in CompleteBackups
    PROVE  \E k \in CompleteBackups : k \in Kept
<1>1. CompleteBackups \in SUBSET Nat /\ MaxBackups \in Nat /\ \A c \in CompleteBackups : c <= MaxBackups
  BY BackupsAssumption DEF CompleteBackups, list_backups, BackupId
<1>2. PICK k \in CompleteBackups : {c \in CompleteBackups : c > k} = {}
  BY <1>1, Greatest
<1>3. Cardinality({c \in CompleteBackups : c > k}) < KeepAtLeast
  BY <1>2, FS_EmptySet, BackupsAssumption DEF KeepAtLeast
<1> QED
  BY <1>2, <1>3 DEF Kept, NewestComplete

\* Every step keeps the invariant.
LEMMA BackupsStep == ASSUME BackupsIInv, [BackupsNext]_backupVars PROVE BackupsIInv'
<1> USE BackupsAssumption
<1>0. BackupsTyped /\ JobOwnsFiles /\ DumpsMatch /\ SomeComplete
  BY DEF BackupsIInv
<1>1. CASE DatabaseChanges \/ BackupDayPasses \/ verify_restored_database
  <2>1. /\ UNCHANGED <<taken_on, dump, manifest, damaged, backup_job, finished>>
        /\ database' \in Content /\ backup_day' \in Nat \ {0} /\ restore_job' \in RestoreJobSet
    BY <1>0, <1>1 DEF DatabaseChanges, BackupDayPasses, verify_restored_database, BackupsTyped, BackupsTypeOK,
                      Content, RestoreJobSet
  <2> QED
    BY <1>0, <2>1 DEF BackupsIInv, BackupsTyped, BackupsTypeOK, JobOwnsFiles, DumpsMatch, SomeComplete, Content
<1>2. ASSUME NEW b \in BackupId, run_postgres_backup(b) PROVE BackupsIInv'
  BY <1>0, <1>2 DEF run_postgres_backup, BackupsIInv, BackupsTyped, BackupsTypeOK, JobOwnsFiles, DumpsMatch,
                    SomeComplete, BackupJobSet, NoJob
<1>3. CASE _read_facts
  <2> DEFINE job == [at |-> "dump", id |-> backup_job.id, snapshot |-> database]
  <2>1. /\ backup_job.at = "facts" /\ database # 0 /\ backup_job' = job
        /\ UNCHANGED <<database, backup_day, taken_on, dump, manifest, damaged, restore_job, finished>>
    BY <1>3 DEF _read_facts
  <2>2. backup_job.id \in BackupId
    BY <1>0, <2>1 DEF BackupsTyped, BackupJobSet, NoJob
  <2>3. job \in BackupJobSet /\ job.at = "dump" /\ job.id = backup_job.id /\ job.snapshot = database
    BY <1>0, <2>2 DEF BackupJobSet, BackupsTyped, BackupsTypeOK, Content
  <2> HIDE DEF job
  <2> QED
    BY <1>0, <2>1, <2>3 DEF BackupsIInv, BackupsTyped, BackupsTypeOK, JobOwnsFiles, DumpsMatch, SomeComplete
<1>4. CASE create_postgres_backup
  <2> DEFINE job == [backup_job EXCEPT !.at = "manifest"]
             i == backup_job.id
  <2>1. /\ backup_job.at = "dump" /\ backup_job' = job
        /\ dump' = [dump EXCEPT ![i] = backup_job.snapshot]
        /\ UNCHANGED <<database, backup_day, taken_on, manifest, damaged, restore_job, finished>>
    BY <1>4 DEF create_postgres_backup, Dumped
  <2>2. backup_job \in [at: {"dump", "manifest"}, id: BackupId, snapshot: Content]
    BY <1>0, <2>1 DEF BackupsTyped, BackupJobSet, NoJob
  <2>3. /\ job \in BackupJobSet /\ job.at = "manifest" /\ job.id = i /\ job.snapshot = backup_job.snapshot
        /\ i \in BackupId /\ job.snapshot \in Content
    BY <2>2 DEF BackupJobSet
  <2> HIDE DEF job, i
  <2>4. BackupsTyped'
    BY <1>0, <2>1, <2>3 DEF BackupsTyped, BackupsTypeOK, Content
  <2>5. manifest[i] = 0 /\ dump[i] = 0 /\ backup_job.snapshot # 0 /\ taken_on[i] # 0
    BY <1>0, <2>1 DEF JobOwnsFiles, i
  <2>6. dump'[i] = job.snapshot /\ \A b \in BackupId : b # i => dump'[b] = dump[b]
    BY <1>0, <2>1, <2>3 DEF BackupsTyped, BackupsTypeOK
  <2>7. JobOwnsFiles'
    BY <1>0, <2>1, <2>3, <2>5, <2>6 DEF JobOwnsFiles
  <2> QED
    BY <1>0, <2>1, <2>4, <2>5, <2>6, <2>7 DEF BackupsIInv, DumpsMatch, SomeComplete
<1>5. CASE backup_fails \/ BackupProcessDies
  BY <1>0, <1>5 DEF backup_fails, BackupProcessDies, BackupsIInv, BackupsTyped, BackupsTypeOK, JobOwnsFiles,
                    DumpsMatch, SomeComplete, BackupJobSet, NoJob
<1>6. CASE write_manifest
  <2> DEFINE i == backup_job.id
  <2>1. /\ backup_job.at = "manifest" /\ backup_job' = [at |-> "prune"] /\ finished' = TRUE
        /\ manifest' = [manifest EXCEPT ![i] = backup_job.snapshot]
        /\ UNCHANGED <<database, backup_day, taken_on, dump, damaged, restore_job>>
    BY <1>6 DEF write_manifest
  <2>2. i \in BackupId /\ backup_job.snapshot \in Content
    BY <1>0, <2>1 DEF BackupsTyped, BackupJobSet, NoJob
  <2>3. dump[i] = backup_job.snapshot /\ backup_job.snapshot # 0 /\ taken_on[i] # 0
    BY <1>0, <2>1 DEF JobOwnsFiles, i
  <2> HIDE DEF i
  <2>4. manifest'[i] = backup_job.snapshot /\ \A b \in BackupId : b # i => manifest'[b] = manifest[b]
    BY <1>0, <2>1, <2>2 DEF BackupsTyped, BackupsTypeOK
  <2>5. BackupsTyped'
    BY <1>0, <2>1, <2>2 DEF BackupsTyped, BackupsTypeOK, Content, BackupJobSet
  <2>6. JobOwnsFiles'
    BY <1>0, <2>1, <2>3, <2>4 DEF JobOwnsFiles
  <2>7. DumpsMatch' /\ SomeComplete'
    BY <1>0, <2>1, <2>2, <2>3, <2>4 DEF DumpsMatch, SomeComplete
  <2> QED
    BY <2>5, <2>6, <2>7 DEF BackupsIInv
<1>7. CASE prune_backups
  <2> DEFINE removed == {b \in list_backups \ Kept : _info(b) = "ok" \/ taken_on[b] < backup_day}
  <2>1. /\ dump' = [b \in BackupId |-> IF b \in removed THEN 0 ELSE dump[b]]
        /\ manifest' = [b \in BackupId |-> IF b \in removed THEN 0 ELSE manifest[b]]
        /\ backup_job' = NoJob
        /\ UNCHANGED <<database, backup_day, taken_on, damaged, restore_job, finished>>
    BY <1>7 DEF prune_backups
  <2>2. \A b \in CompleteBackups : b \in BackupId /\ dump[b] # 0 /\ manifest[b] # 0
    BY DEF CompleteBackups, list_backups, _info
  <2>3. \A b \in BackupId : dump[b] # 0 /\ manifest[b] # 0 => b \in CompleteBackups
    BY DEF CompleteBackups, list_backups, _info
  <2>4. finished => \E k \in BackupId : k \notin removed /\ dump[k] # 0 /\ manifest[k] # 0
    BY <1>0, <2>2, <2>3, NewestKept DEF SomeComplete
  <2> HIDE DEF removed
  <2>5. BackupsTyped'
    BY <1>0, <2>1 DEF BackupsTyped, BackupsTypeOK, BackupJobSet
  <2>6. JobOwnsFiles'
    BY <1>0, <2>1 DEF JobOwnsFiles, NoJob
  <2>7. DumpsMatch' /\ SomeComplete'
    BY <1>0, <2>1, <2>4 DEF DumpsMatch, SomeComplete
  <2> QED
    BY <2>5, <2>6, <2>7 DEF BackupsIInv
<1>8. ASSUME NEW b \in BackupId, restore_postgres_backup(b) \/ DumpDamaged(b) PROVE BackupsIInv'
  BY <1>0, <1>8 DEF restore_postgres_backup, DumpDamaged, BackupsIInv, BackupsTyped, BackupsTypeOK, JobOwnsFiles,
                    DumpsMatch, SomeComplete, RestoreJobSet
<1>9. CASE pg_restore
  <2>1. /\ UNCHANGED <<backup_day, taken_on, dump, manifest, damaged, backup_job, finished>>
        /\ database' \in Content /\ restore_job' \in RestoreJobSet
    <3>1. restore_job \in [at: {"load", "verify"}, id: BackupId]
      BY <1>0, <1>9 DEF pg_restore, BackupsTyped, RestoreJobSet, NoJob
    <3>2. [restore_job EXCEPT !.at = "verify"] \in RestoreJobSet /\ NoJob \in RestoreJobSet
      BY <3>1 DEF RestoreJobSet
    <3>3. dump[restore_job.id] \in Content /\ database \in Content
      BY <1>0, <3>1 DEF BackupsTyped, BackupsTypeOK, Content
    <3> QED
      BY <1>9, <3>2, <3>3 DEF pg_restore
  <2> QED
    BY <1>0, <2>1 DEF BackupsIInv, BackupsTyped, BackupsTypeOK, JobOwnsFiles, DumpsMatch, SomeComplete, Content
<1>10. CASE UNCHANGED backupVars
  BY <1>0, <1>10 DEF backupVars, BackupsIInv, BackupsTyped, BackupsTypeOK, JobOwnsFiles, DumpsMatch, SomeComplete
<1> QED
  BY <1>1, <1>2, <1>3, <1>4, <1>5, <1>6, <1>7, <1>8, <1>9, <1>10 DEF BackupsNext

\* What the invariant says of the backups that are listed.
LEMMA BackupsTrusted == ASSUME BackupsIInv PROVE BackupsCanBeTrusted
BY DEF BackupsIInv, SomeComplete, DumpsMatch, BackupsCanBeTrusted, CompleteBackups, list_backups, _info

\* A complete backup remains once there was one, and each holds what its manifest records,
\* for any number of backups and of changes to the database (pg_backup.py).
THEOREM BackupsCanBeTrustedHolds == BackupsSpec => []BackupsCanBeTrusted
BY BackupsStart, BackupsStep, BackupsTrusted, PTL DEF BackupsSpec

-----------------------------------------------------------------------------
(* Job schedules.                                                          *)

JobsSpec == JobsInit /\ [][JobsNext]_jobVars

\* A change of a schedule that has reached the job and not the store.
ScheduleReqSet == {NoChange} \union [at: {"save"}, to: Schedule \union {"none"}]
                             \union [at: {"restore"}, to: {"code"}]
\* The schedule a saved choice stands for.
InEffect(choice) == IF choice = "none" THEN "code" ELSE choice

\* With nothing disturbed at most one change is under way; the job runs on what that change
\* is about to save, or on what is saved.
ChangeFollowsJob ==
    undisturbed =>
        /\ \A q, r \in Unsaved : q = r
        /\ \A r \in Unsaved : schedule_req[r].at = "save" => trigger = InEffect(schedule_req[r].to)
        /\ Unsaved = {} => trigger = InEffect(override)

\* The inductive invariant of the schedules.
JobsIInv ==
    /\ JobsTypeOK /\ default_trigger = "code" /\ undisturbed \in BOOLEAN
    /\ schedule_req \in [ScheduleReq -> ScheduleReqSet]
    /\ ChangeFollowsJob

\* The job is registered by the code.
LEMMA JobsStart == ASSUME JobsInit PROVE JobsIInv
<1>1. JobsTypeOK
  BY JobAssumption DEF JobsInit, JobsTypeOK
<1>2. undisturbed \in BOOLEAN /\ schedule_req \in [ScheduleReq -> ScheduleReqSet] /\ default_trigger = "code"
  BY DEF JobsInit, ScheduleReqSet
<1>3. Unsaved = {} /\ trigger = InEffect(override)
  BY DEF JobsInit, Unsaved, InEffect
<1> QED
  BY <1>1, <1>2, <1>3 DEF JobsIInv, ChangeFollowsJob

\* Every step keeps the invariant.
LEMMA JobsStep == ASSUME JobsIInv, [JobsNext]_jobVars PROVE JobsIInv'
<1> USE JobAssumption
<1>0. /\ JobsTypeOK /\ default_trigger = "code" /\ undisturbed \in BOOLEAN
      /\ schedule_req \in [ScheduleReq -> ScheduleReqSet] /\ ChangeFollowsJob
  BY DEF JobsIInv
<1>1. ASSUME NEW r \in ScheduleReq, NEW s \in Schedule \union {"unfit"}, update_scheduled_job_schedule(r, s)
      PROVE  JobsIInv'
  <2> DEFINE job == [at |-> "save", to |-> s]
  <2>1. /\ s \in Schedule /\ schedule_req[r] = NoChange /\ default_trigger' = "code" /\ trigger' = s
        /\ schedule_req' = [schedule_req EXCEPT ![r] = job] /\ UNCHANGED <<override, job_runs>>
        /\ undisturbed' \in BOOLEAN /\ (undisturbed' => undisturbed /\ Unsaved = {})
    BY <1>0, <1>1 DEF update_scheduled_job_schedule, check_schedule, remember_default, SetChange, Began, runVars
  <2>2. job \in ScheduleReqSet /\ job.at = "save" /\ job.to = s /\ job # NoChange
    BY <2>1 DEF ScheduleReqSet, NoChange
  <2> HIDE DEF job
  <2>3. JobsTypeOK' /\ schedule_req' \in [ScheduleReq -> ScheduleReqSet]
    BY <1>0, <2>1, <2>2 DEF JobsTypeOK
  <2>4. Unsaved = {} => Unsaved' = {r}
    BY <1>0, <2>1, <2>2 DEF Unsaved
  <2>5. schedule_req'[r] = job /\ s # "none"
    BY <1>0, <2>1
  <2> QED
    BY <2>1, <2>2, <2>3, <2>4, <2>5 DEF JobsIInv, ChangeFollowsJob, InEffect
<1>2. ASSUME NEW r \in ScheduleReq, restore_scheduled_job_schedule(r) PROVE JobsIInv'
  <2> DEFINE job == [at |-> "restore", to |-> "code"]
  <2>1. /\ schedule_req[r] = NoChange /\ schedule_req' = [schedule_req EXCEPT ![r] = job]
        /\ UNCHANGED <<trigger, default_trigger, override, job_runs>>
        /\ undisturbed' \in BOOLEAN /\ (undisturbed' => undisturbed /\ Unsaved = {})
    BY <1>0, <1>2 DEF restore_scheduled_job_schedule, SetChange, Began, runVars
  <2>2. job \in ScheduleReqSet /\ job.at = "restore" /\ job # NoChange
    BY DEF ScheduleReqSet, NoChange
  <2> HIDE DEF job
  <2>3. JobsTypeOK' /\ schedule_req' \in [ScheduleReq -> ScheduleReqSet]
    BY <1>0, <2>1, <2>2 DEF JobsTypeOK
  <2>4. (Unsaved = {} => Unsaved' = {r}) /\ schedule_req'[r] = job
    BY <1>0, <2>1, <2>2 DEF Unsaved
  <2> QED
    BY <1>0, <2>1, <2>2, <2>3, <2>4 DEF JobsIInv, ChangeFollowsJob
<1>3. ASSUME NEW r \in ScheduleReq, restore_reschedules(r) PROVE JobsIInv'
  <2> DEFINE job == [at |-> "save", to |-> "none"]
  <2>1. /\ schedule_req[r].at = "restore" /\ trigger' = schedule_req[r].to
        /\ schedule_req' = [schedule_req EXCEPT ![r] = job]
        /\ UNCHANGED <<default_trigger, override, job_runs, undisturbed>>
    BY <1>3 DEF restore_reschedules, SetChange, runVars
  <2>2. job \in ScheduleReqSet /\ job.at = "save" /\ job.to = "none" /\ job # NoChange
    BY DEF ScheduleReqSet, NoChange
  <2>3. schedule_req[r].to = "code" /\ schedule_req[r] # NoChange
    BY <1>0, <2>1 DEF ScheduleReqSet, NoChange
  <2> HIDE DEF job
  <2>4. JobsTypeOK' /\ schedule_req' \in [ScheduleReq -> ScheduleReqSet]
    BY <1>0, <2>1, <2>2, <2>3 DEF JobsTypeOK
  <2>5. Unsaved' = Unsaved /\ r \in Unsaved /\ schedule_req'[r] = job
    BY <1>0, <2>1, <2>2, <2>3 DEF Unsaved
  <2>6. ChangeFollowsJob'
    BY <1>0, <2>1, <2>2, <2>3, <2>5 DEF ChangeFollowsJob, InEffect
  <2> QED
    BY <1>0, <2>1, <2>4, <2>6 DEF JobsIInv
<1>4. ASSUME NEW r \in ScheduleReq, save_override(r) PROVE JobsIInv'
  <2>1. /\ schedule_req[r].at = "save" /\ override' = schedule_req[r].to
        /\ schedule_req' = [schedule_req EXCEPT ![r] = NoChange]
        /\ UNCHANGED <<trigger, default_trigger, job_runs, undisturbed>>
    BY <1>4 DEF save_override, SetChange, runVars
  <2>2. schedule_req[r].to \in Schedule \union {"none"} /\ schedule_req[r] # NoChange /\ NoChange \in ScheduleReqSet
    BY <1>0, <2>1 DEF ScheduleReqSet, NoChange
  <2>3. JobsTypeOK' /\ schedule_req' \in [ScheduleReq -> ScheduleReqSet]
    BY <1>0, <2>1, <2>2 DEF JobsTypeOK
  <2>4. Unsaved' = Unsaved \ {r} /\ r \in Unsaved
    BY <1>0, <2>1, <2>2 DEF Unsaved
  <2>5. ChangeFollowsJob'
    BY <1>0, <2>1, <2>4 DEF ChangeFollowsJob
  <2> QED
    BY <1>0, <2>1, <2>3, <2>5 DEF JobsIInv
<1>5. ASSUME NEW r \in ScheduleReq, change_not_saved(r) PROVE JobsIInv'
  <2>1. /\ schedule_req' = [schedule_req EXCEPT ![r] = NoChange] /\ undisturbed' = FALSE
        /\ UNCHANGED <<trigger, default_trigger, override, job_runs>> /\ NoChange \in ScheduleReqSet
    BY <1>5 DEF change_not_saved, SetChange, runVars, ScheduleReqSet
  <2> QED
    BY <1>0, <2>1 DEF JobsIInv, JobsTypeOK, ChangeFollowsJob
<1>6. CASE Reboot
  <2>1. /\ default_trigger' = "code" /\ schedule_req' = [r \in ScheduleReq |-> NoChange]
        /\ UNCHANGED <<override, job_runs>> /\ NoChange \in ScheduleReqSet
        /\ \/ trigger' = InEffect(override) /\ UNCHANGED undisturbed
           \/ trigger' = "code" /\ undisturbed' = FALSE
    BY <1>6 DEF Reboot, apply_stored_overrides, InEffect, ScheduleReqSet
  <2>2. Unsaved' = {}
    BY <2>1 DEF Unsaved
  <2>3. JobsTypeOK' /\ undisturbed' \in BOOLEAN /\ schedule_req' \in [ScheduleReq -> ScheduleReqSet]
    BY <1>0, <2>1 DEF JobsTypeOK, InEffect
  <2>4. ChangeFollowsJob'
    BY <2>1, <2>2 DEF ChangeFollowsJob
  <2> QED
    BY <2>1, <2>3, <2>4 DEF JobsIInv
<1>7. CASE run_scheduled_job_now \/ JobFires \/ \E written \in BOOLEAN : _record_run(written)
  <2>1. /\ UNCHANGED <<trigger, default_trigger, override, schedule_req, undisturbed>>
        /\ job_runs' \in 0 .. MaxRunsKept
    BY <1>0, <1>7 DEF run_scheduled_job_now, JobFires, _record_run, JobKept, JobsTypeOK
  <2> QED
    BY <1>0, <2>1 DEF JobsIInv, JobsTypeOK, ChangeFollowsJob, Unsaved
<1>8. CASE UNCHANGED jobVars
  BY <1>0, <1>8 DEF jobVars, JobsIInv, JobsTypeOK, ChangeFollowsJob, Unsaved
<1> QED
  BY <1>1, <1>2, <1>3, <1>4, <1>5, <1>6, <1>7, <1>8 DEF JobsNext

\* What the invariant says of the job.
LEMMA ScheduleFollows == ASSUME JobsIInv PROVE ScheduleSurvives
BY DEF JobsIInv, ChangeFollowsJob, ScheduleSurvives, InEffect

\* A job runs on the saved choice across restarts, unless two changes overlapped or one
\* failed half-way (job_schedule_store.py).
THEOREM ScheduleSurvivesHolds == JobsSpec => []ScheduleSurvives
BY JobsStart, JobsStep, ScheduleFollows, PTL DEF JobsSpec

-----------------------------------------------------------------------------
(* Chat.                                                                   *)

ChatSpec == create_session /\ [][ChatNext]_chatVars

\* What a browser tab is at.
TabSet == {NoReply} \union [at: {"clear"}] \union [at: {"stream"}, chunks: 0 .. MaxChunks, asked: BOOLEAN]
                    \union [at: {"store"}, aborted: BOOLEAN, asked: BOOLEAN]

\* Types, in the form the steps need.
ChatTyped ==
    /\ turns \in 0 .. MaxTurns /\ replies \subseteq [aborted: BOOLEAN, asked: BOOLEAN]
    /\ tab \in [Tab -> TabSet] /\ abort_flag \in BOOLEAN

\* While the flag is up every reply that streams was asked to stop: the flag goes down when
\* a stream begins.
FlagWasAsked ==
    /\ abort_flag = TRUE => \A t \in Tab : tab[t].at = "stream" => tab[t].asked = TRUE
    /\ \A t \in Tab : tab[t].at = "store" /\ tab[t].aborted = TRUE => tab[t].asked = TRUE
    /\ \A r \in replies : r.aborted = TRUE => r.asked = TRUE

\* The inductive invariant of the chat.
ChatIInv == ChatTyped /\ FlagWasAsked

\* Shapes of a reply.
LEMMA TabShapes ==
    /\ NoReply \in TabSet /\ NoReply.at = "idle"
    /\ \A x \in TabSet : /\ x.at \in {"idle", "clear", "stream", "store"}
                         /\ x.at = "stream" => x \in [at: {"stream"}, chunks: 0 .. MaxChunks, asked: BOOLEAN]
                         /\ x.at = "store" => x \in [at: {"store"}, aborted: BOOLEAN, asked: BOOLEAN]
BY DEF TabSet, NoReply

\* Nobody has written.
LEMMA ChatStart == ASSUME create_session PROVE ChatIInv
<1>1. ChatTyped
  <2>1. turns \in 0 .. MaxTurns /\ replies \subseteq [aborted: BOOLEAN, asked: BOOLEAN] /\ tab \in [Tab -> TabSet]
    BY ChatAssumption, TabShapes DEF create_session
  <2>2. abort_flag \in BOOLEAN
    BY DEF create_session
  <2> QED
    BY <2>1, <2>2 DEF ChatTyped
<1> QED
  BY <1>1, TabShapes DEF create_session, ChatIInv, FlagWasAsked

\* A tab turns to something else and the flag stays or goes down.
LEMMA TabTurns ==
    ASSUME ChatIInv, NEW t \in Tab, NEW x \in TabSet, tab' = [tab EXCEPT ![t] = x],
           turns' \in 0 .. MaxTurns, UNCHANGED replies,
           abort_flag' \in BOOLEAN, abort_flag' = TRUE => abort_flag = TRUE,
           x.at = "stream" /\ abort_flag' = TRUE => x.asked = TRUE,
           x.at = "store" /\ x.aborted = TRUE => x.asked = TRUE
    PROVE  ChatIInv'
<1>1. ChatTyped'
  BY DEF ChatIInv, ChatTyped
<1>2. tab'[t] = x /\ \A u \in Tab : u # t => tab'[u] = tab[u]
  BY DEF ChatIInv, ChatTyped
<1>3. FlagWasAsked'
  BY <1>2 DEF ChatIInv, FlagWasAsked
<1> QED
  BY <1>1, <1>3 DEF ChatIInv

\* Every step keeps the invariant.
LEMMA ChatStep == ASSUME ChatIInv, [ChatNext]_chatVars PROVE ChatIInv'
<1> USE ChatAssumption
<1>0. ChatTyped /\ FlagWasAsked
  BY DEF ChatIInv
<1>1. CASE update_session
  BY <1>0, <1>1 DEF update_session, ChatIInv, ChatTyped, FlagWasAsked
<1>2. CASE delete_session
  BY <1>0, <1>2 DEF delete_session, ChatIInv, ChatTyped, FlagWasAsked
<1>3. CASE request_abort
  <2> DEFINE Flagged(t) == [tab[t] EXCEPT !.asked = TRUE]
  <2>1. /\ abort_flag' = TRUE /\ UNCHANGED <<turns, replies>>
        /\ tab' = [t \in Tab |-> IF tab[t].at = "stream" THEN Flagged(t) ELSE tab[t]]
    BY <1>3 DEF request_abort
  <2>2. \A t \in Tab : tab[t].at = "stream" => Flagged(t) \in TabSet /\ Flagged(t).at = "stream" /\ Flagged(t).asked = TRUE
    <3> TAKE t \in Tab
    <3> HAVE tab[t].at = "stream"
    <3>1. tab[t] \in [at: {"stream"}, chunks: 0 .. MaxChunks, asked: BOOLEAN]
      BY <1>0, TabShapes DEF ChatTyped
    <3>2. Flagged(t) \in [at: {"stream"}, chunks: 0 .. MaxChunks, asked: BOOLEAN] /\ Flagged(t).asked = TRUE
      BY <3>1, Zenon
    <3> QED
      BY <3>2 DEF TabSet
  <2> HIDE DEF Flagged
  <2>3. \A t \in Tab : tab'[t] \in TabSet /\ (tab'[t].at = "stream" => tab'[t].asked = TRUE)
                       /\ (tab'[t].at = "store" => tab'[t] = tab[t])
    BY <1>0, <2>1, <2>2 DEF ChatTyped
  <2>4. tab' \in [Tab -> TabSet]
    BY <2>1, <2>3
  <2> QED
    BY <1>0, <2>1, <2>3, <2>4 DEF ChatIInv, ChatTyped, FlagWasAsked
<1>4. CASE AbortFlagExpires
  BY <1>0, <1>4 DEF AbortFlagExpires, ChatIInv, ChatTyped, FlagWasAsked
<1>5. ASSUME NEW t \in Tab, send_message(t) PROVE ChatIInv'
  <2> DEFINE x == [at |-> "clear"]
  <2>1. /\ tab' = [tab EXCEPT ![t] = x] /\ turns' \in 0 .. MaxTurns /\ UNCHANGED <<replies, abort_flag>>
    BY <1>0, <1>5 DEF send_message, SetTab, ChatTyped
  <2>2. x \in TabSet /\ x.at = "clear" /\ abort_flag \in BOOLEAN
    BY <1>0 DEF TabSet, ChatTyped
  <2> HIDE DEF x
  <2> QED
    BY <2>1, <2>2, TabTurns
<1>6. ASSUME NEW t \in Tab, _clear_abort(t) PROVE ChatIInv'
  <2> DEFINE x == [at |-> "stream", chunks |-> 0, asked |-> FALSE]
  <2>1. /\ tab' = [tab EXCEPT ![t] = x] /\ turns' \in 0 .. MaxTurns /\ UNCHANGED replies /\ abort_flag' = FALSE
    BY <1>0, <1>6 DEF _clear_abort, SetTab, ChatTyped
  <2>2. x \in TabSet /\ x.at = "stream"
    <3>1. 0 \in 0 .. MaxChunks /\ FALSE \in BOOLEAN
      OBVIOUS
    <3> QED
      BY <3>1, Zenon DEF TabSet
  <2> HIDE DEF x
  <2> QED
    BY <2>1, <2>2, TabTurns
<1>7. ASSUME NEW t \in Tab, reply_chunk(t) PROVE ChatIInv'
  <2>1. tab[t] \in [at: {"stream"}, chunks: 0 .. MaxChunks, asked: BOOLEAN] /\ UNCHANGED <<turns, replies, abort_flag>>
    BY <1>0, <1>7, TabShapes DEF reply_chunk, ChatTyped
  <2>2. CASE abort_flag = TRUE
    <3> DEFINE x == [at |-> "store", aborted |-> TRUE, asked |-> tab[t].asked]
    <3>1. tab' = [tab EXCEPT ![t] = x]
      BY <1>7, <2>2 DEF reply_chunk, SetTab
    <3>2. tab[t].asked = TRUE
      BY <1>0, <2>1, <2>2 DEF FlagWasAsked
    <3>3. x \in TabSet /\ x.at = "store" /\ x.asked = TRUE
      BY <3>2, Zenon DEF TabSet
    <3> HIDE DEF x
    <3> QED
      BY <1>0, <2>1, <2>2, <3>1, <3>3, TabTurns DEF ChatTyped
  <2>3. CASE abort_flag = FALSE
    <3> DEFINE x == [tab[t] EXCEPT !.chunks = @ + 1]
    <3>1. tab' = [tab EXCEPT ![t] = x]
      BY <1>7, <2>3 DEF reply_chunk, SetTab
    <3>2. tab[t].chunks + 1 \in 0 .. MaxChunks
      BY <1>7, <2>1 DEF reply_chunk
    <3>3. x \in TabSet /\ x.at = "stream"
      BY <2>1, <3>2, Zenon DEF TabSet
    <3> HIDE DEF x
    <3> QED
      BY <1>0, <2>1, <2>3, <3>1, <3>3, TabTurns DEF ChatTyped
  <2> QED
    BY <1>0, <2>2, <2>3 DEF ChatTyped
<1>8. ASSUME NEW t \in Tab, reply_ends(t) PROVE ChatIInv'
  <2> DEFINE x == [at |-> "store", aborted |-> FALSE, asked |-> tab[t].asked]
  <2>1. /\ tab[t] \in [at: {"stream"}, chunks: 0 .. MaxChunks, asked: BOOLEAN] /\ UNCHANGED <<turns, replies, abort_flag>>
        /\ tab' = [tab EXCEPT ![t] = x]
    BY <1>0, <1>8, TabShapes DEF reply_ends, ChatTyped, SetTab
  <2>2. x \in TabSet /\ x.at = "store" /\ x.aborted = FALSE
    BY <2>1, Zenon DEF TabSet
  <2> HIDE DEF x
  <2> QED
    BY <1>0, <2>1, <2>2, TabTurns DEF ChatTyped
<1>9. ASSUME NEW t \in Tab, browser_leaves(t) PROVE ChatIInv'
  <2>1. UNCHANGED <<turns, replies, abort_flag>> /\ tab' = [tab EXCEPT ![t] = NoReply]
    BY <1>9 DEF browser_leaves, SetTab
  <2> QED
    BY <1>0, <2>1, TabShapes, TabTurns DEF ChatTyped
<1>10. ASSUME NEW t \in Tab, stream_assistant_reply(t) PROVE ChatIInv'
  <2> DEFINE r == [aborted |-> tab[t].aborted, asked |-> tab[t].asked]
  <2>1. /\ tab[t] \in [at: {"store"}, aborted: BOOLEAN, asked: BOOLEAN] /\ tab[t].at = "store" /\ UNCHANGED turns
        /\ tab' = [tab EXCEPT ![t] = NoReply]
        /\ \/ UNCHANGED <<replies, abort_flag>>
           \/ replies' = replies \union {r} /\ abort_flag' = FALSE
    BY <1>0, <1>10, TabShapes DEF stream_assistant_reply, ChatTyped, SetTab
  <2>2. r \in [aborted: BOOLEAN, asked: BOOLEAN] /\ (r.aborted = TRUE => r.asked = TRUE)
    BY <1>0, <2>1 DEF FlagWasAsked
  <2> HIDE DEF r
  <2>3. CASE UNCHANGED <<replies, abort_flag>>
    BY <1>0, <2>1, <2>3, TabShapes, TabTurns DEF ChatTyped
  <2>4. CASE replies' = replies \union {r} /\ abort_flag' = FALSE
    <3>1. ChatTyped'
      BY <1>0, <2>1, <2>2, <2>4, TabShapes DEF ChatTyped
    <3>2. tab'[t] = NoReply /\ \A u \in Tab : u # t => tab'[u] = tab[u]
      BY <1>0, <2>1 DEF ChatTyped
    <3>3. FlagWasAsked'
      BY <1>0, <2>2, <2>4, <3>2, TabShapes DEF FlagWasAsked
    <3> QED
      BY <3>1, <3>3 DEF ChatIInv
  <2> QED
    BY <2>1, <2>3, <2>4
<1>11. CASE UNCHANGED chatVars
  BY <1>0, <1>11 DEF chatVars, ChatIInv, ChatTyped, FlagWasAsked
<1> QED
  BY <1>1, <1>2, <1>3, <1>4, <1>5, <1>6, <1>7, <1>8, <1>9, <1>10, <1>11 DEF ChatNext

\* What the invariant says of the replies.
LEMMA AbortFollows == ASSUME ChatIInv PROVE AbortedWasAsked
<1>1. \A r \in replies : r.aborted \in BOOLEAN /\ r.asked \in BOOLEAN
  BY DEF ChatIInv, ChatTyped
<1> QED
  BY <1>1 DEF ChatIInv, FlagWasAsked, AbortedWasAsked

\* A reply recorded as aborted was asked to be, for any number of tabs, turns and chunks
\* (chat.py).
THEOREM AbortedWasAskedHolds == ChatSpec => []AbortedWasAsked
BY ChatStart, ChatStep, AbortFollows, PTL DEF ChatSpec

-----------------------------------------------------------------------------
(* Events and feeds.                                                       *)

FeedsSpec == FeedsInit /\ [][FeedsNext]_feedsVars

\* What an emitter and a viewer are at.
EmitterSet == {NotEmitting} \union [at: {"open", "publish"}, number: 1 .. MaxRows]
ViewerSet == {Closed} \union [at: {"accepted"}, ticket: Ticket]
                      \union [at: {"polling"}, ticket: Ticket, last: 0 .. MaxRows,
                          opened: 0 .. MaxRows, shown: SUBSET (1 .. MaxRows)]
                      \union [at: {"subscribed"}, ticket: Ticket, shown: SUBSET (1 .. MaxRows)]

\* Types, in the form the steps need.
FeedsTyped ==
    /\ emitter \in [Emitter -> EmitterSet] /\ ticket \in [Ticket -> {"new", "issued", "spent"}]
    /\ viewer \in [Viewer -> ViewerSet]

\* The numbers are those up to the highest, and the one transaction that is open will
\* commit the next.
LogIsWhole ==
    /\ Highest \in 0 .. MaxRows /\ rows = 1 .. Highest
    /\ \A e \in Emitter : emitter[e].at = "open" =>
         /\ emitter[e].number = Highest + 1
         /\ \A f \in Emitter : emitter[f].at = "open" => f = e

\* What a polling viewer has to be shown: the rows up to the last number it has seen, but for
\* those the backfill left out.
Due(last, opened) == {n \in rows : n <= last /\ n + BackfillRows > opened}

\* A polling viewer has been shown what it has to be shown, and its number is of the log.
ViewersFollow ==
    /\ \A v \in Viewer : viewer[v].at = "polling" =>
         /\ Due(viewer[v].last, viewer[v].opened) \subseteq viewer[v].shown
         /\ viewer[v].last <= Highest
    /\ \A v \in Viewer : viewer[v] # Closed => ticket[viewer[v].ticket] = "spent"
    /\ \A v, w \in Viewer : v # w /\ viewer[v] # Closed /\ viewer[w] # Closed =>
         viewer[v].ticket # viewer[w].ticket

\* The inductive invariant of the feeds.
FeedsIInv == FeedsTyped /\ LogIsWhole /\ ViewersFollow

\* Shapes of a socket.
LEMMA SocketShapes ==
    /\ Closed \in ViewerSet /\ Closed.at = "closed"
    /\ \A x \in ViewerSet :
         /\ x.at \in {"closed", "accepted", "polling", "subscribed"} /\ (x.at = "closed" <=> x = Closed)
         /\ x # Closed => x.ticket \in Ticket
         /\ x.at = "polling" =>
              x \in [at: {"polling"}, ticket: Ticket, last: 0 .. MaxRows,
                          opened: 0 .. MaxRows, shown: SUBSET (1 .. MaxRows)]
         /\ x.at = "subscribed" => x \in [at: {"subscribed"}, ticket: Ticket, shown: SUBSET (1 .. MaxRows)]
BY DEF ViewerSet, Closed

\* Nothing is logged and nobody watches.
LEMMA FeedsStart == ASSUME FeedsInit PROVE FeedsIInv
<1>1. FeedsTyped
  BY SocketShapes DEF FeedsInit, FeedsTyped, EmitterSet
<1>2. LogIsWhole
  <2>1. rows = 1 .. 0 /\ rows = {}
    BY DEF FeedsInit
  <2>2. Highest = 0
    BY <2>1 DEF Highest
  <2> QED
    BY <2>1, <2>2, FeedsAssumption DEF FeedsInit, LogIsWhole, NotEmitting
<1>3. ViewersFollow
  BY SocketShapes DEF FeedsInit, ViewersFollow, Due
<1> QED
  BY <1>1, <1>2, <1>3 DEF FeedsIInv

\* An open transaction begins, ends or none does, and the rest stays.
LEMMA EmitterTurns ==
    ASSUME FeedsIInv, NEW e \in Emitter, NEW x \in EmitterSet, emitter' = [emitter EXCEPT ![e] = x],
           UNCHANGED <<rows, ticket, viewer>>,
           x.at = "open" => x.number = Highest + 1 /\ RunLockFree
    PROVE  FeedsIInv'
<1>1. FeedsTyped' /\ Highest' = Highest
  BY DEF FeedsIInv, FeedsTyped, Highest
<1>4. ViewersFollow'
  BY <1>1 DEF FeedsIInv, ViewersFollow, Due
<1>2. emitter'[e] = x /\ \A f \in Emitter : f # e => emitter'[f] = emitter[f]
  BY DEF FeedsIInv, FeedsTyped
<1>3. LogIsWhole'
  BY <1>1, <1>2 DEF FeedsIInv, LogIsWhole, RunLockFree
<1> QED
  BY <1>1, <1>3, <1>4 DEF FeedsIInv

\* A socket turns to something else with the ticket it has.
LEMMA ViewerTurns ==
    ASSUME FeedsIInv, NEW v \in Viewer, NEW x \in ViewerSet, viewer' = [viewer EXCEPT ![v] = x],
           UNCHANGED <<rows, emitter, ticket>>,
           x # Closed => viewer[v] # Closed /\ x.ticket = viewer[v].ticket,
           x.at = "polling" => Due(x.last, x.opened) \subseteq x.shown /\ x.last <= Highest
    PROVE  FeedsIInv'
<1>1. FeedsTyped' /\ Highest' = Highest
  BY DEF FeedsIInv, FeedsTyped, Highest
<1>2. LogIsWhole'
  BY <1>1 DEF FeedsIInv, LogIsWhole
<1>3. viewer'[v] = x /\ \A w \in Viewer : w # v => viewer'[w] = viewer[w]
  BY DEF FeedsIInv, FeedsTyped
<1>4. ViewersFollow'
  BY <1>1, <1>3 DEF FeedsIInv, ViewersFollow, Due
<1> QED
  BY <1>1, <1>2, <1>4 DEF FeedsIInv

\* Every step keeps the invariant.
LEMMA FeedsStep == ASSUME FeedsIInv, [FeedsNext]_feedsVars PROVE FeedsIInv'
<1> USE FeedsAssumption
<1>0. FeedsTyped /\ LogIsWhole /\ ViewersFollow
  BY DEF FeedsIInv
<1>1. ASSUME NEW e \in Emitter, emit_event(e) PROVE FeedsIInv'
  <2>1. PICK n \in 1 .. MaxRows :
          /\ n = 1 + Highest + Cardinality({f \in Emitter : emitter[f].at = "open"})
          /\ emitter' = [emitter EXCEPT ![e] = [at |-> "open", number |-> n]]
    BY <1>1 DEF emit_event, SetEmitter
  <2>2. RunLockFree /\ UNCHANGED <<rows, ticket, viewer>>
    BY <1>1 DEF emit_event
  <2>3. Cardinality({f \in Emitter : emitter[f].at = "open"}) = 0
    <3>1. {f \in Emitter : emitter[f].at = "open"} = {}
      BY <2>2 DEF RunLockFree
    <3> QED
      BY <3>1, FS_EmptySet
  <2>4. n = Highest + 1
    BY <1>0, <2>1, <2>3 DEF LogIsWhole
  <2> DEFINE x == [at |-> "open", number |-> n]
  <2>5. x \in EmitterSet /\ x.number = n
    BY DEF EmitterSet
  <2> HIDE DEF x
  <2> QED
    BY <2>1, <2>2, <2>4, <2>5, EmitterTurns DEF x
<1>2. ASSUME NEW e \in Emitter, emit_rolls_back(e) PROVE FeedsIInv'
  <2>1. NotEmitting \in EmitterSet /\ NotEmitting.at = "idle"
    BY DEF EmitterSet, NotEmitting
  <2> QED
    BY <1>2, <2>1, EmitterTurns DEF emit_rolls_back, SetEmitter
<1>3. ASSUME NEW e \in Emitter, emit_commits(e) PROVE FeedsIInv'
  <2> DEFINE x == [emitter[e] EXCEPT !.at = "publish"]
             n == Highest + 1
  <2>1. emitter[e] \in [at: {"open", "publish"}, number: 1 .. MaxRows] /\ emitter[e].at = "open"
    BY <1>0, <1>3 DEF emit_commits, FeedsTyped, EmitterSet, NotEmitting
  <2>2. x \in EmitterSet /\ x.at = "publish"
    BY <2>1 DEF EmitterSet
  <2>3. /\ emitter[e].number = n /\ n \in 1 .. MaxRows /\ Highest \in Nat
        /\ \A f \in Emitter : emitter[f].at = "open" => f = e
    BY <1>0, <2>1 DEF LogIsWhole
  <2>4. /\ emitter' = [emitter EXCEPT ![e] = x] /\ rows' = rows \union {n} /\ UNCHANGED <<ticket, viewer>>
    BY <1>3, <2>3 DEF emit_commits, SetEmitter
  <2> HIDE DEF x
  <2>5. rows' = 1 .. n
    BY <1>0, <2>3, <2>4 DEF LogIsWhole
  <2>6. Highest' = n
    <3>1. n \in rows' /\ \A m \in rows' : m <= n
      BY <2>3, <2>5
    <3>2. \A k \in rows' : (\A m \in rows' : m <= k) => k = n
      BY <2>3, <2>5, <3>1
    <3> QED
      BY <3>1, <3>2 DEF Highest
  <2>7. emitter'[e] = x /\ \A f \in Emitter : f # e => emitter'[f] = emitter[f]
    BY <1>0, <2>4 DEF FeedsTyped
  <2>8. FeedsTyped'
    BY <1>0, <2>2, <2>4 DEF FeedsTyped
  <2>9. LogIsWhole'
    BY <2>2, <2>3, <2>5, <2>6, <2>7 DEF LogIsWhole
  <2>10. ViewersFollow'
    <3>1. \A v \in Viewer : viewer[v].at = "polling" => viewer[v].last \in 0 .. MaxRows /\ viewer[v].last <= Highest
      BY <1>0, SocketShapes DEF FeedsTyped, ViewersFollow, Due
    <3>2. \A v \in Viewer : viewer[v].at = "polling" =>
             /\ Due(viewer[v].last, viewer[v].opened)' = Due(viewer[v].last, viewer[v].opened)
             /\ viewer[v].last <= n
      BY <2>3, <2>4, <3>1 DEF Due
    <3> QED
      BY <1>0, <2>4, <2>6, <3>2 DEF ViewersFollow
  <2> QED
    BY <2>8, <2>9, <2>10 DEF FeedsIInv
<1>4. ASSUME NEW e \in Emitter, emit_publishes(e) PROVE FeedsIInv'
  <2> DEFINE n == emitter[e].number
             Sent(v) == [viewer[v] EXCEPT !.shown = @ \cup {n}]
  <2>1. n \in 1 .. MaxRows
    BY <1>0, <1>4 DEF emit_publishes, FeedsTyped, EmitterSet, NotEmitting
  <2>2. NotEmitting \in EmitterSet /\ NotEmitting.at = "idle"
    BY DEF EmitterSet, NotEmitting
  <2>3. /\ emitter' = [emitter EXCEPT ![e] = NotEmitting] /\ UNCHANGED <<rows, ticket>>
        /\ \/ UNCHANGED viewer
           \/ viewer' = [v \in Viewer |-> IF viewer[v].at = "subscribed" THEN Sent(v) ELSE viewer[v]]
    BY <1>4 DEF emit_publishes, SetEmitter, Forwarded
  <2> HIDE DEF n
  <2>4. \A v \in Viewer : viewer[v].at = "subscribed" =>
          Sent(v) \in ViewerSet /\ Sent(v).at = "subscribed" /\ Sent(v).ticket = viewer[v].ticket
    <3> TAKE v \in Viewer
    <3> HAVE viewer[v].at = "subscribed"
    <3>1. viewer[v] \in [at: {"subscribed"}, ticket: Ticket, shown: SUBSET (1 .. MaxRows)]
      BY <1>0, SocketShapes DEF FeedsTyped
    <3>2. viewer[v].shown \cup {n} \in SUBSET (1 .. MaxRows)
      BY <2>1, <3>1
    <3> QED
      BY <3>1, <3>2, Zenon DEF ViewerSet
  <2> HIDE DEF Sent
  <2>5. CASE UNCHANGED viewer
    BY <2>2, <2>3, <2>5, EmitterTurns
  <2>6. CASE viewer' = [v \in Viewer |-> IF viewer[v].at = "subscribed" THEN Sent(v) ELSE viewer[v]]
    <3>1. \A v \in Viewer : viewer[v].at # "subscribed" => viewer'[v] = viewer[v]
      BY <2>6
    <3>2. \A v \in Viewer : viewer[v].at = "subscribed" =>
            viewer'[v] \in ViewerSet /\ viewer'[v].at = "subscribed" /\ viewer'[v].ticket = viewer[v].ticket
      BY <2>4, <2>6
    <3>3. FeedsTyped' /\ Highest' = Highest
      BY <1>0, <2>2, <2>3, <2>6, <3>1, <3>2 DEF FeedsTyped, Highest
    <3>4. \A f \in Emitter : emitter'[f].at = "open" => emitter'[f] = emitter[f]
      BY <1>0, <2>2, <2>3 DEF FeedsTyped
    <3>5. LogIsWhole'
      BY <1>0, <2>3, <3>3, <3>4 DEF LogIsWhole
    <3>6. \A v \in Viewer : /\ viewer'[v].at = "polling" => viewer'[v] = viewer[v]
                            /\ viewer'[v] # Closed => viewer[v] # Closed /\ viewer'[v].ticket = viewer[v].ticket
      BY <3>1, <3>2, SocketShapes
    <3>7. ViewersFollow'
      BY <1>0, <2>3, <3>3, <3>6 DEF ViewersFollow, Due
    <3> QED
      BY <3>3, <3>5, <3>7 DEF FeedsIInv
  <2> QED
    BY <2>3, <2>5, <2>6
<1>5. ASSUME NEW k \in Ticket, issue_ws_ticket(k) \/ TicketExpires(k) PROVE FeedsIInv'
  <2>1. /\ UNCHANGED <<rows, emitter, viewer>> /\ ticket' \in [Ticket -> {"new", "issued", "spent"}]
        /\ \A j \in Ticket : ticket[j] = "spent" => ticket'[j] = "spent"
    BY <1>0, <1>5 DEF issue_ws_ticket, TicketExpires, FeedsTyped
  <2>2. Highest' = Highest
    BY <2>1 DEF Highest
  <2>3. \A v \in Viewer : viewer[v] # Closed => viewer[v].ticket \in Ticket
    BY <1>0, SocketShapes DEF FeedsTyped
  <2> QED
    BY <1>0, <2>1, <2>2, <2>3 DEF FeedsIInv, FeedsTyped, LogIsWhole, ViewersFollow, Due
<1>6. ASSUME NEW v \in Viewer, NEW k \in Ticket, NEW live \in BOOLEAN, authenticate_websocket(v, k, live)
      PROVE  FeedsIInv'
  <2> DEFINE x == IF live THEN [at |-> "accepted", ticket |-> k] ELSE Closed
  <2>1. /\ viewer[v] = Closed /\ ticket[k] = "issued" /\ ticket' = [ticket EXCEPT ![k] = "spent"]
        /\ viewer' = [viewer EXCEPT ![v] = x] /\ UNCHANGED <<rows, emitter>>
    BY <1>6 DEF authenticate_websocket, redeem_ws_ticket, SetViewer
  <2>2. x \in ViewerSet /\ x.at # "polling" /\ (x # Closed => x.ticket = k)
    BY SocketShapes DEF ViewerSet
  <2> HIDE DEF x
  <2>3. Highest' = Highest
    BY <2>1 DEF Highest
  <2>4. FeedsTyped' /\ LogIsWhole'
    BY <1>0, <2>1, <2>2, <2>3 DEF FeedsTyped, LogIsWhole
  <2>5. viewer'[v] = x /\ \A w \in Viewer : w # v => viewer'[w] = viewer[w]
    BY <1>0, <2>1 DEF FeedsTyped
  <2>6. /\ ticket'[k] = "spent" /\ \A j \in Ticket : ticket[j] = "spent" => ticket'[j] = "spent" /\ j # k
    BY <1>0, <2>1 DEF FeedsTyped
  <2>7. \A w \in Viewer : viewer[w] # Closed => viewer[w].ticket \in Ticket /\ viewer[w].ticket # k
    BY <1>0, <2>6, SocketShapes DEF FeedsTyped, ViewersFollow, Due
  <2>8. ViewersFollow'
    BY <1>0, <2>1, <2>2, <2>3, <2>5, <2>6, <2>7 DEF ViewersFollow, Due
  <2> QED
    BY <2>4, <2>8 DEF FeedsIInv
<1>7. ASSUME NEW v \in Viewer, stream_backfill(v) PROVE FeedsIInv'
  <2> DEFINE x == [at |-> "polling", ticket |-> viewer[v].ticket, last |-> Highest,
                    opened |-> Highest, shown |-> Newest]
  <2>1. viewer[v].at = "accepted" /\ viewer' = [viewer EXCEPT ![v] = x] /\ UNCHANGED <<rows, emitter, ticket>>
    BY <1>7 DEF stream_backfill, SetViewer
  <2>2. viewer[v] # Closed /\ viewer[v].ticket \in Ticket
    BY <1>0, <2>1, SocketShapes DEF FeedsTyped
  <2>3. Highest \in 0 .. MaxRows /\ rows \in SUBSET (1 .. MaxRows) /\ Highest <= Highest
    BY <1>0 DEF LogIsWhole
  <2>4. Newest \in SUBSET (1 .. MaxRows) /\ Due(Highest, Highest) \subseteq Newest
    BY <2>3 DEF Newest, Due
  <2>5. /\ x \in ViewerSet /\ x.ticket = viewer[v].ticket /\ x.last = Highest /\ x.opened = Highest
        /\ x.shown = Newest
    BY <2>2, <2>3, <2>4, Zenon DEF ViewerSet
  <2> HIDE DEF x
  <2> QED
    BY <2>1, <2>2, <2>3, <2>4, <2>5, ViewerTurns
<1>8. ASSUME NEW v \in Viewer, organization_events_ws(v) PROVE FeedsIInv'
  <2> DEFINE x == [at |-> "subscribed", ticket |-> viewer[v].ticket, shown |-> {}]
  <2>1. viewer[v].at = "accepted" /\ viewer' = [viewer EXCEPT ![v] = x] /\ UNCHANGED <<rows, emitter, ticket>>
    BY <1>8 DEF organization_events_ws, SetViewer
  <2>2. viewer[v] # Closed /\ viewer[v].ticket \in Ticket
    BY <1>0, <2>1, SocketShapes DEF FeedsTyped
  <2>3. x \in ViewerSet /\ x.ticket = viewer[v].ticket /\ x.at = "subscribed"
    BY <2>2 DEF ViewerSet
  <2> HIDE DEF x
  <2> QED
    BY <2>1, <2>2, <2>3, ViewerTurns
<1>9. ASSUME NEW v \in Viewer, _stream_audit_log(v) PROVE FeedsIInv'
  <2> DEFINE new == {n \in rows : n > viewer[v].last}
             x == [viewer[v] EXCEPT !.last = Highest, !.shown = @ \cup new]
  <2>1. viewer[v].at = "polling" /\ viewer' = [viewer EXCEPT ![v] = x] /\ UNCHANGED <<rows, emitter, ticket>>
    BY <1>9 DEF _stream_audit_log, SetViewer
  <2>2. viewer[v] \in [at: {"polling"}, ticket: Ticket, last: 0 .. MaxRows,
                          opened: 0 .. MaxRows, shown: SUBSET (1 .. MaxRows)]
    BY <1>0, <2>1, SocketShapes DEF FeedsTyped
  <2>3. Highest \in 0 .. MaxRows /\ rows \in SUBSET (1 .. MaxRows) /\ Highest <= Highest
    BY <1>0 DEF LogIsWhole
  <2>4. Due(Highest, viewer[v].opened) \subseteq viewer[v].shown \cup new
    <3>1. \A n \in rows : n <= viewer[v].last \/ n > viewer[v].last
      BY <2>2, <2>3
    <3> QED
      BY <1>0, <2>1, <3>1 DEF ViewersFollow, Due
  <2>5. viewer[v].shown \cup new \in SUBSET (1 .. MaxRows)
    BY <2>2, <2>3
  <2> HIDE DEF new
  <2>6. /\ x \in ViewerSet /\ x.ticket = viewer[v].ticket /\ x.last = Highest
        /\ x.opened = viewer[v].opened /\ x.shown = viewer[v].shown \cup new
    BY <2>2, <2>3, <2>5, Zenon DEF ViewerSet
  <2>7. viewer[v] # Closed
    BY <2>1, SocketShapes
  <2> HIDE DEF x
  <2> QED
    BY <2>1, <2>3, <2>4, <2>6, <2>7, ViewerTurns
<1>10. ASSUME NEW v \in Viewer, serve_until_client_leaves(v) PROVE FeedsIInv'
  BY <1>10, SocketShapes, ViewerTurns DEF serve_until_client_leaves, SetViewer
<1>11. CASE UNCHANGED feedsVars
  BY <1>0, <1>11 DEF feedsVars, FeedsIInv, FeedsTyped, LogIsWhole, ViewersFollow, Due, Highest
<1> QED
  BY <1>1, <1>2, <1>3, <1>4, <1>5, <1>6, <1>7, <1>8, <1>9, <1>10, <1>11 DEF FeedsNext

\* What the invariant says of the log and its viewers.
LEMMA NothingIsMissed == ASSUME FeedsIInv PROVE NothingMissed
BY DEF FeedsIInv, LogIsWhole, ViewersFollow, NothingMissed, Due

\* A polling viewer misses nothing and the log has no gaps, for any number of emitters and
\* viewers (events.py).
THEOREM NothingMissedHolds == FeedsSpec => []NothingMissed
BY FeedsStart, FeedsStep, NothingIsMissed, PTL DEF FeedsSpec

-----------------------------------------------------------------------------
(* Memory.                                                                 *)

MemorySpec == MemoryInit /\ [][MemoryNext]_memoryVars

\* A stored memory, and what a writer is at.
Point == [text : Lesson, size : {"small", "large"}]
RememberSet == {NotCalled} \union [at: {"embed", "ensure", "create", "upsert"}, kind: Kind, text: Lesson,
                                   model: EmbeddingModel]

\* Types, in the form the steps need.
MemoryTyped ==
    /\ saved_choice \in EmbeddingModel \union {"none"} /\ env_choice \in EmbeddingModel \union {"none"}
    /\ collection \in [Kind -> {"none", "small", "large"}] /\ points \in [Kind -> SUBSET Point]
    /\ told_stored \in [Kind -> SUBSET Lesson] /\ remembering \in [Rememberer -> RememberSet]

\* A call that is about to write has found, or made, a collection of its own size.
WritersFit ==
    \A w \in Rememberer : remembering[w].at = "upsert" =>
        collection[remembering[w].kind] = Size(remembering[w].model)

\* What was told stored is there, in a collection of its size.
StoreIsKept ==
    \A k \in Kind : /\ told_stored[k] \subseteq {p.text : p \in points[k]}
                    /\ \A p \in points[k] : p.size = collection[k]

\* The inductive invariant of the memory.
MemoryIInv == MemoryTyped /\ WritersFit /\ StoreIsKept

\* A model is small or large.
LEMMA Sizes == \A m : Size(m) \in {"small", "large"}
BY DEF Size

\* Nothing is stored.
LEMMA MemoryStart == ASSUME MemoryInit PROVE MemoryIInv
<1>1. MemoryTyped
  BY DEF MemoryInit, MemoryTyped, RememberSet
<1> QED
  BY <1>1 DEF MemoryInit, MemoryIInv, WritersFit, StoreIsKept, NotCalled

\* A call turns to something else and the store stays.
LEMMA CallTurns ==
    ASSUME MemoryIInv, NEW w \in Rememberer, NEW job \in RememberSet,
           remembering' = [remembering EXCEPT ![w] = job],
           UNCHANGED <<saved_choice, env_choice, collection, points, told_stored>>,
           job.at = "upsert" => collection[job.kind] = Size(job.model)
    PROVE  MemoryIInv'
<1>1. MemoryTyped'
  BY DEF MemoryIInv, MemoryTyped
<1>2. remembering'[w] = job /\ \A v \in Rememberer : v # w => remembering'[v] = remembering[v]
  BY DEF MemoryIInv, MemoryTyped
<1>3. WritersFit' /\ StoreIsKept'
  BY <1>2 DEF MemoryIInv, WritersFit, StoreIsKept
<1> QED
  BY <1>1, <1>3 DEF MemoryIInv

\* Shapes of a call.
LEMMA CallShapes ==
    /\ NotCalled \in RememberSet /\ NotCalled.at = "idle"
    /\ \A job \in RememberSet : job.at # "idle" =>
         /\ job \in [at: {"embed", "ensure", "create", "upsert"}, kind: Kind, text: Lesson, model: EmbeddingModel]
         /\ \A s \in {"embed", "ensure", "create", "upsert"} :
              LET next == [job EXCEPT !.at = s]
              IN  next \in RememberSet /\ next.at = s /\ next.kind = job.kind /\ next.model = job.model
BY DEF RememberSet, NotCalled

\* Every step keeps the invariant.
LEMMA MemoryStep == ASSUME MemoryIInv, [MemoryNext]_memoryVars PROVE MemoryIInv'
<1>0. MemoryTyped /\ WritersFit /\ StoreIsKept
  BY DEF MemoryIInv
<1>1. ASSUME UNCHANGED <<collection, points, told_stored, remembering>>,
             saved_choice' \in EmbeddingModel \union {"none"}, env_choice' = env_choice
      PROVE  MemoryIInv'
  BY <1>0, <1>1 DEF MemoryIInv, MemoryTyped, WritersFit, StoreIsKept
<1>2. ASSUME NEW m \in EmbeddingModel, put_memory_settings(m) \/ ProbeExpires(m) PROVE MemoryIInv'
  BY <1>0, <1>1, <1>2 DEF put_memory_settings, ProbeExpires, save_choice, storeVars, MemoryTyped
<1>3. CASE reset_memory_settings \/ ServiceChanges \/ memory_status
  BY <1>0, <1>1, <1>3
     DEF reset_memory_settings, ServiceChanges, memory_status, _probe_embedder, save_choice, storeVars, MemoryTyped
<1>4. ASSUME NEW w \in Rememberer, NEW k \in Kind, NEW t \in Lesson, remember(w, k, t) PROVE MemoryIInv'
  <2> DEFINE job == [at |-> "embed", kind |-> k, text |-> t, model |-> effective_choice]
  <2>1. /\ remembering' = [remembering EXCEPT ![w] = job] /\ effective_choice # "none"
        /\ UNCHANGED <<saved_choice, env_choice, collection, points, told_stored>>
    BY <1>4 DEF remember, SetRemember, build_embedding_provider, choiceVars, storeVars
  <2>2. effective_choice \in EmbeddingModel
    BY <1>0, <2>1 DEF effective_choice, MemoryTyped
  <2>3. job \in RememberSet /\ job.at = "embed"
    BY <2>2 DEF RememberSet
  <2> HIDE DEF job
  <2> QED
    BY <2>1, <2>3, CallTurns
<1>5. ASSUME NEW w \in Rememberer, embed(w) \/ ensure_collection(w) \/ record_lesson(w) PROVE MemoryIInv'
  <2>1. UNCHANGED <<saved_choice, env_choice, collection, points, told_stored>>
    BY <1>5 DEF embed, ensure_collection, record_lesson, SetRemember, choiceVars, storeVars
  <2>2. remembering[w] \in RememberSet
    BY <1>0 DEF MemoryTyped
  <2>3. CASE embed(w)
    <3> DEFINE job == [remembering[w] EXCEPT !.at = "ensure"]
    <3>1. remembering' = [remembering EXCEPT ![w] = job] /\ remembering[w].at = "embed"
      BY <2>3 DEF embed, SetRemember
    <3>2. job \in RememberSet /\ job.at = "ensure"
      BY <2>2, <3>1, CallShapes
    <3> HIDE DEF job
    <3> QED
      BY <2>1, <3>1, <3>2, CallTurns
  <2>4. CASE record_lesson(w)
    BY <2>1, <2>4, CallShapes, CallTurns DEF record_lesson, SetRemember
  <2>5. CASE ensure_collection(w)
    <3> DEFINE call == remembering[w]
               create == [call EXCEPT !.at = "create"]
               write == [call EXCEPT !.at = "upsert"]
    <3>1. /\ call.at = "ensure"
          /\ \/ remembering' = [remembering EXCEPT ![w] = create]
             \/ collection[call.kind] = Size(call.model) /\ remembering' = [remembering EXCEPT ![w] = write]
             \/ remembering' = [remembering EXCEPT ![w] = NotCalled]
      BY <2>5 DEF ensure_collection, SetRemember
    <3>2. /\ create \in RememberSet /\ create.at = "create" /\ write \in RememberSet /\ write.at = "upsert"
          /\ write.kind = call.kind /\ write.model = call.model
      BY <2>2, <3>1, CallShapes
    <3> HIDE DEF create, write
    <3> QED
      BY <2>1, <3>1, <3>2, CallShapes, CallTurns
  <2> QED
    BY <1>5, <2>3, <2>4, <2>5
<1>6. ASSUME NEW w \in Rememberer, create_collection(w) PROVE MemoryIInv'
  <2> DEFINE call == remembering[w]
             write == [call EXCEPT !.at = "upsert"]
  <2>1. /\ call.at = "create" /\ UNCHANGED <<saved_choice, env_choice, points, told_stored>>
        /\ \/ /\ collection[call.kind] = "none" /\ remembering' = [remembering EXCEPT ![w] = write]
              /\ collection' = [collection EXCEPT ![call.kind] = Size(call.model)]
           \/ remembering' = [remembering EXCEPT ![w] = NotCalled] /\ UNCHANGED collection
    BY <1>6 DEF create_collection, SetRemember, choiceVars
  <2>2. /\ call \in RememberSet /\ write \in RememberSet /\ write.at = "upsert"
        /\ write.kind = call.kind /\ write.model = call.model /\ call.kind \in Kind
    BY <1>0, <2>1, CallShapes DEF MemoryTyped
  <2> HIDE DEF write
  <2>3. CASE remembering' = [remembering EXCEPT ![w] = NotCalled] /\ UNCHANGED collection
    BY <2>1, <2>3, CallShapes, CallTurns
  <2>4. CASE /\ collection[call.kind] = "none" /\ remembering' = [remembering EXCEPT ![w] = write]
             /\ collection' = [collection EXCEPT ![call.kind] = Size(call.model)]
    <3>1. MemoryTyped'
      BY <1>0, <2>1, <2>2, <2>4, Sizes DEF MemoryTyped
    <3>2. /\ collection'[call.kind] = Size(call.model)
          /\ \A k \in Kind : k # call.kind => collection'[k] = collection[k]
          /\ remembering'[w] = write /\ \A v \in Rememberer : v # w => remembering'[v] = remembering[v]
      BY <1>0, <2>2, <2>4 DEF MemoryTyped
    <3>3. points[call.kind] = {}
      <4>1. \A p \in points[call.kind] : p.size \in {"small", "large"} /\ p.size = "none"
        BY <1>0, <2>2, <2>4 DEF MemoryTyped, StoreIsKept, Point
      <4> QED
        BY <4>1
    <3>4. \A v \in Rememberer : remembering[v].at = "upsert" =>
            remembering[v].kind \in Kind /\ remembering[v].kind # call.kind
      <4> SUFFICES ASSUME NEW v \in Rememberer, remembering[v].at = "upsert"
                   PROVE  remembering[v].kind \in Kind /\ remembering[v].kind # call.kind
        OBVIOUS
      <4>1. collection[remembering[v].kind] \in {"small", "large"}
        BY <1>0, Sizes DEF WritersFit
      <4>2. remembering[v].kind \in Kind
        BY <1>0, CallShapes DEF MemoryTyped
      <4> QED
        BY <2>4, <4>1, <4>2
    <3>5. WritersFit'
      BY <1>0, <2>2, <3>2, <3>4 DEF WritersFit
    <3>6. StoreIsKept'
      BY <1>0, <2>1, <3>2, <3>3 DEF StoreIsKept
    <3> QED
      BY <3>1, <3>5, <3>6 DEF MemoryIInv
  <2> QED
    BY <2>1, <2>3, <2>4
<1>7. ASSUME NEW w \in Rememberer, upsert(w) PROVE MemoryIInv'
  <2> DEFINE call == remembering[w]
             i == call.kind
             p == [text |-> call.text, size |-> Size(call.model)]
             others == {q \in points[i] : q.text # call.text}
  <2>1. /\ call.at = "upsert" /\ UNCHANGED <<saved_choice, env_choice, collection>>
        /\ points' = [points EXCEPT ![i] = others \cup {p}]
        /\ told_stored' = [told_stored EXCEPT ![i] = told_stored[i] \cup {call.text}]
        /\ remembering' = [remembering EXCEPT ![w] = NotCalled]
    BY <1>7 DEF upsert, SetRemember, choiceVars
  <2>2. call \in RememberSet /\ i \in Kind /\ call.text \in Lesson /\ collection[i] = Size(call.model)
    BY <1>0, <2>1, CallShapes DEF MemoryTyped, WritersFit
  <2>3. p \in Point /\ p.text = call.text /\ p.size = collection[i] /\ others \subseteq points[i]
    BY <2>2, Sizes DEF Point
  <2>4. told_stored[i] \subseteq {q.text : q \in others} \union {call.text}
    BY <1>0, <2>2 DEF StoreIsKept
  <2> HIDE DEF p, others, i
  <2>5. MemoryTyped'
    BY <1>0, <2>1, <2>2, <2>3, CallShapes DEF MemoryTyped
  <2>6. /\ points'[i] = others \cup {p} /\ told_stored'[i] = told_stored[i] \cup {call.text}
        /\ \A k \in Kind : k # i => points'[k] = points[k] /\ told_stored'[k] = told_stored[k]
    BY <1>0, <2>1, <2>2 DEF MemoryTyped
  <2>7. StoreIsKept'
    BY <1>0, <2>1, <2>2, <2>3, <2>4, <2>6 DEF StoreIsKept
  <2>8. WritersFit'
    BY <1>0, <2>1, CallShapes DEF WritersFit, MemoryTyped
  <2> QED
    BY <2>5, <2>7, <2>8 DEF MemoryIInv
<1>8. ASSUME NEW k \in Kind, NEW t \in Lesson, forget(k, t) PROVE MemoryIInv'
  <2>1. /\ UNCHANGED <<saved_choice, env_choice, collection, remembering>>
        /\ points' = [points EXCEPT ![k] = {p \in points[k] : p.text # t}]
        /\ told_stored' = [told_stored EXCEPT ![k] = told_stored[k] \ {t}]
    BY <1>8 DEF forget, choiceVars
  <2>2. MemoryTyped'
    BY <1>0, <2>1 DEF MemoryTyped
  <2>3. /\ points'[k] = {p \in points[k] : p.text # t} /\ told_stored'[k] = told_stored[k] \ {t}
        /\ \A j \in Kind : j # k => points'[j] = points[j] /\ told_stored'[j] = told_stored[j]
    BY <1>0, <2>1 DEF MemoryTyped
  <2>4. StoreIsKept'
    BY <1>0, <2>1, <2>3 DEF StoreIsKept
  <2>5. WritersFit'
    BY <1>0, <2>1 DEF WritersFit
  <2> QED
    BY <2>2, <2>4, <2>5 DEF MemoryIInv
<1>9. CASE UNCHANGED memoryVars
  BY <1>0, <1>1, <1>9 DEF memoryVars, MemoryTyped
<1> QED
  BY <1>2, <1>3, <1>4, <1>5, <1>6, <1>7, <1>8, <1>9 DEF MemoryNext

\* A search with a vector of the collection's size may answer any one of its points.
LEMMA RememberedFollows == ASSUME MemoryIInv PROVE RememberedStays
<1> SUFFICES ASSUME NEW k \in Kind, RecallLimit > 0,
                    store_up, embedder_up, build_embedding_provider, Size(effective_choice) = collection[k],
                    NEW t \in told_stored[k]
             PROVE  \E hits \in recall(k) : t \in {p.text : p \in hits}
  BY DEF MemoryIInv, StoreIsKept, RememberedStays
<1>1. PICK p \in points[k] : p.text = t
  BY DEF MemoryIInv, StoreIsKept
<1> DEFINE limit == IF RecallLimit < MaxQueryLimit THEN RecallLimit ELSE MaxQueryLimit
<1>2. query(k, RecallLimit) = {hits \in SUBSET points[k] : Cardinality(hits) <= limit}
  BY Sizes DEF query, search
<1>3. limit \in Nat /\ 1 <= limit /\ RecallLimit # 0
  BY MemoryAssumption
<1> HIDE DEF limit
<1>4. Cardinality({p}) <= limit
  <2>1. Cardinality({p}) = 1
    BY FS_Singleton, Zenon
  <2> QED
    BY <1>3, <2>1
<1>5. {p} \in query(k, RecallLimit)
  <2>1. {p} \in SUBSET points[k]
    BY <1>1
  <2> QED
    BY <1>2, <1>4, <2>1, Zenon
<1>6. {p} \in recall(k)
  BY <1>3, <1>5, Zenon DEF recall
<1> QED
  BY <1>1, <1>6

\* What a caller was told is stored stays and within reach, for any number of writers,
\* lessons and models (memory/service.py).
THEOREM RememberedStaysHolds == MemorySpec => []RememberedStays
BY MemoryStart, MemoryStep, RememberedFollows, PTL DEF MemorySpec

-----------------------------------------------------------------------------
(* The LLM router.                                                         *)

LlmRouterSpec == LlmRouterInit /\ [][LlmRouterNext]_routerVars

\* Where a call can be, and what it carries.
CallStates == {"idle", "asking", "answered", "failed", "exhausted"}
CallFields == {"at", "stream", "order", "idx", "clients", "heard"}

\* What a call under way has heard is of the provider it is at, and until a call that is not
\* streamed is answered it has heard nothing.
CallHolds(r) ==
    \/ r = NoCall
    \/ /\ r.at \in CallStates \ {"idle"} /\ DOMAIN r = CallFields
       /\ r.heard \in Seq({r.order[r.idx]})
       /\ r.at = "asking" /\ ~r.stream => r.heard = <<>>

\* The inductive invariant of the router.
LlmRouterIInv ==
    /\ order \in Orders /\ usable \subseteq Provider /\ up \subseteq Provider
    /\ health \in [Provider -> {"unknown", "failed", "ok", "fallback"}]
    /\ DOMAIN llm_call = LlmCall /\ llm_call = [c \in LlmCall |-> llm_call[c]]
    /\ \A c \in LlmCall : CallHolds(llm_call[c])

\* A call that is not idle.
LEMMA UnderWay ==
    ASSUME NEW r, CallHolds(r)
    PROVE  /\ r.at \in CallStates
           /\ r.at # "idle" => /\ DOMAIN r = CallFields /\ r.heard \in Seq({r.order[r.idx]})
                               /\ r.at = "asking" /\ ~r.stream => r.heard = <<>>
<1>1. NoCall.at = "idle"
  BY DEF NoCall
<1>2. CASE r = NoCall
  BY <1>1, <1>2 DEF CallStates
<1>3. CASE r # NoCall
  BY <1>3, Zenon DEF CallHolds
<1> QED
  BY <1>2, <1>3

\* A call that has heard nothing.
LEMMA Silent ==
    ASSUME NEW r, r.at \in CallStates \ {"idle"}, DOMAIN r = CallFields, r.heard = <<>>
    PROVE  CallHolds(r)
<1>1. r.heard \in Seq({r.order[r.idx]})
  BY EmptySeq
<1> QED
  BY <1>1, Zenon DEF CallHolds

\* No call has started.
LEMMA LlmRouterStart == ASSUME LlmRouterInit PROVE LlmRouterIInv
BY DEF LlmRouterInit, LlmRouterIInv, CallHolds

\* A call that goes on leaves the others as they are.
LEMMA LlmCallTurns ==
    ASSUME LlmRouterIInv, NEW c \in LlmCall, NEW r, CallHolds(r), SetCall(c, r),
           order' \in Orders, usable' \subseteq Provider, up' \subseteq Provider,
           health' \in [Provider -> {"unknown", "failed", "ok", "fallback"}]
    PROVE  LlmRouterIInv'
<1>1. /\ DOMAIN llm_call' = LlmCall /\ llm_call' = [d \in LlmCall |-> llm_call'[d]]
      /\ llm_call'[c] = r /\ \A d \in LlmCall \ {c} : llm_call'[d] = llm_call[d]
  BY DEF SetCall, LlmRouterIInv
<1>2. \A d \in LlmCall : CallHolds(llm_call'[d])
  BY <1>1 DEF LlmRouterIInv
<1> QED
  BY <1>1, <1>2 DEF LlmRouterIInv, CallHolds

\* What a step writes of a call leaves the rest of it.
LEMMA CallChanges ==
    ASSUME NEW r, DOMAIN r = CallFields, NEW i, NEW a, NEW h
    PROVE  /\ DOMAIN [r EXCEPT !.at = a] = CallFields
           /\ [r EXCEPT !.at = a].at = a /\ [r EXCEPT !.at = a].heard = r.heard
           /\ [r EXCEPT !.at = a].order = r.order /\ [r EXCEPT !.at = a].idx = r.idx
           /\ [r EXCEPT !.at = a].stream = r.stream
           /\ DOMAIN [r EXCEPT !.idx = i] = CallFields
           /\ [r EXCEPT !.idx = i].at = r.at /\ [r EXCEPT !.idx = i].heard = r.heard
           /\ [r EXCEPT !.idx = i].stream = r.stream
           /\ DOMAIN [r EXCEPT !.heard = h] = CallFields
           /\ [r EXCEPT !.heard = h].at = r.at /\ [r EXCEPT !.heard = h].heard = h
           /\ [r EXCEPT !.heard = h].order = r.order /\ [r EXCEPT !.heard = h].idx = r.idx
           /\ [r EXCEPT !.heard = h].stream = r.stream
BY Zenon DEF CallFields

\* The next provider is only asked while nothing has been heard.
LEMMA OnToTheNext ==
    ASSUME LlmRouterIInv, NEW c \in LlmCall, llm_call[c].at = "asking", llm_call[c].heard = <<>>,
           next_provider(c), UNCHANGED <<order, usable, up>>,
           health' \in [Provider -> {"unknown", "failed", "ok", "fallback"}]
    PROVE  LlmRouterIInv'
<1> DEFINE r == llm_call[c]
<1>1. r.at = "asking" /\ r.heard = <<>> /\ DOMAIN r = CallFields
  BY UnderWay DEF LlmRouterIInv
<1>2. \/ SetCall(c, [r EXCEPT !.idx = r.idx + 1])
      \/ SetCall(c, [r EXCEPT !.at = "exhausted"])
  BY DEF next_provider
<1>3. CallHolds([r EXCEPT !.idx = r.idx + 1])
  <2> DEFINE n == [r EXCEPT !.idx = r.idx + 1]
  <2>1. DOMAIN n = CallFields /\ n.at = r.at /\ n.heard = r.heard
    BY <1>1, CallChanges
  <2> HIDE DEF n
  <2>2. CallHolds(n)
    BY <1>1, <2>1, Silent DEF CallStates
  <2> QED
    BY <2>2 DEF n
<1>4. CallHolds([r EXCEPT !.at = "exhausted"])
  <2> DEFINE n == [r EXCEPT !.at = "exhausted"]
  <2>1. DOMAIN n = CallFields /\ n.at = "exhausted" /\ n.heard = r.heard
    BY <1>1, CallChanges
  <2> HIDE DEF n
  <2>2. CallHolds(n)
    BY <1>1, <2>1, Silent DEF CallStates
  <2> QED
    BY <2>2 DEF n
<1>5. order \in Orders /\ usable \subseteq Provider /\ up \subseteq Provider
  BY DEF LlmRouterIInv
<1> QED
  BY ONLY LlmRouterIInv, c \in LlmCall, UNCHANGED <<order, usable, up>>,
          health' \in [Provider -> {"unknown", "failed", "ok", "fallback"}],
          <1>2, <1>3, <1>4, <1>5, LlmCallTurns

\* A call that ends keeps what it has heard.
LEMMA CallEnds ==
    ASSUME LlmRouterIInv, NEW c \in LlmCall, llm_call[c].at # "idle", NEW a \in {"answered", "failed"}
    PROVE  CallHolds([llm_call[c] EXCEPT !.at = a])
<1> DEFINE r == llm_call[c]
           n == [r EXCEPT !.at = a]
<1>1. DOMAIN r = CallFields /\ r.heard \in Seq({r.order[r.idx]})
  BY UnderWay DEF LlmRouterIInv
<1>2. DOMAIN n = CallFields /\ n.at = a /\ n.heard = r.heard /\ n.order = r.order /\ n.idx = r.idx
  BY <1>1, CallChanges
<1> HIDE DEF n
<1> QED
  BY <1>1, <1>2 DEF CallHolds, CallStates

\* Every step keeps the invariant.
LEMMA LlmRouterStep == ASSUME LlmRouterIInv, [LlmRouterNext]_routerVars PROVE LlmRouterIInv'
<1> DEFINE Outcomes == {"unknown", "failed", "ok", "fallback"}
<1>0. /\ order \in Orders /\ usable \subseteq Provider /\ up \subseteq Provider
      /\ health \in [Provider -> Outcomes]
  BY DEF LlmRouterIInv
<1>1. ASSUME NEW p \in Provider, \/ write_llm_provider_credentials(p)
                                 \/ delete_llm_provider_credentials(p) \/ ProviderTurns(p)
      PROVE  LlmRouterIInv'
  <2>1. /\ order' \in Orders /\ usable' \subseteq Provider /\ up' \subseteq Provider
        /\ UNCHANGED <<llm_call, health>>
    BY <1>0, <1>1 DEF write_llm_provider_credentials, delete_llm_provider_credentials, ProviderTurns
  <2> QED
    BY <2>1 DEF LlmRouterIInv, CallHolds
<1>2. ASSUME NEW o \in Orders, ReorderProviders(o) PROVE LlmRouterIInv'
  BY <1>2 DEF ReorderProviders, LlmRouterIInv, CallHolds
<1>3. ASSUME NEW c \in LlmCall, NEW p \in Provider, complete(c, p) \/ stream_complete(c, p)
      PROVE  LlmRouterIInv'
  <2>1. PICK stream \in BOOLEAN : StartCall(c, stream, _fallback_order(p))
    BY <1>3 DEF complete, stream_complete
  <2> DEFINE asked == _fallback_order(p)
             r == [at |-> "asking", stream |-> stream, order |-> asked, idx |-> 1,
                   clients |-> usable, heard |-> <<>>]
  <2>2. SetCall(c, r) /\ UNCHANGED <<order, usable, up, health>>
    BY <2>1 DEF StartCall
  <2>3. CallHolds(r)
    <3>1. DOMAIN r = CallFields /\ r.at = "asking" /\ r.heard = <<>>
      BY DEF CallFields
    <3> HIDE DEF r
    <3> QED
      BY <3>1, Silent DEF CallStates
  <2> HIDE DEF r
  <2> QED
    BY <1>0, <2>2, <2>3, LlmCallTurns
<1>4. ASSUME NEW c \in LlmCall, provider_fails(c) PROVE LlmRouterIInv'
  <2>1. llm_call[c].at = "asking" /\ UNCHANGED <<order, usable, up>> /\ health' \in [Provider -> Outcomes]
    BY <1>0, <1>4 DEF provider_fails
  <2>2. CASE llm_call[c].stream /\ llm_call[c].heard # <<>>
    <3>1. SetCall(c, [llm_call[c] EXCEPT !.at = "failed"])
      BY <1>4, <2>2 DEF provider_fails, stream_breaks
    <3> QED
      BY <1>0, <2>1, <3>1, CallEnds, LlmCallTurns
  <2>3. CASE ~(llm_call[c].stream /\ llm_call[c].heard # <<>>)
    <3>1. next_provider(c)
      BY <1>4, <2>3 DEF provider_fails, stream_breaks
    <3>2. llm_call[c].heard = <<>>
      BY <2>1, <2>3, UnderWay DEF LlmRouterIInv
    <3> QED
      BY <2>1, <3>1, <3>2, OnToTheNext
  <2> QED
    BY <2>2, <2>3
<1>5. ASSUME NEW c \in LlmCall, provider_answers(c) PROVE LlmRouterIInv'
  <2> DEFINE r == llm_call[c]
             n == [r EXCEPT !.at = "answered", !.heard = <<Asked(c)>>]
  <2>1. r.at = "asking" /\ SetCall(c, n) /\ UNCHANGED <<order, usable, up>> /\ health' \in [Provider -> Outcomes]
    BY <1>0, <1>5 DEF provider_answers, Served
  <2>2. DOMAIN r = CallFields
    BY <2>1, UnderWay DEF LlmRouterIInv
  <2>3. /\ DOMAIN n = CallFields /\ n.at = "answered" /\ n.heard = <<Asked(c)>>
        /\ n.order = r.order /\ n.idx = r.idx
    BY <2>2 DEF CallFields
  <2>4. <<Asked(c)>> \in Seq({Asked(c)})
    OBVIOUS
  <2> HIDE DEF n
  <2>5. CallHolds(n)
    BY <2>3, <2>4 DEF CallHolds, CallStates, Asked
  <2> QED
    BY <1>0, <2>1, <2>5, LlmCallTurns
<1>6. ASSUME NEW c \in LlmCall, stream_chunk(c) PROVE LlmRouterIInv'
  <2> DEFINE r == llm_call[c]
             h == Append(r.heard, Asked(c))
             n == [r EXCEPT !.heard = h]
  <2>1. r.at = "asking" /\ r.stream /\ SetCall(c, n) /\ UNCHANGED <<order, usable, up, health>>
    BY <1>6 DEF stream_chunk
  <2>2. DOMAIN r = CallFields /\ r.heard \in Seq({r.order[r.idx]})
    BY <2>1, UnderWay DEF LlmRouterIInv
  <2>3. /\ DOMAIN n = CallFields /\ n.at = "asking" /\ n.heard = h /\ n.stream
        /\ n.order = r.order /\ n.idx = r.idx
    BY <2>1, <2>2, CallChanges
  <2>4. h \in Seq({r.order[r.idx]})
    BY <2>2, Added DEF Asked
  <2> HIDE DEF n, h
  <2>5. CallHolds(n)
    BY <2>3, <2>4 DEF CallHolds, CallStates
  <2> QED
    BY <1>0, <2>1, <2>5, LlmCallTurns
<1>7. ASSUME NEW c \in LlmCall, stream_ends(c) \/ usage_not_recorded(c) PROVE LlmRouterIInv'
  <2>1. PICK a \in {"answered", "failed"} :
          /\ llm_call[c].at # "idle" /\ SetCall(c, [llm_call[c] EXCEPT !.at = a])
          /\ UNCHANGED <<order, usable, up>> /\ health' \in [Provider -> Outcomes]
    BY <1>0, <1>7 DEF stream_ends, usage_not_recorded, Served
  <2> QED
    BY <1>0, <2>1, CallEnds, LlmCallTurns
<1>8. ASSUME NEW c \in LlmCall, Returned(c) PROVE LlmRouterIInv'
  <2>1. CallHolds(NoCall)
    BY DEF CallHolds
  <2> QED
    BY <1>0, <1>8, <2>1, LlmCallTurns DEF Returned
<1>9. CASE UNCHANGED routerVars
  BY <1>9 DEF routerVars, LlmRouterIInv, CallHolds
<1> QED
  BY <1>1, <1>2, <1>3, <1>4, <1>5, <1>6, <1>7, <1>8, <1>9 DEF LlmRouterNext

\* What the invariant says of the calls and of what they have heard.
LEMMA OneVoiceFollows == ASSUME LlmRouterIInv PROVE OneVoice /\ LlmRouterTypeOK
<1>1. ASSUME NEW c \in LlmCall PROVE llm_call[c].at \in CallStates
  BY UnderWay DEF LlmRouterIInv
<1>2. ASSUME NEW c \in LlmCall, llm_call[c].at # "idle", NEW i \in DOMAIN llm_call[c].heard
      PROVE  llm_call[c].heard[i] = Asked(c)
  <2>1. llm_call[c].heard \in Seq({Asked(c)})
    BY <1>2, UnderWay DEF LlmRouterIInv, Asked
  <2> QED
    BY <1>2, <2>1, ElementOfSeq, LenProperties
<1> QED
  BY <1>1, <1>2 DEF LlmRouterIInv, OneVoice, LlmRouterTypeOK, CallStates

\* A caller hears one provider, whatever the number of providers and of calls.
THEOREM OneVoiceHolds == LlmRouterSpec => []OneVoice
BY LlmRouterStart, LlmRouterStep, OneVoiceFollows, PTL DEF LlmRouterSpec

-----------------------------------------------------------------------------
(* The sandbox.                                                            *)

SandboxSpec == SandboxInit /\ [][SandboxNext]_sandboxVars

\* What is asked and answered, and what a worker and a call hold.
Request == [caller: Caller, number: Nat, touches: Touches]
Answer == [request: Request, success: BOOLEAN]
WorkerRow == [alive: BOOLEAN, requests: Seq(Request), answers: Seq(Answer)]
BusyCall == [at: {"send", "wait"}, worker: WorkerId, request: Request]
DoneCall == [at: {"done"}, worker: WorkerId, request: Request, answer: Answer]

\* Types, in the form the steps need.
SandboxTyped ==
    /\ runtime \in {"gvisor", "process", "pool"} /\ idle \subseteq WorkerId
    /\ worker \in [WorkerId -> WorkerRow] /\ calls_made \in [Caller -> Nat]
    /\ sandbox_call \in [Caller -> {NoSandboxCall} \union BusyCall \union DoneCall]

\* A call that has a worker.
Busy(k) == k.at \in {"send", "wait"}

\* A worker in use is one call's, and not the pool's.
OwnWorker ==
    \A c \in Caller : Busy(sandbox_call[c]) =>
        /\ sandbox_call[c].worker \notin idle
        /\ \A d \in Caller \ {c} :
              Busy(sandbox_call[d]) => sandbox_call[d].worker # sandbox_call[c].worker

\* A worker with nothing to do and nothing written.
Quiet(r) == r.requests = <<>> /\ r.answers = <<>>

\* The one answer a call may find is that of its own code.
Own(k, a) == a.request = k.request /\ (a.success => k.request.touches = "nothing")

\* What lies at a worker in use: nothing, the request, or its answer.
AtWork(k, r) ==
    \/ Quiet(r)
    \/ k.at = "wait" /\ r.requests = <<k.request>> /\ r.answers = <<>>
    \/ k.at = "wait" /\ r.requests = <<>> /\ \E a \in Answer : r.answers = <<a>> /\ Own(k, a)

WorkersServe ==
    /\ \A w \in idle : Quiet(worker[w])
    /\ \A c \in Caller : Busy(sandbox_call[c]) => AtWork(sandbox_call[c], worker[sandbox_call[c].worker])

\* The inductive invariant of the sandbox.
SandboxIInv == SandboxTyped /\ OwnWorker /\ WorkersServe /\ AnswerIsOwn

\* Shapes of calls and workers.
LEMMA SandboxShapes ==
    /\ NoSandboxCall.at = "idle" /\ ~Busy(NoSandboxCall)
    /\ \A k \in BusyCall : Busy(k) /\ k.at # "done" /\ k.at # "idle"
    /\ \A k \in DoneCall : ~Busy(k) /\ k.at = "done"
    /\ \A k \in {NoSandboxCall} \union BusyCall \union DoneCall :
         /\ Busy(k) => k \in BusyCall
         /\ k.at = "done" => k \in DoneCall
         /\ k.at \in {"idle", "send", "wait", "done"}
    /\ NotStarted \in WorkerRow /\ Quiet(NotStarted) /\ Fresh \in WorkerRow /\ Quiet(Fresh)
<1>1. NoSandboxCall.at = "idle"
  BY DEF NoSandboxCall
<1>2. /\ \A k \in BusyCall : Busy(k) /\ k.at # "done" /\ k.at # "idle"
      /\ \A k \in DoneCall : ~Busy(k) /\ k.at = "done"
  BY DEF BusyCall, DoneCall, Busy
<1>3. NotStarted \in WorkerRow /\ Quiet(NotStarted) /\ Fresh \in WorkerRow /\ Quiet(Fresh)
  BY EmptySeq DEF NotStarted, Fresh, WorkerRow, Quiet
<1> QED
  BY <1>1, <1>2, <1>3 DEF Busy, BusyCall

\* Nothing has been asked; the workers of the pool are new.
LEMMA SandboxStart == ASSUME SandboxInit PROVE SandboxIInv
<1>1. 1 .. PoolSize \subseteq WorkerId
  BY SandboxAssumption DEF WorkerId
<1>2. SandboxTyped
  BY <1>1, SandboxShapes DEF SandboxInit, SandboxTyped
<1>3. WorkersServe /\ OwnWorker /\ AnswerIsOwn
  BY <1>1, SandboxShapes DEF SandboxInit, WorkersServe, OwnWorker, AnswerIsOwn
<1> QED
  BY <1>2, <1>3 DEF SandboxIInv

\* The worker that is started is one nobody uses.
LEMMA Spawned ==
    ASSUME Unstarted # {}
    PROVE  spawn_worker_process \in Unstarted
<1> DEFINE T == {MaxWorkers - w : w \in Unstarted}
<1>1. /\ T # {} /\ T \in SUBSET Nat /\ MaxWorkers \in Nat
      /\ \A n \in T : n <= MaxWorkers
  BY SandboxAssumption DEF Unstarted, WorkerId
<1>2. \E m \in T : {n \in T : n > m} = {}
  <2> HIDE DEF T
  <2> QED
    BY <1>1, Greatest
<1>3. PICK m \in T : {n \in T : n > m} = {}
  BY <1>2
<1>4. PICK w \in Unstarted : m = MaxWorkers - w
  BY <1>3
<1>5. \A v \in Unstarted : w <= v
  <2> TAKE v \in Unstarted
  <2>1. ~(MaxWorkers - v > MaxWorkers - w)
    BY <1>3, <1>4
  <2> QED
    BY <2>1, SandboxAssumption DEF Unstarted, WorkerId
<1> QED
  BY <1>5 DEF spawn_worker_process

\* A call turns to k, the calls under way keep their workers as they are, and k's worker is
\* its own and at work for it.
LEMMA SandboxTurns ==
    ASSUME SandboxIInv, NEW c \in Caller, NEW k \in {NoSandboxCall} \union BusyCall \union DoneCall,
           SetSandboxCall(c, k), UNCHANGED runtime,
           idle' \subseteq WorkerId, worker' \in [WorkerId -> WorkerRow], calls_made' \in [Caller -> Nat],
           \A w \in idle' : Quiet(worker'[w]),
           \A d \in Caller \ {c} : Busy(sandbox_call[d]) =>
               /\ sandbox_call[d].worker \notin idle'
               /\ worker'[sandbox_call[d].worker] = worker[sandbox_call[d].worker]
               /\ Busy(k) => sandbox_call[d].worker # k.worker,
           Busy(k) => k.worker \notin idle' /\ AtWork(k, worker'[k.worker]),
           k.at = "done" => Own(k, k.answer)
    PROVE  SandboxIInv'
<1>1. /\ sandbox_call' \in [Caller -> {NoSandboxCall} \union BusyCall \union DoneCall]
      /\ sandbox_call'[c] = k /\ \A d \in Caller \ {c} : sandbox_call'[d] = sandbox_call[d]
  BY DEF SandboxIInv, SandboxTyped, SetSandboxCall
<1>2. SandboxTyped'
  BY <1>1 DEF SandboxIInv, SandboxTyped
<1>3. OwnWorker'
  BY <1>1 DEF SandboxIInv, OwnWorker
<1>4. WorkersServe'
  BY <1>1 DEF SandboxIInv, WorkersServe
<1>5. AnswerIsOwn'
  BY <1>1 DEF SandboxIInv, AnswerIsOwn, Own
<1> QED
  BY <1>2, <1>3, <1>4, <1>5 DEF SandboxIInv

\* A new call: its request is its own.
LEMMA NewCall ==
    ASSUME SandboxTyped, NEW c \in Caller, NEW touches \in Touches, NEW w \in WorkerId
    PROVE  LET k == [at |-> "send", worker |-> w, request |-> NextCall(c, touches)]
           IN  k \in BusyCall /\ k.worker = w /\ k.at = "send"
BY DEF SandboxTyped, NextCall, Request, BusyCall

\* A worker has one caller, is sent one request by it, and goes back to the pool with
\* nothing left to read: every step keeps the invariant.
LEMMA SandboxStep == ASSUME SandboxIInv, [SandboxNext]_sandboxVars PROVE SandboxIInv'
<1>0. /\ runtime \in {"gvisor", "process", "pool"} /\ idle \subseteq WorkerId
      /\ worker \in [WorkerId -> WorkerRow] /\ calls_made \in [Caller -> Nat]
      /\ sandbox_call \in [Caller -> {NoSandboxCall} \union BusyCall \union DoneCall]
      /\ \A c \in Caller : Busy(sandbox_call[c]) => sandbox_call[c] \in BusyCall
      /\ \A w \in idle : Quiet(worker[w])
  BY SandboxShapes DEF SandboxIInv, SandboxTyped, WorkersServe
<1>1. ASSUME NEW c \in Caller, NEW touches \in Touches, warm_pool_execute(c, touches) PROVE SandboxIInv'
  <2>1. PICK w \in idle :
          /\ idle' = idle \ {w}
          /\ SetSandboxCall(c, [at |-> "send", worker |-> w, request |-> NextCall(c, touches)])
    BY <1>1 DEF warm_pool_execute
  <2> DEFINE k == [at |-> "send", worker |-> w, request |-> NextCall(c, touches)]
  <2>2. k \in BusyCall /\ k.worker = w
    BY <1>0, NewCall DEF SandboxIInv
  <2>3. calls_made' \in [Caller -> Nat] /\ UNCHANGED <<runtime, worker>> /\ SetSandboxCall(c, k)
    BY <1>0, <1>1, <2>1 DEF warm_pool_execute
  <2> HIDE DEF k
  <2>4. \A d \in Caller \ {c} : Busy(sandbox_call[d]) => sandbox_call[d].worker \notin idle
    BY DEF SandboxIInv, OwnWorker
  <2> QED
    BY <1>0, <2>1, <2>2, <2>3, <2>4, SandboxShapes, SandboxTurns DEF AtWork
<1>2. ASSUME NEW c \in Caller, NEW touches \in Touches,
             process_execute(c, touches) \/ gvisor_execute(c, touches)
      PROVE  SandboxIInv'
  <2> DEFINE w == spawn_worker_process
             k == [at |-> "send", worker |-> w, request |-> NextCall(c, touches)]
  <2>1. /\ worker' = [worker EXCEPT ![w] = Fresh] /\ Unstarted # {} /\ SetSandboxCall(c, k)
        /\ UNCHANGED <<runtime, idle>> /\ calls_made' \in [Caller -> Nat]
    BY <1>0, <1>2 DEF process_execute, gvisor_execute, StartOwn
  <2>2. w \in Unstarted
    BY <2>1, Spawned
  <2> HIDE DEF w
  <2>3. /\ w \in WorkerId /\ w \notin idle
        /\ \A d \in Caller : Busy(sandbox_call[d]) => sandbox_call[d].worker # w
    BY <2>2, SandboxShapes DEF Unstarted, Busy
  <2>4. k \in BusyCall /\ k.worker = w
    BY <1>0, <2>3, NewCall DEF SandboxIInv
  <2> HIDE DEF k
  <2>5. /\ worker' \in [WorkerId -> WorkerRow] /\ worker'[w] = Fresh
        /\ \A v \in WorkerId \ {w} : worker'[v] = worker[v]
    BY <1>0, <2>1, <2>3, SandboxShapes
  <2>6. \A d \in Caller : Busy(sandbox_call[d]) =>
            sandbox_call[d].worker \notin idle /\ sandbox_call[d].worker \in WorkerId
    BY <1>0 DEF SandboxIInv, OwnWorker, BusyCall
  <2> QED
    BY <1>0, <2>1, <2>3, <2>4, <2>5, <2>6, SandboxShapes, SandboxTurns DEF AtWork
<1>3. ASSUME NEW c \in Caller, send_request(c) PROVE SandboxIInv'
  <2> DEFINE k == sandbox_call[c]
             w == k.worker
  <2>1. k.at = "send" /\ UNCHANGED <<runtime, idle, calls_made>> /\ Busy(k) /\ k \in BusyCall
    BY <1>0, <1>3 DEF send_request, Busy
  <2>2. w \in WorkerId /\ w \notin idle /\ Quiet(worker[w]) /\ k.request \in Request
    BY <2>1 DEF SandboxIInv, OwnWorker, WorkersServe, AtWork, BusyCall
  <2>3. \A d \in Caller \ {c} : Busy(sandbox_call[d]) =>
            sandbox_call[d].worker \in WorkerId \ idle /\ sandbox_call[d].worker # w
    BY <1>0, <2>1 DEF SandboxIInv, OwnWorker, BusyCall
  <2>4. CASE worker[w].alive
    <3> DEFINE r == [worker[w] EXCEPT !.requests = Append(@, k.request)]
               n == [k EXCEPT !.at = "wait"]
    <3>1. worker' = [worker EXCEPT ![w] = r] /\ SetSandboxCall(c, n)
      BY <1>3, <2>4, Zenon DEF send_request
    <3>2. n \in BusyCall /\ n.worker = w /\ n.request = k.request /\ n.at = "wait"
      BY <2>1 DEF BusyCall
    <3>3. Append(worker[w].requests, k.request) = <<k.request>> /\ <<k.request>> \in Seq(Request)
      BY <2>2 DEF Quiet
    <3>4. worker[w] \in WorkerRow
      BY <1>0, <2>2
    <3>5. r \in WorkerRow /\ r.requests = <<k.request>> /\ r.answers = <<>>
      BY <2>2, <3>3, <3>4, Zenon DEF WorkerRow, Quiet
    <3> HIDE DEF r, n
    <3>6. /\ worker' \in [WorkerId -> WorkerRow] /\ worker'[w] = r
          /\ \A v \in WorkerId \ {w} : worker'[v] = worker[v]
      BY <1>0, <2>2, <3>1, <3>5
    <3>7. AtWork(n, worker'[n.worker]) /\ Busy(n) /\ n.at # "done"
      BY <3>2, <3>5, <3>6, SandboxShapes DEF AtWork
    <3> QED
      BY <1>0, <2>1, <2>2, <2>3, <3>1, <3>2, <3>6, <3>7, SandboxTurns
  <2>5. CASE ~worker[w].alive
    <3>1. SetSandboxCall(c, NoSandboxCall) /\ UNCHANGED worker
      BY <1>3, <2>5 DEF send_request
    <3> QED
      BY <1>0, <2>1, <2>3, <3>1, SandboxShapes, SandboxTurns
  <2> QED
    BY <2>4, <2>5
<1>4. ASSUME NEW c \in Caller, send_request_answered(c) PROVE SandboxIInv'
  <2> DEFINE k == sandbox_call[c]
             w == k.worker
             a == Head(worker[w].answers)
             n == [at |-> "done", worker |-> w, request |-> k.request, answer |-> a]
  <2>1. /\ k.at = "wait" /\ UNCHANGED <<runtime, calls_made>> /\ worker[w].answers # <<>> /\ SetSandboxCall(c, n)
        /\ IF runtime = "pool"
           THEN /\ idle' = idle \union {w}
                /\ worker' = [worker EXCEPT ![w] = [worker[w] EXCEPT !.answers = Tail(@)]]
           ELSE worker' = [worker EXCEPT ![w] = NotStarted] /\ UNCHANGED idle
    BY <1>4, Zenon DEF send_request_answered, terminate_worker
  <2>2. Busy(k) /\ k \in BusyCall
    BY <1>0, <2>1 DEF Busy
  <2>3. w \in WorkerId /\ w \notin idle /\ k.request \in Request /\ AtWork(k, worker[w])
    BY <2>2 DEF SandboxIInv, OwnWorker, WorkersServe, BusyCall
  <2>4. PICK b \in Answer : worker[w].requests = <<>> /\ worker[w].answers = <<b>> /\ Own(k, b)
    BY <2>1, <2>3 DEF AtWork, Quiet
  <2>5. a = b /\ Tail(worker[w].answers) = <<>>
    BY <2>4
  <2>6. n \in DoneCall /\ n.answer = b /\ n.request = k.request
    BY <2>3, <2>5 DEF DoneCall
  <2> HIDE DEF n
  <2>7. n.at = "done" /\ ~Busy(n) /\ Own(n, n.answer)
    BY <2>4, <2>6, SandboxShapes DEF Own
  <2>8. \A d \in Caller \ {c} : Busy(sandbox_call[d]) =>
            sandbox_call[d].worker \in WorkerId \ idle /\ sandbox_call[d].worker # w
    BY <1>0, <2>2 DEF SandboxIInv, OwnWorker, BusyCall
  <2>9. /\ worker' \in [WorkerId -> WorkerRow] /\ Quiet(worker'[w]) /\ idle' \subseteq idle \union {w}
        /\ \A v \in WorkerId \ {w} : worker'[v] = worker[v]
    <3>1. CASE runtime = "pool"
      <4> DEFINE r == [worker[w] EXCEPT !.answers = Tail(worker[w].answers)]
      <4>1. worker[w] \in WorkerRow /\ <<>> \in Seq(Answer)
        BY <1>0, <2>3, EmptySeq
      <4>2. r \in WorkerRow /\ r.requests = <<>> /\ r.answers = <<>>
        BY <2>4, <2>5, <4>1, Zenon DEF WorkerRow
      <4>3. worker' = [worker EXCEPT ![w] = r] /\ idle' = idle \union {w}
        BY <2>1, <3>1
      <4> HIDE DEF r
      <4> QED
        BY <1>0, <2>3, <4>2, <4>3 DEF Quiet
    <3>2. CASE runtime # "pool"
      BY <1>0, <2>1, <2>3, <3>2, SandboxShapes
    <3> QED
      BY <3>1, <3>2
  <2>10. /\ idle' \subseteq WorkerId /\ \A v \in idle' : Quiet(worker'[v])
         /\ \A d \in Caller \ {c} : Busy(sandbox_call[d]) =>
               /\ sandbox_call[d].worker \notin idle'
               /\ worker'[sandbox_call[d].worker] = worker[sandbox_call[d].worker]
    BY <1>0, <2>3, <2>8, <2>9
  <2> QED
    BY <1>0, <2>1, <2>6, <2>7, <2>9, <2>10, SandboxTurns
<1>5. ASSUME NEW c \in Caller, send_request_failed(c) PROVE SandboxIInv'
  <2> DEFINE k == sandbox_call[c]
             w == k.worker
             v == spawn_worker_process
  <2>1. /\ k.at = "wait" /\ UNCHANGED <<runtime, calls_made>> /\ SetSandboxCall(c, NoSandboxCall)
        /\ \/ /\ Unstarted # {} /\ idle' = idle \union {v}
              /\ worker' = [[worker EXCEPT ![w] = NotStarted] EXCEPT ![v] = Fresh]
           \/ worker' = [worker EXCEPT ![w] = NotStarted] /\ UNCHANGED idle
    BY <1>5 DEF send_request_failed, replace_worker, terminate_worker
  <2>2. Busy(k) /\ k \in BusyCall
    BY <1>0, <2>1 DEF Busy
  <2>3. w \in WorkerId /\ w \notin idle
    BY <2>2 DEF SandboxIInv, OwnWorker, BusyCall
  <2>4. \A d \in Caller \ {c} : Busy(sandbox_call[d]) =>
            sandbox_call[d].worker \in WorkerId \ idle /\ sandbox_call[d].worker # w
    BY <1>0, <2>2 DEF SandboxIInv, OwnWorker, BusyCall
  <2>5. CASE /\ Unstarted # {} /\ idle' = idle \union {v}
             /\ worker' = [[worker EXCEPT ![w] = NotStarted] EXCEPT ![v] = Fresh]
    <3>1. v \in Unstarted
      BY <2>5, Spawned
    <3> HIDE DEF v
    <3>2. v \in WorkerId /\ \A d \in Caller : Busy(sandbox_call[d]) => sandbox_call[d].worker # v
      BY <3>1, SandboxShapes DEF Unstarted, Busy
    <3>3. /\ worker' \in [WorkerId -> WorkerRow] /\ worker'[v] = Fresh
          /\ \A u \in WorkerId \ {v, w} : worker'[u] = worker[u]
      BY <1>0, <2>3, <2>5, <3>2, SandboxShapes
    <3>4. idle' \subseteq WorkerId /\ \A u \in idle' : Quiet(worker'[u])
      BY <1>0, <2>3, <2>5, <3>2, <3>3, SandboxShapes
    <3> QED
      BY <1>0, <2>1, <2>4, <2>5, <3>2, <3>3, <3>4, SandboxShapes, SandboxTurns
  <2>6. CASE worker' = [worker EXCEPT ![w] = NotStarted] /\ UNCHANGED idle
    <3>1. /\ worker' \in [WorkerId -> WorkerRow]
          /\ \A u \in WorkerId \ {w} : worker'[u] = worker[u]
      BY <1>0, <2>3, <2>6, SandboxShapes
    <3>2. \A u \in idle' : Quiet(worker'[u])
      BY <1>0, <2>3, <2>6, <3>1
    <3> QED
      BY <1>0, <2>1, <2>4, <2>6, <3>1, <3>2, SandboxShapes, SandboxTurns
  <2> QED
    BY <2>1, <2>5, <2>6
<1>6. ASSUME NEW c \in Caller, CallerGoesOn(c) PROVE SandboxIInv'
  <2>1. SetSandboxCall(c, NoSandboxCall) /\ UNCHANGED <<runtime, idle, worker, calls_made>>
    BY <1>6 DEF CallerGoesOn
  <2>2. \A d \in Caller \ {c} : Busy(sandbox_call[d]) => sandbox_call[d].worker \notin idle
    BY DEF SandboxIInv, OwnWorker
  <2> QED
    BY <1>0, <2>1, <2>2, SandboxShapes, SandboxTurns
<1>7. ASSUME NEW w \in WorkerId, run_one(w) PROVE SandboxIInv'
  <2> DEFINE q == Head(worker[w].requests)
  <2>1. PICK ok \in {FALSE, check_ast(q) /\ _resolve_confined(q)} :
          worker' = [worker EXCEPT ![w].requests = Tail(@),
                                   ![w].answers = Append(@, [request |-> q, success |-> ok])]
    BY <1>7 DEF run_one
  <2>2. worker[w].requests # <<>> /\ UNCHANGED <<runtime, idle, sandbox_call, calls_made>>
    BY <1>7 DEF run_one
  <2> DEFINE e == [request |-> q, success |-> ok]
             r == [worker[w] EXCEPT !.requests = Tail(@), !.answers = Append(@, e)]
  <2>3. worker' = [worker EXCEPT ![w] = r]
    BY <2>1, Zenon
  <2>4. /\ worker[w] \in WorkerRow /\ worker[w].requests \in Seq(Request) /\ worker[w].answers \in Seq(Answer)
        /\ q \in Request /\ Tail(worker[w].requests) \in Seq(Request)
    BY <1>0, <2>2, HeadTailProperties DEF WorkerRow
  <2>5. e \in Answer /\ (e.success => q.touches = "nothing") /\ e.request = q
    <3>1. ok \in BOOLEAN /\ (ok => q.touches = "nothing")
      BY <2>1, <2>4 DEF check_ast, _resolve_confined, Request, Touches
    <3> QED
      BY <2>4, <3>1 DEF Answer
  <2> HIDE DEF e
  <2>6. Append(worker[w].answers, e) \in Seq(Answer)
    BY <2>4, <2>5, Added
  <2>7. /\ r \in WorkerRow /\ r.requests = Tail(worker[w].requests)
        /\ r.answers = Append(worker[w].answers, e)
    BY <2>4, <2>6, Zenon DEF WorkerRow
  <2> HIDE DEF r
  <2>8. /\ worker' \in [WorkerId -> WorkerRow] /\ worker'[w] = r
        /\ \A v \in WorkerId \ {w} : worker'[v] = worker[v]
    BY <1>0, <2>3, <2>7
  <2>9. ASSUME NEW c \in Caller, Busy(sandbox_call[c]), sandbox_call[c].worker = w
        PROVE  AtWork(sandbox_call[c], r)
    <3> DEFINE k == sandbox_call[c]
    <3>1. AtWork(k, worker[w])
      BY <2>9 DEF SandboxIInv, WorkersServe
    <3>2. k.at = "wait" /\ worker[w].requests = <<k.request>> /\ worker[w].answers = <<>>
      BY <2>2, <3>1 DEF AtWork, Quiet
    <3>3. q = k.request /\ r.requests = <<>> /\ r.answers = <<e>>
      BY <2>7, <3>2
    <3>4. Own(k, e)
      BY <2>5, <3>3 DEF Own
    <3> QED
      BY <2>5, <3>2, <3>3, <3>4 DEF AtWork
  <2>10. WorkersServe'
    <3>1. w \notin idle
      BY <1>0, <2>2 DEF Quiet
    <3>2. \A v \in idle : Quiet(worker'[v])
      BY <1>0, <2>8, <3>1
    <3>3. ASSUME NEW c \in Caller, Busy(sandbox_call[c])
          PROVE  AtWork(sandbox_call[c], worker'[sandbox_call[c].worker])
      <4>1. sandbox_call[c].worker \in WorkerId /\ AtWork(sandbox_call[c], worker[sandbox_call[c].worker])
        BY <1>0, <3>3 DEF SandboxIInv, WorkersServe, BusyCall
      <4> QED
        BY <2>8, <2>9, <3>3, <4>1
    <3> QED
      BY <2>2, <3>2, <3>3 DEF WorkersServe
  <2>11. SandboxTyped' /\ OwnWorker' /\ AnswerIsOwn'
    BY <2>2, <2>8 DEF SandboxIInv, SandboxTyped, OwnWorker, AnswerIsOwn
  <2> QED
    BY <2>10, <2>11 DEF SandboxIInv
<1>8. ASSUME NEW w \in WorkerId, WorkerDies(w) PROVE SandboxIInv'
  <2> DEFINE r == [worker[w] EXCEPT !.alive = FALSE, !.requests = <<>>]
  <2>1. worker' = [worker EXCEPT ![w] = r] /\ UNCHANGED <<runtime, idle, sandbox_call, calls_made>>
    BY <1>8, Zenon DEF WorkerDies
  <2>2. worker[w] \in WorkerRow /\ <<>> \in Seq(Request)
    BY <1>0, EmptySeq
  <2>3. r \in WorkerRow /\ r.requests = <<>> /\ r.answers = worker[w].answers
    BY <2>2, Zenon DEF WorkerRow
  <2> HIDE DEF r
  <2>4. /\ worker' \in [WorkerId -> WorkerRow] /\ worker'[w] = r
        /\ \A v \in WorkerId \ {w} : worker'[v] = worker[v]
    BY <1>0, <2>1, <2>3
  <2>5. Quiet(worker[w]) => Quiet(r)
    BY <2>3 DEF Quiet
  <2>6. \A k : AtWork(k, worker[w]) => AtWork(k, r)
    BY <2>3, <2>5 DEF AtWork, Quiet
  <2>7. WorkersServe'
    <3>1. \A v \in idle : Quiet(worker'[v])
      BY <1>0, <2>4, <2>5
    <3>2. ASSUME NEW c \in Caller, Busy(sandbox_call[c])
          PROVE  AtWork(sandbox_call[c], worker'[sandbox_call[c].worker])
      <4>1. sandbox_call[c].worker \in WorkerId /\ AtWork(sandbox_call[c], worker[sandbox_call[c].worker])
        BY <1>0, <3>2 DEF SandboxIInv, WorkersServe, BusyCall
      <4> QED
        BY <2>4, <2>6, <4>1
    <3> QED
      BY <2>1, <3>1, <3>2 DEF WorkersServe
  <2>8. SandboxTyped' /\ OwnWorker' /\ AnswerIsOwn'
    BY <2>1, <2>4 DEF SandboxIInv, SandboxTyped, OwnWorker, AnswerIsOwn
  <2> QED
    BY <2>7, <2>8 DEF SandboxIInv
<1>9. CASE shutdown
  <2>1. /\ UNCHANGED <<runtime, sandbox_call, calls_made>> /\ idle' = {}
        /\ worker' \in [WorkerId -> WorkerRow]
        /\ \A w \in WorkerId \ idle : worker'[w] = worker[w]
    BY <1>0, <1>9, SandboxShapes DEF shutdown
  <2>2. \A c \in Caller : Busy(sandbox_call[c]) => sandbox_call[c].worker \in WorkerId \ idle
    BY <1>0 DEF SandboxIInv, OwnWorker, BusyCall
  <2>3. SandboxTyped' /\ OwnWorker' /\ AnswerIsOwn'
    BY <2>1 DEF SandboxIInv, SandboxTyped, OwnWorker, AnswerIsOwn
  <2>4. WorkersServe'
    BY <2>1, <2>2 DEF SandboxIInv, WorkersServe
  <2> QED
    BY <2>3, <2>4 DEF SandboxIInv
<1>10. CASE UNCHANGED sandboxVars
  <2>1. UNCHANGED <<runtime, idle, worker, sandbox_call, calls_made>>
    BY <1>10 DEF sandboxVars
  <2>2. SandboxTyped' /\ OwnWorker' /\ AnswerIsOwn' /\ WorkersServe'
    BY <2>1 DEF SandboxIInv, SandboxTyped, OwnWorker, AnswerIsOwn, WorkersServe
  <2> QED
    BY <2>2 DEF SandboxIInv
<1> QED
  BY <1>1, <1>2, <1>3, <1>4, <1>5, <1>6, <1>7, <1>8, <1>9, <1>10 DEF SandboxNext

\* What the invariant says of the calls and of the workers.
LEMMA SandboxFollows == ASSUME SandboxIInv PROVE AnswerIsOwn /\ SandboxTypeOK
<1>1. \A w \in WorkerId : worker[w].alive \in BOOLEAN
  BY DEF SandboxIInv, SandboxTyped, WorkerRow
<1>2. \A c \in Caller : sandbox_call[c].at \in {"idle", "send", "wait", "done"}
  BY SandboxShapes DEF SandboxIInv, SandboxTyped
<1> QED
  BY <1>1, <1>2 DEF SandboxIInv, SandboxTyped, SandboxTypeOK

\* A call is answered by its own code, however many callers, calls and workers there are.
THEOREM AnswerIsOwnHolds == SandboxSpec => []AnswerIsOwn
BY SandboxStart, SandboxStep, SandboxFollows, PTL DEF SandboxSpec

-----------------------------------------------------------------------------
(* Plans.  First what the ancestors of a task are: the set that            *)
(* AddDependencies reaches after as many rounds as there are keys is       *)
(* closed, and lies in every closed set.                                   *)

\* One round more than h has run: it starts with the dependencies of k.
Rounds(h, n, g, k) ==
    /\ h \in [0 .. n -> SUBSET TaskKey] /\ h[0] = Range(_direct_deps(g)[k])
    /\ \A i \in 1 .. n : h[i] = AddDependencies(g, h[i - 1])

\* The keys of a plan and their dependencies.
LEMMA PlanFacts ==
    ASSUME NEW g \in Proposals
    PROVE  /\ g \in Seq(TaskSpec) /\ Keys(g) \subseteq TaskKey
           /\ \A k \in Keys(g) : LastOf(g, k) \in DOMAIN g /\ g[LastOf(g, k)].key = k
           /\ DOMAIN _direct_deps(g) = Keys(g)
           /\ \A k \in Keys(g) : _direct_deps(g)[k] = g[LastOf(g, k)].depends_on
           /\ \A k \in Keys(g) : Range(_direct_deps(g)[k]) \subseteq TaskKey
<1>1. g \in Seq(TaskSpec) /\ DOMAIN g = 1 .. Len(g) /\ Len(g) \in Nat
  BY ProposalsAssumption, LenProperties
<1>2. \A i \in DOMAIN g : g[i] \in TaskSpec
  BY <1>1, ElementOfSeq
<1>3. Keys(g) \subseteq TaskKey
  BY <1>2 DEF Keys, TaskSpec
<1>4. ASSUME NEW k \in Keys(g)
      PROVE  LastOf(g, k) \in DOMAIN g /\ g[LastOf(g, k)].key = k
  <2> DEFINE S == {i \in DOMAIN g : g[i].key = k}
  <2>1. S # {} /\ S \in SUBSET Nat /\ \A i \in S : i <= Len(g)
    BY <1>1 DEF Keys
  <2>2. \E m \in S : {c \in S : c > m} = {}
    <3> HIDE DEF S
    <3> QED
      BY <1>1, <2>1, Greatest
  <2>3. PICK m \in S : {c \in S : c > m} = {}
    BY <2>2
  <2>4. m \in DOMAIN g /\ g[m].key = k /\ \A j \in m + 1 .. Len(g) : g[j].key # k
    BY <1>1, <2>3
  <2> QED
    BY <2>4 DEF LastOf
<1>5. \A k \in Keys(g) : Range(g[LastOf(g, k)].depends_on) \subseteq TaskKey
  <2> TAKE k \in Keys(g)
  <2>1. g[LastOf(g, k)].depends_on \in Seq(TaskKey)
    BY <1>2, <1>4 DEF TaskSpec
  <2> QED
    BY <2>1, ElementOfSeq, LenProperties DEF Range
<1> QED
  BY <1>1, <1>3, <1>4, <1>5 DEF _direct_deps

\* A round adds keys and takes none away.
LEMMA RoundAdds ==
    ASSUME NEW g \in Proposals, NEW S \in SUBSET TaskKey
    PROVE  AddDependencies(g, S) \in SUBSET TaskKey /\ S \subseteq AddDependencies(g, S)
BY PlanFacts DEF AddDependencies

\* The rounds can be run, in one way: the recursion of Seen defines what it seems to define.
LEMMA SeenIs ==
    ASSUME NEW g \in Proposals, NEW k \in Keys(g)
    PROVE  /\ Seen(g, k) \in [Nat -> SUBSET TaskKey]
           /\ Seen(g, k)[0] = Range(_direct_deps(g)[k])
           /\ \A n \in Nat : Seen(g, k)[n + 1] = AddDependencies(g, Seen(g, k)[n])
<1> DEFINE a == Range(_direct_deps(g)[k])
<1>0. a \in SUBSET TaskKey
  BY PlanFacts
<1>1. \A n \in Nat : \E h : Rounds(h, n, g, k)
  <2> DEFINE T == {n \in Nat : \E h : Rounds(h, n, g, k)}
  <2>1. 0 \in T
    <3>1. Rounds([i \in 0 .. 0 |-> a], 0, g, k)
      BY <1>0 DEF Rounds
    <3> QED
      BY <3>1
  <2>2. ASSUME NEW n \in T PROVE n + 1 \in T
    <3>1. PICK h : Rounds(h, n, g, k)
      BY <2>2
    <3> DEFINE e == [i \in 0 .. n + 1 |-> IF i = n + 1 THEN AddDependencies(g, h[n]) ELSE h[i]]
    <3>2. h[n] \in SUBSET TaskKey /\ h[0] = a
      BY <3>1 DEF Rounds
    <3>3. e \in [0 .. n + 1 -> SUBSET TaskKey] /\ e[0] = a
      BY <3>1, <3>2, RoundAdds DEF Rounds
    <3>4. ASSUME NEW i \in 1 .. n + 1 PROVE e[i] = AddDependencies(g, e[i - 1])
      <4>1. CASE i = n + 1
        <5>1. e[i] = AddDependencies(g, h[n]) /\ e[i - 1] = h[n]
          BY <4>1
        <5> QED
          BY <5>1
      <4>2. CASE i # n + 1
        <5>1. i \in 1 .. n /\ e[i] = h[i] /\ e[i - 1] = h[i - 1]
          BY <4>2
        <5> QED
          BY <3>1, <5>1 DEF Rounds
      <4> QED
        BY <4>1, <4>2
    <3> HIDE DEF e
    <3>5. Rounds(e, n + 1, g, k)
      BY <3>3, <3>4 DEF Rounds
    <3> QED
      BY <3>5
  <2>3. T = Nat
    <3>1. T \in SUBSET Nat
      OBVIOUS
    <3> HIDE DEF T
    <3> QED
      BY <2>1, <2>2, <3>1, SetInduction
  <2> QED
    BY <2>3
<1>2. \A n \in Nat : \A p, q \in Nat : \A h, e :
        n <= p /\ n <= q /\ Rounds(h, p, g, k) /\ Rounds(e, q, g, k) => h[n] = e[n]
  <2> DEFINE T == {n \in Nat : \A p, q \in Nat : \A h, e :
                    n <= p /\ n <= q /\ Rounds(h, p, g, k) /\ Rounds(e, q, g, k) => h[n] = e[n]}
  <2>1. 0 \in T
    BY DEF Rounds
  <2>2. ASSUME NEW n \in T PROVE n + 1 \in T
    <3>1. ASSUME NEW p \in Nat, NEW q \in Nat, NEW h, NEW e, n + 1 <= p, n + 1 <= q,
                 Rounds(h, p, g, k), Rounds(e, q, g, k)
          PROVE  h[n + 1] = e[n + 1]
      <4>1. n <= p /\ n <= q /\ n + 1 \in 1 .. p /\ n + 1 \in 1 .. q /\ (n + 1) - 1 = n
        BY <3>1
      <4>2. h[n] = e[n]
        BY <2>2, <3>1, <4>1
      <4>3. h[n + 1] = AddDependencies(g, h[n]) /\ e[n + 1] = AddDependencies(g, e[n])
        BY <3>1, <4>1 DEF Rounds
      <4> QED
        BY <4>2, <4>3
    <3> QED
      BY <3>1
  <2>3. T = Nat
    <3>1. T \in SUBSET Nat
      OBVIOUS
    <3> HIDE DEF T
    <3> QED
      BY <2>1, <2>2, <3>1, SetInduction
  <2> QED
    BY <2>3
<1> DEFINE H(n) == CHOOSE h : Rounds(h, n, g, k)
           f == [n \in Nat |-> H(n)[n]]
<1>3. \A n \in Nat : Rounds(H(n), n, g, k)
  BY <1>1
<1> HIDE DEF H
<1>4. f[0] = a /\ f \in [Nat -> SUBSET TaskKey]
  BY <1>3 DEF Rounds
<1>5. \A n \in Nat : f[n + 1] = AddDependencies(g, f[n])
  <2> TAKE n \in Nat
  <2>1. n + 1 \in Nat /\ n + 1 \in 1 .. n + 1 /\ (n + 1) - 1 = n /\ n <= n + 1 /\ n <= n
    OBVIOUS
  <2>2. H(n + 1)[n + 1] = AddDependencies(g, H(n + 1)[n])
    BY <1>3, <2>1 DEF Rounds
  <2>3. H(n + 1)[n] = H(n)[n]
    BY <1>2, <1>3, <2>1
  <2> QED
    BY <2>1, <2>2, <2>3
<1> HIDE DEF f
<1>6. f = [n \in Nat |-> IF n = 0 THEN a ELSE AddDependencies(g, f[n - 1])]
  <2>1. ASSUME NEW n \in Nat PROVE f[n] = IF n = 0 THEN a ELSE AddDependencies(g, f[n - 1])
    <3>1. CASE n = 0
      BY <1>4, <3>1
    <3>2. CASE n # 0
      <4>1. n - 1 \in Nat /\ (n - 1) + 1 = n
        BY <3>2
      <4>2. f[(n - 1) + 1] = AddDependencies(g, f[n - 1])
        BY <1>5, <4>1
      <4> QED
        BY <3>2, <4>1, <4>2
    <3> QED
      BY <3>1, <3>2
  <2> QED
    BY <1>4, <2>1
<1>7. Seen(g, k) = CHOOSE seen : seen = [n \in Nat |-> IF n = 0 THEN a ELSE AddDependencies(g, seen[n - 1])]
  BY Zenon DEF Seen
<1> DEFINE s == Seen(g, k)
<1>8. s = [n \in Nat |-> IF n = 0 THEN a ELSE AddDependencies(g, s[n - 1])]
  BY <1>6, <1>7, Zenon
<1> HIDE DEF a, s
<1>9. s[0] = a
  BY <1>8
<1>10. \A n \in Nat : s[n + 1] = AddDependencies(g, s[n])
  <2> TAKE n \in Nat
  <2>1. n + 1 \in Nat /\ n + 1 # 0 /\ (n + 1) - 1 = n
    OBVIOUS
  <2> QED
    BY <1>8, <2>1
<1>11. s \in [Nat -> SUBSET TaskKey]
  <2> DEFINE T == {n \in Nat : s[n] \in SUBSET TaskKey}
  <2>1. 0 \in T
    BY <1>0, <1>9
  <2>2. ASSUME NEW n \in T PROVE n + 1 \in T
    <3>1. s[n + 1] = AddDependencies(g, s[n]) /\ n + 1 \in Nat
      BY <1>10, <2>2
    <3> QED
      BY <2>2, <3>1, RoundAdds
  <2>3. T = Nat
    <3>1. T \in SUBSET Nat
      OBVIOUS
    <3> HIDE DEF T
    <3> QED
      BY <2>1, <2>2, <3>1, SetInduction
  <2>4. \A n \in Nat : s[n] \in SUBSET TaskKey
    BY <2>3
  <2> QED
    BY <1>8, <2>4
<1> QED
  BY <1>9, <1>10, <1>11 DEF s, a

\* The ancestors lie in every closed set of keys that holds the task.
LEMMA AncestorsInside ==
    ASSUME NEW g \in Proposals, NEW k \in Keys(g), NEW S \in SUBSET Keys(g), k \in S,
           \A m \in S : Range(_direct_deps(g)[m]) \subseteq S
    PROVE  _ancestors(g, k) \subseteq S
<1> DEFINE T == {n \in Nat : Seen(g, k)[n] \subseteq S}
<1>1. 0 \in T
  BY SeenIs
<1>2. ASSUME NEW n \in T PROVE n + 1 \in T
  <2>1. Seen(g, k)[n + 1] = AddDependencies(g, Seen(g, k)[n]) /\ n + 1 \in Nat
    BY <1>2, SeenIs
  <2>2. Seen(g, k)[n] \subseteq S
    BY <1>2
  <2> QED
    BY <2>1, <2>2 DEF AddDependencies
<1>3. T = Nat
  <2>1. T \in SUBSET Nat
    OBVIOUS
  <2> HIDE DEF T
  <2> QED
    BY <1>1, <1>2, <2>1, SetInduction
<1>4. Cardinality(TaskKey) \in Nat
  BY ProposalsAssumption, FS_CardinalityType
<1> QED
  BY <1>3, <1>4 DEF _ancestors

\* The ancestors of a task hold its dependencies, and theirs: while a round adds a key, n
\* rounds reach n keys, and there are no more keys than rounds.
LEMMA AncestorsClosed ==
    ASSUME NEW g \in Proposals, NEW k \in Keys(g)
    PROVE  /\ Range(_direct_deps(g)[k]) \subseteq _ancestors(g, k)
           /\ AddDependencies(g, _ancestors(g, k)) = _ancestors(g, k)
<1> DEFINE s == Seen(g, k)
           N == Cardinality(TaskKey)
<1>1. /\ s \in [Nat -> SUBSET TaskKey] /\ s[0] = Range(_direct_deps(g)[k])
      /\ \A n \in Nat : s[n + 1] = AddDependencies(g, s[n])
  BY SeenIs
<1>2. N \in Nat /\ IsFiniteSet(TaskKey)
  BY ProposalsAssumption, FS_CardinalityType
<1>3. \A n \in Nat : s[n] \subseteq s[n + 1] /\ s[n] \in SUBSET TaskKey
  BY <1>1, RoundAdds
<1>4. _ancestors(g, k) = s[N]
  BY DEF _ancestors
<1> HIDE DEF s, N
<1>5. \A n \in Nat : s[0] \subseteq s[n]
  <2> DEFINE T == {n \in Nat : s[0] \subseteq s[n]}
  <2>1. 0 \in T
    OBVIOUS
  <2>2. ASSUME NEW n \in T PROVE n + 1 \in T
    <3>1. n \in Nat /\ n + 1 \in Nat /\ s[0] \subseteq s[n]
      BY <2>2
    <3> QED
      BY <1>3, <3>1
  <2>3. T = Nat
    <3>1. T \in SUBSET Nat
      OBVIOUS
    <3> HIDE DEF T
    <3> QED
      BY <2>1, <2>2, <3>1, SetInduction
  <2> QED
    BY <2>3
<1>6. ASSUME s[N + 1] # s[N] PROVE FALSE
  \* Had a round added nothing, none after it would have.
  <2>1. ASSUME NEW m \in Nat, m <= N, s[m + 1] = s[m] PROVE FALSE
    <3> DEFINE T == {n \in Nat : s[m + n] = s[m] /\ s[m + n + 1] = s[m]}
    <3>1. 0 \in T
      BY <2>1
    <3>2. ASSUME NEW n \in T PROVE n + 1 \in T
      <4>1. /\ n \in Nat /\ s[m + n + 1] = s[m] /\ m + n \in Nat /\ (m + n) + 1 \in Nat
            /\ m + (n + 1) = (m + n) + 1 /\ s[m + n] = s[m]
        BY <3>2
      <4>2. s[((m + n) + 1) + 1] = AddDependencies(g, s[(m + n) + 1]) /\ s[(m + n) + 1] = AddDependencies(g, s[m + n])
        BY <1>1, <4>1
      <4>3. s[((m + n) + 1) + 1] = s[m]
        BY <4>1, <4>2
      <4> QED
        BY <4>1, <4>3
    <3>3. T = Nat
      <4>1. T \in SUBSET Nat
        OBVIOUS
      <4> HIDE DEF T
      <4> QED
        BY <3>1, <3>2, <4>1, SetInduction
    <3>4. N - m \in T /\ m + (N - m) = N /\ m + (N - m) + 1 = N + 1
      <4>1. N - m \in Nat /\ m + (N - m) = N /\ m + (N - m) + 1 = N + 1
        BY ONLY <1>2, m \in Nat, m <= N
      <4> HIDE DEF T
      <4> QED
        BY <3>3, <4>1
    <3>5. s[m + (N - m)] = s[m] /\ s[m + (N - m) + 1] = s[m]
      BY <3>4
    <3>6. s[N] = s[m] /\ s[N + 1] = s[m]
      BY <3>4, <3>5
    <3> QED
      BY <1>6, <3>6
  <2>2. \A n \in Nat : n <= N + 1 => IsFiniteSet(s[n]) /\ Cardinality(s[n]) \in Nat /\ n <= Cardinality(s[n])
    <3>0. \A n \in Nat : IsFiniteSet(s[n]) /\ Cardinality(s[n]) \in Nat
      BY <1>2, <1>3, FS_Subset, FS_CardinalityType
    <3> DEFINE T == {n \in Nat : n <= N + 1 => n <= Cardinality(s[n])}
    <3>1. 0 \in T
      BY <3>0
    <3>2. ASSUME NEW n \in T PROVE n + 1 \in T
      <4> SUFFICES ASSUME n + 1 <= N + 1 PROVE n + 1 <= Cardinality(s[n + 1])
        BY <3>2
      <4>1. n \in Nat /\ n + 1 \in Nat /\ n <= N /\ n <= N + 1
        BY <1>2, <3>2
      <4>2. n <= Cardinality(s[n])
        BY <3>2, <4>1
      <4>3. s[n] \subseteq s[n + 1] /\ s[n] # s[n + 1]
        BY <1>3, <2>1, <4>1
      <4>4. Cardinality(s[n]) <= Cardinality(s[n + 1]) /\ Cardinality(s[n + 1]) # Cardinality(s[n])
        BY <3>0, <4>1, <4>3, FS_Subset
      <4> QED
        BY <3>0, <4>1, <4>2, <4>4
    <3>3. T = Nat
      <4>1. T \in SUBSET Nat
        OBVIOUS
      <4> HIDE DEF T
      <4> QED
        BY <3>1, <3>2, <4>1, SetInduction
    <3> QED
      BY <3>0, <3>3
  <2>3. N + 1 \in Nat /\ s[N + 1] \in SUBSET TaskKey
    <3>1. N + 1 \in Nat
      BY ONLY <1>2
    <3> QED
      BY <1>3, <3>1
  <2>4. Cardinality(s[N + 1]) <= N
    BY <1>2, <2>3, FS_Subset DEF N
  <2>5. N + 1 <= Cardinality(s[N + 1]) /\ Cardinality(s[N + 1]) \in Nat
    BY <2>2, <2>3
  <2> QED
    BY <1>2, <2>4, <2>5
<1>7. s[N + 1] = AddDependencies(g, s[N])
  BY <1>1, <1>2
<1> QED
  BY <1>1, <1>2, <1>4, <1>5, <1>6, <1>7

\* The plan a run is started with.
PlanSpec == PlanGraphInit /\ [][PlanGraphNext]_planGraphVars

\* A plan whose names are its own: a key names one task, and every dependency is a task.
LEMMA NamesAreOwn ==
    ASSUME NEW g \in Proposals, NameErrors(g) = {}
    PROVE  /\ \A i, j \in DOMAIN g : g[i].key = g[j].key => i = j
           /\ \A i \in DOMAIN g : _direct_deps(g)[g[i].key] = g[i].depends_on
           /\ \A k \in Keys(g) : Range(_direct_deps(g)[k]) \subseteq Keys(g)
<1>1. g \in Seq(TaskSpec) /\ DOMAIN g = 1 .. Len(g) /\ Len(g) \in Nat
  BY PlanFacts, LenProperties
<1>2. Cardinality(Keys(g)) = Len(g) /\ \A i \in DOMAIN g : Range(g[i].depends_on) \subseteq Keys(g)
  <2>1. "duplicate_key" \notin NameErrors(g) /\ "unknown_task" \notin NameErrors(g)
    OBVIOUS
  <2> QED
    BY <2>1 DEF NameErrors
<1>3. \A i, j \in DOMAIN g : g[i].key = g[j].key => i = j
  <2> DEFINE f == [i \in 1 .. Len(g) |-> g[i].key]
  <2>1. f \in Surjection(1 .. Len(g), Keys(g))
    BY <1>1 DEF Surjection, Keys
  <2>2. IsFiniteSet(1 .. Len(g)) /\ Cardinality(1 .. Len(g)) = Len(g)
    BY <1>1, FS_Interval
  <2> HIDE DEF f
  <2>3. f \in Injection(1 .. Len(g), Keys(g))
    BY <1>2, <2>1, <2>2, FS_Surjection
  <2>4. \A i, j \in 1 .. Len(g) : f[i] = f[j] => i = j
    BY <2>3 DEF Injection, IsInjective
  <2> QED
    BY <1>1, <2>4 DEF f
<1>4. \A i \in DOMAIN g : g[i].key \in Keys(g) /\ _direct_deps(g)[g[i].key] = g[i].depends_on
  <2> TAKE i \in DOMAIN g
  <2>1. g[i].key \in Keys(g)
    BY DEF Keys
  <2>2. LastOf(g, g[i].key) \in DOMAIN g /\ g[LastOf(g, g[i].key)].key = g[i].key
    BY <2>1, PlanFacts
  <2>3. LastOf(g, g[i].key) = i
    BY <1>3, <2>2
  <2> QED
    BY <2>1, <2>3, PlanFacts
<1>5. ASSUME NEW k \in Keys(g) PROVE Range(_direct_deps(g)[k]) \subseteq Keys(g)
  <2>1. PICK i \in DOMAIN g : g[i].key = k
    BY DEF Keys
  <2> QED
    BY <1>2, <1>4, <2>1
<1> QED
  BY <1>3, <1>4, <1>5

\* What a task of the plan depends on.
Dep(k) == Range(_direct_deps(proposal)[k])

\* What a task waits for is what it depends on.
LEMMA WaitsAre ==
    ASSUME proposal \in Proposals, NameErrors(proposal) = {}, NEW k \in Keys(proposal)
    PROVE  Waits(k) = Dep(k)
<1>1. PICK i \in DOMAIN proposal : proposal[i].key = k
  BY DEF Keys
<1>2. Dep(k) = Range(proposal[i].depends_on)
  BY <1>1, NamesAreOwn DEF Dep
<1>3. ASSUME NEW d \in Waits(k) PROVE d \in Dep(k)
  <2>1. PICK e \in Edges(proposal) : e[1] = k /\ d = e[2]
    BY <1>3 DEF Waits
  <2>2. PICK j \in DOMAIN proposal : e \in {<<proposal[j].key, c>> : c \in Range(proposal[j].depends_on)}
    BY <2>1 DEF Edges
  <2>3. PICK c \in Range(proposal[j].depends_on) : e = <<proposal[j].key, c>>
    BY <2>2
  <2>4. proposal[j].key = k /\ d = c
    BY <2>1, <2>3
  <2>5. j = i
    BY <1>1, <2>4, NamesAreOwn
  <2> QED
    BY <1>2, <2>4, <2>5
<1>4. ASSUME NEW d \in Dep(k) PROVE d \in Waits(k)
  <2> DEFINE e == <<proposal[i].key, d>>
  <2>1. e \in {<<proposal[i].key, c>> : c \in Range(proposal[i].depends_on)}
    BY <1>2, <1>4
  <2>2. e \in Edges(proposal)
    BY <2>1 DEF Edges
  <2>3. e[1] = k /\ e[2] = d
    BY <1>1
  <2> QED
    BY <2>2, <2>3 DEF Waits
<1> QED
  BY <1>3, <1>4

\* A safety order that is kept, or not, by the ancestors is kept, or not, by every order of
\* running the tasks.
LEMMA OrderIsKept ==
    ASSUME proposal \in Proposals, NameErrors(proposal) = {}
    PROVE  _check_safety_order(proposal) = {} <=> ~OutOfOrder
<1> DEFINE g == proposal
           Broken(i, j) == /\ Rank(g[i]) > 0 /\ Rank(g[i]) < Rank(g[j])
                           /\ g[i].key \notin _ancestors(g, g[j].key)
<1>1. \A i, j \in DOMAIN g : g[i].key \in Keys(g) /\ g[j].key \in Keys(g)
  BY DEF Keys
<1>2. _check_safety_order(g) = {} <=> ~(\E i, j \in DOMAIN g : Broken(i, j))
  BY DEF _check_safety_order
<1>3. ASSUME NEW i \in DOMAIN g, NEW j \in DOMAIN g, Broken(i, j) PROVE OutOfOrder
  <2> DEFINE A == _ancestors(g, g[j].key)
             S == {g[j].key} \union A
  <2>1. A \subseteq Keys(g)
    <3>1. \A m \in Keys(g) : Range(_direct_deps(g)[m]) \subseteq Keys(g)
      BY NamesAreOwn
    <3> QED
      BY <1>1, <3>1, AncestorsInside
  <2>2. /\ Range(_direct_deps(g)[g[j].key]) \subseteq A
        /\ AddDependencies(g, A) = A
    BY <1>1, AncestorsClosed
  <2>3. \A k \in A : Range(_direct_deps(g)[k]) \subseteq A
    BY <2>1, <2>2 DEF AddDependencies
  <2>4. \A k \in S : Waits(k) \subseteq S
    BY <1>1, <2>1, <2>2, <2>3, WaitsAre DEF Dep
  <2>5. g[i].key \notin S
    <3>1. Rank(g[i]) \in Nat
      BY DEF Rank, SAFETY_ORDER, Range
    <3>2. i # j
      BY <1>3, <3>1
    <3>3. g[i].key # g[j].key
      BY <3>2, NamesAreOwn
    <3> QED
      BY <1>3, <3>3
  <2>6. S \in SUBSET Keys(g) /\ g[j].key \in S
    BY <1>1, <2>1
  <2> HIDE DEF S
  <2> QED
    BY <1>3, <2>4, <2>5, <2>6 DEF OutOfOrder
<1>4. ASSUME OutOfOrder PROVE \E i, j \in DOMAIN g : Broken(i, j)
  <2>1. PICK S \in SUBSET Keys(g), i \in DOMAIN g, j \in DOMAIN g :
           /\ \A k \in S : Waits(k) \subseteq S
           /\ Rank(g[i]) > 0 /\ Rank(g[i]) < Rank(g[j])
           /\ g[j].key \in S /\ g[i].key \notin S
    BY <1>4 DEF OutOfOrder
  <2>2. \A m \in S : Range(_direct_deps(g)[m]) \subseteq S
    BY <2>1, WaitsAre DEF Dep
  <2>3. _ancestors(g, g[j].key) \subseteq S
    BY <1>1, <2>1, <2>2, AncestorsInside
  <2> QED
    BY <2>1, <2>3
<1> QED
  BY <1>2, <1>3, <1>4

\* A call of visit.
Frame == [node: TaskKey, rest: Seq(TaskKey)]

\* Types, in the form the steps need.
PlanTyped ==
    /\ plan_at \in {"asked", "names", "cycle", "order", "accepted", "rejected", "materialised", "failed"}
    /\ plan_at # "asked" => proposal \in Proposals
    /\ plan_errors \subseteq {"duplicate_key", "unknown_capability", "unknown_task", "cycle", "safety_order"}
    /\ color \in [TaskKey -> {"white", "gray", "black"}]
    /\ frames \in Seq(Frame) /\ \A i \in DOMAIN frames : frames[i].node \in Keys(proposal)
    /\ task_row \in [TaskKey -> {"absent", "pending", "ready"}]
    /\ dependency_row \subseteq TaskKey \X TaskKey

\* Nothing is visited before the names have been checked.
NotVisited ==
    plan_at \in {"asked", "names"} => /\ plan_errors = {} /\ frames = <<>>
                                      /\ \A k \in TaskKey : color[k] = "white"

\* The calls under way are a path through the plan, and the gray tasks are theirs.  A
\* dependency of a call's task is done, still to be looked at, or the call it has made.
OnThePath(i) ==
    /\ color[frames[i].node] = "gray"
    /\ Range(frames[i].rest) \subseteq Dep(frames[i].node)
    /\ \A d \in Dep(frames[i].node) : \/ color[d] = "black" \/ d \in Range(frames[i].rest)
                                      \/ i > 1 /\ d = frames[i - 1].node
    /\ i > 1 => frames[i - 1].node \in Dep(frames[i].node)
\* So for every call, and no task is called twice.
GrayIsPath ==
    /\ \A i \in DOMAIN frames : OnThePath(i)
    /\ \A i, j \in DOMAIN frames : frames[i].node = frames[j].node => i = j
    /\ \A k \in Keys(proposal) : color[k] = "gray" => \E i \in DOMAIN frames : frames[i].node = k

\* The black tasks depend on black ones alone, and no set of them waits in a circle.
BlackIsDone ==
    /\ \A k \in Keys(proposal) : color[k] = "black" => \A d \in Dep(k) : color[d] = "black"
    /\ \A S \in (SUBSET Keys(proposal)) \ {{}} :
         (\A k \in S : color[k] = "black") => \E k \in S : Dep(k) \cap S = {}

\* The facts of the search while it runs, on a plan whose names are its own.
Searching ==
    plan_at = "cycle" => /\ NameErrors(proposal) = {} /\ plan_errors = {}
                         /\ GrayIsPath /\ BlackIsDone

\* What the search leaves to the check of the order.
Searched ==
    plan_at = "order" => (plan_errors = {} <=> NameErrors(proposal) = {} /\ ~CircularWait)

\* The inductive invariant of the plan.
PlanIInv == PlanTyped /\ NotVisited /\ Searching /\ Searched /\ PlanVerdict

\* Nothing has been asked for.
LEMMA PlanStart == ASSUME PlanGraphInit PROVE PlanIInv
<1>1. PlanTyped
  BY EmptySeq DEF PlanGraphInit, PlanTyped
<1> QED
  BY <1>1 DEF PlanGraphInit, PlanIInv, NotVisited, Searching, Searched, PlanVerdict

\* A call's list of what it has still to look at.
LEMMA RestIs ==
    ASSUME NEW S, NEW r \in Seq(S), r # <<>>
    PROVE  /\ Head(r) \in S /\ Tail(r) \in Seq(S) /\ Range(r) = {Head(r)} \union Range(Tail(r))
<1>1. /\ Head(r) \in S /\ Tail(r) \in Seq(S) /\ Len(Tail(r)) = Len(r) - 1
      /\ \A i \in 1 .. Len(Tail(r)) : Tail(r)[i] = r[i + 1]
  BY HeadTailProperties
<1>2. /\ Len(r) \in Nat \ {0} /\ DOMAIN r = 1 .. Len(r) /\ DOMAIN Tail(r) = 1 .. Len(r) - 1
      /\ r[1] = Head(r)
  BY <1>1, LenProperties, EmptySeq
<1>3. ASSUME NEW x \in Range(r) PROVE x = Head(r) \/ x \in Range(Tail(r))
  <2>1. PICK i \in 1 .. Len(r) : x = r[i]
    BY <1>2, <1>3 DEF Range
  <2>2. CASE i = 1
    BY <1>2, <2>1, <2>2
  <2>3. CASE i # 1
    <3>1. i - 1 \in 1 .. Len(r) - 1 /\ (i - 1) + 1 = i
      BY <1>2, <2>1, <2>3
    <3>2. Tail(r)[i - 1] = r[i] /\ i - 1 \in DOMAIN Tail(r)
      BY <1>1, <1>2, <3>1
    <3> QED
      BY <2>1, <3>2 DEF Range
  <2> QED
    BY <2>2, <2>3
<1>4. ASSUME NEW x \in Range(Tail(r)) PROVE x \in Range(r)
  <2>1. PICK i \in 1 .. Len(r) - 1 : x = Tail(r)[i]
    BY <1>2, <1>4 DEF Range
  <2>2. i + 1 \in DOMAIN r /\ r[i + 1] = x
    BY <1>1, <1>2, <2>1
  <2> QED
    BY <2>2 DEF Range
<1>5. Head(r) \in Range(r)
  <2>1. 1 \in DOMAIN r
    BY <1>2
  <2> QED
    BY <1>2, <2>1 DEF Range
<1> QED
  BY <1>1, <1>3, <1>4, <1>5

\* The stack of calls when the innermost one goes on, makes a call or returns.
LEMMA StackTurns ==
    ASSUME NEW S, NEW s \in Seq(S), s # <<>>, NEW x \in S, NEW y \in S
    PROVE  /\ Tail(s) \in Seq(S) /\ DOMAIN s = 1 .. Len(s) /\ Len(s) \in Nat \ {0} /\ s[1] = Head(s)
           /\ DOMAIN Tail(s) = 1 .. Len(s) - 1 /\ \A i \in 1 .. Len(s) - 1 : Tail(s)[i] = s[i + 1]
           /\ <<x>> \o Tail(s) \in Seq(S) /\ DOMAIN (<<x>> \o Tail(s)) = 1 .. Len(s)
           /\ (<<x>> \o Tail(s))[1] = x
           /\ \A i \in 2 .. Len(s) : (<<x>> \o Tail(s))[i] = s[i]
           /\ <<x, y>> \o Tail(s) \in Seq(S) /\ DOMAIN (<<x, y>> \o Tail(s)) = 1 .. Len(s) + 1
           /\ (<<x, y>> \o Tail(s))[1] = x /\ (<<x, y>> \o Tail(s))[2] = y
           /\ \A i \in 3 .. Len(s) + 1 : (<<x, y>> \o Tail(s))[i] = s[i - 1]
<1>1. /\ Tail(s) \in Seq(S) /\ Len(Tail(s)) = Len(s) - 1 /\ Len(s) \in Nat \ {0} /\ s[1] = Head(s)
      /\ DOMAIN Tail(s) = 1 .. Len(s) - 1 /\ \A i \in 1 .. Len(s) - 1 : Tail(s)[i] = s[i + 1]
      /\ DOMAIN s = 1 .. Len(s)
  BY HeadTailProperties, LenProperties, EmptySeq
<1>2. /\ <<x>> \in Seq(S) /\ Len(<<x>>) = 1 /\ <<x>>[1] = x
      /\ <<x, y>> \in Seq(S) /\ Len(<<x, y>>) = 2 /\ <<x, y>>[1] = x /\ <<x, y>>[2] = y
  OBVIOUS
<1>3. /\ <<x>> \o Tail(s) \in Seq(S) /\ Len(<<x>> \o Tail(s)) = Len(s)
      /\ \A i \in 1 .. Len(s) : (<<x>> \o Tail(s))[i] = IF i <= 1 THEN <<x>>[i] ELSE Tail(s)[i - 1]
  BY <1>1, <1>2, ConcatProperties
<1>4. /\ <<x, y>> \o Tail(s) \in Seq(S) /\ Len(<<x, y>> \o Tail(s)) = Len(s) + 1
      /\ \A i \in 1 .. Len(s) + 1 : (<<x, y>> \o Tail(s))[i] = IF i <= 2 THEN <<x, y>>[i] ELSE Tail(s)[i - 2]
  BY <1>1, <1>2, ConcatProperties
<1>5. /\ (<<x>> \o Tail(s))[1] = x /\ DOMAIN (<<x>> \o Tail(s)) = 1 .. Len(s)
      /\ \A i \in 2 .. Len(s) : (<<x>> \o Tail(s))[i] = s[i]
  <2>1. ASSUME NEW i \in 2 .. Len(s) PROVE (<<x>> \o Tail(s))[i] = s[i]
    <3>1. i - 1 \in 1 .. Len(s) - 1 /\ (i - 1) + 1 = i /\ i \in 1 .. Len(s) /\ ~(i <= 1)
      BY <1>1
    <3> QED
      BY <1>1, <1>3, <3>1
  <2> QED
    BY <1>1, <1>2, <1>3, <2>1, LenProperties
<1>6. /\ (<<x, y>> \o Tail(s))[1] = x /\ (<<x, y>> \o Tail(s))[2] = y
      /\ DOMAIN (<<x, y>> \o Tail(s)) = 1 .. Len(s) + 1
      /\ \A i \in 3 .. Len(s) + 1 : (<<x, y>> \o Tail(s))[i] = s[i - 1]
  <2>1. ASSUME NEW i \in 3 .. Len(s) + 1 PROVE (<<x, y>> \o Tail(s))[i] = s[i - 1]
    <3>1. i - 2 \in 1 .. Len(s) - 1 /\ (i - 2) + 1 = i - 1 /\ i \in 1 .. Len(s) + 1 /\ ~(i <= 2)
      BY <1>1
    <3> QED
      BY <1>1, <1>4, <3>1
  <2> QED
    BY <1>1, <1>2, <1>4, <2>1, LenProperties
<1> QED
  BY <1>1, <1>3, <1>4, <1>5, <1>6

\* A call that waits for a gray task closes a circle: the calls from that task inwards.
LEMMA CircleClosed ==
    ASSUME PlanTyped, proposal \in Proposals, NameErrors(proposal) = {}, GrayIsPath,
           frames # <<>>, NEW d \in Dep(frames[1].node), d \in Keys(proposal), color[d] = "gray"
    PROVE  CircularWait
<1>1. DOMAIN frames = 1 .. Len(frames) /\ Len(frames) \in Nat \ {0}
  BY LenProperties, EmptySeq DEF PlanTyped
<1>2. PICK j \in DOMAIN frames : frames[j].node = d
  BY DEF GrayIsPath
<1> DEFINE S == {frames[i].node : i \in 1 .. j}
<1>3. \A i \in 1 .. j : i \in DOMAIN frames /\ frames[i].node \in Keys(proposal)
  BY <1>1 DEF PlanTyped
<1>4. S \in (SUBSET Keys(proposal)) \ {{}}
  <2>1. 1 \in 1 .. j
    BY <1>1, <1>2
  <2>2. frames[1].node \in S
    BY <2>1
  <2> QED
    BY <1>3, <2>2
<1>5. ASSUME NEW k \in S PROVE Waits(k) \cap S # {}
  <2>1. PICK i \in 1 .. j : k = frames[i].node
    BY <1>5
  <2>2. Waits(k) = Dep(k)
    BY <1>3, <2>1, WaitsAre
  <2>3. CASE i = 1
    <3>1. d \in S /\ d \in Dep(k)
      BY <1>1, <1>2, <2>1, <2>3
    <3> QED
      BY <2>2, <3>1
  <2>4. CASE i # 1
    <3>1. i - 1 \in 1 .. j /\ i > 1
      BY <1>1, <2>1, <2>4
    <3>2. frames[i - 1].node \in Dep(frames[i].node)
      BY <1>3, <3>1 DEF GrayIsPath, OnThePath
    <3> QED
      BY <2>1, <2>2, <3>1, <3>2
  <2> QED
    BY <2>3, <2>4
<1> HIDE DEF S
<1> QED
  BY <1>4, <1>5 DEF CircularWait

\* When every task is black none waits in a circle.
LEMMA NoCircle ==
    ASSUME proposal \in Proposals, NameErrors(proposal) = {}, BlackIsDone,
           \A k \in Keys(proposal) : color[k] = "black"
    PROVE  ~CircularWait
<1> SUFFICES ASSUME CircularWait PROVE FALSE
  OBVIOUS
<1>1. PICK S \in (SUBSET Keys(proposal)) \ {{}} : \A k \in S : Waits(k) \cap S # {}
  BY DEF CircularWait
<1>2. PICK k \in S : Dep(k) \cap S = {}
  BY <1>1 DEF BlackIsDone
<1>3. Waits(k) = Dep(k)
  BY <1>1, <1>2, WaitsAre
<1> QED
  BY <1>1, <1>2, <1>3

\* A step of the search leaves the plan and what was written.
LEMMA SearchGoesOn ==
    ASSUME PlanIInv, plan_at = "cycle",
           UNCHANGED <<proposal, plan_at, plan_errors, task_row, dependency_row>>,
           color' \in [TaskKey -> {"white", "gray", "black"}], frames' \in Seq(Frame),
           \A i \in DOMAIN frames' : frames'[i].node \in Keys(proposal),
           GrayIsPath', BlackIsDone'
    PROVE  PlanIInv'
<1>1. PlanTyped'
  BY DEF PlanIInv, PlanTyped
<1>2. Searching'
  BY DEF PlanIInv, Searching
<1> QED
  BY <1>1, <1>2 DEF PlanIInv, NotVisited, Searched, PlanVerdict

\* The two facts of the search after a step, in the terms of before it.
LEMMA PathAfter ==
    ASSUME UNCHANGED proposal,
           \A i \in DOMAIN frames' :
              /\ color'[frames'[i].node] = "gray"
              /\ Range(frames'[i].rest) \subseteq Dep(frames'[i].node)
              /\ \A d \in Dep(frames'[i].node) : \/ color'[d] = "black" \/ d \in Range(frames'[i].rest)
                                                 \/ i > 1 /\ d = frames'[i - 1].node
              /\ i > 1 => frames'[i - 1].node \in Dep(frames'[i].node),
           \A i, j \in DOMAIN frames' : frames'[i].node = frames'[j].node => i = j,
           \A k \in Keys(proposal) : color'[k] = "gray" => \E i \in DOMAIN frames' : frames'[i].node = k
    PROVE  GrayIsPath'
BY DEF GrayIsPath, OnThePath, Dep

\* A step that turns no task black leaves the black ones as they were.
LEMMA BlackStays ==
    ASSUME UNCHANGED proposal, BlackIsDone, \A k \in Keys(proposal) : Dep(k) \subseteq Keys(proposal),
           \A k \in Keys(proposal) : color'[k] = "black" <=> color[k] = "black"
    PROVE  BlackIsDone'
<1>1. \A k \in Keys(proposal) : color'[k] = "black" => \A d \in Dep(k) : color'[d] = "black"
  BY DEF BlackIsDone
<1>2. \A S \in (SUBSET Keys(proposal)) \ {{}} :
         (\A k \in S : color'[k] = "black") => \E k \in S : Dep(k) \cap S = {}
  BY DEF BlackIsDone
<1> QED
  BY <1>1, <1>2 DEF BlackIsDone, Dep

\* Each step of planner_fn, validate_plan_graph and _materialize_tasks keeps the invariant.
LEMMA PlanStep == ASSUME PlanIInv, [PlanGraphNext]_planGraphVars PROVE PlanIInv'
<1>1. CASE planner_fn
  <2>1. /\ plan_at' = "names" /\ proposal' \in Proposals /\ plan_errors' = {} /\ frames' = <<>>
        /\ UNCHANGED <<color, task_row, dependency_row>> /\ \A k \in TaskKey : color[k] = "white"
    BY <1>1 DEF planner_fn, PlanIInv, NotVisited
  <2>2. PlanTyped'
    BY <2>1, EmptySeq DEF PlanIInv, PlanTyped
  <2> QED
    BY <2>1, <2>2 DEF PlanIInv, NotVisited, Searching, Searched, PlanVerdict
<1>2. CASE validate_names
  <2>1. /\ plan_at = "names" /\ plan_errors' = NameErrors(proposal) /\ proposal \in Proposals
        /\ plan_at' = (IF plan_errors' = {} THEN "cycle" ELSE "order") /\ frames = <<>>
        /\ UNCHANGED <<proposal, color, frames, task_row, dependency_row>>
        /\ \A k \in TaskKey : color[k] = "white"
    BY <1>2 DEF validate_names, PlanIInv, PlanTyped, NotVisited
  <2>2. PlanTyped'
    BY <2>1 DEF PlanIInv, PlanTyped, NameErrors
  <2>3. \A k \in Keys(proposal) : color[k] = "white"
    BY <2>1, PlanFacts
  <2>4. GrayIsPath' /\ BlackIsDone'
    <3>1. UNCHANGED <<proposal, color, frames>> /\ frames = <<>>
      BY <2>1
    <3>2. GrayIsPath
      BY <2>3, <3>1 DEF GrayIsPath
    <3>3. BlackIsDone
      BY <2>3 DEF BlackIsDone
    <3> QED
      BY <3>1, <3>2, <3>3 DEF GrayIsPath, BlackIsDone, OnThePath, Dep
  <2>5. NotVisited' /\ Searching' /\ Searched'
    BY <2>1, <2>4 DEF NotVisited, Searching, Searched
  <2> QED
    BY <2>1, <2>2, <2>5 DEF PlanIInv, PlanVerdict
<1>3. CASE _has_cycle
  <2>1. /\ plan_at = "cycle" /\ proposal \in Proposals /\ NameErrors(proposal) = {} /\ plan_errors = {}
        /\ GrayIsPath /\ BlackIsDone /\ PlanTyped
    BY <1>3 DEF _has_cycle, visit_from, visit, visit_returns, no_cycle, PlanIInv, PlanTyped, Searching
  <2>2. /\ color \in [TaskKey -> {"white", "gray", "black"}] /\ frames \in Seq(Frame)
        /\ \A i \in DOMAIN frames : frames[i].node \in Keys(proposal)
        /\ Keys(proposal) \subseteq TaskKey
        /\ \A k \in Keys(proposal) : Dep(k) \subseteq Keys(proposal)
    BY <2>1, PlanFacts, NamesAreOwn DEF PlanTyped, Dep
  <2>3. ASSUME NEW i \in DOMAIN proposal, visit_from(i) PROVE PlanIInv'
    <3> DEFINE k == proposal[i].key
               f == [node |-> k, rest |-> proposal[i].depends_on]
    <3>1. /\ frames = <<>> /\ color[k] = "white" /\ frames' = <<f>> /\ color' = [color EXCEPT ![k] = "gray"]
          /\ UNCHANGED <<proposal, plan_at, plan_errors, task_row, dependency_row>>
      BY <2>3 DEF visit_from, White
    <3>2. k \in Keys(proposal) /\ Dep(k) = Range(proposal[i].depends_on) /\ proposal[i].depends_on \in Seq(TaskKey)
      <4>1. proposal[i] \in TaskSpec
        BY <2>1, PlanFacts, ElementOfSeq, LenProperties
      <4> QED
        BY <2>1, <4>1, NamesAreOwn DEF Keys, Dep, TaskSpec
    <3>3. f \in Frame /\ f.node = k /\ Range(f.rest) = Dep(k)
      BY <2>2, <3>2 DEF Frame
    <3> HIDE DEF f
    <3>4. frames' \in Seq(Frame) /\ DOMAIN frames' = {1} /\ frames'[1] = f
      BY <3>1, <3>3
    <3>5. /\ color'[k] = "gray" /\ \A m \in TaskKey \ {k} : color'[m] = color[m]
          /\ color' \in [TaskKey -> {"white", "gray", "black"}]
      BY <2>2, <3>1, <3>2
    <3>6. BlackIsDone'
      BY <2>1, <2>2, <3>1, <3>2, <3>5, BlackStays
    <3>7. \A m \in Keys(proposal) : color'[m] = "gray" => m = k
      BY <2>1, <2>2, <3>1, <3>5 DEF GrayIsPath
    <3>8. GrayIsPath'
      BY <3>1, <3>3, <3>4, <3>5, <3>7, PathAfter
    <3> QED
      BY <2>1, <3>1, <3>2, <3>3, <3>4, <3>5, <3>6, <3>8, SearchGoesOn
  <2>4. CASE visit
    <3> DEFINE top == Head(frames)
               nxt == Head(top.rest)
               here == [top EXCEPT !.rest = Tail(@)]
               call == [node |-> nxt, rest |-> _direct_deps(proposal)[nxt]]
    <3>1. frames # <<>> /\ top.rest # <<>> /\ UNCHANGED <<proposal, task_row, dependency_row>>
      BY <2>4 DEF visit
    <3>2. top \in Frame /\ top = frames[1] /\ 1 \in DOMAIN frames /\ DOMAIN frames = 1 .. Len(frames) /\ Len(frames) \in Nat
      BY <2>2, <3>1, StackTurns, HeadTailProperties
    <3>3. top.rest \in Seq(TaskKey)
      BY <3>2 DEF Frame
    <3>4. nxt \in TaskKey /\ Tail(top.rest) \in Seq(TaskKey) /\ Range(top.rest) = {nxt} \union Range(Tail(top.rest))
      BY <3>1, <3>3, RestIs
    <3>5. here \in Frame /\ here.node = top.node /\ here.rest = Tail(top.rest)
      BY <3>2, <3>4 DEF Frame
    <3>6. OnThePath(1) /\ top.node \in Keys(proposal)
      BY <2>1, <2>2, <3>2 DEF GrayIsPath
    <3>7. nxt \in Dep(top.node) /\ nxt \in Keys(proposal)
      BY <2>2, <3>2, <3>4, <3>6 DEF OnThePath
    <3> HIDE DEF here, top, nxt
    <3>8. CASE /\ color[nxt] = "gray" /\ plan_errors' = plan_errors \union {"cycle"} /\ plan_at' = "order"
               /\ UNCHANGED <<color, frames>>
      <4>1. CircularWait
        BY <2>1, <3>1, <3>2, <3>7, <3>8, CircleClosed
      <4>2. CircularWait'
        BY <3>1, <4>1 DEF CircularWait, Waits
      <4>3. PlanTyped'
        BY <2>1, <3>1, <3>8 DEF PlanTyped
      <4> QED
        BY <3>8, <4>2, <4>3 DEF PlanIInv, NotVisited, Searching, Searched, PlanVerdict
    <3>9. CASE /\ color[nxt] = "white" /\ color' = [color EXCEPT ![nxt] = "gray"]
               /\ frames' = <<call, here>> \o Tail(frames)
               /\ UNCHANGED <<plan_at, plan_errors>>
      <4>1. call \in Frame /\ call.node = nxt /\ Range(call.rest) = Dep(nxt)
        <5>1. _direct_deps(proposal)[nxt] \in Seq(TaskKey)
          <6>1. PICK i \in DOMAIN proposal : proposal[i].key = nxt
            BY <3>7 DEF Keys
          <6>2. proposal[i] \in TaskSpec
            BY <2>1, PlanFacts, ElementOfSeq, LenProperties
          <6> QED
            BY <2>1, <6>1, <6>2, NamesAreOwn DEF TaskSpec
        <5> QED
          BY <3>4, <5>1 DEF Frame, Dep
      <4> HIDE DEF call
      <4>2. /\ frames' \in Seq(Frame) /\ DOMAIN frames' = 1 .. Len(frames) + 1
            /\ frames'[1] = call /\ frames'[2] = here
            /\ \A i \in 3 .. Len(frames) + 1 : frames'[i] = frames[i - 1]
        BY <2>2, <3>1, <3>5, <3>9, <4>1, StackTurns
      <4>3. /\ color'[nxt] = "gray" /\ \A m \in TaskKey \ {nxt} : color'[m] = color[m]
            /\ color' \in [TaskKey -> {"white", "gray", "black"}]
        BY <2>2, <3>4, <3>9
      <4>4. BlackIsDone'
        BY <2>1, <2>2, <3>1, <3>7, <3>9, <4>3, BlackStays
      <4>5. \A i \in 2 .. Len(frames) + 1 : i - 1 \in DOMAIN frames /\ frames'[i].node = frames[i - 1].node
        BY <3>2, <3>5, <4>2
      <4>6. \A i \in DOMAIN frames : frames[i].node # nxt /\ color'[frames[i].node] = "gray" /\ color[frames[i].node] = "gray"
        <5> TAKE i \in DOMAIN frames
        <5>1. color[frames[i].node] = "gray" /\ frames[i].node \in TaskKey
          BY <2>1, <2>2 DEF GrayIsPath, OnThePath
        <5> QED
          BY <3>9, <4>3, <5>1
      <4>7. \A d \in TaskKey : color[d] = "black" => color'[d] = "black"
        BY <3>9, <4>3
      <4>8. ASSUME NEW i \in DOMAIN frames'
            PROVE  /\ color'[frames'[i].node] = "gray"
                   /\ Range(frames'[i].rest) \subseteq Dep(frames'[i].node)
                   /\ \A d \in Dep(frames'[i].node) : \/ color'[d] = "black" \/ d \in Range(frames'[i].rest)
                                                      \/ i > 1 /\ d = frames'[i - 1].node
                   /\ i > 1 => frames'[i - 1].node \in Dep(frames'[i].node)
        <5>1. CASE i = 1
          BY <4>1, <4>2, <4>3, <5>1
        <5>2. CASE i = 2
          <6>1. frames'[i] = here /\ frames'[i].node = top.node /\ frames'[i - 1].node = nxt /\ i > 1
            BY <3>5, <4>1, <4>2, <5>2
          <6>2. color'[top.node] = "gray"
            BY <3>2, <4>6
          <6>3. /\ Range(here.rest) \subseteq Dep(top.node)
                /\ \A d \in Dep(top.node) : color[d] = "black" \/ d \in Range(here.rest) \/ d = nxt
            BY <3>2, <3>4, <3>5, <3>6 DEF OnThePath
          <6>4. \A d \in Dep(top.node) : d \in TaskKey
            BY <2>2, <3>6
          <6> QED
            BY <3>7, <4>7, <6>1, <6>2, <6>3, <6>4
        <5>3. CASE i > 2
          <6>1. /\ i \in 3 .. Len(frames) + 1 /\ i - 1 \in DOMAIN frames /\ i - 1 > 1 /\ i > 1
                /\ i - 1 \in 2 .. Len(frames) + 1 /\ (i - 1) - 1 = i - 2
            BY <3>2, <4>2, <5>3
          <6>2. frames'[i] = frames[i - 1] /\ frames'[i - 1].node = frames[(i - 1) - 1].node
            BY <4>2, <4>5, <6>1
          <6>3. OnThePath(i - 1)
            BY <2>1, <6>1 DEF GrayIsPath
          <6>4. \A d \in Dep(frames[i - 1].node) : d \in TaskKey
            BY <2>2, <6>1
          <6> QED
            BY <4>6, <4>7, <6>1, <6>2, <6>3, <6>4 DEF OnThePath
        <5> QED
          BY <3>2, <4>2, <5>1, <5>2, <5>3
      <4>9. ASSUME NEW i \in DOMAIN frames', NEW j \in DOMAIN frames', frames'[i].node = frames'[j].node
            PROVE  i = j
        <5>1. \A m \in DOMAIN frames' : m # 1 => m \in 2 .. Len(frames) + 1
          BY <3>2, <4>2
        <5>2. \A m \in DOMAIN frames' : m # 1 => frames'[m].node # nxt
          BY <4>5, <4>6, <5>1
        <5>3. CASE i # 1 /\ j # 1
          <6>1. /\ i - 1 \in DOMAIN frames /\ j - 1 \in DOMAIN frames
                /\ frames[i - 1].node = frames[j - 1].node
            BY <4>5, <4>9, <5>1, <5>3
          <6>2. i - 1 = j - 1
            BY <2>1, <6>1 DEF GrayIsPath
          <6> QED
            BY <3>2, <4>2, <6>2
        <5>4. frames'[1].node = nxt
          BY <4>1, <4>2
        <5> QED
          BY <4>9, <5>2, <5>3, <5>4
      <4>10. ASSUME NEW k \in Keys(proposal), color'[k] = "gray" PROVE \E i \in DOMAIN frames' : frames'[i].node = k
        <5>1. CASE k = nxt
          <6>1. 1 \in DOMAIN frames' /\ frames'[1].node = k
            BY <3>2, <4>1, <4>2, <5>1
          <6> QED
            BY <6>1
        <5>2. CASE k # nxt
          <6>1. color[k] = "gray"
            BY <2>2, <4>3, <4>10, <5>2
          <6>2. PICK i \in DOMAIN frames : frames[i].node = k
            BY <2>1, <6>1 DEF GrayIsPath
          <6>3. i + 1 \in DOMAIN frames' /\ i + 1 \in 2 .. Len(frames) + 1 /\ (i + 1) - 1 = i
            BY <3>2, <4>2
          <6>4. frames'[i + 1].node = k
            BY <4>5, <6>2, <6>3
          <6> QED
            BY <6>3, <6>4
        <5> QED
          BY <5>1, <5>2
      <4>11. GrayIsPath'
        BY <3>1, <4>8, <4>9, <4>10, PathAfter
      <4>12. \A i \in DOMAIN frames' : frames'[i].node \in Keys(proposal)
        <5> TAKE i \in DOMAIN frames'
        <5>1. CASE i = 1
          BY <3>7, <4>1, <4>2, <5>1
        <5>2. CASE i # 1
          <6>1. i \in 2 .. Len(frames) + 1
            BY <3>2, <4>2, <5>2
          <6> QED
            BY <2>2, <4>5, <6>1
        <5> QED
          BY <5>1, <5>2
      <4> QED
        BY <2>1, <3>1, <3>9, <4>2, <4>3, <4>4, <4>11, <4>12, SearchGoesOn
    <3>10. CASE /\ color[nxt] = "black" /\ frames' = <<here>> \o Tail(frames)
                /\ UNCHANGED <<color, plan_at, plan_errors>>
      <4>1. /\ frames' \in Seq(Frame) /\ DOMAIN frames' = 1 .. Len(frames) /\ frames'[1] = here
            /\ \A i \in 2 .. Len(frames) : frames'[i] = frames[i]
        BY <2>2, <3>1, <3>5, <3>10, StackTurns
      <4>2. \A i \in DOMAIN frames' : i \in DOMAIN frames /\ frames'[i].node = frames[i].node
        <5> TAKE i \in DOMAIN frames'
        <5>1. CASE i = 1
          BY <3>2, <3>5, <4>1, <5>1
        <5>2. CASE i # 1
          <6>1. i \in 2 .. Len(frames)
            BY <3>2, <4>1, <5>2
          <6> QED
            BY <3>2, <4>1, <6>1
        <5> QED
          BY <5>1, <5>2
      <4>3. ASSUME NEW i \in DOMAIN frames'
            PROVE  /\ color'[frames'[i].node] = "gray"
                   /\ Range(frames'[i].rest) \subseteq Dep(frames'[i].node)
                   /\ \A d \in Dep(frames'[i].node) : \/ color'[d] = "black" \/ d \in Range(frames'[i].rest)
                                                      \/ i > 1 /\ d = frames'[i - 1].node
                   /\ i > 1 => frames'[i - 1].node \in Dep(frames'[i].node)
        <5>1. OnThePath(i)
          BY <2>1, <4>2 DEF GrayIsPath
        <5>2. CASE i = 1
          <6>1. frames'[i].rest = Tail(top.rest) /\ frames[i].rest = top.rest /\ ~(i > 1)
            BY <3>2, <3>5, <4>1, <5>2
          <6> QED
            BY <3>4, <3>10, <4>2, <5>1, <6>1 DEF OnThePath
        <5>3. CASE i # 1
          <6>1. frames'[i] = frames[i] /\ i - 1 \in DOMAIN frames'
            BY <3>2, <4>1, <5>3
          <6>2. frames'[i - 1].node = frames[i - 1].node
            BY <4>2, <6>1
          <6> QED
            BY <3>10, <5>1, <6>1, <6>2 DEF OnThePath
        <5> QED
          BY <5>2, <5>3
      <4>4. \A i, j \in DOMAIN frames' : frames'[i].node = frames'[j].node => i = j
        BY <2>1, <4>2 DEF GrayIsPath
      <4>5. \A k \in Keys(proposal) : color'[k] = "gray" => \E i \in DOMAIN frames' : frames'[i].node = k
        <5>1. DOMAIN frames' = DOMAIN frames /\ color' = color
          BY <3>2, <3>10, <4>1
        <5>2. \A k \in Keys(proposal) : color[k] = "gray" => \E i \in DOMAIN frames : frames[i].node = k
          BY <2>1 DEF GrayIsPath
        <5> QED
          BY <4>2, <5>1, <5>2
      <4>6. GrayIsPath'
        BY <3>1, <4>3, <4>4, <4>5, PathAfter
      <4>7. BlackIsDone'
        BY <2>1, <2>2, <3>1, <3>10, BlackStays
      <4>8. \A i \in DOMAIN frames' : frames'[i].node \in Keys(proposal)
        BY <2>2, <4>2
      <4> QED
        BY <2>1, <2>2, <3>1, <3>10, <4>1, <4>6, <4>7, <4>8, SearchGoesOn
    <3> QED
      BY <2>4, <3>8, <3>9, <3>10 DEF visit, here, top, nxt
  <2>5. CASE visit_returns
    <3> DEFINE top == Head(frames)
               k == top.node
    <3>1. /\ frames # <<>> /\ top.rest = <<>> /\ color' = [color EXCEPT ![k] = "black"] /\ frames' = Tail(frames)
          /\ UNCHANGED <<proposal, plan_at, plan_errors, task_row, dependency_row>>
      BY <2>5 DEF visit_returns
    <3>2. /\ top = frames[1] /\ 1 \in DOMAIN frames /\ DOMAIN frames = 1 .. Len(frames) /\ Len(frames) \in Nat
          /\ frames' \in Seq(Frame) /\ DOMAIN frames' = 1 .. Len(frames) - 1
          /\ \A i \in 1 .. Len(frames) - 1 : frames'[i] = frames[i + 1]
      BY <2>2, <3>1, StackTurns, HeadTailProperties
    <3>3. k \in Keys(proposal) /\ OnThePath(1) /\ color[k] = "gray"
      <4>1. OnThePath(1) /\ frames[1].node \in Keys(proposal)
        BY <2>1, <2>2, <3>2 DEF GrayIsPath
      <4>2. color[frames[1].node] = "gray"
        BY <4>1 DEF OnThePath
      <4> QED
        BY <3>2, <4>1, <4>2
    <3>4. Range(top.rest) = {}
      BY <3>1 DEF Range
    <3>5. \A d \in Dep(k) : color[d] = "black"
      BY <3>2, <3>3, <3>4 DEF OnThePath
    <3> HIDE DEF top, k
    <3>6. /\ color'[k] = "black" /\ \A m \in TaskKey \ {k} : color'[m] = color[m]
          /\ color' \in [TaskKey -> {"white", "gray", "black"}]
      BY <2>2, <3>1, <3>3
    <3>7. \A i \in DOMAIN frames' : i + 1 \in DOMAIN frames /\ frames'[i] = frames[i + 1] /\ i + 1 > 1 /\ (i + 1) - 1 = i
      BY <3>2
    <3>8. \A i \in DOMAIN frames : i # 1 => frames[i].node # k /\ frames[i].node \in TaskKey
      <4>1. frames[1].node = k
        BY <3>2 DEF k
      <4> QED
        BY <2>1, <2>2, <3>2, <4>1 DEF GrayIsPath
    <3>9. ASSUME NEW i \in DOMAIN frames'
          PROVE  /\ color'[frames'[i].node] = "gray"
                 /\ Range(frames'[i].rest) \subseteq Dep(frames'[i].node)
                 /\ \A d \in Dep(frames'[i].node) : \/ color'[d] = "black" \/ d \in Range(frames'[i].rest)
                                                    \/ i > 1 /\ d = frames'[i - 1].node
                 /\ i > 1 => frames'[i - 1].node \in Dep(frames'[i].node)
      <4>1. OnThePath(i + 1) /\ i \in DOMAIN frames /\ frames'[i] = frames[i + 1] /\ i + 1 # 1
        BY <2>1, <3>2, <3>7 DEF GrayIsPath
      <4>2. frames'[i].node # k /\ frames'[i].node \in TaskKey
        BY <3>7, <3>8, <4>1
      <4>3. /\ color[frames'[i].node] = "gray" /\ Range(frames'[i].rest) \subseteq Dep(frames'[i].node)
            /\ \A d \in Dep(frames'[i].node) : \/ color[d] = "black" \/ d \in Range(frames'[i].rest)
                                               \/ d = frames[i].node
            /\ frames[i].node \in Dep(frames'[i].node)
        BY <3>7, <4>1 DEF OnThePath
      <4>4. \A d \in TaskKey : color[d] = "black" => color'[d] = "black"
        BY <3>6
      <4>5. \A d \in Dep(frames'[i].node) : d \in TaskKey
        BY <2>2, <3>7, <4>1
      <4>6. CASE i = 1
        <5>1. frames[i].node = k /\ ~(i > 1)
          BY <3>2, <4>6 DEF k
        <5> QED
          BY <3>6, <4>2, <4>3, <4>4, <4>5, <5>1
      <4>7. CASE i # 1
        <5>1. i > 1 /\ i - 1 \in DOMAIN frames' /\ (i - 1) + 1 = i
          BY <3>2, <4>1, <4>7
        <5>2. frames'[i - 1].node = frames[i].node
          BY <3>7, <5>1
        <5> QED
          BY <3>6, <4>2, <4>3, <4>4, <4>5, <5>1, <5>2
      <4> QED
        BY <4>6, <4>7
    <3>10. \A i, j \in DOMAIN frames' : frames'[i].node = frames'[j].node => i = j
      <4> TAKE i, j \in DOMAIN frames'
      <4>1. frames[i + 1].node = frames[j + 1].node => i + 1 = j + 1
        BY <2>1, <3>7 DEF GrayIsPath
      <4>2. i \in Nat /\ j \in Nat
        BY <3>2
      <4> QED
        BY <3>7, <4>1, <4>2
    <3>11. ASSUME NEW m \in Keys(proposal), color'[m] = "gray" PROVE \E i \in DOMAIN frames' : frames'[i].node = m
      <4>1. m # k /\ color[m] = "gray"
        BY <2>2, <3>6, <3>11
      <4>2. PICK i \in DOMAIN frames : frames[i].node = m
        BY <2>1, <4>1 DEF GrayIsPath
      <4>3. i # 1
        BY <3>2, <4>1, <4>2 DEF k
      <4>4. i - 1 \in DOMAIN frames' /\ (i - 1) + 1 = i
        BY <3>2, <4>3
      <4>5. frames'[i - 1].node = m
        BY <3>7, <4>2, <4>4
      <4> QED
        BY <4>4, <4>5
    <3>12. GrayIsPath'
      BY <3>1, <3>9, <3>10, <3>11, PathAfter
    <3>13. BlackIsDone'
      <4>1. \A m \in Keys(proposal) : color'[m] = "black" <=> (color[m] = "black" \/ m = k)
        BY <2>2, <3>6
      <4>2. \A m \in Keys(proposal) : color'[m] = "black" => \A d \in Dep(m) : color'[d] = "black"
        <5> TAKE m \in Keys(proposal)
        <5>1. Dep(m) \subseteq Keys(proposal)
          BY <2>2
        <5>2. color'[m] = "black" => \A d \in Dep(m) : color[d] = "black"
          BY <2>1, <3>5, <4>1 DEF BlackIsDone
        <5> QED
          BY <4>1, <5>1, <5>2
      <4>3. ASSUME NEW S \in (SUBSET Keys(proposal)) \ {{}}, \A m \in S : color'[m] = "black"
            PROVE  \E m \in S : Dep(m) \cap S = {}
        <5> DEFINE R == S \ {k}
        <5>1. \A m \in R : color[m] = "black"
          BY <4>1, <4>3
        <5>2. k \notin Dep(k) /\ \A m \in R : k \notin Dep(m)
          <6>1. \A m \in R : \A d \in Dep(m) : color[d] = "black"
            BY <2>1, <5>1 DEF BlackIsDone
          <6> QED
            BY <3>3, <3>5, <6>1
        <5>3. CASE R = {}
          <6>1. S = {k}
            BY <4>3, <5>3
          <6> QED
            BY <5>2, <6>1
        <5>4. CASE R # {}
          <6>1. R \in (SUBSET Keys(proposal)) \ {{}}
            BY <5>4
          <6>2. PICK m \in R : Dep(m) \cap R = {}
            BY <2>1, <5>1, <6>1 DEF BlackIsDone
          <6>3. Dep(m) \cap S = {} /\ m \in S
            BY <5>2, <6>2
          <6> QED
            BY <6>3
        <5> QED
          BY <5>3, <5>4
      <4> QED
        BY <3>1, <4>2, <4>3 DEF BlackIsDone, Dep
    <3>14. \A i \in DOMAIN frames' : frames'[i].node \in Keys(proposal)
      BY <2>2, <3>7
    <3> QED
      BY <2>1, <3>1, <3>2, <3>6, <3>12, <3>13, <3>14, SearchGoesOn
  <2>6. CASE no_cycle
    <3>1. /\ frames = <<>> /\ White(proposal) = {} /\ plan_at' = "order"
          /\ UNCHANGED <<proposal, plan_errors, color, frames, task_row, dependency_row>>
      BY <2>6 DEF no_cycle
    <3>2. \A k \in Keys(proposal) : color[k] = "black"
      <4> TAKE k \in Keys(proposal)
      <4>1. PICK i \in DOMAIN proposal : proposal[i].key = k
        BY DEF Keys
      <4>2. color[k] # "white"
        BY <3>1, <4>1 DEF White
      <4>3. color[k] # "gray"
        BY <2>1, <3>1 DEF GrayIsPath
      <4> QED
        BY <2>2, <4>2, <4>3
    <3>3. ~CircularWait
      BY <2>1, <3>2, NoCircle
    <3>4. PlanTyped' /\ NotVisited' /\ Searching'
      BY <2>1, <3>1 DEF PlanTyped, NotVisited, Searching
    <3>5. ~CircularWait'
      BY <3>1, <3>3 DEF CircularWait, Waits
    <3> QED
      BY <2>1, <3>1, <3>4, <3>5 DEF PlanIInv, Searched, PlanVerdict
  <2> QED
    BY <1>3, <2>3, <2>4, <2>5, <2>6 DEF _has_cycle
<1>4. CASE validate_plan_graph
  <2>1. /\ plan_at = "order" /\ proposal \in Proposals
        /\ plan_errors' = plan_errors \union _check_safety_order(proposal)
        /\ plan_at' = (IF plan_errors' = {} THEN "accepted" ELSE "rejected")
        /\ UNCHANGED <<proposal, color, frames, task_row, dependency_row>>
        /\ plan_errors = {} <=> NameErrors(proposal) = {} /\ ~CircularWait
    BY <1>4 DEF validate_plan_graph, PlanIInv, PlanTyped, Searched
  <2>2. _check_safety_order(proposal) \subseteq {"safety_order"}
    BY DEF _check_safety_order
  <2>3. PlanTyped'
    BY <2>1, <2>2 DEF PlanIInv, PlanTyped
  <2>4. NameErrors(proposal) = {} => (_check_safety_order(proposal) = {} <=> ~OutOfOrder)
    BY <2>1, OrderIsKept
  <2>5. /\ plan_at' = "accepted" => NameErrors(proposal) = {} /\ ~CircularWait /\ ~OutOfOrder
        /\ plan_at' = "rejected" => NameErrors(proposal) # {} \/ CircularWait \/ OutOfOrder
        /\ plan_at' \in {"accepted", "rejected"}
    <3>1. plan_errors' = {} <=> plan_errors = {} /\ _check_safety_order(proposal) = {}
      BY <2>1
    <3> HIDE DEF OutOfOrder, CircularWait
    <3> QED
      BY <2>1, <2>4, <3>1
  <2>6. (CircularWait <=> CircularWait') /\ (OutOfOrder <=> OutOfOrder')
    BY <2>1 DEF CircularWait, OutOfOrder, Waits
  <2>7. PlanVerdict'
    BY <2>1, <2>5, <2>6 DEF PlanVerdict
  <2> QED
    BY <2>3, <2>5, <2>7 DEF PlanIInv, NotVisited, Searching, Searched
<1>5. CASE _materialize_tasks \/ materialize_fails
  <2>1. /\ plan_at = "accepted" /\ plan_at' \in {"materialised", "failed"} /\ proposal \in Proposals
        /\ UNCHANGED <<proposal, plan_errors, color, frames>>
        /\ task_row' \in [TaskKey -> {"absent", "pending", "ready"}]
        /\ dependency_row' = Edges(proposal) \/ dependency_row' = dependency_row
    BY <1>5 DEF _materialize_tasks, materialize_fails, PlanIInv, PlanTyped
  <2>2. Edges(proposal) \subseteq TaskKey \X TaskKey
    <3>1. ASSUME NEW i \in DOMAIN proposal PROVE proposal[i].key \in TaskKey /\ Range(proposal[i].depends_on) \subseteq TaskKey
      <4>1. proposal[i] \in TaskSpec
        BY <2>1, PlanFacts, ElementOfSeq, LenProperties
      <4>2. proposal[i].depends_on \in Seq(TaskKey)
        BY <4>1 DEF TaskSpec
      <4> QED
        BY <4>1, <4>2, ElementOfSeq, LenProperties DEF TaskSpec, Range
    <3> QED
      BY <3>1 DEF Edges
  <2>3. PlanTyped'
    BY <2>1, <2>2 DEF PlanIInv, PlanTyped
  <2>4. (CircularWait <=> CircularWait') /\ (OutOfOrder <=> OutOfOrder')
    BY <2>1 DEF CircularWait, OutOfOrder, Waits
  <2>5. PlanVerdict'
    BY <2>1, <2>4 DEF PlanIInv, PlanVerdict
  <2> QED
    BY <2>1, <2>3, <2>5 DEF PlanIInv, NotVisited, Searching, Searched
<1>6. CASE UNCHANGED planGraphVars
  <2>1. UNCHANGED <<proposal, plan_at, plan_errors, color, frames, task_row, dependency_row>>
    BY <1>6 DEF planGraphVars
  <2>2. (CircularWait <=> CircularWait') /\ (OutOfOrder <=> OutOfOrder')
    BY <2>1 DEF CircularWait, OutOfOrder, Waits
  <2>3. PlanTyped' /\ NotVisited' /\ Searched' /\ PlanVerdict'
    BY <2>1, <2>2 DEF PlanIInv, PlanTyped, NotVisited, Searched, PlanVerdict
  <2>4. Searching'
    BY <2>1 DEF PlanIInv, Searching, GrayIsPath, BlackIsDone, OnThePath, Dep
  <2> QED
    BY <2>3, <2>4 DEF PlanIInv
<1> QED
  BY <1>1, <1>2, <1>3, <1>4, <1>5, <1>6 DEF PlanGraphNext

\* What the invariant says of the plan.
LEMMA PlanFollows == ASSUME PlanIInv PROVE PlanVerdict /\ PlanGraphTypeOK
BY DEF PlanIInv, PlanTyped, PlanGraphTypeOK

\* A plan is accepted exactly when its names are its own, no tasks wait for one another in a
\* circle and none can run before what the safety order puts ahead of it, for plans of any
\* size: the coloured search and the ancestor sets of planner.py decide what they should.
THEOREM PlanVerdictHolds == PlanSpec => []PlanVerdict
BY PlanStart, PlanStep, PlanFollows, PTL DEF PlanSpec

-----------------------------------------------------------------------------
(* Engine alerts.                                                          *)

\* The steps of the alerts without their fairness.
AlertsSpec == AlertsInit /\ [][AlertsNext]_alertVars

\* What can be said, what the watcher's pass and a webhook request are at.
Said == {"none", "opened", "cleared"}
EpisodeRow == {NoRow} \union Episode
WatchJobSet == {AtRest} \union [at: {"announce", "commit"}, says: Said, row: EpisodeRow]
HookJobSet ==
    {AtRest} \union [at: {"insert", "winner"}]
             \union [at: {"announce", "commit"}, says: {"opened", "cleared"}, closes: 0 .. MaxEpisodes]

\* Types, in the form the steps need.
AlertsTyped ==
    /\ AlertsTypeOK /\ watch_job \in WatchJobSet /\ hook \in [HookReq -> HookJobSet]
    /\ alert_crashes \in Nat

\* An episode that is remembered as announced, or is about to be, has been announced.
WatchedWasTold ==
    /\ watched # NoRow /\ watched.notified => told["watched"] # "nothing"
    /\ watch_job.at = "announce" /\ watch_job.says = "cleared" => told["watched"] # "nothing"
    /\ watch_job.at = "announce" /\ watch_job.says = "none" /\ watch_job.row # NoRow
         /\ watch_job.row.notified => told["watched"] # "nothing"
    /\ watch_job.at = "commit" /\ watch_job.row # NoRow /\ watch_job.row.notified
         => told["watched"] # "nothing"

\* So has an episode of the rule; one request at a time inserts one.
RuleWasTold ==
    /\ rule # 0 => told["rule"] # "nothing"
    /\ \A r \in HookReq :
         /\ hook[r].at = "announce" /\ hook[r].says = "cleared" => told["rule"] # "nothing"
         /\ hook[r].at = "commit" => told["rule"] # "nothing"
         /\ hook[r].at = "announce" /\ hook[r].says = "opened" => hook[r].closes = 0
\* One request at a time inserts an episode.
OneInsert ==
    \A r \in HookReq : Inserted(r) =>
        episodes < MaxEpisodes /\ \A q \in HookReq : Inserted(q) => q = r

\* The inductive invariant of the alerts.
AlertsIInv == AlertsTyped /\ WatchedWasTold /\ RuleWasTold /\ OneInsert

\* The shapes of a row and of a job.
LEMMA JobShapes ==
    /\ AtRest \in WatchJobSet /\ AtRest \in HookJobSet /\ AtRest.at = "idle"
    /\ \A x \in WatchJobSet : /\ x.at \in {"idle", "announce", "commit"}
                              /\ x.at # "idle" => x \in [at: {"announce", "commit"}, says: Said, row: EpisodeRow]
    /\ \A x \in HookJobSet :
         /\ x.at \in {"idle", "insert", "winner", "announce", "commit"}
         /\ x.at \in {"announce", "commit"} =>
              x \in [at: {"announce", "commit"}, says: {"opened", "cleared"}, closes: 0 .. MaxEpisodes]
    /\ \A x \in EpisodeRow : x # NoRow => x \in Episode
    /\ \A x \in Episode : x # NoRow
BY DEF WatchJobSet, HookJobSet, AtRest, EpisodeRow, NoRow, Episode, Severity

\* Nothing is wrong and nobody has been told anything.
LEMMA AlertsStart == AlertsInit => AlertsIInv
<1> SUFFICES ASSUME AlertsInit PROVE AlertsIInv
  OBVIOUS
<1>1. AlertsTypeOK
  <2>1. told \in [{"watched", "rule"} -> {"nothing", "opened", "cleared"}]
    BY DEF AlertsInit
  <2>2. 0 \in 0 .. MaxEpisodes
    BY AlertsAssumption
  <2> QED
    BY <2>1, <2>2 DEF AlertsInit, AlertsTypeOK
<1>2. watch_job \in WatchJobSet /\ hook \in [HookReq -> HookJobSet] /\ alert_crashes \in Nat
  BY JobShapes DEF AlertsInit
<1>3. watch_job.at = "idle" /\ \A r \in HookReq : hook[r].at = "idle"
  BY JobShapes DEF AlertsInit
<1>4. WatchedWasTold /\ RuleWasTold
  BY <1>3 DEF AlertsInit, WatchedWasTold, RuleWasTold
<1>5. OneInsert
  BY <1>3 DEF OneInsert, Inserted
<1> QED
  BY <1>1, <1>2, <1>4, <1>5 DEF AlertsIInv, AlertsTyped

\* What one pass of the watcher finds: it says that a condition is over only of an episode
\* that is remembered as announced.
LEMMA PassSound ==
    ASSUME AlertsTypeOK
    PROVE  /\ sync_watched \in [at: {"announce"}, says: Said, row: EpisodeRow]
           /\ sync_watched.says = "cleared" => watched # NoRow /\ watched.notified
           /\ sync_watched.says = "none" /\ sync_watched.row # NoRow /\ sync_watched.row.notified
                => watched # NoRow /\ watched.notified
<1> DEFINE row == open_or_refresh(condition)
           says == announce_opened(row)
<1>1. watched = NoRow \/ watched \in Episode
  BY DEF AlertsTypeOK
<1>2. CASE condition \in scope
  <2>1. condition \in Severity
    BY <1>2 DEF scope, Severity
  <2>2. /\ row \in Episode
        /\ row.notified = TRUE => watched # NoRow /\ watched.notified
    BY <1>1, <2>1 DEF open_or_refresh, Episode, NoRow, Severity
  <2> HIDE DEF row
  <2>3. says \in {"none", "opened"}
    BY DEF announce_opened
  <2>4. sync_watched = [at |-> "announce", says |-> says,
                        row |-> [row EXCEPT !.notified = @ \/ says = "opened"]]
    BY <1>2 DEF sync_watched, row
  <2> HIDE DEF says
  <2> DEFINE kept == [row EXCEPT !.notified = @ \/ says = "opened"]
  <2>5. kept \in Episode /\ (kept.notified = TRUE => row.notified = TRUE \/ says = "opened")
    BY <2>2, Zenon DEF Episode
  <2> HIDE DEF kept
  <2>6. sync_watched = [at |-> "announce", says |-> says, row |-> kept]
    BY <2>4, Zenon DEF kept
  <2>7. sync_watched.says = says /\ sync_watched.row = kept /\ sync_watched.at = "announce"
    BY <2>6, Zenon
  <2>8. sync_watched \in [at: {"announce"}, says: Said, row: EpisodeRow]
    BY <2>6, <2>3, <2>5 DEF Said, EpisodeRow
  <2>9. kept.notified \in BOOLEAN
    BY <2>5 DEF Episode
  <2> QED
    BY <2>2, <2>3, <2>5, <2>7, <2>8, <2>9
<1>3. CASE ~ (condition \in scope) /\ watched # NoRow /\ watched.severity \in scope
  <2>1. sync_watched = [at |-> "announce", says |-> announce_resolved(watched), row |-> NoRow]
    BY <1>3, Zenon DEF sync_watched
  <2>2. announce_resolved(watched) \in Said /\ (announce_resolved(watched) = "cleared" => watched.notified)
    BY DEF announce_resolved, Said
  <2> QED
    BY <1>3, <2>1, <2>2 DEF EpisodeRow
<1>4. CASE ~ (condition \in scope) /\ ~ (watched # NoRow /\ watched.severity \in scope)
  <2>1. sync_watched = [at |-> "announce", says |-> "none", row |-> watched]
    BY <1>4, Zenon DEF sync_watched
  <2> QED
    BY <1>1, <2>1 DEF EpisodeRow, Said
<1> QED
  BY <1>2, <1>3, <1>4

\* A restart forgets the pass and the requests under way, not what was committed or said.
LEMMA AlertsForget ==
    ASSUME AlertsIInv, watch_job' = AtRest, hook' = [r \in HookReq |-> AtRest], AlertsTypeOK',
           alert_crashes' \in Nat, UNCHANGED <<watched, rule, told>>
    PROVE  AlertsIInv'
<1>1. watch_job'.at = "idle" /\ \A r \in HookReq : hook'[r].at = "idle"
  BY JobShapes
<1>2. watch_job' \in WatchJobSet /\ hook' \in [HookReq -> HookJobSet]
  BY JobShapes
<1>3. WatchedWasTold'
  BY <1>1 DEF AlertsIInv, WatchedWasTold
<1>4. RuleWasTold'
  BY <1>1 DEF AlertsIInv, RuleWasTold
<1>5. OneInsert'
  BY <1>1 DEF OneInsert, Inserted
<1> QED
  BY <1>2, <1>3, <1>4, <1>5 DEF AlertsIInv, AlertsTyped

\* What leaves the episodes, the jobs and the messages alone keeps the invariant.
LEMMA AlertsFrame ==
    ASSUME AlertsIInv, AlertsTypeOK',
           UNCHANGED <<watched, watch_job, rule, episodes, hook, told, alert_crashes>>
    PROVE  AlertsIInv'
BY DEF AlertsIInv, AlertsTyped, WatchedWasTold, RuleWasTold, OneInsert, Inserted

\* The watcher's pass, told by what it does to the key it writes.
LEMMA WatcherKeeps == ASSUME AlertsIInv, WatchStep PROVE AlertsIInv'
<1> USE DEF AlertsIInv
<1>0. AlertsTypeOK /\ watch_job \in WatchJobSet /\ "watched" \in DOMAIN told /\ "rule" \in DOMAIN told
  BY DEF AlertsTyped, AlertsTypeOK
<1>1. CASE run_engine_alert_watch
  <2>1. /\ watch_job' = sync_watched
        /\ UNCHANGED <<condition, market_open, watched, rule, episodes, hook, event, told,
                        channel_file, alert_crashes, broken>>
    BY <1>1 DEF run_engine_alert_watch
  <2> DEFINE next == sync_watched
  <2>2. /\ next \in [at: {"announce"}, says: Said, row: EpisodeRow]
        /\ next.says = "cleared" => watched # NoRow /\ watched.notified
        /\ next.says = "none" /\ next.row # NoRow /\ next.row.notified => watched # NoRow /\ watched.notified
    BY <1>0, PassSound
  <2>3. watch_job' = next
    BY <2>1
  <2> HIDE DEF next
  <2>4. watch_job' \in WatchJobSet /\ watch_job'.at = "announce"
    BY <2>2, <2>3 DEF WatchJobSet
  <2>5. WatchedWasTold'
    BY <2>1, <2>2, <2>3, <2>4 DEF WatchedWasTold
  <2> QED
    BY <2>1, <2>4, <2>5 DEF AlertsTyped, AlertsTypeOK, RuleWasTold, OneInsert, Inserted
<1>2. CASE watch_announces
  <2>0. watch_job \in [at: {"announce", "commit"}, says: Said, row: EpisodeRow] /\ watch_job.at = "announce"
    BY <1>0, <1>2, JobShapes DEF watch_announces
  <2>1. UNCHANGED <<condition, market_open, watched, rule, episodes, hook, event, channel_file, alert_crashes>>
    BY <1>2 DEF watch_announces
  <2> DEFINE next == [watch_job EXCEPT !.at = "commit"]
  <2>2. /\ next \in [at: {"announce", "commit"}, says: Said, row: EpisodeRow]
        /\ next.at = "commit" /\ next.says = watch_job.says /\ next.row = watch_job.row
    BY <2>0
  <2> HIDE DEF next
  <2>3. next \in WatchJobSet
    BY <2>2 DEF WatchJobSet
  <2>4. CASE watch_job.says = "none" /\ watch_job' = next /\ UNCHANGED <<told, broken>>
    <3>1. WatchedWasTold'
      BY <2>0, <2>1, <2>2, <2>4 DEF WatchedWasTold
    <3> QED
      BY <2>1, <2>3, <2>4, <3>1 DEF AlertsTyped, AlertsTypeOK, RuleWasTold, OneInsert, Inserted
  <2>5. CASE watch_job.says # "none" /\ notify("watched", watch_job.says) /\ watch_job' = next
    <3>1. watch_job.says \in {"opened", "cleared"}
      BY <2>0, <2>5 DEF Said
    <3>2. told' = [told EXCEPT !["watched"] = watch_job.says] /\ UNCHANGED broken
      BY <2>5 DEF notify
    <3>3. /\ told' \in [{"watched", "rule"} -> {"nothing", "opened", "cleared"}]
          /\ told'["watched"] # "nothing" /\ told'["rule"] = told["rule"]
      BY <1>0, <3>1, <3>2 DEF AlertsTypeOK
    <3>4. WatchedWasTold'
      BY <3>3 DEF WatchedWasTold
    <3> QED
      BY <2>1, <2>3, <2>5, <3>2, <3>3, <3>4 DEF AlertsTyped, AlertsTypeOK, RuleWasTold, OneInsert, Inserted
  <2>6. CASE watch_job.says # "none" /\ notify_raises /\ watch_job' = AtRest
    <3>1. watch_job' \in WatchJobSet /\ watch_job'.at = "idle" /\ broken' \in BOOLEAN /\ told' = told
      BY <2>6, JobShapes DEF notify_raises
    <3>2. WatchedWasTold'
      BY <2>1, <3>1 DEF WatchedWasTold
    <3> QED
      BY <2>1, <3>1, <3>2 DEF AlertsTyped, AlertsTypeOK, RuleWasTold, OneInsert, Inserted
  <2> QED
    BY <1>2, <2>4, <2>5, <2>6 DEF watch_announces, next
<1>3. CASE watch_commits
  <2>1. /\ watch_job.at = "commit" /\ watch_job' = AtRest /\ watched' = watch_job.row
        /\ UNCHANGED <<condition, market_open, rule, episodes, hook, event, told, channel_file, alert_crashes, broken>>
    BY <1>3 DEF watch_commits
  <2>2. watched' \in EpisodeRow /\ watch_job' \in WatchJobSet /\ watch_job'.at = "idle"
    BY <1>0, <2>1, JobShapes
  <2>3. WatchedWasTold'
    BY <2>1, <2>2 DEF WatchedWasTold
  <2> QED
    BY <2>1, <2>2, <2>3 DEF AlertsTyped, AlertsTypeOK, EpisodeRow, RuleWasTold, OneInsert, Inserted
<1> QED
  BY <1>1, <1>2, <1>3 DEF WatchStep

\* A webhook request: the unique index lets one insert at a time, and an episode is
\* committed after it has been announced.
LEMMA HookKeeps ==
    ASSUME AlertsIInv, NEW r \in HookReq,
           \/ webhook_firing(r) \/ webhook_resolved(r) \/ insert_episode(r)
           \/ refresh_winner(r) \/ webhook_announces(r) \/ webhook_commits(r)
    PROVE  AlertsIInv'
<1> USE DEF AlertsIInv
<1>0. /\ AlertsTypeOK /\ hook \in [HookReq -> HookJobSet] /\ hook[r] \in HookJobSet
      /\ "watched" \in DOMAIN told /\ "rule" \in DOMAIN told
      /\ told \in [{"watched", "rule"} -> {"nothing", "opened", "cleared"}]
      /\ rule \in 0 .. MaxEpisodes /\ episodes \in 0 .. MaxEpisodes
  BY DEF AlertsTyped, AlertsTypeOK
<1>1. UNCHANGED <<condition, market_open, watched, watch_job, event, channel_file, alert_crashes>>
  BY DEF HookOnly, webhook_firing, webhook_resolved, insert_episode, refresh_winner, webhook_announces,
     webhook_commits
<1>2. ASSUME NEW job \in HookJobSet, SetHook(r, job), UNCHANGED <<rule, episodes>>,
             told' = told \/ (told'["rule"] # "nothing" /\ told'["watched"] = told["watched"]),
             told' \in [{"watched", "rule"} -> {"nothing", "opened", "cleared"}], broken' \in BOOLEAN,
             job.at = "announce" /\ job.says = "cleared" => told'["rule"] # "nothing",
             job.at = "commit" => told'["rule"] # "nothing",
             job.at = "announce" /\ job.says = "opened" => job.closes = 0,
             job.at \in {"announce", "commit"} /\ job.closes = 0 =>
                 episodes < MaxEpisodes /\ \A q \in HookReq : Inserted(q) => q = r
      PROVE  AlertsIInv'
  <2>1. hook' \in [HookReq -> HookJobSet] /\ hook'[r] = job /\ \A q \in HookReq : q # r => hook'[q] = hook[q]
    BY <1>0, <1>2 DEF SetHook
  <2>2. AlertsTypeOK'
    BY <1>1, <1>2 DEF AlertsTyped, AlertsTypeOK
  <2>3. WatchedWasTold'
    BY <1>1, <1>2 DEF WatchedWasTold
  <2>4. RuleWasTold'
    BY <1>2, <2>1 DEF RuleWasTold
  <2>5. OneInsert'
    BY <1>2, <2>1 DEF OneInsert, Inserted
  <2> QED
    BY <1>1, <2>1, <2>2, <2>3, <2>4, <2>5 DEF AlertsTyped
<1>3. CASE webhook_firing(r) \/ refresh_winner(r)
  <2>1. PICK job \in {AtRest, [at |-> "insert"]} :
            SetHook(r, job) /\ UNCHANGED <<rule, episodes, told, broken>>
    BY <1>3 DEF webhook_firing, refresh_winner
  <2>2. job \in HookJobSet /\ job.at \in {"idle", "insert"}
    BY DEF HookJobSet, AtRest
  <2>3. broken' \in BOOLEAN
    BY <1>0, <2>1 DEF AlertsTypeOK
  <2> QED
    BY <1>0, <1>2, <2>1, <2>2, <2>3
<1>4. CASE webhook_resolved(r)
  <2> DEFINE job == [at |-> "announce", closes |-> rule, says |-> announce_resolved([notified |-> TRUE])]
  <2>1. SetHook(r, job) /\ UNCHANGED <<rule, episodes, told, broken>> /\ rule # 0
    BY <1>4 DEF webhook_resolved
  <2>2. job.at = "announce" /\ job.closes = rule /\ job.says = "cleared" /\ job \in HookJobSet
    BY <1>0 DEF HookJobSet, announce_resolved
  <2> HIDE DEF job
  <2>3. broken' \in BOOLEAN /\ told["rule"] # "nothing"
    BY <1>0, <2>1 DEF AlertsTypeOK, RuleWasTold
  <2> QED
    BY <1>0, <1>2, <2>1, <2>2, <2>3
<1>5. CASE insert_episode(r)
  <2>1. PICK job \in {[at |-> "announce", says |-> "opened", closes |-> 0], [at |-> "winner"]} :
            SetHook(r, job) /\ UNCHANGED <<rule, episodes, told, broken>>
    BY <1>5 DEF insert_episode
  <2>2. /\ job \in HookJobSet
        /\ \/ job.at = "winner"
           \/ job.at = "announce" /\ job.says = "opened" /\ job.closes = 0
    BY AlertsAssumption DEF HookJobSet
  <2>3. broken' \in BOOLEAN /\ episodes < MaxEpisodes /\ \A q \in HookReq : ~Inserted(q)
    BY <1>0, <1>5, <2>1 DEF AlertsTypeOK, insert_episode
  <2> QED
    BY <1>0, <1>2, <2>1, <2>2, <2>3
<1>6. CASE webhook_announces(r)
  <2>0. /\ hook[r] \in [at: {"announce", "commit"}, says: {"opened", "cleared"}, closes: 0 .. MaxEpisodes]
        /\ hook[r].at = "announce" /\ UNCHANGED <<rule, episodes>>
    BY <1>0, <1>6, JobShapes DEF webhook_announces
  <2> DEFINE job == [hook[r] EXCEPT !.at = "commit"]
  <2>1. /\ job \in [at: {"announce", "commit"}, says: {"opened", "cleared"}, closes: 0 .. MaxEpisodes]
        /\ job.at = "commit" /\ job.closes = hook[r].closes
    BY <2>0
  <2>2. job \in HookJobSet
    BY <2>1 DEF HookJobSet
  <2> HIDE DEF job
  <2>3. CASE notify("rule", hook[r].says) /\ SetHook(r, job)
    <3>1. told' = [told EXCEPT !["rule"] = hook[r].says] /\ UNCHANGED broken
      BY <2>3 DEF notify
    <3>2. /\ told' \in [{"watched", "rule"} -> {"nothing", "opened", "cleared"}]
          /\ told'["rule"] # "nothing" /\ told'["watched"] = told["watched"]
      BY <1>0, <2>0, <3>1
    <3>3. broken' \in BOOLEAN
      BY <1>0, <3>1 DEF AlertsTypeOK
    <3>4. hook[r].closes = 0 => episodes < MaxEpisodes /\ \A q \in HookReq : Inserted(q) => q = r
      BY <2>0 DEF OneInsert, Inserted
    <3> QED
      BY <1>2, <2>0, <2>1, <2>2, <2>3, <3>2, <3>3, <3>4
  <2>4. CASE notify_raises /\ SetHook(r, AtRest)
    <3>1. AtRest \in HookJobSet /\ AtRest.at = "idle" /\ told' = told /\ broken' \in BOOLEAN
      BY <2>4, JobShapes DEF notify_raises
    <3> HIDE DEF AtRest
    <3> QED
      BY <1>0, <1>2, <2>0, <2>4, <3>1
  <2> QED
    BY <1>6, <2>3, <2>4 DEF webhook_announces, job
<1>7. CASE webhook_commits(r)
  <2>0. /\ hook[r] \in [at: {"announce", "commit"}, says: {"opened", "cleared"}, closes: 0 .. MaxEpisodes]
        /\ hook[r].at = "commit" /\ hook' = [hook EXCEPT ![r] = AtRest] /\ UNCHANGED <<told, broken>>
    BY <1>0, <1>7, JobShapes DEF webhook_commits, SetHook
  <2>1. /\ hook' \in [HookReq -> HookJobSet] /\ hook'[r].at = "idle"
        /\ \A q \in HookReq : q # r => hook'[q] = hook[q]
    BY <1>0, <2>0, JobShapes
  <2>2. told["rule"] # "nothing"
    BY <2>0 DEF RuleWasTold
  <2>3. RuleWasTold'
    BY <2>0, <2>1, <2>2 DEF RuleWasTold
  <2>4. WatchedWasTold'
    BY <1>1, <2>0 DEF WatchedWasTold
  <2>5. CASE hook[r].closes = 0
    <3>1. episodes < MaxEpisodes /\ \A q \in HookReq : Inserted(q) => q = r
      BY <2>0, <2>5 DEF OneInsert, Inserted
    <3>2. rule' = episodes + 1 /\ episodes' = episodes + 1
      BY <1>7, <2>5 DEF webhook_commits
    <3>3. rule' \in 0 .. MaxEpisodes /\ episodes' \in 0 .. MaxEpisodes
      BY <1>0, <3>1, <3>2, AlertsAssumption
    <3>4. OneInsert'
      BY <2>1, <3>1 DEF OneInsert, Inserted
    <3>5. AlertsTypeOK'
      BY <1>0, <1>1, <2>0, <3>3 DEF AlertsTypeOK
    <3> QED
      BY <1>1, <2>1, <2>3, <2>4, <3>4, <3>5 DEF AlertsTyped
  <2>6. CASE hook[r].closes # 0
    <3>1. rule' \in {0, rule} /\ episodes' = episodes
      BY <1>7, <2>6 DEF webhook_commits
    <3>2. rule' \in 0 .. MaxEpisodes
      BY <1>0, <3>1, AlertsAssumption
    <3>3. OneInsert'
      BY <2>1, <3>1 DEF OneInsert, Inserted
    <3>4. AlertsTypeOK'
      BY <1>0, <1>1, <2>0, <3>1, <3>2 DEF AlertsTypeOK
    <3> QED
      BY <1>1, <2>1, <2>3, <2>4, <3>3, <3>4 DEF AlertsTyped
  <2> QED
    BY <2>5, <2>6
<1> QED
  BY <1>3, <1>4, <1>5, <1>6, <1>7

\* Every step keeps the invariant.
LEMMA AlertsStep == AlertsIInv /\ [AlertsNext]_alertVars => AlertsIInv'
<1> SUFFICES ASSUME AlertsIInv, [AlertsNext]_alertVars PROVE AlertsIInv'
  OBVIOUS
<1>0. AlertsTypeOK /\ alert_crashes \in Nat
  BY DEF AlertsIInv, AlertsTyped
<1>1. CASE set_config
  <2>1. AlertsTypeOK'
    BY <1>0, <1>1 DEF set_config, AlertsTypeOK
  <2> QED
    BY <1>1, <2>1, AlertsFrame DEF set_config
<1>2. ASSUME NEW file \in {"empty", "torn"}, WriteCutShort(file) \/ AlertsRestart PROVE AlertsIInv'
  <2>1. AlertsTypeOK' /\ alert_crashes' \in Nat
    BY <1>0, <1>2 DEF WriteCutShort, AlertsRestart, AlertsTypeOK
  <2> QED
    BY <1>2, <2>1, AlertsForget DEF WriteCutShort, AlertsRestart
<1>3. ASSUME NEW s \in Severity \union {"none"}, ConditionChanges(s) \/ MarketTurns PROVE AlertsIInv'
  <2>1. AlertsTypeOK'
    BY <1>0, <1>3 DEF ConditionChanges, MarketTurns, AlertsTypeOK
  <2> QED
    BY <1>3, <2>1, AlertsFrame DEF ConditionChanges, MarketTurns
<1>4. CASE ConfirmationPasses
  <2>1. /\ watched \in Episode /\ watched' = [watched EXCEPT !.ripe = TRUE]
        /\ UNCHANGED <<condition, market_open, watch_job, rule, episodes, hook, event, told,
                        channel_file, alert_crashes, broken>>
    BY <1>0, <1>4 DEF ConfirmationPasses, AlertsTypeOK
  <2>2. watched' \in Episode /\ watched'.notified = watched.notified
    BY <2>1 DEF Episode
  <2>3. AlertsTypeOK'
    BY <1>0, <2>1, <2>2 DEF AlertsTypeOK
  <2>4. WatchedWasTold'
    BY <2>1, <2>2, JobShapes DEF AlertsIInv, WatchedWasTold
  <2> QED
    BY <2>1, <2>3, <2>4 DEF AlertsIInv, AlertsTyped, RuleWasTold, OneInsert, Inserted
<1>5. CASE WatchStep
  BY <1>5, WatcherKeeps
<1>6. ASSUME NEW r \in HookReq, \/ webhook_firing(r) \/ webhook_resolved(r) \/ insert_episode(r)
                                \/ refresh_winner(r) \/ webhook_announces(r) \/ webhook_commits(r)
      PROVE  AlertsIInv'
  BY <1>6, HookKeeps
<1>7. CASE record_event_safely \/ _announce_in_background
  <2>1. AlertsTypeOK'
    BY <1>0, <1>7 DEF record_event_safely, _announce_in_background, EventOnly, AlertsTypeOK
  <2> QED
    BY <1>7, <2>1, AlertsFrame DEF record_event_safely, _announce_in_background, EventOnly
<1>8. CASE UNCHANGED alertVars
  <2>1. AlertsTypeOK'
    BY <1>0, <1>8 DEF alertVars, AlertsTypeOK
  <2> QED
    BY <1>8, <2>1, AlertsFrame DEF alertVars
<1>9. \E file \in {"empty", "torn"} : TRUE
  OBVIOUS
<1>10. "none" \in Severity \union {"none"}
  OBVIOUS
<1> QED
  BY <1>1, <1>2, <1>3, <1>4, <1>5, <1>6, <1>7, <1>8, <1>9, <1>10 DEF AlertsNext

\* A step tells of an end only where a beginning was told.
LEMMA ClearedFollows ==
    ASSUME AlertsIInv, [AlertsNext]_alertVars
    PROVE  [\A k \in DOMAIN told : told'[k] = "cleared" /\ told[k] # "cleared" => told[k] = "opened"]_told
<1>0. told \in [{"watched", "rule"} -> {"nothing", "opened", "cleared"}] /\ watch_job \in WatchJobSet
      /\ hook \in [HookReq -> HookJobSet]
  BY DEF AlertsIInv, AlertsTyped, AlertsTypeOK
<1>1. CASE watch_announces
  <2>1. \/ told' = told
        \/ watch_job.at = "announce" /\ told' = [told EXCEPT !["watched"] = watch_job.says]
    BY <1>1 DEF watch_announces, notify, notify_raises
  <2> QED
    BY <1>0, <2>1 DEF AlertsIInv, WatchedWasTold
<1>2. ASSUME NEW r \in HookReq, webhook_announces(r)
      PROVE  \/ told' = told
             \/ hook[r].at = "announce" /\ told' = [told EXCEPT !["rule"] = hook[r].says]
  BY <1>2 DEF webhook_announces, notify, notify_raises
<1>3. CASE \E r \in HookReq : webhook_announces(r)
  BY <1>0, <1>2, <1>3 DEF AlertsIInv, RuleWasTold
<1>4. \/ told' = told \/ watch_announces \/ \E r \in HookReq : webhook_announces(r)
  BY DEF AlertsNext, alertVars, set_config, WriteCutShort, AlertsRestart, ConditionChanges, MarketTurns,
     ConfirmationPasses, WatchStep, run_engine_alert_watch, watch_commits, webhook_firing, webhook_resolved,
     insert_episode, refresh_winner, webhook_commits, record_event_safely, _announce_in_background, EventOnly
<1> QED
  BY <1>1, <1>3, <1>4

\* Nobody is told that something is over which they were not told had begun, for any number
\* of overlapping webhook requests, episodes and restarts (engine_alert_watcher.py).
THEOREM ClearedAfterOpenedHolds == AlertsSpec => ClearedAfterOpened
BY AlertsStart, AlertsStep, ClearedFollows, PTL DEF AlertsSpec, ClearedAfterOpened

-----------------------------------------------------------------------------
(* The kill switch.                                                        *)

\* The steps of the switch without its fairness.
KillSwitchSpec == KillSwitchInit /\ [][KillSwitchNext]_switchVars

\* What a drawdown sample can be.
Sample == Level \union {Unknown}
\* What an evaluation is at.
EvaluationSet ==
    {Off} \union [at: {"measured"}, sample: Sample]
          \union [at: {"locked"}, sample: Sample, tripped: BOOLEAN]

\* The row lock: one evaluation holds it, and what it read of the switch is still so.
LockHeld ==
    \A e \in Evaluator : evaluation[e].at = "locked" =>
        /\ evaluation[e].tripped = switch
        /\ \A f \in Evaluator : evaluation[f].at = "locked" => f = e

\* A switch that is not tripped has not been tripped since it was cleared.
TripShows ==
    trips_since_reset \in {0, 1} /\ (trips_since_reset = 1 => switch /\ Evaluator # {})

\* The inductive invariant of the switch.
KillSwitchIInv ==
    /\ switch \in BOOLEAN /\ measurable \in BOOLEAN /\ peak \in Level /\ equity \in Level /\ resets \in Nat
    /\ evaluation \in [Evaluator -> EvaluationSet]
    /\ LockHeld /\ TripShows

\* Nothing has tripped and nobody evaluates.
LEMMA KillSwitchStart == KillSwitchInit => KillSwitchIInv
<1> SUFFICES ASSUME KillSwitchInit PROVE KillSwitchIInv
  OBVIOUS
<1>1. peak \in Level /\ equity \in Level /\ switch = FALSE /\ trips_since_reset = 0
  BY KillSwitchAssumption DEF KillSwitchInit, Level
<1>2. evaluation \in [Evaluator -> EvaluationSet] /\ \A e \in Evaluator : evaluation[e].at # "locked"
  BY DEF KillSwitchInit, EvaluationSet, Off
<1>3. switch \in BOOLEAN /\ measurable \in BOOLEAN /\ resets \in Nat
  BY <1>1 DEF KillSwitchInit
<1>4. LockHeld
  BY <1>2 DEF LockHeld
<1>5. TripShows
  BY <1>1 DEF TripShows
<1> QED
  BY <1>1, <1>2, <1>3, <1>4, <1>5 DEF KillSwitchIInv

\* The switch changes only by the evaluation that holds the row or while none does.
LEMMA KillSwitchStep == KillSwitchIInv /\ [KillSwitchNext]_switchVars => KillSwitchIInv'
<1> SUFFICES ASSUME KillSwitchIInv, [KillSwitchNext]_switchVars PROVE KillSwitchIInv'
  OBVIOUS
<1> USE KillSwitchAssumption DEF KillSwitchIInv
<1>1. ASSUME NEW n \in Level, EquityMoves(n) PROVE KillSwitchIInv'
  BY <1>1 DEF EquityMoves, LockHeld, TripShows
<1>2. CASE PriceGap
  BY <1>2 DEF PriceGap, LockHeld, TripShows
<1>3. ASSUME NEW e \in Evaluator, run_equity_reading_job(e) PROVE KillSwitchIInv'
  BY <1>3 DEF run_equity_reading_job, Goes, measure_equity, measure_paper_equity, measure_live_equity,
     EvaluationSet, Sample, LockHeld, TripShows
<1>4. ASSUME NEW e \in Evaluator, lock_state_row(e) PROVE KillSwitchIInv'
  BY <1>4 DEF lock_state_row, MayLock, StateRowLocked, Goes, EvaluationSet, Off, LockHeld, TripShows
<1>5. ASSUME NEW e \in Evaluator, evaluate_mode_drawdown(e) PROVE KillSwitchIInv'
  <2>1. /\ evaluation[e].at = "locked" /\ evaluation' = [evaluation EXCEPT ![e] = Off]
        /\ evaluation[e].sample \in Sample /\ evaluation[e].tripped = switch
    BY <1>5 DEF evaluate_mode_drawdown, Goes, EvaluationSet, Off, LockHeld
  <2>2. evaluation' \in [Evaluator -> EvaluationSet] /\ \A f \in Evaluator : evaluation'[f].at # "locked"
    BY <2>1 DEF EvaluationSet, Off, LockHeld
  <2>3. peak' \in Level /\ equity' \in Level
    BY <1>5, <2>1 DEF evaluate_mode_drawdown, Max2, peak_equity_since, Sample, Level, Unknown
  <2>4. CASE evaluation[e].sample # Unknown /\ ~evaluation[e].tripped
             /\ evaluate_drawdown(evaluation[e].sample, Max2(peak_equity_since, evaluation[e].sample))
    <3>1. trips_since_reset = 0
      BY <2>1, <2>4 DEF TripShows
    <3>2. switch' /\ switch' \in BOOLEAN
      BY <1>5, <2>4 DEF evaluate_mode_drawdown
    <3>3. trips_since_reset' = 1
      BY <1>5, <2>4, <3>1 DEF evaluate_mode_drawdown
    <3>4. measurable' = measurable /\ resets' = resets /\ Evaluator # {}
      BY <1>5 DEF evaluate_mode_drawdown
    <3> QED
      BY <2>2, <2>3, <3>2, <3>3, <3>4 DEF LockHeld, TripShows
  <2>5. CASE ~ (evaluation[e].sample # Unknown /\ ~evaluation[e].tripped
             /\ evaluate_drawdown(evaluation[e].sample, Max2(peak_equity_since, evaluation[e].sample)))
    BY <1>5, <2>2, <2>3, <2>5 DEF evaluate_mode_drawdown, LockHeld, TripShows
  <2> QED
    BY <2>4, <2>5
<1>6. CASE check_drawdown_read
  BY <1>6 DEF check_drawdown_read, LockHeld, TripShows
<1>7. ASSUME NEW breach \in BOOLEAN, check_drawdown(breach) PROVE KillSwitchIInv'
  <2>1. switch' \in BOOLEAN /\ (switch => switch')
    BY <1>7 DEF check_drawdown
  <2> QED
    BY <1>7, <2>1 DEF check_drawdown, StateRowLocked, LockHeld, TripShows
<1>8. ASSUME NEW r \in Resetter, reset_read(r) \/ reset_audited(r) PROVE KillSwitchIInv'
  BY <1>8 DEF reset_read, reset_audited, LockHeld, TripShows
<1>9. ASSUME NEW r \in Resetter, reset_kill_switch(r) PROVE KillSwitchIInv'
  <2>1. switch' \in BOOLEAN /\ peak' = 0 /\ trips_since_reset' = 0 /\ UNCHANGED <<equity, evaluation>>
    BY <1>9 DEF reset_kill_switch
  <2>2. \A e \in Evaluator : evaluation[e].at # "locked"
    BY <1>9 DEF reset_kill_switch, StateRowLocked
  <2>3. LockHeld' /\ TripShows'
    BY <2>1, <2>2 DEF LockHeld, TripShows
  <2>4. measurable' \in BOOLEAN /\ resets' \in Nat
    BY <1>9 DEF reset_kill_switch
  <2> QED
    BY <2>1, <2>3, <2>4 DEF Level
<1>10. CASE UNCHANGED switchVars
  BY <1>10 DEF switchVars, LockHeld, TripShows
<1> QED
  BY <1>1, <1>2, <1>3, <1>4, <1>5, <1>6, <1>7, <1>8, <1>9, <1>10 DEF KillSwitchNext, EvaluatorStep

\* The types follow from the invariant.
LEMMA KillSwitchTypes == KillSwitchIInv => KillSwitchTypeOK
<1> SUFFICES ASSUME KillSwitchIInv PROVE KillSwitchTypeOK
  OBVIOUS
<1>1. Cardinality(Evaluator) \in Nat /\ (Evaluator # {} => Cardinality(Evaluator) # 0)
  BY KillSwitchAssumption, FS_CardinalityType, FS_EmptySet
<1>2. trips_since_reset \in 0 .. Cardinality(Evaluator)
  BY <1>1 DEF KillSwitchIInv, TripShows
<1> QED
  BY <1>2 DEF KillSwitchIInv, KillSwitchTypeOK

\* However the scheduler's evaluation, operators' evaluations, checks and resets overlap,
\* one evaluation at most trips the switch between two resets.
THEOREM OneTripPerResetHolds == KillSwitchSpec => []OneTripPerReset
<1>1. KillSwitchIInv => OneTripPerReset
  BY DEF KillSwitchIInv, TripShows, OneTripPerReset
<1> QED
  BY <1>1, KillSwitchStart, KillSwitchStep, PTL DEF KillSwitchSpec

-----------------------------------------------------------------------------
(* Agent pipeline.                                                         *)

\* The steps of a run without their fairness.
PipelineSpec == PipelineInit /\ [][PipelineNext]_pipelineVars

\* Neither Redis nor the event store has failed.
Healthy == redis_faults = 0 /\ store_faults = 0
\* The endings a process writes itself, and what a reaper is at.
OwnEnding == {"completed", "failed", "cancelled"}
ReaperSet == {Asleep_reaper} \union [at: {"listed", "writing"}, last: Nat]
                             \union [at: {"read"}, last: Nat, quiet: 0 .. 2]

\* Types: of the events, of the walk through the graph, and of Redis.
EventsTyped ==
    /\ sequence \in Nat /\ endings \in SUBSET (Terminal \X numbers)
    /\ silence \in 0 .. 2 /\ store_faults \in Nat

WalkTyped ==
    /\ step \in Steps /\ taken \in 0 .. RecursionLimit
    /\ pipeline \in {"absent", "boundary", "running", "ending", "leaving", "over", "dead"}
    /\ ending \in OwnEnding \union {"none"} /\ (pipeline = "ending" => ending # "none")

RedisTyped == alive_key \in BOOLEAN /\ redis_up \in BOOLEAN /\ redis_faults \in Nat

\* The process keeps its key alive until it has written its ending; it numbers its events
\* without a gap, and only a sweep, once the process is dead, writes past them.
ProcessKeepsLog ==
    /\ redis_up /\ (Running => alive_key)
    /\ pipeline = "absent" => sequence = 0
    /\ 1 .. sequence \subseteq numbers /\ numbers \subseteq 1 .. sequence + 1
    /\ sequence + 1 \in numbers => pipeline = "dead" /\ endings = {<<"abandoned", sequence + 1>>}

\* There is one ending at most: the last event of the process, or the sweep's.
OneEnding ==
    /\ endings # {} => pipeline \in {"leaving", "over", "dead"}
    /\ pipeline \in {"leaving", "over"} => endings # {}
    /\ \A e, f \in endings : e = f
    /\ \A e \in endings : e[1] = "abandoned" => pipeline = "dead"

\* A sweep would write at a number that is taken as soon as the run has an ending, and it
\* writes only for a process that is over or dead.
SweepComesLate ==
    /\ reaper \in [Reaper -> ReaperSet]
    /\ \A r \in Reaper : reaper[r].at # "asleep" =>
         /\ reaper[r].last \in 1 .. sequence
         /\ endings # {} => reaper[r].last + 1 \in numbers
         /\ reaper[r].at = "writing" => pipeline \in {"over", "dead"}

\* The inductive invariant of a pipeline run.
PipelineIInv ==
    /\ EventsTyped /\ WalkTyped /\ RedisTyped
    /\ Healthy => ProcessKeepsLog /\ OneEnding /\ SweepComesLate

\* Nothing has started.
LEMMA PipelineStart == ASSUME PipelineInit PROVE PipelineIInv
<1>1. EventsTyped /\ WalkTyped /\ RedisTyped
  <2>1. EventsTyped
    BY DEF PipelineInit, EventsTyped
  <2>2. WalkTyped
    BY PipelineAssumption DEF PipelineInit, WalkTyped, Steps
  <2>3. RedisTyped
    BY Zenon DEF PipelineInit, RedisTyped
  <2> QED
    BY <2>1, <2>2, <2>3
<1>2. ProcessKeepsLog /\ OneEnding
  BY DEF PipelineInit, ProcessKeepsLog, OneEnding, Running
<1>3. SweepComesLate
  BY DEF PipelineInit, SweepComesLate, ReaperSet, Asleep_reaper
<1> QED
  BY <1>1, <1>2, <1>3 DEF PipelineIInv

\* A row is stored whole or not at all.
LEMMA StoredTyped ==
    ASSUME EventsTyped, NEW n, NEW type, emit_checked(n, type)
    PROVE  /\ endings' \in SUBSET (Terminal \X numbers')
           /\ silence' \in 0 .. 2 /\ store_faults' \in Nat /\ store_faults' >= store_faults
BY DEF EventsTyped, emit_checked, Insert

\* While the process writes, and the database takes what it writes, its next number is free
\* and there is no ending yet.
LEMMA StoredNext ==
    ASSUME PipelineIInv, NEW type, emit(type), Healthy', UNCHANGED redis_faults,
           pipeline \in {"absent", "boundary", "running", "ending"}
    PROVE  /\ Healthy /\ sequence' = sequence + 1 /\ numbers' = 1 .. sequence + 1 /\ endings = {}
           /\ endings' = IF type \in Terminal THEN {<<type, sequence + 1>>} ELSE {}
<1>1. sequence \in Nat /\ emit_checked(sequence + 1, type) /\ sequence' = sequence + 1
  BY DEF PipelineIInv, EventsTyped, emit
<1>2. store_faults' = 0 /\ redis_faults = 0 /\ store_faults = 0 /\ Healthy
  BY <1>1, StoredTyped DEF Healthy, PipelineIInv, EventsTyped
<1>3. endings = {} /\ numbers = 1 .. sequence
  <2>1. endings = {} /\ sequence + 1 \notin numbers /\ 1 .. sequence \subseteq numbers /\ numbers \subseteq 1 .. sequence + 1
    BY <1>2 DEF PipelineIInv, ProcessKeepsLog, OneEnding
  <2>2. \A i \in 1 .. sequence + 1 : i = sequence + 1 \/ i \in 1 .. sequence
    BY <1>1
  <2> QED
    BY <2>1, <2>2
<1>4. Insert(sequence + 1, type)
  <2>1. sequence + 1 \notin numbers
    BY <1>1, <1>3
  <2> QED
    BY <1>1, <1>2, <2>1 DEF emit_checked
<1> QED
  BY <1>1, <1>2, <1>3, <1>4 DEF Insert

\* An event of the process that is not an ending.
LEMMA ProcessGoesOn ==
    ASSUME PipelineIInv, NEW type, type \notin Terminal, emit(type),
           pipeline \in {"absent", "boundary", "running"}, pipeline' \in {"boundary", "running", "ending"},
           WalkTyped', UNCHANGED <<redis_up, redis_faults, reaper>>,
           IF pipeline = "absent" THEN alive_key' = redis_up ELSE UNCHANGED alive_key
    PROVE  PipelineIInv'
<1>1. EventsTyped'
  BY StoredTyped DEF PipelineIInv, EventsTyped, emit
<1>2. RedisTyped'
  BY DEF PipelineIInv, RedisTyped
<1>3. ASSUME Healthy' PROVE ProcessKeepsLog' /\ OneEnding' /\ SweepComesLate'
  <2>1. /\ Healthy /\ sequence' = sequence + 1 /\ numbers' = 1 .. sequence + 1 /\ endings' = {}
        /\ sequence \in Nat
    BY <1>3, StoredNext DEF PipelineIInv, EventsTyped
  <2>2. alive_key' /\ redis_up'
    <3>1. redis_up /\ (pipeline # "absent" => alive_key)
      BY <2>1 DEF PipelineIInv, ProcessKeepsLog, Running
    <3> QED
      BY <3>1
  <2>3. ProcessKeepsLog'
    BY <2>1, <2>2 DEF ProcessKeepsLog
  <2>4. OneEnding'
    BY <2>1 DEF OneEnding
  <2>5. SweepComesLate'
    BY <2>1 DEF PipelineIInv, SweepComesLate
  <2> QED
    BY <2>3, <2>4, <2>5
<1> QED
  BY <1>1, <1>2, <1>3 DEF PipelineIInv

\* The walk stays in the graph and ends before its limit.
LEMMA ProceedTyped ==
    ASSUME WalkTyped, Proceed PROVE WalkTyped' /\ pipeline' \in {"boundary", "ending"}
<1>1. build_graph \in Steps \union {"END"}
  BY DEF WalkTyped, Steps, build_graph, _route_after_validation, _route_after_evaluation,
         _route_after_memory_ingest
<1> DEFINE next == build_graph
<1>2. next \in Steps \union {"END"} /\ taken \in 0 .. RecursionLimit
  BY <1>1 DEF WalkTyped
<1>3. IF next = "END" THEN EndWith("completed")
      ELSE IF taken + 1 >= RecursionLimit THEN EndWith("failed")
      ELSE /\ step' = next /\ taken' = taken + 1 /\ pipeline' = "boundary" /\ UNCHANGED ending
  BY DEF Proceed
<1> HIDE DEF next
<1>4. ASSUME NEW kind \in OwnEnding, EndWith(kind) PROVE WalkTyped' /\ pipeline' \in {"boundary", "ending"}
  BY <1>4 DEF EndWith, WalkTyped, OwnEnding
<1>5. CASE /\ next # "END" /\ ~(taken + 1 >= RecursionLimit)
           /\ step' = next /\ taken' = taken + 1 /\ pipeline' = "boundary" /\ UNCHANGED ending
  BY <1>2, <1>5, PipelineAssumption DEF WalkTyped
<1> QED
  BY <1>3, <1>4, <1>5 DEF OwnEnding

\* Every step keeps the invariant.
LEMMA PipelineStep == ASSUME PipelineIInv, [PipelineNext]_pipelineVars PROVE PipelineIInv'
<1>0. EventsTyped /\ WalkTyped /\ RedisTyped
  BY DEF PipelineIInv
<1>1. CASE run_pipeline_endpoint
  <2>1. /\ emit("started") /\ pipeline = "absent" /\ pipeline' = "boundary" /\ alive_key' = redis_up
        /\ UNCHANGED <<step, ending, taken, redis_up, redis_faults, reaper>>
    BY <1>1 DEF run_pipeline_endpoint
  <2>2. WalkTyped' /\ "started" \notin Terminal
    BY <1>0, <2>1 DEF WalkTyped, Terminal
  <2> QED
    BY <2>1, <2>2, ProcessGoesOn
<1>2. CASE begin_step
  <2>1. /\ emit("step.started") /\ pipeline = "boundary" /\ pipeline' = "running"
        /\ UNCHANGED <<step, ending, taken, alive_key, redis_up, redis_faults, reaper>>
    BY <1>2 DEF begin_step, redisVars
  <2>2. WalkTyped' /\ "step.started" \notin Terminal
    BY <1>0, <2>1 DEF WalkTyped, Terminal
  <2> QED
    BY <2>1, <2>2, ProcessGoesOn
<1>3. CASE skip_node
  <2>1. /\ emit("step.skipped") /\ pipeline = "boundary" /\ Proceed
        /\ UNCHANGED <<alive_key, redis_up, redis_faults, reaper>> /\ "step.skipped" \notin Terminal
    BY <1>3 DEF skip_node, redisVars, Terminal
  <2> QED
    BY <1>0, <2>1, ProceedTyped, ProcessGoesOn
<1>4. CASE step_completed
  <2>1. /\ emit("step.completed") /\ pipeline = "running" /\ Proceed
        /\ UNCHANGED <<alive_key, redis_up, redis_faults, reaper>> /\ "step.completed" \notin Terminal
    BY <1>4 DEF step_completed, redisVars, Terminal
  <2> QED
    BY <1>0, <2>1, ProceedTyped, ProcessGoesOn
<1>5. CASE step_failed
  <2>1. /\ emit("step.failed") /\ pipeline = "running" /\ EndWith("failed")
        /\ UNCHANGED <<alive_key, redis_up, redis_faults, reaper>> /\ "step.failed" \notin Terminal
    BY <1>5 DEF step_failed, redisVars, Terminal
  <2>2. WalkTyped' /\ pipeline' = "ending"
    BY <1>0, <2>1 DEF WalkTyped, EndWith, OwnEnding
  <2> QED
    BY <2>1, <2>2, ProcessGoesOn
<1>6. CASE step_cancelled
  <2>1. /\ emit("step.cancelled") /\ pipeline = "running" /\ EndWith("cancelled")
        /\ UNCHANGED <<alive_key, redis_up, redis_faults, reaper>> /\ "step.cancelled" \notin Terminal
    BY <1>6 DEF step_cancelled, redisVars, Terminal
  <2>2. WalkTyped' /\ pipeline' = "ending"
    BY <1>0, <2>1 DEF WalkTyped, EndWith, OwnEnding
  <2> QED
    BY <2>1, <2>2, ProcessGoesOn
<1>7. CASE cancelled_at_boundary
  <2>1. /\ pipeline = "boundary" /\ EndWith("cancelled")
        /\ UNCHANGED <<eventVars, alive_key, redis_up, redis_faults, reaper>>
    BY <1>7 DEF cancelled_at_boundary, redisVars
  <2>2. WalkTyped' /\ pipeline' = "ending"
    BY <1>0, <2>1 DEF WalkTyped, EndWith, OwnEnding
  <2> QED
    BY <1>0, <2>1, <2>2
       DEF eventVars, PipelineIInv, EventsTyped, RedisTyped, Healthy, ProcessKeepsLog, OneEnding,
           SweepComesLate, Running
<1>8. CASE run_pipeline_ends
  <2>1. /\ emit(ending) /\ pipeline = "ending" /\ pipeline' = "leaving" /\ ending \in OwnEnding
        /\ UNCHANGED <<step, ending, taken, alive_key, redis_up, redis_faults, reaper>>
    BY <1>0, <1>8 DEF run_pipeline_ends, redisVars, WalkTyped
  <2>2. EventsTyped'
    BY <1>0, <2>1, StoredTyped DEF EventsTyped, emit
  <2>3. WalkTyped' /\ RedisTyped'
    BY <1>0, <2>1 DEF WalkTyped, RedisTyped
  <2>4. ASSUME Healthy' PROVE ProcessKeepsLog' /\ OneEnding' /\ SweepComesLate'
    <3>1. /\ Healthy /\ sequence' = sequence + 1 /\ numbers' = 1 .. sequence + 1 /\ sequence \in Nat
          /\ endings' = {<<ending, sequence + 1>>} /\ ending # "abandoned"
      BY <1>0, <2>1, <2>4, StoredNext DEF EventsTyped, OwnEnding, Terminal
    <3>2. ProcessKeepsLog'
      BY <2>1, <3>1 DEF PipelineIInv, ProcessKeepsLog, Running
    <3>3. OneEnding'
      BY <2>1, <3>1 DEF OneEnding
    <3>4. SweepComesLate'
      BY <2>1, <3>1 DEF PipelineIInv, SweepComesLate
    <3> QED
      BY <3>2, <3>3, <3>4
  <2> QED
    BY <2>2, <2>3, <2>4 DEF PipelineIInv
<1>9. CASE clear_cancel
  <2>1. /\ pipeline = "leaving" /\ pipeline' = "over" /\ alive_key' \in BOOLEAN
        /\ UNCHANGED <<step, ending, taken, eventVars, redis_up, redis_faults, reaper>>
    BY <1>9 DEF clear_cancel
  <2>2. WalkTyped' /\ EventsTyped' /\ RedisTyped'
    BY <1>0, <2>1 DEF WalkTyped, EventsTyped, RedisTyped, eventVars
  <2>3. ASSUME Healthy' PROVE ProcessKeepsLog' /\ OneEnding' /\ SweepComesLate'
    BY <2>1, <2>3 DEF eventVars, PipelineIInv, Healthy, ProcessKeepsLog, OneEnding, SweepComesLate, Running
  <2> QED
    BY <2>2, <2>3 DEF PipelineIInv
<1>10. CASE ProcessDies
  <2>1. /\ Running /\ pipeline' = "dead"
        /\ UNCHANGED <<step, ending, taken, eventVars, alive_key, redis_up, redis_faults, reaper>>
    BY <1>10 DEF ProcessDies, redisVars
  <2>2. WalkTyped' /\ EventsTyped' /\ RedisTyped'
    BY <1>0, <2>1 DEF WalkTyped, EventsTyped, RedisTyped, eventVars
  <2>3. ASSUME Healthy' PROVE ProcessKeepsLog' /\ OneEnding' /\ SweepComesLate'
    BY <2>1, <2>3 DEF eventVars, PipelineIInv, Healthy, ProcessKeepsLog, OneEnding, SweepComesLate, Running
  <2> QED
    BY <2>2, <2>3 DEF PipelineIInv
<1>11. CASE heartbeat \/ KeyExpires \/ cancel_pipeline_run_endpoint
  <2>1. /\ UNCHANGED <<step, pipeline, ending, taken, eventVars, redis_up, redis_faults, reaper>>
        /\ alive_key' \in BOOLEAN /\ (alive_key' \/ UNCHANGED alive_key \/ ~Running \/ ~redis_up)
    <3>1. CASE heartbeat
      BY <3>1 DEF heartbeat, walkVars
    <3>2. CASE KeyExpires
      BY <3>2 DEF KeyExpires, walkVars
    <3>3. CASE cancel_pipeline_run_endpoint
      BY <1>0, <3>3 DEF cancel_pipeline_run_endpoint, walkVars, RedisTyped
    <3> QED
      BY <1>11, <3>1, <3>2, <3>3
  <2>2. WalkTyped' /\ EventsTyped' /\ RedisTyped'
    BY <1>0, <2>1 DEF WalkTyped, EventsTyped, RedisTyped, eventVars
  <2>3. ASSUME Healthy' PROVE ProcessKeepsLog' /\ OneEnding' /\ SweepComesLate'
    BY <2>1, <2>3 DEF eventVars, PipelineIInv, Healthy, ProcessKeepsLog, OneEnding, SweepComesLate, Running
  <2> QED
    BY <2>2, <2>3 DEF PipelineIInv
<1>12. CASE RedisChanges
  <2>1. /\ UNCHANGED <<walkVars, eventVars, alive_key>> /\ redis_up' \in BOOLEAN /\ redis_faults' \in Nat
    BY <1>0, <1>12 DEF RedisChanges, RedisTyped
  <2>2. ~Healthy'
    BY <1>0, <1>12, <2>1 DEF RedisChanges, Healthy, PipelineIInv, ProcessKeepsLog, RedisTyped, eventVars
  <2>3. WalkTyped' /\ EventsTyped' /\ RedisTyped'
    BY <1>0, <2>1 DEF WalkTyped, EventsTyped, RedisTyped, eventVars, walkVars
  <2> QED
    BY <2>2, <2>3 DEF PipelineIInv
<1>13. CASE SilenceGrows
  <2>1. /\ UNCHANGED <<walkVars, sequence, numbers, endings, store_faults, redisVars, reaper>>
        /\ silence' \in 0 .. 2
    BY <1>0, <1>13 DEF SilenceGrows, EventsTyped
  <2>2. WalkTyped' /\ EventsTyped' /\ RedisTyped'
    BY <1>0, <2>1 DEF WalkTyped, EventsTyped, RedisTyped, redisVars, walkVars
  <2>3. ASSUME Healthy' PROVE ProcessKeepsLog' /\ OneEnding' /\ SweepComesLate'
    BY <2>1, <2>3 DEF walkVars, redisVars, PipelineIInv, Healthy, ProcessKeepsLog, OneEnding, SweepComesLate, Running
  <2> QED
    BY <2>2, <2>3 DEF PipelineIInv
<1>14. ASSUME NEW r \in Reaper, reaper_lists(r) \/ reaper_reads(r) \/ reaper_asks(r) PROVE PipelineIInv'
  <2>1. UNCHANGED <<walkVars, sequence, numbers, endings, silence, store_faults, redisVars>>
    BY <1>14 DEF reaper_lists, reaper_reads, reaper_asks, SetReaper
  <2>2. WalkTyped' /\ EventsTyped' /\ RedisTyped'
    BY <1>0, <2>1 DEF WalkTyped, EventsTyped, RedisTyped, redisVars, walkVars
  <2>3. ASSUME Healthy' PROVE ProcessKeepsLog' /\ OneEnding' /\ SweepComesLate'
    <3>1. Healthy /\ ProcessKeepsLog /\ OneEnding /\ SweepComesLate
      BY <2>1, <2>3 DEF Healthy, redisVars, PipelineIInv
    <3>2. ProcessKeepsLog' /\ OneEnding'
      BY <2>1, <3>1 DEF walkVars, redisVars, ProcessKeepsLog, OneEnding, Running
    <3>3. ASSUME NEW job \in ReaperSet, reaper' = [reaper EXCEPT ![r] = job],
                 job.at # "asleep" => /\ job.last \in 1 .. sequence
                                      /\ endings # {} => job.last + 1 \in numbers
                                      /\ job.at = "writing" => pipeline \in {"over", "dead"}
          PROVE  SweepComesLate'
      BY <2>1, <3>1, <3>3 DEF SweepComesLate, walkVars
    <3>4. ASSUME reaper_lists(r) PROVE SweepComesLate'
      <4> DEFINE last == CHOOSE n \in numbers : \A m \in numbers : m <= n
      <4>1. numbers # {} /\ endings = {} /\ reaper' = [reaper EXCEPT ![r] = [at |-> "listed", last |-> last]]
        BY <3>4 DEF reaper_lists, SetReaper
      <4>2. numbers = 1 .. sequence /\ sequence \in 1 .. sequence
        <5>1. /\ sequence \in Nat /\ sequence + 1 \notin numbers
              /\ 1 .. sequence \subseteq numbers /\ numbers \subseteq 1 .. sequence + 1
          BY <1>0, <3>1, <4>1 DEF ProcessKeepsLog, EventsTyped
        <5>2. \A i \in 1 .. sequence + 1 : i = sequence + 1 \/ i \in 1 .. sequence
          BY <5>1
        <5>3. numbers = 1 .. sequence
          BY <5>1, <5>2
        <5> QED
          BY <4>1, <5>1, <5>3
      <4>3. sequence \in numbers /\ \A m \in numbers : m <= sequence
        BY <4>2
      <4>4. last \in numbers
        BY <4>3
      <4> HIDE DEF last
      <4> QED
        <5> DEFINE job == [at |-> "listed", last |-> last]
        <5>1. job \in ReaperSet /\ job.at = "listed" /\ job.last = last
          BY <1>0, <4>2, <4>4 DEF ReaperSet, EventsTyped
        <5> QED
          BY <3>3, <4>1, <4>2, <4>4, <5>1
    <3>5. ASSUME reaper_reads(r) PROVE SweepComesLate'
      <4> DEFINE job == [at |-> "read", last |-> reaper[r].last, quiet |-> silence]
      <4>1. reaper[r].at = "listed" /\ reaper' = [reaper EXCEPT ![r] = job]
        BY <3>5 DEF reaper_reads, SetReaper
      <4>2. reaper[r].last \in 1 .. sequence /\ (endings # {} => reaper[r].last + 1 \in numbers)
        BY <3>1, <4>1 DEF SweepComesLate
      <4>3. job \in ReaperSet /\ job.at = "read" /\ job.last = reaper[r].last
        BY <1>0, <4>2 DEF ReaperSet, EventsTyped
      <4> QED
        BY <3>3, <4>1, <4>2, <4>3
    <3>6. ASSUME reaper_asks(r) PROVE SweepComesLate'
      <4>1. reaper[r].at = "read" /\ reaper[r] \in ReaperSet
        BY <3>1, <3>6 DEF reaper_asks, SweepComesLate
      <4>2. reaper[r].last \in 1 .. sequence /\ (endings # {} => reaper[r].last + 1 \in numbers)
        BY <3>1, <4>1 DEF SweepComesLate
      <4>3. CASE _process_is_gone(reaper[r].quiet)
        <5> DEFINE job == [at |-> "writing", last |-> reaper[r].last]
        <5>1. reaper' = [reaper EXCEPT ![r] = job]
          BY <3>6, <4>3 DEF reaper_asks, SetReaper
        <5>2. ~alive_key /\ redis_up
          BY <3>1, <4>3 DEF _process_is_gone, ProcessKeepsLog
        <5>3. pipeline \in {"over", "dead"}
          BY <1>0, <3>1, <4>2, <5>2 DEF ProcessKeepsLog, Running, WalkTyped
        <5>4. job \in ReaperSet /\ job.at = "writing" /\ job.last = reaper[r].last
          BY <1>0, <4>2 DEF ReaperSet, EventsTyped
        <5> QED
          BY <3>3, <4>2, <5>1, <5>3, <5>4
      <4>4. CASE ~_process_is_gone(reaper[r].quiet)
        <5>1. reaper' = [reaper EXCEPT ![r] = Asleep_reaper]
          BY <3>6, <4>4 DEF reaper_asks, SetReaper
        <5>2. Asleep_reaper \in ReaperSet /\ Asleep_reaper.at = "asleep"
          BY DEF ReaperSet, Asleep_reaper
        <5> QED
          BY <3>3, <5>1, <5>2
      <4> QED
        BY <4>3, <4>4
    <3> QED
      BY <1>14, <3>2, <3>4, <3>5, <3>6
  <2> QED
    BY <2>2, <2>3 DEF PipelineIInv
<1>15. ASSUME NEW r \in Reaper, reap_abandoned_run(r) PROVE PipelineIInv'
  <2> DEFINE n == reaper[r].last + 1
  <2>1. /\ reaper[r].at = "writing" /\ emit_checked(n, "abandoned") /\ reaper' = [reaper EXCEPT ![r] = Asleep_reaper]
        /\ UNCHANGED <<walkVars, sequence, redisVars>>
    BY <1>15 DEF reap_abandoned_run, SetReaper
  <2> HIDE DEF n
  <2>2. WalkTyped' /\ RedisTyped'
    BY <1>0, <2>1 DEF WalkTyped, RedisTyped, redisVars, walkVars
  <2>3. EventsTyped' /\ (Healthy' => Healthy)
    BY <1>0, <2>1, StoredTyped DEF EventsTyped, Healthy, redisVars
  <2>4. ASSUME Healthy' PROVE ProcessKeepsLog' /\ OneEnding' /\ SweepComesLate'
    <3>1. Healthy /\ ProcessKeepsLog /\ OneEnding /\ SweepComesLate
      BY <2>3, <2>4 DEF PipelineIInv
    <3>2. /\ n \in 2 .. sequence + 1 /\ (endings # {} => n \in numbers) /\ pipeline \in {"over", "dead"}
          /\ sequence \in Nat
      BY <1>0, <2>1, <3>1 DEF SweepComesLate, n, EventsTyped
    <3>3. /\ reaper' \in [Reaper -> ReaperSet]
          /\ \A q \in Reaper : reaper'[q].at # "asleep" => reaper'[q] = reaper[q]
      <4>1. Asleep_reaper \in ReaperSet /\ Asleep_reaper.at = "asleep"
        BY DEF ReaperSet, Asleep_reaper
      <4> QED
        BY <2>1, <3>1, <4>1 DEF SweepComesLate
    <3>4. CASE UNCHANGED <<numbers, endings>>
      <4>1. ProcessKeepsLog' /\ OneEnding'
        BY <2>1, <3>1, <3>4 DEF walkVars, redisVars, ProcessKeepsLog, OneEnding, Running
      <4>2. SweepComesLate'
        BY <2>1, <3>1, <3>3, <3>4 DEF SweepComesLate, walkVars
      <4> QED
        BY <4>1, <4>2
    <3>5. CASE n \notin numbers /\ Insert(n, "abandoned")
      <4>1. endings = {} /\ n = sequence + 1 /\ pipeline = "dead"
        BY <3>1, <3>2, <3>5 DEF ProcessKeepsLog, OneEnding
      <4>2. numbers' = numbers \union {sequence + 1} /\ endings' = {<<"abandoned", sequence + 1>>}
        BY <3>5, <4>1 DEF Insert, Terminal
      <4>3. ProcessKeepsLog'
        BY <2>1, <3>1, <3>2, <4>1, <4>2 DEF walkVars, redisVars, ProcessKeepsLog, Running
      <4>4. OneEnding'
        BY <2>1, <4>1, <4>2 DEF walkVars, OneEnding
      <4>5. 1 .. sequence + 1 \subseteq numbers'
        BY <3>1, <3>2, <4>2 DEF ProcessKeepsLog
      <4>6. SweepComesLate'
        BY <2>1, <3>1, <3>2, <3>3, <4>1, <4>5 DEF SweepComesLate, walkVars
      <4> QED
        BY <4>3, <4>4, <4>6
    <3>6. UNCHANGED <<numbers, endings>> \/ (n \notin numbers /\ Insert(n, "abandoned"))
      BY <2>1 DEF emit_checked
    <3> QED
      BY <3>4, <3>5, <3>6
  <2> QED
    BY <2>2, <2>3, <2>4 DEF PipelineIInv
<1>16. CASE UNCHANGED pipelineVars
  <2>1. UNCHANGED <<walkVars, eventVars, redisVars, reaper>>
    BY <1>16 DEF pipelineVars
  <2>2. WalkTyped' /\ EventsTyped' /\ RedisTyped'
    BY <1>0, <2>1 DEF WalkTyped, EventsTyped, RedisTyped, redisVars, walkVars, eventVars
  <2>3. ASSUME Healthy' PROVE ProcessKeepsLog' /\ OneEnding' /\ SweepComesLate'
    BY <2>1, <2>3 DEF walkVars, eventVars, redisVars, PipelineIInv, Healthy, ProcessKeepsLog, OneEnding,
                      SweepComesLate, Running
  <2> QED
    BY <2>2, <2>3 DEF PipelineIInv
<1> QED
  BY <1>1, <1>2, <1>3, <1>4, <1>5, <1>6, <1>7, <1>8, <1>9, <1>10, <1>11, <1>12, <1>13, <1>14, <1>15, <1>16
     DEF PipelineNext, ProcessStep, ReaperStep

\* What the invariant says of the endings.
LEMMA EndedOnceFollows == ASSUME PipelineIInv PROVE EndedOnce
<1> SUFFICES ASSUME Healthy
             PROVE  /\ Cardinality(endings) <= 1
                    /\ \A n \in numbers : <<"abandoned", n>> \in endings => pipeline = "dead"
  BY DEF EndedOnce, Healthy
<1>1. OneEnding
  BY DEF PipelineIInv
<1>2. \A n \in numbers : <<"abandoned", n>> \in endings => pipeline = "dead"
  BY <1>1 DEF OneEnding
<1>3. CASE endings = {}
  BY <1>2, <1>3, FS_EmptySet
<1>4. CASE endings # {}
  <2>1. PICK e : e \in endings
    BY <1>4
  <2>2. endings = {e}
    BY <1>1, <2>1 DEF OneEnding
  <2> QED
    BY <1>2, <2>2, FS_Singleton
<1> QED
  BY <1>3, <1>4

\* The types follow from the invariant.
LEMMA PipelineTypes == PipelineIInv => PipelineTypeOK
<1> SUFFICES ASSUME PipelineIInv PROVE PipelineTypeOK
  OBVIOUS
<1>1. EventsTyped /\ WalkTyped
  BY DEF PipelineIInv
<1>2. ending \in Terminal \cup {"none"}
  BY <1>1 DEF WalkTyped, OwnEnding, Terminal
<1>3. \A e \in endings : e[1] \in Terminal /\ e[2] \in numbers
  <2>1. endings \subseteq Terminal \X numbers
    BY <1>1 DEF EventsTyped
  <2> QED
    BY <2>1
<1> QED
  BY <1>1, <1>2, <1>3 DEF EventsTyped, WalkTyped, PipelineTypeOK

\* A run has one ending, whatever the number of reapers and of steps (pipeline_events.py).
THEOREM EndedOnceHolds == PipelineSpec => []EndedOnce
BY PipelineStart, PipelineStep, EndedOnceFollows, PTL DEF PipelineSpec

-----------------------------------------------------------------------------
(* What must happen by itself, together.  A step is a step of one of the   *)
(* three and a stutter of the others.                                      *)

\* What a step is to each of them.
LEMMA WatchSteps ==
    ASSUME [WatchNext]_watchVars
    PROVE  [AlertsNext]_alertVars /\ [KillSwitchNext]_switchVars /\ [PipelineNext]_pipelineVars
<1>1. CASE WatchNext
  BY <1>1, Zenon DEF WatchNext
<1>2. CASE UNCHANGED watchVars
  BY <1>2, Zenon DEF watchVars
<1> QED
  BY <1>1, <1>2

\* Their invariants, together.
WatchIInv == AlertsIInv /\ KillSwitchIInv /\ PipelineIInv

\* Each starts and steps by itself.
LEMMA WatchKeeps == (WatchInit => WatchIInv) /\ (WatchIInv /\ [WatchNext]_watchVars => WatchIInv')
<1>1. WatchInit => AlertsInit /\ KillSwitchInit /\ PipelineInit
  BY Zenon DEF WatchInit
<1>2. WatchInit => WatchIInv
  BY <1>1, AlertsStart, KillSwitchStart, PipelineStart DEF WatchIInv
<1>3. WatchIInv /\ [WatchNext]_watchVars => WatchIInv'
  BY WatchSteps, AlertsStep, KillSwitchStep, PipelineStep DEF WatchIInv
<1> QED
  BY <1>2, <1>3

\* Every variable of the watcher, the switch and a pipeline run keeps its type.
THEOREM WatchTyped == WatchSpec => []WatchTypeOK
<1>1. WatchIInv => WatchTypeOK
  BY KillSwitchTypes, PipelineTypes DEF WatchIInv, AlertsIInv, AlertsTyped, WatchTypeOK
<1> QED
  BY <1>1, WatchKeeps, PTL DEF WatchSpec

\* The switch is tripped once between two resets, next to the other two.
THEOREM WatchTripsOnce == WatchSpec => []OneTripPerReset
<1>1. WatchIInv => OneTripPerReset
  BY DEF WatchIInv, KillSwitchIInv, TripShows, OneTripPerReset
<1> QED
  BY <1>1, WatchKeeps, PTL DEF WatchSpec

\* An end is told after its beginning, next to the other two.
THEOREM WatchClears == WatchSpec => ClearedAfterOpened
<1>1. WatchIInv /\ [WatchNext]_watchVars =>
        [\A k \in DOMAIN told : told'[k] = "cleared" /\ told[k] # "cleared" => told[k] = "opened"]_told
  BY WatchSteps, ClearedFollows DEF WatchIInv
<1> QED
  BY <1>1, WatchKeeps, PTL DEF WatchSpec, ClearedAfterOpened

-----------------------------------------------------------------------------
(* The platform.  A step of it is a step of one component, and a stutter   *)
(* of the others.                                                          *)

platformVars == <<component, accountsVars, sessionsVars, auditVars, connectionVars, inboundVars,
                  gatewayVars, backupVars, jobVars, promptVars, routerVars, memoryVars, chatVars,
                  feedsVars, sandboxVars, pipelineVars, planGraphVars>>

PlatformSpec == PlatformInit /\ [][PlatformNext]_platformVars

\* What a step of the platform is to each component.
LEMMA PlatformSteps ==
    ASSUME [PlatformNext]_platformVars
    PROVE  /\ [AccountsNext]_accountsVars /\ [SessionsNext]_sessionsVars /\ [AuditNext]_auditVars
           /\ [ConnectionsNext]_connectionVars /\ [InboundNext]_inboundVars /\ [GatewayNext]_gatewayVars
           /\ [BackupsNext]_backupVars /\ [JobsNext]_jobVars /\ [PromptNext]_promptVars
           /\ [LlmRouterNext]_routerVars /\ [MemoryNext]_memoryVars /\ [ChatNext]_chatVars
           /\ [FeedsNext]_feedsVars /\ [SandboxNext]_sandboxVars /\ [PipelineNext]_pipelineVars
           /\ [PlanGraphNext]_planGraphVars
<1>1. CASE PlatformNext
  BY <1>1, Zenon DEF PlatformNext
<1>2. CASE UNCHANGED platformVars
  BY <1>2, Zenon DEF platformVars
<1> QED
  BY <1>1, <1>2

\* Where every component starts.
LEMMA PlatformStarts ==
    ASSUME PlatformInit
    PROVE  /\ AccountsInit /\ SessionsInit /\ AuditInit /\ ConnectionsInit /\ InboundInit /\ GatewayInit
           /\ BackupsInit /\ JobsInit /\ PromptInit /\ LlmRouterInit /\ MemoryInit /\ create_session
           /\ FeedsInit /\ SandboxInit /\ PipelineInit /\ PlanGraphInit
BY Zenon DEF PlatformInit

\* Access is what it was made to be: for any accounts, sessions, tokens and sign-ins.
THEOREM PlatformAccess == PlatformSpec => []AccessHolds
<1>1. AccountsIInv /\ SessionsIInv /\ ConnectionsIInv => AccessHolds
  BY DEF AccountsIInv, SessionsIInv, ConnectionsIInv, AccessHolds
<1>2. PlatformInit => AccountsIInv /\ SessionsIInv /\ ConnectionsIInv
  BY PlatformStarts, AccountsStart, SessionsStart, ConnectionsStart
<1>3. /\ AccountsIInv /\ SessionsIInv /\ ConnectionsIInv /\ [PlatformNext]_platformVars
      => AccountsIInv' /\ SessionsIInv' /\ ConnectionsIInv'
  BY PlatformSteps, AccountsStep, SessionsStep, ConnectionsStep
<1> QED
  BY <1>1, <1>2, <1>3, PTL DEF PlatformSpec

\* The audit trail holds on the platform, which writes it from every component.
THEOREM PlatformAudit == PlatformSpec => []AuditTrail
<1>1. PlatformInit => AuditIInv
  BY PlatformStarts, AuditStart
<1>2. AuditIInv /\ [PlatformNext]_platformVars => AuditIInv'
  BY PlatformSteps, AuditStep
<1>3. AuditIInv => AuditTrail
  BY AuditTrailFollows
<1> QED
  BY <1>1, <1>2, <1>3, PTL DEF PlatformSpec

\* What may happen once happens once: for any deliveries, editors and reapers.
THEOREM PlatformOnce == PlatformSpec => []OnceOnly
<1>1. InboundIInv /\ GatewayIInv /\ PipelineIInv => OnceOnly
  BY OneRunFollows, EndedOnceFollows DEF GatewayIInv, OnceOnly
<1>2. PlatformInit => InboundIInv /\ GatewayIInv /\ PipelineIInv
  BY PlatformStarts, InboundStart, GatewayStart, PipelineStart
<1>3. /\ InboundIInv /\ GatewayIInv /\ PipelineIInv /\ [PlatformNext]_platformVars
      => InboundIInv' /\ GatewayIInv' /\ PipelineIInv'
  BY PlatformSteps, InboundStep, GatewayStep, PipelineStep
<1> QED
  BY <1>1, <1>2, <1>3, PTL DEF PlatformSpec

\* What was kept or sent can be had again: for any backups, schedules, lessons, replies and
\* viewers.
THEOREM PlatformKeeps == PlatformSpec => []WhatIsKeptStays
<1>1. BackupsIInv /\ JobsIInv /\ MemoryIInv /\ ChatIInv /\ FeedsIInv => WhatIsKeptStays
  BY BackupsTrusted, ScheduleFollows, RememberedFollows, AbortFollows, NothingIsMissed DEF WhatIsKeptStays
<1>2. PlatformInit => BackupsIInv /\ JobsIInv /\ MemoryIInv /\ ChatIInv /\ FeedsIInv
  BY PlatformStarts, BackupsStart, JobsStart, MemoryStart, ChatStart, FeedsStart
<1>3. /\ BackupsIInv /\ JobsIInv /\ MemoryIInv /\ ChatIInv /\ FeedsIInv /\ [PlatformNext]_platformVars
      => BackupsIInv' /\ JobsIInv' /\ MemoryIInv' /\ ChatIInv' /\ FeedsIInv'
  BY PlatformSteps, BackupsStep, JobsStep, MemoryStep, ChatStep, FeedsStep
<1> QED
  BY <1>1, <1>2, <1>3, PTL DEF PlatformSpec

\* What the agents are held to: for any providers, calls, workers and plans.
THEOREM PlatformHolds == PlatformSpec => []AgentsAreHeld
<1>1. LlmRouterIInv /\ SandboxIInv /\ PlanIInv => AgentsAreHeld
  BY OneVoiceFollows, SandboxFollows, PlanFollows DEF AgentsAreHeld
<1>2. PlatformInit => LlmRouterIInv /\ SandboxIInv /\ PlanIInv
  BY PlatformStarts, LlmRouterStart, SandboxStart, PlanStart
<1>3. /\ LlmRouterIInv /\ SandboxIInv /\ PlanIInv /\ [PlatformNext]_platformVars
      => LlmRouterIInv' /\ SandboxIInv' /\ PlanIInv'
  BY PlatformSteps, LlmRouterStep, SandboxStep, PlanStep
<1> QED
  BY <1>1, <1>2, <1>3, PTL DEF PlatformSpec

\* The prompts of an agent are those the activations meant, on the platform too: for any
\* versions and requests.
THEOREM PlatformPrompt == PlatformSpec => []PromptsInUse
<1>1. PlatformInit => PromptIInv
  BY PlatformStarts, PromptStart
<1>2. PromptIInv /\ [PlatformNext]_platformVars => PromptIInv'
  BY PlatformSteps, PromptStep
<1>3. PromptIInv => PromptsInUse
  BY DEF PromptIInv
<1> QED
  BY <1>1, <1>2, <1>3, PTL DEF PlatformSpec

\* The types that the invariants of the components give.
LEMMA PlatformTypes ==
    ASSUME AccountsIInv, SessionsIInv, AuditIInv, ConnectionsIInv, InboundIInv, GatewayIInv,
           BackupsIInv, JobsIInv, PromptIInv, LlmRouterIInv, MemoryIInv, ChatIInv, FeedsIInv,
           SandboxIInv, PipelineIInv, PlanIInv
    PROVE  PlatformTypeOK
<1>1. AccountsTypeOK /\ SessionsTypeOK /\ AuditTypeOK /\ ConnectionsTypeOK
  BY DEF AccountsIInv, SessionsIInv, AuditIInv, ConnectionsIInv
<1>2. InboundTypeOK
  BY DEF InboundIInv
<1>3. GatewayTypeOK
  BY DEF GatewayIInv, GatewayTyped, GatewayTypeOK
<1>4. BackupsTypeOK
  BY DEF BackupsIInv, BackupsTyped, BackupsTypeOK, Content
<1>5. JobsTypeOK
  BY DEF JobsIInv
<1>6. PromptTypeOK
  BY DEF PromptIInv, PromptTyped
<1>7. MemoryTypeOK
  BY DEF MemoryIInv, MemoryTyped, MemoryTypeOK, Point, effective_choice
<1>8. ChatTypeOK
  <2>1. \A t \in Tab : tab[t] \in TabSet
    BY DEF ChatIInv, ChatTyped
  <2>2. \A t \in Tab : tab[t].at \in {"idle", "clear", "stream", "store"}
    BY <2>1, TabShapes, Zenon
  <2> QED
    BY <2>2 DEF ChatIInv, ChatTyped, ChatTypeOK
<1>9. FeedsTypeOK
  <2>1. Highest \in 0 .. MaxRows /\ rows = 1 .. Highest /\ \A v \in Viewer : viewer[v] \in ViewerSet
    BY DEF FeedsIInv, LogIsWhole, FeedsTyped
  <2>2. rows \subseteq 1 .. MaxRows
    <3> HIDE DEF Highest
    <3> QED
      BY <2>1, FeedsAssumption
  <2>3. \A v \in Viewer : viewer[v].at \in {"closed", "accepted", "polling", "subscribed"}
    BY <2>1, SocketShapes, Zenon
  <2> QED
    BY <2>2, <2>3 DEF FeedsTypeOK
<1>10. PipelineTypeOK
  BY PipelineTypes
<1>11. LlmRouterTypeOK /\ SandboxTypeOK /\ PlanGraphTypeOK
  BY OneVoiceFollows, SandboxFollows, PlanFollows
<1> QED
  BY <1>1, <1>2, <1>3, <1>4, <1>5, <1>6, <1>7, <1>8, <1>9, <1>10, <1>11 DEF PlatformTypeOK

\* Every variable of the platform keeps its type, for every value of the constants.
THEOREM PlatformTyped == PlatformSpec => []PlatformTypeOK
<1> DEFINE All == /\ AccountsIInv /\ SessionsIInv /\ AuditIInv /\ ConnectionsIInv /\ InboundIInv
                  /\ GatewayIInv /\ BackupsIInv /\ JobsIInv /\ PromptIInv /\ LlmRouterIInv
                  /\ MemoryIInv /\ ChatIInv /\ FeedsIInv /\ SandboxIInv /\ PipelineIInv /\ PlanIInv
<1>1. PlatformInit => All
  BY PlatformStarts, AccountsStart, SessionsStart, AuditStart, ConnectionsStart, InboundStart,
     GatewayStart, BackupsStart, JobsStart, PromptStart, LlmRouterStart, MemoryStart, ChatStart,
     FeedsStart, SandboxStart, PipelineStart, PlanStart, Zenon
<1>2. All /\ [PlatformNext]_platformVars => All'
  BY PlatformSteps, AccountsStep, SessionsStep, AuditStep, ConnectionsStep, InboundStep,
     GatewayStep, BackupsStep, JobsStep, PromptStep, LlmRouterStep, MemoryStep, ChatStep,
     FeedsStep, SandboxStep, PipelineStep, PlanStep, Zenon
<1>3. All => PlatformTypeOK
  BY PlatformTypes, Zenon
<1> QED
  BY <1>1, <1>2, <1>3, PTL DEF PlatformSpec

=============================================================================
