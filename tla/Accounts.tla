------------------------------ MODULE Accounts ------------------------------
(***************************************************************************)
(* The users table: registration of the first account, the lockout of an   *)
(* account that keeps failing to sign in (core/login_lockout.py), and the  *)
(* administrator's endpoints (backend/src/api/routes/{auth,admin}.py).     *)
(*                                                                         *)
(* Time is kept as what the code derives from it: whether the last failure *)
(* is inside the window and whether a lock still holds.  An endpoint that  *)
(* reads and commits without a lock is two steps, and other requests come  *)
(* between.  A refused request changes nothing and is not a step.          *)
(***************************************************************************)
EXTENDS Naturals, FiniteSets

CONSTANTS
    User,         \* the e-mail addresses that may become accounts
    Admin,        \* Role.SYSTEM_ADMINISTRATOR
    OtherRole,    \* any other role: these endpoints do not tell them apart
    AccountReq,   \* requests that may be open at once (bound)
    MaxFailures   \* login_max_failed_attempts

ASSUME AccountsAssumption == MaxFailures \in Nat \ {0} /\ Admin # OtherRole

VARIABLES
    users,        \* the users table; NoUser where there is no row
    account_req,  \* what each request in flight has read
    overlapped    \* two changes to administrators were in flight at once

accountsVars == <<users, account_req, overlapped>>

Role == {Admin, OtherRole}
NoUser == [role |-> "none"]
NoReq == [op |-> "idle"]

\* failures counts since the last success or lock; recent: last_failed_login_at is
\* inside failure_window; locked_until is null, in the future or in the past.
UserRow == [role: Role, is_active: BOOLEAN, failures: 0 .. MaxFailures - 1,
            recent: BOOLEAN, lock: {"none", "holds", "ran_out"}]

Exists(u) == users[u] # NoUser
ActiveAdmins == {u \in User : Exists(u) /\ users[u].role = Admin /\ users[u].is_active}

AccountsInit ==
    /\ users = [u \in User |-> NoUser] /\ account_req = [r \in AccountReq |-> NoReq]
    /\ overlapped = FALSE

OpenReq(r, req) == account_req' = [account_req EXCEPT ![r] = req]
CloseReq(r) == OpenReq(r, NoReq)
SetUser(u, row) == users' = [users EXCEPT ![u] = row]

\* The role an access token grants is the account's at that moment, not the one
\* written in the token, and a deactivated account has none.
get_current_user(u) == Exists(u) /\ users[u].is_active
require_role(u) == get_current_user(u) /\ users[u].role = Admin
-----------------------------------------------------------------------------
(* routes/auth.py.                                                         *)

register_count(r) ==
    /\ account_req[r] = NoReq /\ \A u \in User : ~Exists(u)
    /\ OpenReq(r, [op |-> "register"])
    /\ UNCHANGED <<users, overlapped>>

NewUser(role) == [role |-> role, is_active |-> TRUE, failures |-> 0,
                  recent |-> FALSE, lock |-> "none"]

\* Under _FIRST_USER_LOCK the count is taken again: a second registration is refused.
register_insert(r, u) ==
    /\ account_req[r].op = "register" /\ CloseReq(r)
    /\ IF \A v \in User : ~Exists(v) THEN SetUser(u, NewUser(Admin)) ELSE UNCHANGED users
    /\ UNCHANGED overlapped

is_locked(row) == row.lock = "holds"

after_failure(row) ==
    LET previous == IF row.lock = "ran_out" \/ ~row.recent THEN 0 ELSE row.failures
    IN  IF previous + 1 >= MaxFailures
        THEN [row EXCEPT !.failures = 0, !.recent = TRUE, !.lock = "holds"]
        ELSE [row EXCEPT !.failures = previous + 1, !.recent = TRUE, !.lock = "none"]

after_success(row) == [row EXCEPT !.failures = 0, !.recent = FALSE, !.lock = "none"]

\* The row is locked FOR UPDATE from the read to the commit, so sign-ins on one
\* account follow one another.
login_wrong_password(u) ==
    /\ Exists(u) /\ ~is_locked(users[u])
    /\ SetUser(u, after_failure(users[u]))
    /\ UNCHANGED <<account_req, overlapped>>

login_success(u) ==
    /\ Exists(u) /\ ~is_locked(users[u]) /\ users[u].is_active
    /\ SetUser(u, after_success(users[u]))
    /\ UNCHANGED <<account_req, overlapped>>
-----------------------------------------------------------------------------
(* routes/admin.py: a is the signed-in administrator.                      *)

create_user(a, u, role) ==
    /\ require_role(a) /\ ~Exists(u) /\ SetUser(u, NewUser(role))
    /\ UNCHANGED <<account_req, overlapped>>

would_remove_last_admin(u) == u \in ActiveAdmins
active_admin_count_Self(u) == Cardinality(ActiveAdmins)
active_admin_count(u) == Cardinality(ActiveAdmins \ {u})

PendingChange(r) == account_req[r].op \in {"change_role", "deactivate"}
Overlap == overlapped' = (overlapped \/ \E r \in AccountReq : PendingChange(r))

\* Both endpoints count the other administrators and commit later, with no lock.
change_user_role_read(r, a, u, role) ==
    /\ account_req[r] = NoReq /\ require_role(a) /\ Exists(u) /\ users[u].role # role
    /\ would_remove_last_admin(u) /\ role # Admin => active_admin_count(u) > 0
    /\ OpenReq(r, [op |-> "change_role", user |-> u, role |-> role]) /\ Overlap
    /\ UNCHANGED users

deactivate_user_read(r, a, u) ==
    /\ account_req[r] = NoReq /\ require_role(a) /\ Exists(u) /\ users[u].is_active
    /\ would_remove_last_admin(u) => active_admin_count(u) > 0
    /\ OpenReq(r, [op |-> "deactivate", user |-> u]) /\ Overlap
    /\ UNCHANGED users

admin_commit(r) ==
    /\ PendingChange(r) /\ CloseReq(r)
    /\ LET u == account_req[r].user
       IN  SetUser(u, IF account_req[r].op = "change_role"
                      THEN [users[u] EXCEPT !.role = account_req[r].role]
                      ELSE [users[u] EXCEPT !.is_active = FALSE])
    /\ UNCHANGED overlapped

reactivate_user(a, u) ==
    /\ require_role(a) /\ Exists(u) /\ ~users[u].is_active
    /\ SetUser(u, [users[u] EXCEPT !.is_active = TRUE])
    /\ UNCHANGED <<account_req, overlapped>>

unlock_user(a, u) ==
    /\ require_role(a) /\ Exists(u) /\ is_locked(users[u])
    /\ SetUser(u, after_success(users[u]))
    /\ UNCHANGED <<account_req, overlapped>>
-----------------------------------------------------------------------------
(* The passing of time, and a request that dies with its connection.       *)

window_ends(u) ==
    /\ Exists(u) /\ users[u].recent
    /\ SetUser(u, [users[u] EXCEPT !.recent = FALSE])
    /\ UNCHANGED <<account_req, overlapped>>

lock_runs_out(u) ==
    /\ Exists(u) /\ is_locked(users[u])
    /\ SetUser(u, [users[u] EXCEPT !.lock = "ran_out"])
    /\ UNCHANGED <<account_req, overlapped>>

account_request_lost(r) ==
    /\ account_req[r] # NoReq /\ CloseReq(r)
    /\ UNCHANGED <<users, overlapped>>

AccountsNext ==
    \/ \E r \in AccountReq :
         \/ register_count(r) \/ admin_commit(r) \/ account_request_lost(r)
         \/ \E u \in User : register_insert(r, u)
         \/ \E a, u \in User :
              \/ deactivate_user_read(r, a, u)
              \/ \E role \in Role : change_user_role_read(r, a, u, role)
    \/ \E a, u \in User :
         \/ \E role \in Role : create_user(a, u, role)
         \/ reactivate_user(a, u) \/ unlock_user(a, u)
    \/ \E u \in User :
         \/ login_success(u) \/ login_wrong_password(u) \/ window_ends(u) \/ lock_runs_out(u)
-----------------------------------------------------------------------------
AccountsTypeOK ==
    /\ users \in [User -> UserRow \union {NoUser}]
    /\ \A r \in AccountReq :
         account_req[r].op \in {"idle", "register", "change_role", "deactivate"}
    /\ overlapped \in BOOLEAN

\* Once somebody has registered there is an active administrator, unless two changes to
\* administrators were open at once: neither endpoint holds a lock over its count of
\* the others (routes/admin.py).
SomeAdministrator ==
    (\E u \in User : Exists(u)) /\ ~overlapped => ActiveAdmins # {}
=============================================================================
