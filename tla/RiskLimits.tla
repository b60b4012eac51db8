----------------------------- MODULE RiskLimits -----------------------------
(***************************************************************************)
(* Dual control over one risk limit: backend/src/orchestration/            *)
(* risk_limits.py.  One person stages a change, another confirms it, and   *)
(* only then may it be applied.  Every handler reads the change's row,     *)
(* judges it, and writes its new status in a commit of its own, without a  *)
(* row lock and whatever the status has become: requests overlap between   *)
(* the two.  Who is allowed to call which handler is the API's business    *)
(* and not modelled.                                                       *)
(***************************************************************************)
CONSTANTS
    Person,
    Change,       \* the change requests ever staged (bound)
    LimitRequest  \* HTTP requests in flight at once (bound)

Nobody == "nobody"
Nothing == "nothing"

ASSUME NobodyAssumption == Nobody \notin Person /\ Nothing \notin Change

VARIABLES
    change_status, \* risk_limit_change_requests.status, "absent" before staging
    staged_by, confirmed_by,
    applied_at,    \* the changes whose applied_at is set
    limit_source,  \* the change risk_limits.value comes from; Nothing: the default
    change_request \* what a request has read and is about to write

limitVars == <<change_status, staged_by, confirmed_by, applied_at, limit_source, change_request>>

Op == {"confirm", "apply", "reject"}
NoRequest == [op |-> "none", change |-> Nothing, by |-> Nobody]

RiskLimitsInit ==
    /\ change_status = [c \in Change |-> "absent"]
    /\ staged_by = [c \in Change |-> Nobody]
    /\ confirmed_by = [c \in Change |-> Nobody]
    /\ applied_at = {} /\ limit_source = Nothing
    /\ change_request = [r \in LimitRequest |-> NoRequest]

stage_risk_limit_change(c, p) ==
    /\ change_status[c] = "absent"
    /\ change_status' = [change_status EXCEPT ![c] = "staged"]
    /\ staged_by' = [staged_by EXCEPT ![c] = p]
    /\ UNCHANGED <<confirmed_by, applied_at, limit_source, change_request>>

-----------------------------------------------------------------------------
(* The reads, with the refusals that follow them.                          *)

MayConfirm_Self(c, p) == change_status[c] = "staged"

MayConfirm(c, p) == change_status[c] = "staged" /\ p # staged_by[c]

MayApply(c) == change_status[c] = "confirmed"

MayReject(c) == change_status[c] \in {"staged", "confirmed"}

Allowed(op, c, p) == \/ op = "confirm" /\ MayConfirm(c, p)
                     \/ op = "apply"   /\ MayApply(c)
                     \/ op = "reject"  /\ MayReject(c)

read_change(r, op, c, p) ==
    /\ change_request[r] = NoRequest
    /\ Allowed(op, c, p)
    /\ change_request' = [change_request EXCEPT ![r] = [op |-> op, change |-> c, by |-> p]]
    /\ UNCHANGED <<change_status, staged_by, confirmed_by, applied_at, limit_source>>

-----------------------------------------------------------------------------
(* The writes.                                                             *)

confirm_risk_limit_change(r) ==
    /\ change_request[r].op = "confirm"
    /\ change_status' = [change_status EXCEPT ![change_request[r].change] = "confirmed"]
    /\ confirmed_by' = [confirmed_by EXCEPT ![change_request[r].change] = change_request[r].by]
    /\ change_request' = [change_request EXCEPT ![r] = NoRequest]
    /\ UNCHANGED <<staged_by, applied_at, limit_source>>

apply_risk_limit_change(r) ==
    /\ change_request[r].op = "apply"
    /\ change_status' = [change_status EXCEPT ![change_request[r].change] = "applied"]
    /\ applied_at' = applied_at \cup {change_request[r].change}
    /\ limit_source' = change_request[r].change
    /\ change_request' = [change_request EXCEPT ![r] = NoRequest]
    /\ UNCHANGED <<staged_by, confirmed_by>>

reject_risk_limit_change_Withdraws(r) ==
    /\ change_request[r].op = "reject"
    /\ change_status' = [change_status EXCEPT ![change_request[r].change] = "withdrawn"]
    /\ change_request' = [change_request EXCEPT ![r] = NoRequest]
    /\ UNCHANGED <<staged_by, confirmed_by, applied_at, limit_source>>

reject_risk_limit_change(r) ==
    /\ change_request[r].op = "reject"
    /\ change_status' = [change_status EXCEPT ![change_request[r].change] = "rejected"]
    /\ change_request' = [change_request EXCEPT ![r] = NoRequest]
    /\ UNCHANGED <<staged_by, confirmed_by, applied_at, limit_source>>

RiskLimitsNext ==
    \/ \E c \in Change, p \in Person : stage_risk_limit_change(c, p)
    \/ \E r \in LimitRequest, op \in Op, c \in Change, p \in Person : read_change(r, op, c, p)
    \/ \E r \in LimitRequest : \/ confirm_risk_limit_change(r)
                               \/ apply_risk_limit_change(r)
                               \/ reject_risk_limit_change(r)

RiskLimitsSpec == RiskLimitsInit /\ [][RiskLimitsNext]_limitVars

-----------------------------------------------------------------------------
RiskLimitsTypeOK ==
    /\ change_status \in [Change -> {"absent", "staged", "confirmed", "applied", "rejected"}]
    /\ staged_by \in [Change -> Person \cup {Nobody}]
    /\ confirmed_by \in [Change -> Person \cup {Nobody}]
    /\ applied_at \subseteq Change /\ limit_source \in Change \cup {Nothing}
    /\ change_request \in [LimitRequest -> [op : Op, change : Change, by : Person] \cup {NoRequest}]

\* Dual control, however requests overlap: a change that is confirmed, applied or
\* the source of the limit in force was staged by one person and confirmed by
\* another (risk_limits.confirm_risk_limit_change, apply_risk_limit_change).
TwoPeople(c) == /\ staged_by[c] # Nobody /\ confirmed_by[c] # Nobody
                /\ staged_by[c] # confirmed_by[c]
DualControl == \A c \in Change :
                  change_status[c] \in {"confirmed", "applied"} \/ c \in applied_at
                     \/ c = limit_source
                  => TwoPeople(c)

\* A change recorded as rejected was never applied
\* (risk_limits.reject_risk_limit_change, "Turn down a change that has not been applied").
RejectedNeverApplied == \A c \in Change : change_status[c] = "rejected" => c \notin applied_at

\* What a request read stays true enough to act on: persons are only ever added,
\* and each confirmation in flight is by a second person.
RequestSound ==
    \A r \in LimitRequest : change_request[r].op # "none" =>
        LET c == change_request[r].change
        IN  /\ c \in Change /\ staged_by[c] # Nobody
            /\ change_request[r].op = "confirm" => change_request[r].by \in Person \ {staged_by[c]}
            /\ change_request[r].op = "apply" => TwoPeople(c)

StagedSound == \A c \in Change : staged_by[c] = Nobody <=> change_status[c] = "absent"

RiskLimitsIInv == RiskLimitsTypeOK /\ RequestSound /\ StagedSound /\ DualControl
=============================================================================
