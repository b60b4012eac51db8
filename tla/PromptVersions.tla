--------------------------- MODULE PromptVersions ---------------------------
(***************************************************************************)
(* The prompt of one roster agent: immutable versions, of which activation *)
(* makes one the prompt in use                                             *)
(* (backend/src/orchestration/prompt_versions.py and the prompt endpoints  *)
(* of api/routes/agents.py).                                               *)
(*                                                                         *)
(* An activation reads the active version, supersedes that row and         *)
(* activates its own in one transaction.  The read takes no lock; the two  *)
(* updates lock their rows until the commit, and the first one finds       *)
(* nothing to change when the row is no longer active.  Two that overlap   *)
(* can therefore both leave their version active.                          *)
(***************************************************************************)
EXTENDS Naturals, FiniteSets

CONSTANTS
    PromptReq,      \* requests that may overlap
    MaxPrompts      \* versions (bound)

ASSUME PromptAssumption == MaxPrompts \in Nat \ {0}

VARIABLES
    prompt,         \* the versions: draft, active or superseded
    diff_from,      \* the version each activated version was compared with; 0: none
    prompt_req,     \* what each request is doing
    replaced,       \* history: the versions in use when it was activated
    prompt_raced    \* history: two activations have overlapped

promptVars == <<prompt, diff_from, prompt_req, replaced, prompt_raced>>

Version == 1 .. MaxPrompts
Waiting == [at |-> "idle"]

PromptInit ==
    /\ prompt = [v \in Version |-> "absent"] /\ diff_from = [v \in Version |-> 0]
    /\ replaced = [v \in Version |-> {}] /\ prompt_req = [r \in PromptReq |-> Waiting]
    /\ prompt_raced = FALSE

Stored == {v \in Version : prompt[v] # "absent"}
ActivePrompts == {v \in Version : prompt[v] = "active"}

\* The next number is read before the insert; of two at once the second fails on the
\* unique number.
create_prompt_version ==
    /\ Stored # Version
    /\ prompt' = [prompt EXCEPT ![Cardinality(Stored) + 1] = "draft"]
    /\ UNCHANGED <<diff_from, replaced, prompt_raced, prompt_req>>

\* One active version or none: with two the query fails, and so does every activation.
_get_active == IF ActivePrompts = {} THEN 0 ELSE CHOOSE v \in ActivePrompts : TRUE

activate_prompt_version(r, target) ==
    /\ prompt_req[r].at = "idle" /\ target \in Stored
    /\ Cardinality(ActivePrompts) <= 1 /\ _get_active # target
    /\ prompt_req' = [prompt_req EXCEPT ![r] =
                        [at |-> "supersede", target |-> target, current |-> _get_active]]
    /\ prompt_raced' = IF \E q \in PromptReq : prompt_req[q].at # "idle" THEN TRUE ELSE prompt_raced
    /\ UNCHANGED <<prompt, diff_from, replaced>>

\* Rows another transaction has updated stay locked until it commits.
Locks(r) == IF prompt_req[r].at = "commit"
            THEN {prompt_req[r].target, prompt_req[r].current} ELSE {}

update_status(r) ==
    /\ prompt_req[r].at = "supersede"
    /\ \A q \in PromptReq \ {r} :
          ({prompt_req[r].target, prompt_req[r].current} \ {0}) \cap Locks(q) = {}
    /\ prompt_req' = [prompt_req EXCEPT ![r].at = "commit"]
    /\ UNCHANGED <<prompt, diff_from, replaced, prompt_raced>>

\* Mutant: only a first activation looks for a version to supersede.
Activated_Rollback(v, job) ==
    IF v = job.target THEN "active"
    ELSE IF v = job.current /\ prompt[v] = "active" /\ prompt[job.target] = "draft" THEN "superseded"
    ELSE prompt[v]

\* The target becomes active; the version read as active is superseded while it still is.
Activated(v, job) ==
    IF v = job.target THEN "active"
    ELSE IF v = job.current /\ prompt[v] = "active" THEN "superseded" ELSE prompt[v]

activation_commits(r) ==
    LET job == prompt_req[r]
    IN  /\ job.at = "commit"
        /\ prompt' = [v \in Version |-> Activated(v, job)]
        /\ diff_from' = [diff_from EXCEPT ![job.target] = job.current]
        /\ replaced' = [replaced EXCEPT ![job.target] = ActivePrompts]
        /\ prompt_req' = [prompt_req EXCEPT ![r] = Waiting] /\ UNCHANGED prompt_raced

\* An unknown version, or the active one, is refused with nothing changed.
activate_prompt_version_endpoint(r) == \E v \in Version : activate_prompt_version(r, v)

PromptNext ==
    \/ create_prompt_version
    \/ \E r \in PromptReq :
          activate_prompt_version_endpoint(r) \/ update_status(r) \/ activation_commits(r)
-----------------------------------------------------------------------------
PromptTypeOK ==
    /\ prompt \in [Version -> {"absent", "draft", "active", "superseded"}]
    /\ diff_from \in [Version -> 0 .. MaxPrompts] /\ replaced \in [Version -> SUBSET Version]
    /\ prompt_raced \in BOOLEAN

\* The version was compared with the one it has really taken the place of, or none was there.
RightDiff(v) == replaced[v] \ {v} = {diff_from[v]} \ {0}

(* A version in use that was compared with what it replaced is the only one of its    *)
(* kind, whatever activations and rollbacks overlap; and as long as none have         *)
(* overlapped every version in use is of that kind, so there is one prompt in use and *)
(* its stored diff is the change that was made (activate_prompt_version).             *)
PromptsInUse ==
    /\ \A v, w \in ActivePrompts : RightDiff(v) /\ RightDiff(w) => v = w
    /\ prompt_raced = FALSE => \A v \in ActivePrompts : RightDiff(v)

(* "activate_prompt_version() always computes the unified diff between the version    *)
(* being activated and whichever version was previously ACTIVE for that agent".       *)
DiffAgainstPrevious == \A v \in ActivePrompts : RightDiff(v)
=============================================================================
