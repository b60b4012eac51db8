---------------------------- MODULE RunContract ----------------------------
(***************************************************************************)
(* What an organisation run promises to the operator who reads it, with    *)
(* none of the machinery (drivers, claims, transactions, crashes) that     *)
(* keeps the promise:                                                      *)
(*                                                                         *)
(*   - its phase moves only along the lifecycle of models/organization_run *)
(*     and run_control, and never leaves cannot_plan, completed, cancelled *)
(*     or a permanent failure;                                             *)
(*   - the tasks done only grow, each after everything it depends on;      *)
(*   - a task is given up only because it failed permanently itself, or    *)
(*     because something it depends on was given up;                       *)
(*   - the run fails permanently only when some task was given up.         *)
(*                                                                         *)
(* TaskEngine is shown to implement this module.                           *)
(***************************************************************************)
CONSTANTS
    Task,   \* the tasks of the accepted plan
    Deps    \* the plan's edges: <<t, u>> when t depends on u

VARIABLES
    phase,  \* the run's status, with the failure class folded in
    done,   \* tasks that succeeded
    dead    \* tasks that failed permanently or became unsatisfiable

vars == <<phase, done, dead>>

Phase == {"planning", "cannot_plan", "running", "paused", "completed",
          "failed_transient", "failed_permanent", "cancelled"}

Init == phase = "planning" /\ done = {} /\ dead = {}

Move(from, to) == /\ phase \in from
                  /\ phase' = to
                  /\ UNCHANGED <<done, dead>>

Plan          == Move({"planning"}, "running")
GiveUp        == Move({"planning"}, "cannot_plan")
Pause         == Move({"running"}, "paused")
Continue      == Move({"paused"}, "running")
Cancel        == Move({"planning", "running", "paused"}, "cancelled")
Complete      == Move({"running"}, "completed")
FailTransient == Move({"running"}, "failed_transient")
FailPermanent == dead # {} /\ Move({"running"}, "failed_permanent")
Retry         == Move({"failed_transient"}, "running")

\* t may end once everything it depends on is done.
Endable(t) == /\ phase \notin {"planning", "cannot_plan"}
              /\ t \notin done \cup dead
              /\ \A u \in Task : <<t, u>> \in Deps => u \in done

Succeed(t) == /\ Endable(t)
              /\ done' = done \cup {t}
              /\ UNCHANGED <<phase, dead>>

Fail(t) == /\ Endable(t)
           /\ dead' = dead \cup {t}
           /\ UNCHANGED <<phase, done>>

\* The tasks of S are given up together: each depends on a task given up.
Abandon(S) == /\ S \cap (done \cup dead) = {}
              /\ \A t \in S : \E u \in dead \cup S : <<t, u>> \in Deps
              /\ dead' = dead \cup S
              /\ UNCHANGED <<phase, done>>

Next == \/ Plan \/ GiveUp \/ Pause \/ Continue \/ Cancel
        \/ Complete \/ FailTransient \/ FailPermanent \/ Retry
        \/ \E t \in Task : Succeed(t) \/ Fail(t)
        \/ \E S \in SUBSET Task : Abandon(S)

Spec == Init /\ [][Next]_vars
=============================================================================
