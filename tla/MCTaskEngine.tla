---------------------------- MODULE MCTaskEngine ----------------------------
(***************************************************************************)
(* The plans TLC runs TaskEngine on.                                       *)
(***************************************************************************)
EXTENDS TaskEngine, TLC

\* c waits for a and b: the smallest plan in which two results race.
JoinDeps == {<<"c", "a">>, <<"c", "b">>}
\* A chain and a join with no race: b waits for a, and c for both.
TriangleDeps == {<<"b", "a">>, <<"c", "a">>, <<"c", "b">>}
\* c waits for a's artefact.
TypedDeps == {<<"c", "a">>}

NoDeps == {}

Symmetry == Permutations(Driver)
=============================================================================
