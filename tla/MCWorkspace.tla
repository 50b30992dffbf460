----------------------------- MODULE MCWorkspace -----------------------------
(* Workspace for TLC: two threads of one process and one of another. *)
EXTENDS Workspace, TLC

CONSTANTS p1, p2, t1, t2, t3, a, b

OneAndTwo == t1 :> p1 @@ t2 :> p1 @@ t3 :> p2
CallsFor == t1 :> {b} @@ t2 :> {b} @@ t3 :> {a}
Symmetry == Permutations({t1, t2})
=============================================================================
