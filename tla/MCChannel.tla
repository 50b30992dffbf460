------------------------------ MODULE MCChannel ------------------------------
(* Channel for TLC: threads are interchangeable. *)
EXTENDS Channel, TLC

ThreadSymmetry == Permutations(Threads)
=============================================================================
