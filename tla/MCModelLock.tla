----------------------------- MODULE MCModelLock -----------------------------
(* ModelLock with a few threads and locks. *)
EXTENDS ModelLock, TLC

\* Threads are interchangeable.
Symmetry == Permutations(StdThread)
=============================================================================
