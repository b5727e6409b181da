----------------------------- MODULE MCAsyncLock -----------------------------
(* Model values and symmetry for checking AsyncLock with TLC. *)
EXTENDS AsyncLock, TLC

\* Waiters, adders and permits are interchangeable; liveness runs do without.
Symmetry == Permutations(Waiter) \cup Permutations(Permit)
=============================================================================
