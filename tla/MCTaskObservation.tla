-------------------------- MODULE MCTaskObservation --------------------------
(* TaskObservation with a few tasks. *)
EXTENDS TaskObservation, TLC

\* Tasks of one kind are interchangeable.
Symmetry == Permutations(SetTask) \cup Permutations(DynTask)
=============================================================================
