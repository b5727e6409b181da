------------------------------ MODULE MCChannel ------------------------------
(* Channel with two sender handles, three sends and two receives. *)
EXTENDS Channel, TLC

\* Sends are interchangeable.
Symmetry == Permutations(SendOp)
=============================================================================
