------------------------------- MODULE MCPass -------------------------------
(* Pass on a small drive: see README, "Runs". *)
EXTENDS Pass

\* Objects are interchangeable; names are not, the batch is in their order.
Symmetry == Permutations(Id)
=============================================================================
