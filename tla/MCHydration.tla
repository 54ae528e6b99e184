---------------------------- MODULE MCHydration ----------------------------
(* Hydration on a small file: see README, "Runs". *)
EXTENDS Hydration, TLC

\* The processes are interchangeable.
Symmetry == Permutations(Procs)
=============================================================================
