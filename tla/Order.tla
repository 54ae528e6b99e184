-------------------------------- MODULE Order --------------------------------
(* A sequence of what belongs to the numbers of a set. *)
EXTENDS Integers, FiniteSets

\* What f has for S, in the order of S.
InOrder(f, S) ==
    [n \in 1 .. Cardinality(S) |-> f[CHOOSE i \in S : Cardinality({j \in S : j <= i}) = n]]

=============================================================================
