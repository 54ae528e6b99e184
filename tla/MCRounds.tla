------------------------------ MODULE MCRounds ------------------------------
(* Rounds on a small drive: see README, "Runs". *)
EXTENDS Rounds

CONSTANTS good, dot

\* The items but the root are interchangeable.
Symmetry == Permutations(Id \ {Top})

MCName == {good, dot}
MCBadName == {dot}
MCLooks ==
    {[name |-> good, facets |-> f] :
        f \in {{"file"}, {"folder"}, {"folder", "package"}, {"file", "pending"}}}
    \cup {[name |-> dot, facets |-> {"folder"}]}
MCOffers == {{"ctag"}, {}}
=============================================================================
