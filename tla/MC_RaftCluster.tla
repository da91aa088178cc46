--------------------------- MODULE MC_RaftCluster ---------------------------
(***************************************************************************)
(* RaftCluster with model values for the voters.                           *)
(***************************************************************************)
EXTENDS RaftCluster, TLC

CONSTANTS n1, n2, n3

\* Two and three voters; no definition tells one voter from another.
TwoVoters == {n1, n2}
ThreeVoters == {n1, n2, n3}

\* Everyone may campaign for the first one or two terms.
OneTerm == Voters \X {1}
TwoTerms == Voters \X {1, 2}

Symmetry2 == Permutations(TwoVoters)
Symmetry3 == Permutations(ThreeVoters)

=============================================================================
