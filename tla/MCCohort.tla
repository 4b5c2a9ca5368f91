------------------------------ MODULE MCCohort ------------------------------
(* Small instances of Cohort for TLC. *)
EXTENDS Cohort, TLC

Entry(c, g) == [codename |-> c, group |-> g]

\* A second tier is added, then the two swap codenames; and two settings no
\* process boots with.
ManyReleases ==
    {<<Entry("c1", "g1")>>,
     <<Entry("c1", "g1"), Entry("c2", "g2")>>,
     <<Entry("c2", "g1"), Entry("c1", "g2")>>,
     <<Entry("c1", "g1"), Entry("c1", "g2")>>,
     <<Entry("view", "g1")>>}

TwoTiers == {<<Entry("c1", "g1"), Entry("c2", "g2")>>}

Symmetry == Permutations(Admins)
=============================================================================
