---------------------------- MODULE MCCandidates ----------------------------
\* Two packages with at most two versions each in the registry, drawn from two
\* major versions with prereleases.  With ints of four bits and longs of six,
\* 17 reads as 1 and the prerelease 12 as -4.
EXTENDS Candidates, TLC

V(x, y, z) == [major |-> x, minor |-> y, patch |-> 0, pre |-> z]
Alpha == << <<1, 1>> >>
Beta2 == << <<1, 2>>, <<0, 2>> >>
Versions == {V(1, 0, NoPre), V(1, 0, Beta2), V(17, 1, NoPre), V(2, 0, Alpha),
             V(2, 0, << <<0, 12>> >>)}
Requirements == {[op |-> "^", v |-> V(1, 0, Beta2)], [op |-> ">=", v |-> V(1, 0, NoPre)]}
Symmetric == Permutations(Pkg)
=============================================================================
