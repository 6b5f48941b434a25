--------------------------- MODULE MCInstallOrder ---------------------------
EXTENDS InstallOrder, TLC

(***************************************************************************)
(* Solutions of three packages, or of two where the registry may name the  *)
(* third; two packages or all are locked.                                  *)
(***************************************************************************)
Sets == {S \in SUBSET Pkg : Cardinality(S) >= 2}
Solved == UNION {Orders(S) : S \in Sets}
RelationsOn(S) ==
    {r \in [Pkg -> SUBSET S] : \A p \in Pkg : p \notin r[p] /\ (p \notin S => r[p] = {})}
Ring(r) == \E p, d \in Pkg : p \in r[d] /\ (d \in r[p] \/ \E x \in Pkg : d \in r[x] /\ x \in r[p])
\* Of what is locked, some packages have another version or other use flags.
Changes(S) == {<<e, Pkg>> : e \in SUBSET S} \cup {<<S, (Pkg \ S) \cup f>> : f \in SUBSET S}
Locks == UNION {
    {[packages |-> S, requires |-> r, exact |-> c[1], sameFlags |-> c[2]] :
        r \in {x \in RelationsOn(S) : S = Pkg => ~Ring(x)}, c \in Changes(S)} : S \in Sets}
Registry == RelationsOn(Pkg)
Symmetric == Permutations(Pkg)
=============================================================================
