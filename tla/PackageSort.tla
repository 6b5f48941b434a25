----------------------------- MODULE PackageSort -----------------------------
(***************************************************************************)
(* PackageDatabase::topological_sort: the order in which the packages of a *)
(* solution are installed.  dependencies_map has, for each package, the    *)
(* dependencies of all its versions in the registry, so some of them need  *)
(* not be in the solution; indegree counts those too.                      *)
(***************************************************************************)
EXTENDS Integers, Sequences, FiniteSets

CONSTANTS
    Pkg,       \* package names
    Solutions, \* what the solver may return: sequences of different packages
    Relations  \* what the registry may say: the dependencies of each package

ASSUME PkgAssumption == IsFiniteSet(Pkg)
ASSUME SolutionsAssumption ==
    /\ Solutions \subseteq Seq(Pkg)
    /\ \A s \in Solutions : \A i, j \in DOMAIN s : s[i] = s[j] => i = j

ASSUME RelationsAssumption == Relations \subseteq [Pkg -> SUBSET Pkg]

VARIABLES
    installs,          \* the solution, then the solution sorted
    dependencies_map,  \* the dependencies of any version of each package
    indegree,          \* how many dependencies are still to come out
    q,                 \* packages whose dependencies have all come out
    result,            \* packages that have come out
    done               \* the sort has returned

sortVars == <<installs, dependencies_map, indegree, q, result, done>>

Elements(s) == {s[i] : i \in DOMAIN s}
Distinct(s) == \A i, j \in DOMAIN s : s[i] = s[j] => i = j

\* The orders of a set.  The code takes that of the names; any will do.
Orders(S) ==
    {s \in [1..Cardinality(S) -> S] : Distinct(s) /\ S \subseteq Elements(s)}

SortInit ==
    /\ installs \in Solutions
    /\ dependencies_map \in Relations
    /\ indegree = [p \in Elements(installs) |-> Cardinality(dependencies_map[p])]
    /\ q \in Orders({p \in Elements(installs) : indegree[p] = 0})
    /\ result = <<>>
    /\ done = FALSE

\* graph[p]: the packages of the solution that depend on p.
Graph(p) == {d \in Elements(installs) : p \in dependencies_map[d]}

Decremented ==
    [d \in Elements(installs) |-> indegree[d] - (IF d \in Graph(Head(q)) THEN 1 ELSE 0)]

\* Mutant: a dependant comes out with the first of its dependencies.
PopEager ==
    /\ q # <<>>
    /\ LET freed == {d \in Graph(Head(q)) : d \notin Elements(q) \cup Elements(result)}
       IN /\ result' = Append(result, Head(q))
          /\ \E s \in Orders(freed) : q' = Tail(q) \o s
    /\ indegree' = Decremented
    /\ UNCHANGED <<installs, dependencies_map, done>>

\* Mutant: what is freed is forgotten.
PopForgets ==
    /\ q # <<>>
    /\ result' = Append(result, Head(q))
    /\ indegree' = Decremented
    /\ q' = Tail(q)
    /\ UNCHANGED <<installs, dependencies_map, done>>

\* One round of the loop: the front of the queue comes out.
Pop ==
    /\ q # <<>>
    /\ result' = Append(result, Head(q))
    /\ indegree' = Decremented
    /\ \E s \in Orders({d \in Graph(Head(q)) : indegree[d] = 1}) : q' = Tail(q) \o s
    /\ UNCHANGED <<installs, dependencies_map, done>>

\* package_to_index[p]; the map has 0 for a package that never came out.
Index(p) ==
    IF p \in Elements(result) THEN (CHOOSE i \in DOMAIN result : result[i] = p) - 1 ELSE 0

\* std::sort by index leaves packages of the same index in any order.
SortInstalls ==
    /\ q = <<>>
    /\ ~done
    /\ \E s \in Orders(Elements(installs)) :
        /\ \A i, j \in DOMAIN s : i < j => Index(s[i]) <= Index(s[j])
        /\ installs' = s
    /\ done' = TRUE
    /\ UNCHANGED <<dependencies_map, indegree, q, result>>

SortNext == Pop \/ SortInstalls

SortSpec == SortInit /\ [][SortNext]_sortVars

(***************************************************************************)
(* Properties                                                              *)
(***************************************************************************)
\* The queue and the result hold packages of the solution.
SortTypeOK ==
    /\ installs \in Seq(Pkg)
    /\ dependencies_map \in [Pkg -> SUBSET Pkg]
    /\ indegree \in [Elements(installs) -> Nat]
    /\ q \in Seq(Elements(installs))
    /\ result \in Seq(Elements(installs))
    /\ done \in BOOLEAN

\* No package comes out twice (topological_sort): the queue and the result
\* have every package of the solution at most once, on cycles too.
ComesOutOnce ==
    /\ Distinct(q)
    /\ Distinct(result)
    /\ Elements(q) \cap Elements(result) = {}

Before(p, d) ==
    \E i, j \in DOMAIN installs : i < j /\ installs[i] = p /\ installs[j] = d

\* In the sorted solution, every dependency of a package that came out of the
\* loop is installed before it, wherever the others have ended.
ResolvedAfterDeps ==
    done => \A p \in Elements(result) : \A d \in dependencies_map[p] : Before(d, p)

DependenciesOf(S) == UNION {dependencies_map[p] : p \in S \cap Elements(installs)}

\* What p depends on, in one or more steps through the solution.
Closure(p) ==
    LET within[n \in 1..Cardinality(Pkg)] ==
            IF n = 1 THEN DependenciesOf({p})
            ELSE within[n - 1] \cup DependenciesOf(within[n - 1])
    IN within[Cardinality(Pkg)]

\* The reference: p depends on nothing outside the solution and on no cycle.
Resolvable(p) ==
    \A d \in {p} \cup Closure(p) : d \in Elements(installs) /\ d \notin Closure(d)

\* The loop takes out every package it can: exactly those whose dependencies,
\* of all versions, are in the solution and on no cycle.
ResolvableComeOut ==
    q = <<>> => Elements(result) = {p \in Elements(installs) : Resolvable(p)}
=============================================================================
