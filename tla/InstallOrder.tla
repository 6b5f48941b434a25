---------------------------- MODULE InstallOrder ----------------------------
(***************************************************************************)
(* ttrek_InstallOrUpdate after the solver: the solution is sorted          *)
(* (PackageSort), the plan is made of what came out and carried out in     *)
(* that order (ExecutionPlan).  Both read the same dependencies_map: the   *)
(* plan decides what may stay as it is, the sort when the rest is built.   *)
(***************************************************************************)
EXTENDS ExecutionPlan

\* The solver's solution may come in any order.
ASSUME OrdersAssumption == \A s \in Solutions : Orders(Elements(s)) \subseteq Solutions

allVars == <<sortVars, vars>>

NoLock == [packages |-> {}, requires |-> [p \in Pkg |-> {}], exact |-> {}, sameFlags |-> {}]

\* While the sort runs there is no plan yet.
Waiting ==
    /\ in = [installs |-> <<>>, lock |-> NoLock, new |-> {}, depends |-> dependencies_map,
             force |-> FALSE]
    /\ plan = <<>>
    /\ reverse_dependencies = {}
    /\ dependencies = {}
    /\ forgotten = {}
    /\ has_unknown = FALSE
    /\ max_depth = MaxDepth
    /\ at = 1
    /\ announced = {}
    /\ installed = <<>>
    /\ pc = "waiting"

OrderInit == SortInit /\ Waiting

Sorting == pc = "waiting" /\ SortNext /\ UNCHANGED vars

\* Mutant: the plan is made of the solution as the solver left it.
BeginUnsorted ==
    /\ pc = "waiting"
    /\ \E lock \in LockFiles, new \in SUBSET Pkg, force \in Forced :
        /\ lock.packages \cup new \subseteq Elements(installs)
        /\ new \cap lock.packages = {}
        /\ in' = [installs |-> installs, lock |-> lock, new |-> new,
                  depends |-> dependencies_map, force |-> force]
    /\ plan' = [p \in Solution' |-> InitialType(p)']
    /\ pc' = IF OfType("DIRECT")' = {} THEN "empty" ELSE "collect"
    /\ UNCHANGED <<sortVars, sets, forgotten, has_unknown, max_depth, at, outcome>>

\* ttrek_GenerateExecutionPlan is called with the sorted solution; the plan
\* starts as in ExecutionPlan.
Begin ==
    /\ pc = "waiting"
    /\ done
    /\ \E lock \in LockFiles, new \in SUBSET Pkg, force \in Forced :
        /\ lock.packages \cup new \subseteq Elements(installs)
        /\ new \cap lock.packages = {}
        /\ in' = [installs |-> installs, lock |-> lock, new |-> new,
                  depends |-> dependencies_map, force |-> force]
    /\ plan' = [p \in Solution' |-> InitialType(p)']
    /\ pc' = IF OfType("DIRECT")' = {} THEN "empty" ELSE "collect"
    /\ UNCHANGED <<sortVars, sets, forgotten, has_unknown, max_depth, at, outcome>>

Planning == pc # "waiting" /\ Next /\ UNCHANGED sortVars

OrderNext == Sorting \/ Begin \/ Planning

OrderSpec == OrderInit /\ [][OrderNext]_allVars

(***************************************************************************)
(* Property                                                                *)
(***************************************************************************)
\* When a package is built, each of its dependencies (as far as no cycle and
\* no absent package keep the sort from placing it) has been built before it,
\* in this very run, or is installed already with the version of the solution
\* and the use flags in force (ttrek_InstallOrUpdate).
DependenciesReady ==
    \A i \in DOMAIN installed : installed[i] \in Elements(result) =>
        \A d \in dependencies_map[installed[i]] :
            d \in UpToDate \/ \E j \in 1..(i - 1) : installed[j] = d
=============================================================================
