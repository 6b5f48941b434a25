---------------------------- MODULE ExecutionPlan ----------------------------
(***************************************************************************)
(* ttrek_GenerateExecutionPlan: which packages of the sorted solution are  *)
(* installed.  Requirements that the lock file does not meet are direct    *)
(* installs; what they need, and what was built on them, comes along; the  *)
(* rest is already installed.  Then the plan is shown and carried out.     *)
(* Packages of use flags are skipped and not modelled.                     *)
(***************************************************************************)
EXTENDS PackageSort

CONSTANTS
    LockFiles,   \* the part of ttrek-lock.json that the plan reads, see below
    Forced,      \* the values of -force
    MaxDepth     \* max_depth: rounds of the inner loop, 10 in the code

(***************************************************************************)
(* packages   the packages of the lock file                                *)
(* requires   what each of them requires                                   *)
(* exact      those whose version is the one of the solution               *)
(* sameFlags  those built with the use flags in force (exact_use_flags_p); *)
(*            a package that is not locked has none and is one of them     *)
(***************************************************************************)
LockFile == [packages : SUBSET Pkg, requires : [Pkg -> SUBSET Pkg],
             exact : SUBSET Pkg, sameFlags : SUBSET Pkg]

ASSUME DepthAssumption == MaxDepth \in Nat \ {0}
ASSUME ForcedAssumption == Forced \subseteq BOOLEAN
ASSUME LockAssumption ==
    /\ LockFiles \subseteq LockFile
    /\ \A lock \in LockFiles :
        /\ lock.exact \subseteq lock.packages
        /\ Pkg \ lock.packages \subseteq lock.sameFlags
        /\ \A p \in Pkg : lock.requires[p] \subseteq lock.packages
        /\ \A p \in Pkg \ lock.packages : lock.requires[p] = {}

\* new: packages named in ttrek.json or on the command line that are not locked.
Input == [installs : Solutions, lock : LockFiles, new : SUBSET Pkg, depends : Relations,
          force : Forced]

InstallType == {"UNKNOWN", "DIRECT", "RDEP", "DEP", "ALREADY"}

VARIABLES
    in,                    \* the input
    plan,                  \* install_type of each package of the solution
    reverse_dependencies,  \* of what is reinstalled, so far
    dependencies,          \* of what is reinstalled, so far
    forgotten,             \* packages erased from the two maps
    has_unknown,           \* this round left a package unclassified
    max_depth,             \* rounds left
    at,                    \* the position of the loop in the plan
    announced,             \* the packages that were printed
    installed,             \* the packages that were installed, in order
    pc

vars == <<in, plan, reverse_dependencies, dependencies, forgotten, has_unknown, max_depth, at,
          announced, installed, pc>>
sets == <<reverse_dependencies, dependencies>>
outcome == <<announced, installed>>

Solution == Elements(in.installs)
OfType(t) == {p \in Solution : plan[p] = t}

\* reverse_dependencies_map and dependencies_map, as erased so far.
Dependants(p) == IF p \in forgotten THEN {} ELSE {x \in in.lock.packages : p \in in.lock.requires[x]}
Dependencies(p) == IF p \in forgotten THEN {} ELSE in.depends[p]

\* enhanced_requirements: ttrek_Solve adds every locked package to them.
Required == in.new \cup in.lock.packages
UpToDate == in.lock.exact \cap in.lock.sameFlags

\* Mutant: the use flags are not compared.
InitialTypeVersion(p) ==
    IF in.force \/ p \in Required \ in.lock.exact THEN "DIRECT" ELSE "UNKNOWN"

InitialType(p) ==
    IF in.force \/ p \in Required \ UpToDate THEN "DIRECT" ELSE "UNKNOWN"

Init ==
    /\ in \in Input
    /\ in.lock.packages \cup in.new \subseteq Solution
    /\ in.new \cap in.lock.packages = {}
    /\ plan = [p \in Solution |-> InitialType(p)]
    /\ reverse_dependencies = {}
    /\ dependencies = {}
    /\ forgotten = {}
    /\ has_unknown = FALSE
    /\ max_depth = MaxDepth
    /\ at = 1
    /\ announced = {}
    /\ installed = <<>>
    /\ pc = IF OfType("DIRECT") = {} THEN "empty" ELSE "collect"

\* Mutant: reverse dependencies of an earlier round are kept.
CollectKeeps ==
    /\ pc = "collect"
    /\ reverse_dependencies' = UNION {Dependants(p) : p \in OfType("DIRECT")}
    /\ dependencies' = UNION {Dependencies(p) : p \in OfType("DIRECT")}
    /\ plan' = plan
    /\ pc' = "scan"
    /\ at' = 1
    /\ has_unknown' = FALSE
    /\ UNCHANGED <<in, forgotten, max_depth, outcome>>

\* The sets start anew from the direct installs.
Collect ==
    /\ pc = "collect"
    /\ reverse_dependencies' = UNION {Dependants(p) : p \in OfType("DIRECT")}
    /\ dependencies' = UNION {Dependencies(p) : p \in OfType("DIRECT")}
    /\ plan' = [p \in Solution |-> IF plan[p] = "RDEP" THEN "UNKNOWN" ELSE plan[p]]
    /\ pc' = "scan"
    /\ at' = 1
    /\ has_unknown' = FALSE
    /\ UNCHANGED <<in, forgotten, max_depth, outcome>>

Scanned == in.installs[at]

\* Its dependants and its dependencies come along.
Spread(type) ==
    /\ plan' = [plan EXCEPT ![Scanned] = type]
    /\ reverse_dependencies' = reverse_dependencies \cup Dependants(Scanned)
    /\ dependencies' = dependencies \cup Dependencies(Scanned)
    /\ UNCHANGED has_unknown

\* Mutant: dependencies are looked at first.
ClassifyDependencyFirst ==
    \/ Scanned \in dependencies /\ Spread("DEP")
    \/ Scanned \in reverse_dependencies \ dependencies /\ Spread("RDEP")
    \/ /\ Scanned \in Required \ (reverse_dependencies \cup dependencies)
       /\ plan' = [plan EXCEPT ![Scanned] = "ALREADY"]
       /\ UNCHANGED <<sets, has_unknown>>
    \/ /\ Scanned \notin Required \cup reverse_dependencies \cup dependencies
       /\ has_unknown' = TRUE
       /\ UNCHANGED <<plan, sets>>

\* Mutant: the dependants of a dependant stay.
ClassifyOneLevel ==
    \/ /\ Scanned \in reverse_dependencies
       /\ plan' = [plan EXCEPT ![Scanned] = "RDEP"]
       /\ UNCHANGED <<sets, has_unknown>>
    \/ Scanned \in dependencies \ reverse_dependencies /\ Spread("DEP")
    \/ /\ Scanned \in Required \ (reverse_dependencies \cup dependencies)
       /\ plan' = [plan EXCEPT ![Scanned] = "ALREADY"]
       /\ UNCHANGED <<sets, has_unknown>>
    \/ /\ Scanned \notin Required \cup reverse_dependencies \cup dependencies
       /\ has_unknown' = TRUE
       /\ UNCHANGED <<plan, sets>>

Classify ==
    \/ Scanned \in reverse_dependencies /\ Spread("RDEP")
    \/ Scanned \in dependencies \ reverse_dependencies /\ Spread("DEP")
    \/ /\ Scanned \in Required \ (reverse_dependencies \cup dependencies)
       /\ plan' = [plan EXCEPT ![Scanned] = "ALREADY"]
       /\ UNCHANGED <<sets, has_unknown>>
    \/ /\ Scanned \notin Required \cup reverse_dependencies \cup dependencies
       /\ has_unknown' = TRUE
       /\ UNCHANGED <<plan, sets>>

\* One package of the inner loop.
Scan ==
    /\ pc = "scan"
    /\ at <= Len(in.installs)
    /\ IF plan[Scanned] = "UNKNOWN" THEN Classify ELSE UNCHANGED <<plan, sets, has_unknown>>
    /\ at' = at + 1
    /\ UNCHANGED <<in, forgotten, max_depth, outcome, pc>>

\* Mutant: one round is thought to be enough.
EndScanOnce ==
    /\ pc = "scan"
    /\ at > Len(in.installs)
    /\ max_depth' = max_depth - 1
    /\ pc' = "settle"
    /\ at' = 1
    /\ has_unknown' = FALSE
    /\ UNCHANGED <<in, plan, sets, forgotten, outcome>>

EndScan ==
    /\ pc = "scan"
    /\ at > Len(in.installs)
    /\ max_depth' = max_depth - 1
    /\ pc' = IF has_unknown /\ max_depth > 1 THEN "scan" ELSE "settle"
    /\ at' = 1
    /\ has_unknown' = FALSE
    /\ UNCHANGED <<in, plan, sets, forgotten, outcome>>

\* A dependency that is up to date stays; then all starts over without it.
Settle ==
    /\ pc = "settle"
    /\ LET settled == OfType("DEP") \cap UpToDate
       IN /\ plan' = [p \in Solution |-> IF p \in settled THEN "ALREADY" ELSE plan[p]]
          /\ forgotten' = forgotten \cup settled
          /\ pc' = IF settled # {} /\ max_depth > 0 THEN "collect" ELSE "ready"
    /\ UNCHANGED <<in, sets, has_unknown, max_depth, at, outcome>>

\* The user sees the plan and agrees.
Announce ==
    /\ pc = "ready"
    /\ announced' = OfType("DIRECT") \cup OfType("RDEP") \cup OfType("DEP")
    /\ pc' = "install"
    /\ at' = 1
    /\ UNCHANGED <<in, plan, sets, forgotten, has_unknown, max_depth, installed>>

\* What fails in here is the business of VenvTransaction.
Install ==
    /\ pc = "install"
    /\ at <= Len(in.installs)
    /\ installed' = IF plan[Scanned] = "ALREADY" THEN installed ELSE Append(installed, Scanned)
    /\ at' = at + 1
    /\ UNCHANGED <<in, plan, sets, forgotten, has_unknown, max_depth, announced, pc>>

Next == Collect \/ Scan \/ EndScan \/ Settle \/ Announce \/ Install

Spec == Init /\ [][Next]_vars

(***************************************************************************)
(* Properties                                                              *)
(***************************************************************************)
\* Every package of the solution has one type.
TypeOK ==
    /\ in \in Input
    /\ plan \in [Solution -> InstallType]
    /\ reverse_dependencies \subseteq in.lock.packages
    /\ dependencies \in SUBSET Pkg
    /\ forgotten \subseteq UpToDate
    /\ has_unknown \in BOOLEAN
    /\ max_depth \in 0..MaxDepth
    /\ at \in 1..Len(in.installs) + 1
    /\ announced \in SUBSET Pkg
    /\ installed \in Seq(Pkg)
    /\ pc \in {"empty", "collect", "scan", "settle", "ready", "install"}

Planned == pc \in {"ready", "install"}

\* A package is only passed over when the lock file has it with the version of
\* the solution and with the use flags in force (ALREADY_INSTALLED).
NothingStale == OfType("ALREADY") \subseteq UpToDate

\* "every UNKNOWN_INSTALL that is a reverse dependency of a direct install ...
\* should be marked as RDEP_INSTALL": what was built on a direct install is
\* built again, in any order of the solution and however the rounds run out.
DependantsRebuilt ==
    Planned => \A p \in in.lock.packages :
        in.lock.requires[p] \cap OfType("DIRECT") # {} => plan[p] \in {"DIRECT", "RDEP"}

\* The lock file's requirements agree with the order of the solution.
InOrder ==
    \A i, j \in DOMAIN in.installs :
        in.installs[j] \in in.lock.requires[in.installs[i]] => j < i

BuiltOn(S) ==
    LET within[n \in 0..Cardinality(Pkg)] ==
            IF n = 0 THEN S
            ELSE within[n - 1] \cup {p \in in.lock.packages : in.lock.requires[p] \cap within[n - 1] # {}}
    IN within[Cardinality(Pkg)]

\* When the order of the solution is that of the lock file, everything built
\* on a direct install, in any number of steps, is built again.
AllDependantsRebuilt ==
    Planned /\ InOrder => BuiltOn(OfType("DIRECT")) \subseteq OfType("DIRECT") \cup OfType("RDEP")

\* A package is only built again without need of its own when something the
\* lock file says it requires is built again, unless the rounds ran out.
RebuiltForAReason ==
    Planned /\ max_depth > 0 =>
        \A p \in OfType("RDEP") :
            \E d \in in.lock.requires[p] : plan[d] \in {"DIRECT", "RDEP", "DEP"}

\* "The following packages will be installed:" (ttrek_InstallOrUpdate): what is
\* installed has been shown to the user, unless the rounds ran out.
AnnouncedUnlessCut == max_depth > 0 => Elements(installed) \subseteq announced
=============================================================================
