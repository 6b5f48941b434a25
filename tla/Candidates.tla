----------------------------- MODULE Candidates -----------------------------
(***************************************************************************)
(* The package database as the solver sees it (PackageDatabase.h): for     *)
(* each package, once, the versions the registry knows become candidates,  *)
(* one of which may be favored or locked; requirements filter candidates   *)
(* and sort_candidates puts the preferred ones first.                      *)
(***************************************************************************)
EXTENDS Semver, FiniteSets

CONSTANTS
    Pkg,         \* package names
    Published,   \* the versions a registry may publish
    Parts,       \* the requirements, of one part each
    MaxVersions, \* bound: versions of a package in the registry
    None         \* not locked

ASSUME PublishedAssumption == Published \subseteq Semantic /\ None \notin Published
ASSUME PartAssumption == Parts \subseteq [op : {">=", ">", "<=", "<", "==", "^"}, v : Semantic]

VARIABLES
    registry,    \* the versions of each package in the registry
    locked,      \* locked_packages: the version ttrek-lock.json has
    strategy,    \* "latest", "favored" or "locked"
    candidates,  \* all candidates; a SolvableId is a position here
    answer,      \* get_candidates: for each package, its ids and the marked one
    sorted       \* the last list sort_candidates was given, and for which part

databaseVars == <<registry, locked, strategy, candidates, answer, sorted>>

Comparison(x, y) == SemverCompare(Pack(x), Pack(y))

Ranges == INSTANCE VersionRange WITH
    Version <- {Pack(x) : x \in Published}, Compare <- SemverCompare,
    NextMajor <- NextMajorVersion, Requirements <- {},
    todo <- <<>>, read <- <<>>, range <- <<>>

Unasked == [ids |-> {}, marked |-> 0]

DatabaseInit ==
    /\ registry \in [Pkg -> {S \in SUBSET Published : IsFiniteSet(S) /\ Cardinality(S) <= MaxVersions}]
    /\ locked \in [Pkg -> Published \cup {None}]
    /\ strategy \in {"latest", "favored", "locked"}
    /\ candidates = <<>>
    /\ answer = [p \in Pkg |-> Unasked]
    /\ sorted = [part |-> None, ids |-> <<>>]

\* The orders in which the versions of a package may be met: that of their
\* strings, which has nothing to do with that of the versions.
Orders(S) == {s \in [1..Cardinality(S) -> S] : \A v \in S : \E i \in DOMAIN s : s[i] = v}

\* A failing request gives no versions.
FetchPackageVersions(p) == {<<>>} \cup Orders(registry[p])

\* A SolvableId is initialised to the first id there is.
DefaultId == 1

\* Mutant: the newest candidate is marked.
MarkedNewest(p, all) ==
    LET own == {i \in DOMAIN all : all[i].name = p}
    IN IF locked[p] = None \/ strategy = "latest" \/ own = {} THEN 0
       ELSE CHOOSE i \in own : \A j \in own : Comparison(all[i].version, all[j].version) >= 0

\* The candidate that is favored or locked; 0 if there is none.
Marked(p, all) ==
    LET own   == {i \in DOMAIN all : all[i].name = p}
        same  == {i \in own : all[i].version = locked[p]}
        found == IF same = {} THEN DefaultId ELSE CHOOSE i \in same : TRUE
    IN IF locked[p] # None /\ strategy # "latest" /\ found \in own THEN found ELSE 0

\* The solver asks for the candidates of each package once.
GetCandidates(p) ==
    /\ answer[p] = Unasked
    /\ \E fetched \in FetchPackageVersions(p) :
        LET all == candidates \o [i \in DOMAIN fetched |-> [name |-> p, version |-> fetched[i]]]
        IN /\ candidates' = all
           /\ answer' = [answer EXCEPT ![p] = [ids    |-> {i \in DOMAIN all : all[i].name = p},
                                               marked |-> Marked(p, all)]]
    /\ UNCHANGED <<registry, locked, strategy, sorted>>

FilterCandidates(ids, part) ==
    {i \in ids : Ranges!Contains(Ranges!PartRange([part EXCEPT !.v = Pack(part.v)]),
                                 Pack(candidates[i].version))}

\* Mutant: oldest first.
SortedOldest(s) ==
    \A i, j \in DOMAIN s : i < j =>
        Comparison(candidates[s[i]].version, candidates[s[j]].version) <= 0

\* sort_candidates: newest first; std::sort leaves equal ones in any order.
Sorted(s) ==
    \A i, j \in DOMAIN s : i < j =>
        Comparison(candidates[s[i]].version, candidates[s[j]].version) >= 0

\* The solver filters by a requirement and has the rest sorted.
SortCandidates(p, part) ==
    /\ answer[p] # Unasked
    /\ \E s \in Orders(FilterCandidates(answer[p].ids, part)) :
        Sorted(s) /\ sorted' = [part |-> part, ids |-> s]
    /\ UNCHANGED <<registry, locked, strategy, candidates, answer>>

DatabaseNext == \E p \in Pkg : GetCandidates(p) \/ \E part \in Parts : SortCandidates(p, part)

DatabaseSpec == DatabaseInit /\ [][DatabaseNext]_databaseVars

(***************************************************************************)
(* Properties                                                              *)
(***************************************************************************)
\* Candidates come from the registry, each once, and every answer has exactly
\* the candidates of its package.
DatabaseTypeOK ==
    /\ \A i \in DOMAIN candidates : candidates[i].version \in registry[candidates[i].name]
    /\ \A i, j \in DOMAIN candidates : candidates[i] = candidates[j] => i = j
    /\ \A p \in Pkg : \A i \in answer[p].ids : candidates[i].name = p
    /\ \A p \in Pkg : answer[p].marked \in answer[p].ids \cup {0}

\* When the locked version of a package is still published, it is the one the
\* solver is told to prefer, whatever the order of the fetches; when it is not,
\* no other one is, but for the first candidate that was ever fetched
\* (get_candidates).
LockedIsMarked ==
    \A p \in Pkg : strategy # "latest" =>
        /\ \A i \in answer[p].ids : candidates[i].version = locked[p] => answer[p].marked = i
        /\ answer[p].marked \in {0, DefaultId} \/ candidates[answer[p].marked].version = locked[p]

\* One of the numbers that a version of the next major is compared by with the
\* end of a caret range is negative.
ReadsNegative(x) ==
    \/ x.minor < 0 \/ x.patch < 0
    \/ LET first == Identifiers(x.pre)[1] IN first[1] = 0 /\ first[2] < 0

\* "Needed to make sure 9.0.0-beta.2 does NOT satisfy <9.0.0 in essence the
\* empty string will make sure that the prerelease precedes any other alpha,
\* beta, and so on versions" (Pack::next_major_version): a caret range has no
\* version of another major.  That is so of words and of numbers that fit an
\* int, but one of the next major does satisfy the range when its minor, its
\* patch or the first identifier of its prerelease reads as a negative number,
\* like 2.0.0--5 and 2.0.0-20240615120000 for ^1.0.0; and the greatest major
\* number has no next one.
CaretKeepsMajor ==
    \A i \in DOMAIN sorted.ids :
        LET x == Pack(candidates[sorted.ids[i]].version)
            v == Pack(sorted.part.v)
        IN sorted.part.op = "^" /\ v.major < MaxInt =>
              x.major = v.major \/ (x.major = v.major + 1 /\ ReadsNegative(x))

\* The first of the sorted candidates has the greatest version number
\* (sort_candidates): no other one that matches is of a later major, minor or
\* patch version, as these are read.
NewestNumberFirst ==
    \A i \in DOMAIN sorted.ids :
        CompareVersion(Pack(candidates[sorted.ids[1]].version),
                       Pack(candidates[sorted.ids[i]].version)) >= 0

=============================================================================
