----------------------------- MODULE Requirements -----------------------------
(***************************************************************************)
(* Where the requirements of a solve come from, and what they become.      *)
(* ttrek_Solve asks for every package of the lock file (in any version),   *)
(* then for those of ttrek.json, then for those of the command line, the   *)
(* later ones in place of the earlier (ttrek_resolvo.cc).  What is         *)
(* installed goes to the lock file, and to ttrek.json if it was among the  *)
(* requirements (installer.c).  The properties are about long sequences of *)
(* commands and of edits of ttrek.json by hand.                            *)
(*                                                                         *)
(* A requirement is the set of versions it admits.  The solver is any      *)
(* solution; ExecutionPlan has which packages of a solution are rebuilt,   *)
(* Uninstall which ones are removed.                                       *)
(***************************************************************************)
EXTENDS Naturals, FiniteSets

CONSTANTS
    Packages,
    Versions,     \* numbers, in the order of the versions
    Major,        \* the major number of each version
    Requests,     \* the requirements the user writes, sets of versions
    Registries,   \* what each version of each package requires
    AnyVersion,   \* the empty requirement
    None,
    MaxNamed,     \* bound: packages named on a command line
    MaxEdits,     \* bound: edits of ttrek.json by hand
    MaxDeaths     \* bound: processes that die between two documents

Caret(v) == {w \in Versions : w >= v /\ Major[w] = Major[v]}

Reqs == Requests \cup {Caret(v) : v \in Versions}

ASSUME VersionAssumption == Versions \subseteq Nat /\ Major \in [Versions -> Nat]
ASSUME RequestAssumption == Requests \subseteq SUBSET Versions
ASSUME RegistryAssumption ==
    Registries \subseteq
        [Packages -> [Versions -> [Packages -> {AnyVersion, None} \cup SUBSET Versions]]]
ASSUME NamesAssumption ==
    /\ None \notin Versions /\ None \notin Reqs /\ None # AnyVersion
    /\ None \notin [version : Versions, requires : [Packages -> {AnyVersion, None} \cup SUBSET Versions]]
    /\ AnyVersion \notin Reqs

VARIABLES
    registry,   \* [package -> [version -> its dependencies]]
    spec,       \* "dependencies" of ttrek.json: a requirement or None
    lock,       \* "packages" of ttrek-lock.json: version and "requires"
    last,       \* the command just run: the packages it stood for, and if it
                \* had no arguments (bare)
    edited,     \* packages whose entry is not what an install left
    edits, deaths

vars == <<registry, spec, lock, last, edited, edits, deaths>>

Nothing == [p \in Packages |-> None]

Init ==
    /\ registry \in Registries
    /\ spec = Nothing
    /\ lock = Nothing
    /\ last = [bare |-> FALSE, named |-> {}]
    /\ edited = {}
    /\ edits = 0
    /\ deaths = 0

Meaning(r) == IF r = AnyVersion THEN Versions ELSE r

Locked == {p \in Packages : lock[p] # None}

(***************************************************************************)
(* The requirements                                                        *)
(***************************************************************************)
FromLockFile == [p \in Packages |-> IF p \in Locked THEN AnyVersion ELSE None]

\* Mutant: the lock file's entries stand before those of ttrek.json.
FromSpecWeak(req) == [p \in Packages |-> IF req[p] # None THEN req[p] ELSE spec[p]]

FromSpecFile(req) == [p \in Packages |-> IF spec[p] # None THEN spec[p] ELSE req[p]]

FromArguments(argv, req) ==
    [p \in Packages |-> IF p \in DOMAIN argv THEN argv[p] ELSE req[p]]

\* Mutant: what is installed already is not asked for.
RequirementsFresh(argv) == FromArguments(argv, spec)

Requirements(argv) == FromArguments(argv, FromSpecFile(FromLockFile))

\* A command without arguments stands for the names in ttrek.json; the text
\* with the requirement is composed, and the bare name appended.
DirectDependencies == [p \in {q \in Packages : spec[q] # None} |-> AnyVersion]

(***************************************************************************)
(* The solver: any choice of versions that meets the requirements, with no *)
(* package that neither they nor a chosen one ask for.                     *)
(***************************************************************************)
Chosen(sol) == {p \in Packages : sol[p] # None}

Wanted(sol, p) == {q \in Packages : registry[p][sol[p]][q] # None}

Supported(sol, req) ==
    \A T \in SUBSET {p \in Chosen(sol) : req[p] = None} :
        T # {} => \E p \in Chosen(sol) \ T : Wanted(sol, p) \cap T # {}

Solutions(req) ==
    {sol \in [Packages -> {None} \cup Versions] :
        /\ \A p \in Packages : req[p] # None => sol[p] \in Meaning(req[p])
        /\ \A p \in Chosen(sol) : \A q \in Wanted(sol, p) :
              sol[q] \in Meaning(registry[p][sol[p]][q])
        /\ Supported(sol, req)}

(***************************************************************************)
(* Installing                                                              *)
(***************************************************************************)
\* ttrek_ExistsInLock with the version of the solution.
Exact(sol) == {p \in Locked \cap Chosen(sol) : lock[p].version = sol[p]}

\* Mutant: an entry of ttrek.json is not replaced.
AddToSpecOnce(req, sol, S) ==
    [p \in Packages |->
        IF p \notin S \/ req[p] = None \/ spec[p] # None THEN spec[p]
        ELSE IF req[p] = AnyVersion THEN Caret(sol[p]) ELSE req[p]]

\* ttrek_AddPackageToSpec: an empty requirement is replaced by a caret.
AddToSpec(req, sol, S) ==
    [p \in Packages |->
        IF p \notin S \/ req[p] = None THEN spec[p]
        ELSE IF req[p] = AnyVersion THEN Caret(sol[p]) ELSE req[p]]

\* "requires" is the install spec's list of dependencies, which is taken to be
\* the one the solver had.
AddToLock(sol, S) ==
    [p \in Packages |->
        IF p \in S THEN [version |-> sol[p], requires |-> registry[p][sol[p]]]
                   ELSE lock[p]]

\* Install or update.  `again' are packages built again although they are
\* exact: for their use flags, for a dependency, or by -force.  The documents
\* are written one after the other; a process may die in between.
InstallOrUpdate(bare, argv) ==
    LET req == Requirements(argv)
    IN  \E sol \in Solutions(req) :
        \E again \in SUBSET Exact(sol) :
           LET S == (Chosen(sol) \ Exact(sol)) \cup again
           IN  /\ \E p \in S : req[p] # None
               /\ spec' = AddToSpec(req, sol, S)
               /\ last' = [bare |-> bare, named |-> DOMAIN argv]
               /\ \/ /\ lock' = AddToLock(sol, S)
                     /\ edited' = {p \in edited : p \in DOMAIN argv \ S}
                     /\ UNCHANGED deaths
                  \/ /\ deaths < MaxDeaths
                     /\ deaths' = deaths + 1
                     /\ edited' = edited \cup S
                     /\ UNCHANGED lock
               /\ UNCHANGED <<registry, edits>>

NameSets == {A \in SUBSET Packages : A # {} /\ Cardinality(A) <= MaxNamed}

Install == \E A \in NameSets :
             \E argv \in [A -> {AnyVersion} \cup Requests] : InstallOrUpdate(FALSE, argv)

\* `ttrek install' or `ttrek update' alone.
InstallBare == InstallOrUpdate(TRUE, DirectDependencies)

(***************************************************************************)
(* Uninstalling, and editing by hand                                       *)
(***************************************************************************)
Requires == [p \in Packages |->
               IF p \in Locked THEN {q \in Packages : lock[p].requires[q] # None} ELSE {}]

Removal(asked, autoremove) == INSTANCE Uninstall
    WITH Pkg <- Packages, Graphs <- [Packages -> SUBSET Packages],
         requires <- Requires, direct <- {p \in Packages : spec[p] # None},
         spec <- {p \in Packages : spec[p] # None}, disk <- Locked, locked <- Locked,
         uninstalls <- {}, rdeps <- Requires, todo <- {}, changed <- FALSE,
         phase <- "dependents"

\* A removal that fails writes nothing; one that does not writes ttrek.json and
\* then the lock file, and may die in between.
UninstallPackages(asked, autoremove) ==
    LET gone == Removal(asked, autoremove)!Expected
    IN  /\ asked \subseteq Locked
        /\ spec' = [p \in Packages |-> IF p \in gone THEN None ELSE spec[p]]
        /\ \/ /\ lock' = [p \in Packages |-> IF p \in gone THEN None ELSE lock[p]]
              /\ UNCHANGED deaths
           \/ /\ deaths < MaxDeaths
              /\ deaths' = deaths + 1
              /\ UNCHANGED lock
        /\ last' = [bare |-> FALSE, named |-> asked]
        /\ edited' = edited \ gone
        /\ UNCHANGED <<registry, edits>>

EditSpec(p, r) ==
    /\ edits < MaxEdits
    /\ edits' = edits + 1
    /\ spec' = [spec EXCEPT ![p] = r]
    /\ edited' = edited \cup {p}
    /\ last' = [bare |-> FALSE, named |-> {p}]
    /\ UNCHANGED <<registry, lock, deaths>>

Next ==
    \/ Install \/ InstallBare
    \/ \E asked \in NameSets : \E autoremove \in BOOLEAN :
          UninstallPackages(asked, autoremove)
    \/ \E p \in Packages : \E r \in {None} \cup Requests : EditSpec(p, r)

Spec == Init /\ [][Next]_vars

(***************************************************************************)
(* Properties                                                              *)
(***************************************************************************)
\* What is installed fits together after any sequence of commands: whatever a
\* locked package requires is locked, in a version it admits.  This is what
\* the lock file's part of the requirements is for (ttrek_resolvo.cc:192): a
\* solve that did not know of an installed package could break it.
LockFits ==
    \A p \in Locked : \A q \in Packages :
        lock[p].requires[q] # None =>
            q \in Locked /\ lock[q].version \in Meaning(lock[p].requires[q])

\* Every requirement of ttrek.json is met by the lock file, unless it was
\* edited by hand, or its writer died, and no install has taken it up since.
SpecIsMet ==
    \A p \in Packages \ edited :
        spec[p] # None => p \in Locked /\ lock[p].version \in Meaning(spec[p])

\* Whatever has p and all it requires, in any number of steps, has one of S.
DependsOn(p, S) ==
    \A T \in SUBSET Packages :
        p \in T /\ (\A q \in T : Requires[q] \subseteq T) => T \cap S # {}

\* A command changes ttrek.json for the packages it names; of the others it
\* adds only ones that were locked already (a dependency that is installed
\* again becomes a direct one), and removes only ones that depend on a named
\* one, also when it dies before it has written the lock file.
OthersStay ==
    [][ \A p \in Packages \ last'.named :
           spec'[p] # spec[p] =>
              \/ spec[p] = None /\ p \in Locked /\ \E v \in Versions : spec'[p] = Caret(v)
              \/ spec'[p] = None /\ p \in Locked /\ DependsOn(p, last'.named)
      ]_vars

\* "Parse additional requirements from spec file" (ttrek_resolvo.cc:191):
\* a command without arguments stays within the requirements of ttrek.json.
SpecIsRequired ==
    [][ last'.bare =>
           \A p \in Packages : spec[p] # None /\ lock'[p] # lock[p] =>
               lock'[p].version \in Meaning(spec[p]) ]_vars
===============================================================================
