# A formal model of ttrek

ttrek is a package manager for Tcl: `ttrek install`, `update`, `uninstall`, `run`,
`use`, `scripts`, `list`, `init`, `download` and `unpack` work on a project
directory with a virtual environment in it. This directory holds TLA+ modules
translated from the C and C++ sources under `src/`, the TLC configurations that
check them, and proofs checked by TLAPS. `PROJECT.json` gives, for every
definition, the lines of the source it models.

## 1. Inventory

### The system's state

| where | what | written by |
|---|---|---|
| `ttrek.json` ("spec") | direct requirements, use flags, scripts | `init`, `use`, `scripts`, `install`, `update`, `uninstall` |
| `ttrek-lock.json` ("lock") | version, requirements and use flags of each installed package | `install`, `update`, `uninstall` |
| `ttrek-venv/` | a libgit2 repository of one commit that is amended | `ttrek_git.c` |
| `ttrek-venv/local/` | the installed files | the install scripts |
| `ttrek-venv/ttrek-manifest.json` ("manifest") | the files each package installed | `install`, `update`, `uninstall` |
| `ttrek-venv/.dirty` | a change is under way, or was interrupted | the same |
| `ttrek-venv/.lock` | the file that is flock()ed | `ttrek_CreateState` |
| `ttrek-venv/tmp/`, `build/` | backups of replaced files; build directories | `installer.c`, scripts |

The spec and the lock are outside the repository, the manifest, `.dirty` and the
installed files inside. Much of what can go wrong comes from that split.

### Components

| component | state | operations | interacts with | hard part |
|---|---|---|---|---|
| project state (`common.c`) | `ttrek_state_t`: parsed documents, paths, lock descriptor | CreateState, DestroyState, LockFile, WriteJsonFile, ExecuteCommand | every command | documents are read before the lock; writes are truncate and fill; children inherit the lock |
| environment repository (`ttrek_git.c`) | HEAD, index, work tree | GitInit, EnsureGitReady, GitResetHard, GitClean, GitAmend | install, update, uninstall, run | crashes between steps; errors ignored |
| install, update, uninstall (`*SubCmd.c`) | none of their own | the transaction: lock, ensure, touch, work, amend, remove `.dirty` | all of the above, the solver | many error returns; half-done changes |
| run (`runSubCmd.c`) | none | EnsureGitReady without the lock, then the command | repository | interleaves with lock holders |
| use, scripts (`useSubCmd.c`, `scriptsSubCmd.c`, `ttrek_useflags.c`) | spec | read, change, rewrite, without the lock | install | lost updates |
| installer (`installer.c`, `fsmonitor/`) | documents in memory, `local/`, `tmp/` | InstallPackage, UninstallPackage, Backup, Delete, Restore, the list of new files | solver, scripts | one package of several fails; files with two writers |
| solver front end (`ttrek_resolvo.cc`) | requirements, plan | Solve, GenerateExecutionPlan, InstallOrUpdate, Uninstall | package database, installer | fixpoint loops, reverse dependencies, iteration order |
| package database (`PackageDatabase.h`) | names, versions, candidates | parse and match version sets, sort candidates, topological sort | solver, registry | version arithmetic, strategies |
| version ranges (`Range.h`) | a sorted list of segments | constructors, complement, union, intersection, contains | package database | interval boundaries |
| semantic versions (`semver/`) | none | parse, compare, satisfies | ranges, database | prerelease order |
| script generation (`ttrek_genInstall.c`, `ttrek_buildInstructions.c`, `install_common_static.sh`) | none | which commands and options of a recipe become lines of a script | installer, the local build | its use of flags must agree with `exact_use_flags_p`; a script must stop at its first failure |
| registry, telemetry (`registry.c`, `ttrek_telemetry.c`) | none | HTTP requests | database, installer | failures |
| SAT solver (`resolvo/`) | vendored library | solve | solver front end | third party |
| dispatch, help, init, list, download, unpack | none | one-shot input and output | | |

### What makes each correct

- *Transaction*: commands exclude one another; `.dirty` is there whenever the
  work tree is not HEAD's; lock file, manifest, HEAD and tree agree between
  commands; a reset brings back what the lock file lists; the lock is released
  and every command ends.
- *Uninstall*: what stays is not broken, what the user asked for stays, the set
  does not depend on the iteration order of a hash table, the loops end.
- *Plan*: every package of the solution is installed or kept, dependencies
  before dependents, dependents of a replaced package are reinstalled; what is
  shown for confirmation is what is installed.
- *Ranges*: the operations compute the sets of versions they stand for; segments
  stay sorted and disjoint.
- *Use flags*: a package is built again when, and only when, a flag it knows has
  changed; what stays is what a build would give now.
- *Files*: the manifest lists what the commit has; every installed package has its
  own files, of its own version, after any failure.
- *Requirements*: what is installed fits together, and fits `ttrek.json`, after any
  sequence of commands.

## 2. Plan

| order | module | models | status |
|---|---|---|---|
| 1 | `VenvTransaction`, abstract `PackageStore` | the transaction, lock, repository, crashes | done, proved |
| 2 | `Uninstall` | the two fixpoint loops and the removal | done, proved |
| 3 | `VersionRange` | reading a requirement into a range of versions | done, proved |
| 4 | `Semver`, `Candidates` | comparing versions; fetching, marking, filtering and sorting candidates | done, proved |
| 5 | `PackageSort` | the order in which a solution is installed | done, proved |
| 6 | `ExecutionPlan` | which packages of a solution are installed, rebuilt or kept | done, proved |
| 7 | `InstallOrder` | 5 feeding 6, up to the builds | done, proved |
| 8 | `UseFlags` | the `use` command and when a package is rebuilt for its flags | done, proved |
| 9 | `InstallScript`, implements `UseFlags` | recipes, the scripts generated from them, the local build | done, proved |
| 10 | `PackageFiles` | backup, deletion, script, difference and restore, file by file | done, proved |
| 11 | `Requirements`, uses `Uninstall` | where the solver's requirements come from and what they become | done, proved |
| 12 | scripts, init | `ttrek_scripts.c`, `scriptsSubCmd.c`, `initSubCmd.c` | later |

Refinements and compositions: `VenvTransaction` implements the abstract
`PackageStore`. `InstallScript` extends `UseFlags` and implements its `Spec`: an
install in steps is one step of it or none. `InstallOrder` extends `ExecutionPlan`,
which extends `PackageSort`, and implements `SortSpec`. `Candidates` uses `Semver`
and instantiates `VersionRange` with the versions of `Semver`. `Requirements`
instantiates `Uninstall` for the set of packages it removes.

Still to come: `PackageFiles` as an implementation of the package steps of
`VenvTransaction`, which now has the files of a package as one value; module 12.

## 3. The modules and the code

### `VenvTransaction`

Several ttrek processes share one environment. A process is a control point `pc`,
its subcommand `cmd` and its memory `loc` (the parsed documents, the packages of
the plan still to do, the backup of the package at hand). What is on disk is
`file` (spec, lock, manifest), `tree` (per package: the version whose files are
there, `None`, or `Broken`), `dirty` (`.dirty`), `head` (what the one commit has)
and `git`. `flock` is the process that holds the lock.

| code | actions |
|---|---|
| `ttrek_CreateState` | `Start`, one `ReadFile` per document, `LockFile`, `LockBusy` |
| `ttrek_GitInit` | `GitInit`, `GitInitCommit` |
| `ttrek_EnsureGitReady`, `ttrek_GitResetHard`, `ttrek_GitClean` | `NoResetNeeded`, `ResetFails`, `GitReset`, `GitResetFault`, `GitClean`, `GitCleanFails` |
| `ttrek_InstallSubCmd`, `ttrek_UninstallSubCmd` and what they call | `Touch`, `Plan`, `Abort`, `GiveUp`, `GitAmend`, `AmendFails`, `Undirty`, `Unlock` |
| `ttrek_InstallPackage`, `ttrek_UninstallPackage`, the failure path of `ttrek_InstallOrUpdate` | `RemoveOld`, `NoScript`, `ScriptStart`, `ScriptDone`, `ScriptFails`, `Restore`, `UninstallOne` |
| `ttrek_WriteJsonFile` | `Truncate`, `Fill`, `WriteNull` |
| `ttrek run`, `ttrek use` and `ttrek scripts` | `RunDone`, `EditSpec`, `EditSpecFill`, `EditNull` |
| a process killed, with or without its script | `Crash`, `CrashLeavingScript`, `OrphanDone` |

Writing a document is two steps, so a reader may find it `Torn`. Deleting the
files of a manifest entry that does not describe the tree may leave anything
(`Deletions`). `blame` remembers which of five hazards the code does not guard
against has happened: a death between the first document written and the amend
(`commit`), a death inside the clean after it removed `.dirty` (`clean`), `run`
resetting under a lock holder (`run`), a process working from documents it read
before it had the lock (`stale`), a `git_reset` that failed and was ignored
(`reset`). The properties say exactly which of them they survive; without the
hazards they hold unconditionally.

### `PackageStore`

The promise about the commit: a snapshot, changed by one holder at a time, at most
once per holding, as a whole. `ImplementsStore` maps `snapshot` to `head.tree`,
`holder` to `flock`, and the phase to whether the holder has passed its commit.

### `Uninstall`

`ttrek_Uninstall` computes the packages to remove with two loops over an
`unordered_set` that they insert into. The C++ standard lets a rehash invalidate
the iterator, so after an insertion what remains to be visited is any subset of
the set. `VisitDependents`/`EndDependents` are the first loop, `Erase`,
`VisitOrphans` and `EndOrphans` the `-autoremove` loop, then `Confirm` or
`AnswerNo`, and `Remove` for each package. `RemoveFails` is every error return of
`ttrek_UninstallPackage`: a file that cannot be deleted, a package or a
"dependencies" that one of the documents has not; nothing is written then.
`WriteSpec` and `WriteLock` are the two documents, one after the other, and `Stop` a
write that fails or a process that dies before or between them.

### `VersionRange`

`version_range` splits a requirement at commas and intersects what its parts
stand for. `Contains`, `Intersection` and `ValidSegment` are those of `Range.h`
for ranges of at most one segment, which is all the program ever makes;
`complement`, `union_with` and `bounding_range` are never called. Versions are
any totally ordered set, with `NextMajor` as an operator for `^`.

### `Semver` and `Candidates`

A version is three numbers and a prerelease, a sequence of identifiers, as published:
the numbers have any size, and an identifier is a number, which may have a sign, or
a word. `Read` and `Pack` are what the code compares in their place: `strtol` stops at
the ends of a long (`Saturate`) and an `int` keeps the low bits (`ToInt`), so that a
long number may become a small or a negative one; `Increment` wraps too. `MaxInt` and
`MaxLong` are the widths. An empty identifier is the number 0. `Pack` also turns a
missing prerelease into an empty one. `GetCandidates` is the solver asking for a package
(the first time, the registry is fetched, in any order the JSON object has, or the
fetch fails); `SortCandidates` filters by a requirement and sorts. A candidate's
number in the code starts at 0 and at 1 here. The definitions that every
specification has are called `DatabaseInit`, `DatabaseNext`, `DatabaseSpec` and
`DatabaseTypeOK` here, so that one module can be about the database and its ranges.

### `PackageSort`

`Pop` is one round of the loop of `topological_sort`, `SortInstalls` the sort by
index that follows. Where the code iterates over names in their order the model
takes any order, and `std::sort` leaves equal elements in any order.

### `ExecutionPlan`

`ttrek_GenerateExecutionPlan`: `Init` is the first classification of the packages
(`DIRECT`, `ALREADY`, `UNKNOWN`), `Collect` the sets of reverse dependencies and
dependencies of the direct installs, `Scan` one package of the inner loop, `EndScan`
the end of a round, `Settle` the restart after dependencies that are up to date
have been found. `Announce` and `Install` are the user of the plan. What is
exact and what has the same flags is an input; `UseFlags` has the comparison.

### `InstallOrder`

`ttrek_InstallOrUpdate` from the solution to the builds: `Sorting` is a step of
`PackageSort`, `Begin` hands the sorted solution and the same `dependencies_map` to
the plan, `Planning` is a step of `ExecutionPlan`. The two algorithms decide
independently: the plan leaves out what it finds up to date, the sort orders the
rest. `DependenciesReady` is what has to come of it.

### `UseFlags`

A command line is a sequence of words. Options are removed by
`Tcl_ParseArgsObjv`, but the subcommands are handed the original words with the
new count (`Arguments`). The table of flags is a set of signed names;
`ListsOf` is any order of it, since the hash table has its own. `Install`
records which of the flags a package knows were in force; `Exact` is the
comparison that decides whether it must be built again.

### `InstallScript`

A recipe is what the registry has for a version: `iuse`, and a list of commands,
each with an optional `if` and optional options that have one too. `Script` is the
generator, as a sequence of lines: which commands give one, with which options.
`Faulty` is every way in which the generation ends in an error. An install is
`Plan`, then for each package `Start`, `LineEnds` or `LineFails` for each line, and
`Record`; `Finish` writes the documents, `End` gives everything up.
`LocalBuild` and `LocalDone` are the user's own project, built by the same
generator, whose `enable_in_local_build` (`Skipped`) keeps the commands that fetch
sources out. The text of the commands, quoting and progress messages are left out.
A `use` command comes between installs: one that comes during an install changes
`ttrek.json`, which the install has read before (`VenvTransaction` has that race).

### `PackageFiles`

One command at a time, on files. `local` says for each file whose contents it has:
nobody's, a package's in a version, or the project's. `payload` is what each
version's script writes; the payloads of packages may overlap, as may the local
build's. `Hidden` files are those glob does not see. `manifest` and `lock` are the
documents on disk, `mem` those in memory; `temp` the copies of replaced files;
`head` the commit; `sofar` the packages of this command that replaced an older
version.

| code | actions |
|---|---|
| `ttrek_BackupPackageFiles`, `ttrek_DeletePackageFiles` | `BackupPackageFiles`, `DeleteFile` |
| `ttrek_FSMonitor_AddWatch`, `_ReadChanges` | `AddWatch`, `ScriptDone` (with `Found`, `DiffList`) |
| the script | `ScriptWrites`, `ScriptFails` |
| `ttrek_RestoreTempFiles` in `ttrek_InstallOrUpdate` | `InstallFails` (with `Rescued`, `MovedBack`), `NoScript` |
| `ttrek_UninstallPackage` | `StartUninstall`, `DeleteFile`, `RemovePackage` |
| writing, committing, the local build | `WriteLock`, `WriteManifest`, `Amend`, `Undirty`, `LocalBuild` |
| the next command's reset | `Start` |

The transaction around it is coarser than in `VenvTransaction`, and there is one
process: what is added here is which files a list names, and what a failure in
the middle leaves of them.

### `Requirements`

A requirement is the set of versions it admits. `Requirements` is the map
that `ttrek_Solve` fills from the lock file (any version), `ttrek.json` and the
command line, the later in place of the earlier; `Solutions` what a solver may
answer; `AddToSpec` and `AddToLock` what an install writes. `UninstallPackages`
removes the set that `Uninstall` computes (its property `ListIsExact` is proved).
Both may die after `ttrek.json` and before the lock file.
`EditSpec` is the user's editor. `DirectDependencies` is what a command without
arguments asks for.

## 4. The runs

Bounds are named in each configuration.

| run | asks | bounds, and why they are enough |
|---|---|---|
| `venv_crash` | Do `.dirty`, the commit and the lock file survive deaths and failures in a plan of several packages? | one process, two packages, four commands, two deaths: install, interruption, recovery, interruption of the recovery |
| `venv_locked` | Is the lock exclusive, and is the commit atomic and alone in changing HEAD? Does the lock file follow it? | two processes, one package in two versions, one use flag edited without the lock, three commands, two deaths |
| `venv_live` | Does every command end and release the lock, next to any other? | two processes, all four commands, one package in two versions, two commands, one death |
| `venv_stale` | (violated) Does a holder work from current documents? | two installs |
| `uninstall` | Is the list the least set, do the loops end, does nothing that stays break, and is nothing left in `ttrek.json` without its lock entry by a failure or a stop? | every graph on three packages, every spec, command line and iteration order |
| `range_exact` | Does a requirement denote what its parts ask for? | six versions in two majors, up to three parts: every pair of ends on both sides, equal, adjacent or apart, and one more |
| `candidates` | Is the locked version marked; do `^` and the order keep their word? | two packages, up to two of five versions, every lock and strategy; prereleases among them, with a word, a number and both; ints of four bits and longs of six, so that a published major 17 reads as 1 and an identifier 12 as -4 |
| `order` | What comes out of the sort, after its dependencies? Is nothing stale kept, everything built on an install rebuilt, nothing rebuilt without reason, everything announced? Is each package built on dependencies that are ready? | every relation of three packages, cycles included, solutions of two or three of them in every order, two or three of them in the lock file; three rounds in place of the code's ten, so that they run out |
| `script` | Is a package rebuilt when and only when a flag it knows has changed, and is what stays what its recipe gives now? Does a failing line undo everything? | two packages, two flags with both signs and the option `-u`, three recipes with conditional commands and options and one undeclared flag, three local builds, any number of commands |
| `files` | Whose files are where, and what does the manifest know of them? | two packages in two versions, four files: private, shared, hidden and the local build's; a script may stop after any file; one death |
| `requirements` | Does what is installed fit together and fit `ttrek.json`? | three packages in two versions of one or two majors, registries in which they require and exclude each other; one edit by hand, one death of an install or uninstall between the documents, any number of commands |
| `requirements_bare` | (violated) Does a command without arguments stay within `ttrek.json`? | as above, without edits and deaths |

Every property of a passing run has a mutant in `PROJECT.json`, a plausible bug in
one definition which makes that run fail. `CHECK_DEADLOCK FALSE` stands where the
command or the bounded set of commands comes to an end. Every run takes less than
three minutes with two workers.

### Fairness

`VenvTransaction!FairSpec` asks weak fairness of each process's steps, `Start` and
deaths excluded: the operating system schedules ttrek and its children, and
install scripts end. The lock is taken with `LOCK_NB`, so no step waits for
another process. `Uninstall!FairSpec` is weak fairness of one sequential process.

### What the violated runs show

- `venv_stale`: `ttrek_CreateState` reads the documents before it takes the lock
  (`common.c:724`, `common.c:758`). A command that read them, and got the lock
  after another one finished, writes the old lock file and manifest back.
- `requirements_bare`: `ttrek_GetDirectDependencies` composes `name@requirement` and
  then appends the bare name (`common.c:825`). `ttrek install` and `ttrek update`
  alone therefore ask for each package of `ttrek.json` in any version, in place of
  the requirement it has there (`ttrek_resolvo.cc:191`); the solver may go past it, and
  the requirement is then overwritten.

### Other limits of the code, as the properties state them

The properties exclude by name what the code does not guarantee:

- a strict bound followed by an inclusive one on the same side keeps the looser
  of the two (`Mixed` in `VersionRange`; `Range.h:319`, `:366`);
- parts that exclude each other give a range without segments, and
  `Range::contains` says yes to every version then (`Range.h:236`;
  `ExactUnlessMixed` says so, and `EmptyIsUnsatisfiable` that this happens to
  unsatisfiable requirements only);
- numbers are read into an `int`: `2.0.0--5` and `2.0.0-20240615120000`, whose
  identifiers read as negative, sort below the empty prerelease that ends `^1.0.0`
  and satisfy it (`semver.c:226`; `ReadsNegative` in `CaretKeepsMajor`), and so does
  a version of the next major whose minor or patch reads as negative; the end of a
  caret range for the greatest `int` wraps (`PackageDatabase.h:169`;
  `CaretKeepsMajor` is about the others);
- when the locked version is gone from the registry, the first candidate ever
  fetched, if it is the package's own, is marked in its place
  (`PackageDatabase.h:472`; `DefaultId` in `LockedIsMarked`);
- the plan stops after ten rounds, and what is still unknown is installed
  without having been shown (`ttrek_resolvo.cc:461`; `AnnouncedUnlessCut`);
- `use set` takes flags without a sign, after which `add` and `del` do nothing
  and the solver throws (`ttrek_useflags.c:52`; `Valid` in `UseAdd`, `UseDel`);
- `use add -u +ssl` takes `-u` as a flag and drops `+ssl` (`useSubCmd.c:145`;
  `Arguments`);
- `Pack` turns a missing prerelease into an empty one, which compares like the
  identifier 0, so that `1.0.0` sorts below `1.0.0-beta` (`PackageDatabase.h:161`;
  the test of semver, `semver_test.c:206`, has the opposite order;
  `NewestNumberFirst` is about the three numbers only);
- a package one of whose versions depends on something outside the solution never
  comes out of the topological sort, as on a cycle, gets index 0 from `operator[]`
  and may be installed first (`PackageDatabase.h:603`, `:638`; `result` in
  `DependenciesReady`);
- a file that two packages write, or a package and the local build, stays with the
  first that listed it and goes with it (`fsmonitor.c:62`; `Private` in
  `InstalledIsWhole`); files that glob does not see are in no manifest (`Hidden`);
- what the local build wrote is removed by the reset after an interrupted command
  (`installSubCmd.c:232`; `BuiltStays`);
- a death between the lock file and the commit is not undone for the lock file
  (`ttrek_resolvo.cc:800`; `blame` in `PackageFiles`);
- an uninstall that dies between `ttrek.json` and the lock file leaves what it was
  removing locked and no longer direct (`ttrek_resolvo.cc:934`; `OthersStay` has
  that only dependents of named packages are concerned, `SpecStaysLocked` that the
  opposite does not happen);
- a flag that a recipe asks for and does not list in `iuse` does not make the
  package be built again (`Declared` in `KeptIsCurrent`);
- a dependency that is installed again becomes a direct one, since every locked
  package is among the requirements (`OthersStay`); an argument without `@` replaces
  the requirement in `ttrek.json` by `^` of what was installed (`installer.c:318`);
  naming a package that is installed as it should be does not make it direct;
  an edit of `ttrek.json` by hand counts only for an install that has arguments
  (`edited` in `SpecIsMet`); the lock file's own "dependencies" are never read;
- `ttrek run` resets and cleans without the lock (`runSubCmd.c:39`), and a failing
  `git_reset` is ignored (`ttrek_git.c:206`): hazards `run` and `reset`.

## 5. Proofs

TLAPS checks these for every value of the constants that meets the modules' named
assumptions. Every safety invariant and every action property of the passing runs is
among them, and so are the two refinements.

| module | about | theorems | inductive invariant |
|---|---|---|---|
| `VenvTransactionProofs` | `VenvTransaction` | `TypeCorrect`, `LockExcludes`, `DirtyGuarded`, `StoreImplemented`, `LockMatches`, `Recovers`, `HolderCurrent` | `TypeInv`; `SafeInv`: what each process must have at the point it has reached; `MatchInv`: what the documents say of the tree |
| `UninstallProofs` | `Uninstall` | `TypeCorrect`, `ListExact`, `LockStaysClosed`, `DirectStays`, `SpecAlwaysLocked` | `IInv` |
| `VersionProofs` | `VersionRange`, `Semver`, `Candidates` | `TypeCorrect`, `RangeExact`, `NoVersionLost`, `EmptyUnsatisfiable`, `SemverIsAnOrder`, `DatabaseTypeCorrect`, `LockedAlwaysMarked`, `CaretAlwaysKeepsMajor`, `NewestAlwaysFirst` | `IInv` for ranges, `DatabaseInv` for the database |
| `InstallOrderProofs` | `PackageSort`, `ExecutionPlan`, `InstallOrder` | of the sort: `SortTypeCorrect`, `OutOnce`, `DependenciesFirst`, `AllResolvableComeOut`; of the plan: `TypeCorrect`, `PlanIsSafe`, `PlanIsJustified`; of both: `SortImplemented`, `DependenciesAreReady`, `ResolvableInOrder`, `NothingStaleInOrder`, `DependantsRebuiltInOrder`, `ChainsRebuiltInOrder`, `ReasonInOrder`, `ShownInOrder` | `SortIInv`; `IInv` and `OutcomeInv`; `Joint` |
| `InstallScriptProofs` | `UseFlags`, `InstallScript` | `TypeCorrect`, `ExactMeansUnchanged`, `OthersAreKept`, `ScriptsImplementUse`, `PassedOverIsCurrent`, `SourcesStay` | `UseInv`, `InstallInv` |
| `RequirementsProofs` | `Requirements` | `LockAlwaysFits`, `SpecAlwaysMet`, `OthersAlwaysStay` | `FitInv` |
| `PackageFilesProofs` | `PackageFiles` | `TypeCorrect`, `CommitIsAlwaysListed`, `NothingIsMissing`, `InstalledIsAlwaysWhole`, `BuiltAlwaysStays` | `IInv`, and `KInv` for the last |
| `Iterations` | | the lemmas on induction and iteration | |

### The arguments

*Environment.* `SafeInv` says of each process at its point: one that needs the lock
has it, hence one at a time; from `touch` to the amend `.dirty` is there; before and
after the work the tree is HEAD's. `.dirty` is created while the tree is HEAD's, no
step changes the tree before it, and the amend makes HEAD the tree before it is
removed; a process that dies in between leaves `.dirty`. The hazards `clean`, `run`
and `reset` break this, which is why the invariant carries `blame`: `DirtyGuarded`
and `LockMatches` hold with `run` among the commands, because a `run` that disturbs
somebody is blamed. `LockExcludes` needs `run` left out, since it never locks.
`Recovers` needs `run` or failing deletions left out: `run` starts its command even
when the reset before it could not delete a file, with nobody to blame.
`StoreImplemented` maps `Touch` to `Plan` to amend to one `Finish`, and everything
else to a stutter, an `Acquire` or a `Release`.

`LockMatches` needs to know what a holder is going to write. `MatchInv`: unless
something is to blame, HEAD, the lock file and the manifest list the same packages,
except between a holder's first document and its amend; what a holder has in memory
describes the tree it is working on, apart from the package whose script runs; and
before its work it is what is on disk. That last part is `HolderCurrent`, the
promise that `venv_stale` finds broken: the hazard `stale` is the only way.

*Uninstall.* Nothing is inserted without need (`LeastInv`); while no insertion was
seen, what has been visited is done with (`ClosureInv`, `OrphanInv`), so that a round
without one is a fixpoint whatever the iterator skipped before. `SpecInv` and
`RemovalInv` say what the documents on disk and in memory have lost at each point of
the removal; `SpecAlwaysLocked` follows from the order of the two writes.

*Ranges and versions.* `KindInv`: an exclusive end came from a strict part, so that a
loose choice needs a mixed requirement. `VersionRange` assumes of its versions a total
order; `SemverIsAnOrder` shows that `SemverCompare` is one on what `Pack` makes of any
published version, for any width of ints, with prereleases of any length: two
different prereleases have a first place where they differ, which is what decides. `DatabaseInv` says that the answer for a package has
exactly its candidates, that each version is a candidate once, and that the marked
candidate is the locked version whenever that is published; `NewestAlwaysFirst` and
`CaretAlwaysKeepsMajor` are about the sorted answer, for every order that sorting may
give to equal elements. A version below the end of a caret range has a smaller major
number, or the same one and a number that reads as negative; that is the exception
`CaretKeepsMajor` makes.

*Order and plan.* Of the sort: `indegree` is the number of dependencies still to come
out, and zero exactly in the queue or the result (`CountInv`); dependencies stand
before in the result (`OrderInv`). That what can come out does (`AllResolvableComeOut`)
takes an argument about data: `Resolvable` is the limit of an iteration, each of its
stages comes out because what it depends on is in an earlier one, and an empty queue
leaves nothing behind.

Of the plan: what requires a direct install waits or is marked, and is marked once the
scan has passed it (`BuiltInv`); a marked package has handed its mark on, so that
everything built on a direct install in any number of steps is marked when the order
of the solution is that of the lock file (`ChainInv`, with an induction along
`BuiltOn`); what is to be built again requires something that is built (`ReasonInv`);
what is shown is what is marked, and only that is installed, while rounds are left
(`ShownInv`).

`SortImplemented` carries what is proved of the sort to the command. `Joint` says that
the plan's input is the sorted solution (`SameInput`), that the plan's invariants hold
of it, and that what the loop has passed was built or is up to date (`Carried`). A
dependency that is before a package in the sorted solution either is marked by the
plan, and has been built when the loop gets there, or is up to date
(`DependenciesAreReady`).

*Use flags and scripts.* `UseInv`: a record has the flags a package knows, each with
one sign; from this `Exact` compares equal exactly when a build would record the same.
`BuiltInv`: a package's record and the lines it was built by come from the same recipe
and table. `PendingInv`: what waits to be recorded was built with the flags in force,
since no `use` comes in between. `PlannedInv`: until an install ends, a package is
exact, still to do, or pending. With these `Finish` is the one step of `UseFlags` that
an install implements. `SourcesStay` needs `FlattenLemma`: the lines of a script are
those of its commands, by induction over `FlattenSeq`.

*Requirements.* What is locked is asked for, in any version or in that of `ttrek.json`,
so a solution has all of it: what the lock file holds after an install is that
solution, which fits by definition of a solution. What remains is to follow
`ttrek.json` through `AddToSpec`, edits by hand and a death between the documents,
and to show that the set `Uninstall` removes leaves nothing that requires it. For
`OthersStay` the set must also be no greater than it has to: if a direct requirement
needed no named package, the locked packages without those it needs would be an
acceptable set as well, smaller than the least (`NeededLemma`). That argument is about
the set, and not about the documents, so it holds of an uninstall that dies.

*Files.* `HeadInv`: the commit is what its manifest lists. `TreeInv` and `JobInv`: while
a command works, the tree and the manifest in memory agree except for the package
at hand. Whatever fails leaves `.dirty`, so that the next command starts from the
commit, for which they agree as well; what a failure moves back does not matter to
these. The commit is made of a tree and a manifest that agree, and the lock file is
written before it: a death between the two is `blame`. For `BuiltAlwaysStays` it does
matter what a failure moves back: no manifest ever lists a file that no script writes
(`ForeignInv`), and moving back the packages replaced so far, one after the other,
leaves such files alone (`RescuedLemma`, by induction over their number).

*Induction.* The library states induction with an operator as parameter, which the
provers cannot instantiate. `Iterations` gets around it: finite sets of numbers are
well-founded under strict inclusion (`FS_StrictSubsetOrderingWellFounded`), hence
every set of numbers has a least one (`LeastNumber`), hence induction for a set of
numbers (`Induction`), hence functions defined by iteration exist (`Iteration`). A
recursive function of a module is then known to satisfy its own equation, and what
it computes is shown with a set comprehension in place of the predicate.

### Assumptions

TLC evaluates each in a run. They are of three kinds.

- *Markers are not data*: `NullAssumption`, `DataAssumption`, `NoneAssumption`,
  `NoPreAssumption` and `NamesAssumption` say that `None`, `Torn`, `Broken`, `NoPre` and
  the like are different from versions, documents, lines and sets. In the code they are
  null pointers, absent keys and parse errors.
- *Inputs have their types*: `CommandAssumption`, `BoundAssumption`, `GraphAssumption`,
  `RequirementAssumption`, `PublishedAssumption`, `PartAssumption`, `SolutionsAssumption`,
  `RelationsAssumption`, `LockAssumption`, `ForcedAssumption`, `DepthAssumption`,
  `LinesAssumption`, `KnownAssumption`, `RecipeAssumption`, `BuildAssumption`,
  `VersionAssumption`, `RequestAssumption`, `RegistryAssumption`, `PayloadAssumption`,
  `FilesAssumption`, `DeathAssumption`, `WidthAssumption`.
  `PkgAssumption` and `PackagesAssumption` say
  that there are finitely many packages.
- *What a component is handed*: `OrderAssumption` (versions are totally ordered; see
  `SemverIsAnOrder`) and `OrdersAssumption` (a solution may come in any order).

### Only model-checked

Liveness (`LockReleased` and `CommandEnds` of `VenvTransaction`, `Terminates` of
`Uninstall`), whose fairness is beyond the prover. The two violated properties are
false, and have no theorem; `HolderCurrent` is the part of the one that holds.

## 6. Not modelled

- Text: parsing of versions and JSON, paths, the wording and quoting of shell
  commands, base64, messages. They keep no state.
- Dependencies with an `if` (`PackageDatabase.h:130`, `:504`): the solver skips those
  whose use flags do not hold. In `Requirements` and in the plan a version's
  dependencies do not change with the use flags.
- Two sources of dependencies: the solver takes them from the registry's list of
  versions, the lock file's "requires" from the install spec (`installer.c:312`).
  `AddToLock` takes the two to be the same; were they not, `LockFits` would be about
  the solver's.
- The network (`registry.c`, `ttrek_telemetry.c`): a request that fails is a
  `NoScript`, `Abort` or an empty fetch.
- The SAT solver (`resolvo/`): third party; a solution is any set of packages
  that the inputs allow.
- Lifecycle scripts (`ttrek_scripts.c`): a shell command before or after an install;
  a failure is a `GiveUp` step. `scripts` changes another part of `ttrek.json`, and is
  the same unlocked rewrite as `use` in `VenvTransaction`.
- Bootstrap mode (`install -bootstrap`): it takes no lock and makes no commit, but has
  no documents either (`common.c:725`), backs up, deletes and writes nothing, and only
  prints the scripts of the plan.
- The global and user modes of the environment, except for the use flags of the
  user mode: they are other directories with the same protocol.
- `init`, `list`, `download`, `unpack`, help: one-shot commands.
