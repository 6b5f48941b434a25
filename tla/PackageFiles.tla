----------------------------- MODULE PackageFiles -----------------------------
(***************************************************************************)
(* The files of the packages in ttrek-venv/local, and the manifest that    *)
(* says which package they belong to.  A package has no list of files of   *)
(* its own: its install script writes where it likes, and the manifest     *)
(* gets the names that were not there before (fsmonitor.c).  Files are     *)
(* replaced by deleting what the manifest lists and running the script of  *)
(* the new version.                                                        *)
(*                                                                         *)
(* One command runs at a time here, and the steps of taking the lock, of   *)
(* the reset and of writing a document are one action each: the module     *)
(* VenvTransaction takes those apart.                                      *)
(***************************************************************************)
EXTENDS Naturals, FiniteSets, Sequences

CONSTANTS
    Packages,   \* package names
    Versions,   \* their versions
    Files,      \* names of files below ttrek-venv/local
    Hidden,     \* those that begin with a dot: glob does not list them
    Built,      \* the files the project's own local build writes
    Payloads,   \* what the scripts may write
    Project,    \* the writer of a file made by the local build
    None,
    MaxDeaths   \* bound: processes that die

Owner == (Packages \X Versions) \cup {Project}

ASSUME PackagesAssumption == IsFiniteSet(Packages)
ASSUME FilesAssumption == Hidden \subseteq Files /\ Built \subseteq Files
ASSUME NoneAssumption == /\ None \notin Owner
                         /\ \A S \in SUBSET Files : S # None
                         /\ None \notin Packages
                         /\ None \notin Versions
ASSUME PayloadAssumption ==
    Payloads \subseteq [Packages -> [Versions -> SUBSET Files]]
ASSUME DeathAssumption == MaxDeaths \in Nat

VARIABLES
    payload,    \* the files each package version's script writes
    local,      \* each file: who wrote it last, or None
    manifest,   \* ttrek-manifest.json: the files of each package, or None
    lock,       \* ttrek-lock.json: the version of each package, or None
    temp,       \* ttrek-venv/tmp: for each package, the copies of its files
    dirty,      \* is there a .dirty?
    head,       \* the committed files and manifest
    mem,        \* the manifest and lock file of the command, in memory
    cmd,        \* what the command does
    plan,       \* the packages it has still to do
    job,        \* the package at hand: name, version, files before, files to do
    sofar,      \* installs_from_lock_file_sofar
    pc,
    blame,      \* has a process died between the lock file and the commit?
    deaths

disk == <<local, manifest, lock, temp, dirty, head>>
ghosts == <<payload, blame, deaths>>
vars == <<payload, local, manifest, lock, temp, dirty, head, mem, cmd, plan,
          job, sofar, pc, blame, deaths>>

NoJob == [name |-> None, version |-> None, before |-> {}, todo |-> {}]
Empty == [f \in Files |-> None]
NoManifest == [p \in Packages |-> None]

Pcs == {"idle", "next", "delete", "script", "manifest", "amend",
        "undirty", "build"}

\* The files a manifest lists for a package.
Listed(m, p) == IF m[p] = None THEN {} ELSE m[p]

Present(tree) == {f \in Files : tree[f] # None}

\* What ttrek_MatchInDirectory finds with the pattern "*".
Found(tree) == Present(tree) \ Hidden

\* Mutant: the files that were there before are not taken out.
DiffListAll(tree, before) == Found(tree)

\* The names ttrek_DiffList leaves of the files after the script.
DiffList(tree, before) == Found(tree) \ before

\* All orders of a set: plans and command lines name a package once.
Orders(S) == {s \in [1..Cardinality(S) -> S] : \A i, j \in DOMAIN s :
                                                   s[i] = s[j] => i = j}

Init ==
    /\ payload \in Payloads
    /\ local = Empty
    /\ manifest = NoManifest
    /\ lock = [p \in Packages |-> None]
    /\ temp = [p \in Packages |-> Empty]
    /\ dirty = FALSE
    /\ head = [local |-> Empty, manifest |-> NoManifest]
    /\ mem = [manifest |-> manifest, lock |-> lock]
    /\ cmd = "install"
    /\ plan = <<>>
    /\ job = NoJob
    /\ sofar = <<>>
    /\ pc = "idle"
    /\ blame = FALSE
    /\ deaths = 0

(***************************************************************************)
(* The command around the packages                                         *)
(***************************************************************************)
\* The documents are read, an interrupted command's traces are removed, and
\* .dirty is made.  The plan is any choice of packages.
Start(c) ==
    /\ pc = "idle"
    /\ cmd' = c
    /\ \E S \in SUBSET Packages \ {{}} : plan' \in Orders(S)
    /\ mem' = [manifest |-> manifest, lock |-> lock]
    /\ IF dirty
       THEN /\ local' = head.local
            /\ manifest' = head.manifest
            /\ temp' = [p \in Packages |-> Empty]
       ELSE UNCHANGED <<local, manifest, temp>>
    /\ dirty' = TRUE
    /\ sofar' = <<>>
    /\ pc' = "next"
    /\ UNCHANGED <<lock, head, job, ghosts>>

\* Whatever fails ends the command and leaves .dirty behind.
Abandon == /\ pc' = "idle" /\ plan' = <<>> /\ job' = NoJob /\ sofar' = <<>>
           /\ mem' = [manifest |-> manifest, lock |-> lock]
           /\ UNCHANGED <<manifest, lock, temp, dirty, head, cmd, ghosts>>

WriteLock ==
    /\ pc = "next"
    /\ plan = <<>>
    /\ lock' = mem.lock
    /\ pc' = "manifest"
    /\ UNCHANGED <<local, manifest, temp, dirty, head, mem, cmd, plan, job,
                   sofar, ghosts>>

\* ttrek_DeleteTempFiles for the packages that were replaced.
WriteManifest ==
    /\ pc = "manifest"
    /\ manifest' = mem.manifest
    /\ temp' = [p \in Packages |->
                   IF \E i \in DOMAIN sofar : sofar[i] = p THEN Empty ELSE temp[p]]
    /\ pc' = "amend"
    /\ UNCHANGED <<local, lock, dirty, head, mem, cmd, plan, job, sofar, ghosts>>

Amend ==
    /\ pc = "amend"
    /\ head' = [local |-> local, manifest |-> manifest]
    /\ pc' = "undirty"
    /\ UNCHANGED <<local, manifest, lock, temp, dirty, mem, cmd, plan, job,
                   sofar, ghosts>>

\* An install without arguments builds the project itself afterwards.
Undirty ==
    /\ pc = "undirty"
    /\ dirty' = FALSE
    /\ sofar' = <<>>
    /\ pc' \in IF cmd = "install" THEN {"idle", "build"} ELSE {"idle"}
    /\ UNCHANGED <<local, manifest, lock, temp, head, mem, cmd, plan, job, ghosts>>

\* The local build, which may fail half way; nothing records what it wrote.
LocalBuild ==
    /\ pc = "build"
    /\ \E S \in SUBSET Built :
          local' = [f \in Files |-> IF f \in S THEN Project ELSE local[f]]
    /\ pc' = "idle"
    /\ UNCHANGED <<manifest, lock, temp, dirty, head, mem, cmd, plan, job,
                   sofar, ghosts>>

(***************************************************************************)
(* One package                                                             *)
(***************************************************************************)
Restored(p, S, tree) == [f \in Files |-> IF f \in S THEN temp[p][f] ELSE tree[f]]

\* ttrek_RestoreTempFiles moves the copies of the listed files back, in the
\* order of the list, up to the first that has no copy.
MovedBack(p, tree) ==
    LET list == Listed(mem.manifest, p)
        copies == list \cap Present(temp[p])
    IN  {Restored(p, S, tree) :
           S \in IF list = copies THEN {copies} ELSE SUBSET copies}

\* The loop over the packages replaced so far; it asks of the package that
\* failed whether it was in the lock file, whatever package it restores.
Rescued(failing, tree) ==
    LET after[i \in 0..Len(sofar)] ==
          IF i = 0 THEN {tree}
          ELSE UNION {MovedBack(sofar[i], t) : t \in after[i - 1]}
    IN  IF mem.lock[failing] = None THEN {tree} ELSE after[Len(sofar)]

InstallFails(p) == local' \in Rescued(p, local) /\ Abandon

\* ttrek_BackupPackageFiles copies what the manifest lists, if the package is
\* in the lock file; a file that is not there is an error.  The copies made
\* until then are of no use to anybody: the package is not among those replaced.
BackupPackageFiles ==
    /\ pc = "next" /\ cmd = "install" /\ plan # <<>>
    /\ LET p == Head(plan)
           old == IF mem.lock[p] = None THEN {} ELSE Listed(mem.manifest, p)
       IN  IF old \subseteq Present(local)
           THEN /\ temp' = IF mem.lock[p] = None \/ mem.manifest[p] = None
                           THEN temp
                           ELSE [temp EXCEPT ![p] = [f \in Files |->
                                    IF f \in old THEN local[f] ELSE None]]
                /\ job' = [NoJob EXCEPT !.name = p, !.todo = old]
                /\ plan' = Tail(plan)
                /\ pc' = "delete"
                /\ UNCHANGED <<local, manifest, lock, dirty, head, mem, cmd,
                               sofar, ghosts>>
           ELSE InstallFails(p)

\* An uninstalled package's files are deleted without a copy.
StartUninstall ==
    /\ pc = "next" /\ cmd = "uninstall" /\ plan # <<>>
    /\ job' = [NoJob EXCEPT !.name = Head(plan),
                            !.todo = Listed(mem.manifest, Head(plan))]
    /\ plan' = Tail(plan)
    /\ pc' = "delete"
    /\ UNCHANGED <<disk, mem, cmd, sofar, ghosts>>

\* Mutant: the files of the old version are not deleted.
DeleteFileKept(f) ==
    /\ pc = "delete"
    /\ f \in job.todo
    /\ job' = [job EXCEPT !.todo = @ \ {f}]
    /\ UNCHANGED <<disk, mem, cmd, plan, sofar, pc, ghosts>>

\* ttrek_DeletePackageFiles, one file of the list.
DeleteFile(f) ==
    /\ pc = "delete"
    /\ f \in job.todo
    /\ IF local[f] # None
       THEN /\ local' = [local EXCEPT ![f] = None]
            /\ job' = [job EXCEPT !.todo = @ \ {f}]
            /\ UNCHANGED <<manifest, lock, temp, dirty, head, mem, cmd, plan,
                           sofar, pc, ghosts>>
       ELSE IF cmd = "install" THEN InstallFails(job.name)
                               ELSE UNCHANGED local /\ Abandon

\* The package leaves the documents; one that is in neither is an error.
RemovePackage ==
    /\ pc = "delete" /\ cmd = "uninstall" /\ job.todo = {}
    /\ IF mem.lock[job.name] = None \/ mem.manifest[job.name] = None
       THEN UNCHANGED local /\ Abandon
       ELSE /\ mem' = [manifest |-> [mem.manifest EXCEPT ![job.name] = None],
                       lock |-> [mem.lock EXCEPT ![job.name] = None]]
            /\ job' = NoJob
            /\ pc' = "next"
            /\ UNCHANGED <<disk, cmd, plan, sofar, ghosts>>

\* The registry has no install script, or it cannot be generated.
NoScript ==
    /\ pc = "delete" /\ cmd = "install" /\ job.todo = {}
    /\ InstallFails(job.name)

\* ttrek_FSMonitor_AddWatch lists the files that are there.
AddWatch(v) ==
    /\ pc = "delete" /\ cmd = "install" /\ job.todo = {}
    /\ job' = [job EXCEPT !.version = v, !.before = Found(local),
                          !.todo = payload[job.name][v]]
    /\ pc' = "script"
    /\ UNCHANGED <<disk, mem, cmd, plan, sofar, ghosts>>

\* The script writes one file, over whatever has its name.
ScriptWrites(f) ==
    /\ pc = "script"
    /\ f \in job.todo
    /\ local' = [local EXCEPT ![f] = <<job.name, job.version>>]
    /\ job' = [job EXCEPT !.todo = @ \ {f}]
    /\ UNCHANGED <<manifest, lock, temp, dirty, head, mem, cmd, plan, sofar,
                   pc, ghosts>>

ScriptFails ==
    /\ pc = "script"
    /\ InstallFails(job.name)

\* The script has ended: the difference goes to the manifest in memory, the
\* version to the lock file in memory.
ReadChanges(complete) ==
    /\ pc = "script"
    /\ complete
    /\ mem' = [manifest |-> [mem.manifest EXCEPT
                                ![job.name] = DiffList(local, job.before)],
               lock |-> [mem.lock EXCEPT ![job.name] = job.version]]
    /\ sofar' = IF mem.lock[job.name] = None THEN sofar
                ELSE Append(sofar, job.name)
    /\ job' = NoJob
    /\ pc' = "next"
    /\ UNCHANGED <<disk, cmd, plan, ghosts>>

\* Mutant: a script that failed half way passes for one that succeeded.
ScriptDoneAnyway == ReadChanges(TRUE)

ScriptDone == ReadChanges(job.todo = {})

\* The process dies; what was in memory is gone.
Crash ==
    /\ pc # "idle"
    /\ deaths < MaxDeaths
    /\ deaths' = deaths + 1
    /\ blame' = (blame \/ pc \in {"manifest", "amend"})
    /\ pc' = "idle" /\ plan' = <<>> /\ job' = NoJob /\ sofar' = <<>>
    /\ mem' = [manifest |-> manifest, lock |-> lock]
    /\ UNCHANGED <<disk, payload, cmd>>

Next ==
    \/ \E c \in {"install", "uninstall"} : Start(c)
    \/ BackupPackageFiles \/ StartUninstall
    \/ \E f \in Files : DeleteFile(f)
    \/ RemovePackage \/ NoScript
    \/ \E v \in Versions : AddWatch(v)
    \/ \E f \in Files : ScriptWrites(f)
    \/ ScriptFails \/ ScriptDone
    \/ WriteLock \/ WriteManifest \/ Amend \/ Undirty \/ LocalBuild
    \/ Crash

Spec == Init /\ [][Next]_vars

(***************************************************************************)
(* Properties                                                              *)
(***************************************************************************)
Manifests == [Packages -> {None} \cup SUBSET Files]
Locks == [Packages -> Versions \cup {None}]
Trees == [Files -> Owner \cup {None}]

TypeOK ==
    /\ payload \in Payloads
    /\ local \in Trees
    /\ manifest \in Manifests
    /\ lock \in Locks
    /\ temp \in [Packages -> Trees]
    /\ dirty \in BOOLEAN
    /\ head \in [local : Trees, manifest : Manifests]
    /\ mem \in [manifest : Manifests, lock : Locks]
    /\ cmd \in {"install", "uninstall"}
    /\ plan \in Seq(Packages)
    /\ job \in [name : Packages \cup {None}, version : Versions \cup {None},
                before : SUBSET Files, todo : SUBSET Files]
    /\ sofar \in Seq(Packages)
    /\ pc \in Pcs
    /\ blame \in BOOLEAN
    /\ deaths \in Nat

\* No file belongs to two packages.
Disjoint(m) == \A p, q \in Packages : p # q => Listed(m, p) \cap Listed(m, q) = {}

AllListed(m) == UNION {Listed(m, p) : p \in Packages}

\* What is committed is what the manifest says: a file that glob sees and that
\* the local build does not write is there if and only if exactly one package
\* lists it, and everything listed is there.  Uninstalling all packages
\* therefore leaves no such file behind.  Only a death between the lock file
\* and the commit (ttrek_resolvo.cc:800) breaks it, when a package is then
\* installed over the files of one the lock file does not know.
CommitIsListed ==
    ~blame =>
        /\ Disjoint(head.manifest)
        /\ AllListed(head.manifest) \subseteq Found(head.local)
        /\ Found(head.local) \ Built \subseteq AllListed(head.manifest)

\* No command fails for want of a file: between two packages, all that is
\* listed for the ones to come is there, so that ttrek_BackupPackageFiles and
\* ttrek_DeletePackageFiles find it (installer.c:423, :459).
NothingMissing ==
    ~blame /\ pc = "next" => AllListed(mem.manifest) \subseteq Present(local)

\* Is f written by p alone, in whatever version?
Private(f, p) ==
    /\ f \notin Built
    /\ \A q \in Packages \ {p} : \A v \in Versions : f \notin payload[q][v]

\* Between commands, a package of the lock file has the files of its version,
\* with that version's contents, whatever updates, failures, deaths and resets
\* came before.  Files that another package or the local build writes as well
\* are excluded: they go with whichever of the two is replaced first.
InstalledIsWhole ==
    ~blame /\ ~dirty /\ pc = "idle" =>
        \A p \in Packages : lock[p] # None =>
            \A f \in payload[p][lock[p]] :
                Private(f, p) => local[f] = <<p, lock[p]>>

\* What the local build made stays, if no package writes a file of that name,
\* until a command that follows an interrupted one resets the environment:
\* only that one takes it away (installSubCmd.c:232).
BuiltStays ==
    [][ \A f \in Built :
           /\ local[f] = Project
           /\ \A p \in Packages : \A v \in Versions : f \notin payload[p][v]
           /\ local'[f] # Project
           => dirty /\ pc = "idle"
      ]_vars
===============================================================================
