-------------------------- MODULE VenvTransaction --------------------------
(***************************************************************************)
(* The transaction ttrek runs around every change of a virtual             *)
(* environment: read the JSON documents, take the flock, bring the git     *)
(* work tree back to HEAD when .dirty was left behind, create .dirty, run  *)
(* the install scripts (or delete package files), rewrite the three JSON   *)
(* documents, amend HEAD, remove .dirty, unlock.  Several ttrek processes  *)
(* interleave; any of them may die between two steps, leaving its files,   *)
(* and sometimes its running install script, behind.                       *)
(*                                                                         *)
(* `ttrek install' stands for install and update, whose control is the     *)
(* same.  `ttrek use' stands for the commands that rewrite ttrek.json      *)
(* without the lock (use flags, scripts).                                  *)
(***************************************************************************)
EXTENDS Naturals

CONSTANTS
    Procs,       \* ttrek processes
    Pkg,         \* package names
    Ver,         \* package versions
    Flag,        \* use-flag entries of ttrek.json
    None,        \* a package that is not there
    Broken,      \* some of a package's files, or files of two versions
    Torn,        \* a document that was truncated and not yet written
    NoProc,      \* nobody holds the flock
    Commands,    \* the subcommands users start
    GitFaults,   \* may git_reset fail?
    MaxStarts,   \* bound: commands started in a behaviour
    MaxCrashes   \* bound: processes killed in a behaviour

ASSUME NullAssumption ==
    /\ None \notin Ver
    /\ Broken \notin Ver \cup {None}
    /\ NoProc \notin Procs
ASSUME CommandAssumption == Commands \subseteq {"install", "uninstall", "run", "use"}
ASSUME BoundAssumption ==
    /\ MaxStarts \in Nat
    /\ MaxCrashes \in Nat
    /\ GitFaults \in BOOLEAN

VARIABLES
    file,     \* ttrek.json, ttrek-lock.json, ttrek-manifest.json on disk
    tree,     \* the files of each package under ttrek-venv/local
    dirty,    \* does ttrek-venv/.dirty exist?
    head,     \* what the one git commit of ttrek-venv records
    git,      \* is there a repository, and has HEAD a commit?
    flock,    \* the process holding the lock on ttrek-venv/.lock
    pc, cmd,  \* each process: control point and subcommand
    loc,      \* each process: its in-memory documents and work list
    blame,    \* which of the known hazards have happened so far
    starts, crashes

disk == <<file, tree, dirty, head, git>>
bounds == <<starts, crashes>>
vars == <<file, tree, dirty, head, git, flock, pc, cmd, loc, blame, starts, crashes>>

(***************************************************************************)
(* Data                                                                    *)
(***************************************************************************)
Entries == Pkg \cup Flag
Content == Ver \cup {None, Broken}
Empty == [q \in Pkg |-> None]

\* A flag is no package, and a truncated document is none that can be read.
ASSUME DataAssumption ==
    /\ Flag \cap Pkg = {}
    /\ Torn \notin [Pkg -> Content]

Document == [spec : {Torn} \cup SUBSET Entries,
             lock : {Torn} \cup [Pkg -> Ver \cup {None}],
             man  : {Torn} \cup [Pkg -> Content]]

NextFile == [spec |-> "lock", lock |-> "man", man |-> "man"]

Local == [mem : Document, at : {"spec", "lock", "man"}, todo : SUBSET Pkg,
          pkg : Pkg \cup {None}, clear : BOOLEAN, kept : [Pkg -> Content]]

\* A process that runs no command.
Fresh == [mem   |-> [spec |-> {}, lock |-> Empty, man |-> Empty],
          at    |-> "spec",      \* the document to read or write next
          todo  |-> {},          \* packages of the plan still to do
          pkg   |-> None,        \* the package being installed
          clear |-> TRUE,        \* none of its files existed before its script
          kept  |-> Empty]       \* backups made under ttrek-venv/tmp

CleanPcs == {"cleaning", "halfcleaning"}
WorkPcs == {"plan", "next", "script", "child", "restore", "write", "fill", "amend", "undirty"}
\* The control points at which a process is changing the environment.
ChangePcs == {"initing", "touch", "orphan"} \cup CleanPcs \cup WorkPcs
AllPcs == {"idle", "read", "locking", "ensure", "running", "edit", "editfill", "unlock"}
             \cup ChangePcs

Locking(c) == c \in {"install", "uninstall"}
Installed(doc, q) == IF doc = Torn THEN FALSE ELSE doc[q] # None
Listed(doc, q) == IF doc = Torn THEN None ELSE doc[q]

\* Deleting the files a manifest entry lists: exact when the entry describes
\* the tree; otherwise it may stop at a missing file and may leave others.
Deletions(listed, actual) ==
    IF listed = None THEN {[ok |-> TRUE, left |-> actual]}
    ELSE IF listed = actual /\ actual # Broken THEN {[ok |-> TRUE, left |-> None]}
    ELSE [ok : BOOLEAN, left : {actual, Broken}]

(***************************************************************************)
(* Hazards that have happened, so that the properties below can say        *)
(* exactly which ones they survive.                                        *)
(***************************************************************************)
\* Died after ttrek.json was rewritten and before HEAD was amended.
BlameCommit(p) ==
    IF \/ pc[p] \in {"write", "amend"}
       \/ pc[p] = "fill" /\ loc[p].at # "spec"
    THEN {"commit"} ELSE {}
\* Died in the clean, after .dirty itself was cleaned away.
BlameClean(p) == IF pc[p] \in CleanPcs /\ ~dirty THEN {"clean"} ELSE {}
\* `ttrek run' resets the work tree while a lock holder works in it.
BlameRun(p) == IF cmd[p] = "run" /\ flock # NoProc THEN {"run"} ELSE {}

(***************************************************************************)
(* Steps                                                                   *)
(***************************************************************************)
Init ==
    /\ file = [spec |-> {}, lock |-> Empty, man |-> Empty]
    /\ tree = Empty
    /\ dirty = FALSE
    /\ head = [tree |-> Empty, man |-> Empty, dirty |-> FALSE]
    /\ git = "none"
    /\ flock = NoProc
    /\ pc = [p \in Procs |-> "idle"]
    /\ cmd = [p \in Procs |-> "none"]
    /\ loc = [p \in Procs |-> Fresh]
    /\ blame = {}
    /\ starts = 0
    /\ crashes = 0

Goto(p, l) == pc' = [pc EXCEPT ![p] = l]
Become(p, l) == loc' = [loc EXCEPT ![p] = l]

\* The process is gone: the kernel drops its lock with its last descriptor.
End(p) ==
    /\ Goto(p, "idle")
    /\ cmd' = [cmd EXCEPT ![p] = "none"]
    /\ Become(p, Fresh)
    /\ flock' = IF flock = p THEN NoProc ELSE flock

\* ttrek_CreateState reads the three documents before it takes the lock.
Start(p, c) ==
    /\ pc[p] = "idle"
    /\ starts < MaxStarts
    /\ starts' = starts + 1
    /\ Goto(p, "read")
    /\ cmd' = [cmd EXCEPT ![p] = c]
    /\ Become(p, [loc[p] EXCEPT !.mem = [@ EXCEPT !.spec = file.spec], !.at = "lock"])
    /\ UNCHANGED <<disk, flock, blame, crashes>>

AfterRead(c) == IF Locking(c) THEN "locking" ELSE IF c = "run" THEN "ensure" ELSE "edit"

ReadFile(p) ==
    /\ pc[p] = "read"
    /\ LET f == loc[p].at IN
        /\ Become(p, [loc[p] EXCEPT !.mem = [@ EXCEPT ![f] = file[f]], !.at = NextFile[f]])
        /\ IF f = "man" THEN Goto(p, AfterRead(cmd[p])) ELSE UNCHANGED pc
    /\ UNCHANGED <<disk, flock, cmd, blame, bounds>>

\* Mutant: a shared lock.
LockFileShared(p) ==
    /\ pc[p] = "locking"
    /\ flock' = p
    /\ Goto(p, "ensure")
    /\ blame' = blame \cup (IF loc[p].mem # file THEN {"stale"} ELSE {})
                      \cup (IF \E q \in Procs : pc[q] \in CleanPcs THEN {"run"} ELSE {})
    /\ UNCHANGED <<disk, cmd, loc, bounds>>

\* flock(LOCK_EX | LOCK_NB): a busy lock ends the command.
LockFile(p) ==
    /\ pc[p] = "locking"
    /\ flock = NoProc
    /\ flock' = p
    /\ Goto(p, "ensure")
    /\ blame' = blame \cup (IF loc[p].mem # file THEN {"stale"} ELSE {})
                      \cup (IF \E q \in Procs : pc[q] \in CleanPcs THEN {"run"} ELSE {})
    /\ UNCHANGED <<disk, cmd, loc, bounds>>

LockBusy(p) ==
    /\ pc[p] = "locking"
    /\ flock # NoProc
    /\ End(p)
    /\ UNCHANGED <<disk, blame, bounds>>

AfterEnsure(c) == IF c = "run" THEN "running" ELSE "touch"
Failed(c) == IF c = "run" THEN "running" ELSE "unlock"

\* ttrek_GitInit: the repository directory first, its first commit last.
GitInit(p) ==
    /\ pc[p] = "ensure"
    /\ git = "none"
    /\ git' = "unborn"
    /\ Goto(p, "initing")
    /\ UNCHANGED <<file, tree, dirty, head, flock, cmd, loc, blame, bounds>>

GitInitCommit(p) ==
    /\ pc[p] = "initing"
    /\ git' = "born"
    /\ head' = [tree |-> Empty, man |-> Empty, dirty |-> FALSE]
    /\ Goto(p, AfterEnsure(cmd[p]))
    /\ UNCHANGED <<file, tree, dirty, flock, cmd, loc, blame, bounds>>

NoResetNeeded(p) ==
    /\ pc[p] = "ensure"
    /\ git # "none"
    /\ ~dirty
    /\ Goto(p, AfterEnsure(cmd[p]))
    /\ UNCHANGED <<disk, flock, cmd, loc, blame, bounds>>

\* Without a commit HEAD does not resolve, so there is nothing to reset to.
ResetFails(p) ==
    /\ pc[p] = "ensure"
    /\ git = "unborn"
    /\ dirty
    /\ Goto(p, Failed(cmd[p]))
    /\ UNCHANGED <<disk, flock, cmd, loc, blame, bounds>>

\* ttrek_GitResetHard up to the first file of the clean, which is .dirty
\* unless HEAD records it.  Tracked files are back; newer ones are still there.
GitReset(p) ==
    /\ pc[p] = "ensure"
    /\ git = "born"
    /\ dirty
    /\ tree' = [q \in Pkg |-> IF tree[q] = head.tree[q] THEN tree[q] ELSE Broken]
    /\ file' = [file EXCEPT !.man = IF head.dirty THEN head.man ELSE file.man]
    /\ dirty' = head.dirty
    /\ Goto(p, "cleaning")
    /\ blame' = blame \cup BlameRun(p)
    /\ UNCHANGED <<head, git, flock, cmd, loc, bounds>>

\* git_reset fails: the error is printed and the clean goes on.
GitResetFault(p) ==
    /\ GitFaults
    /\ pc[p] = "ensure"
    /\ git = "born"
    /\ dirty
    /\ dirty' = head.dirty
    /\ Goto(p, "halfcleaning")
    /\ blame' = blame \cup BlameRun(p) \cup {"reset"}
    /\ UNCHANGED <<file, tree, head, git, flock, cmd, loc, bounds>>

\* Mutant: untracked files are left in place.
GitCleanKeeps(p) ==
    /\ pc[p] \in CleanPcs
    /\ file' = [file EXCEPT !.man = head.man]
    /\ Goto(p, AfterEnsure(cmd[p]))
    /\ blame' = blame \cup BlameRun(p)
    /\ UNCHANGED <<tree, dirty, head, git, flock, cmd, loc, bounds>>

\* ttrek_GitClean deletes what HEAD does not record.
GitClean(p) ==
    /\ pc[p] \in CleanPcs
    /\ IF pc[p] = "cleaning"
       THEN /\ tree' = head.tree
            /\ file' = [file EXCEPT !.man = head.man]
       ELSE /\ tree' = [q \in Pkg |->
                          IF tree[q] = head.tree[q] \/ head.tree[q] = None
                          THEN head.tree[q] ELSE Broken]
            /\ file' = [file EXCEPT !.man = IF head.dirty THEN file.man ELSE head.man]
    /\ Goto(p, AfterEnsure(cmd[p]))
    /\ blame' = blame \cup BlameRun(p)
    /\ UNCHANGED <<dirty, head, git, flock, cmd, loc, bounds>>

\* A file that cannot be deleted ends the clean, and the command; .dirty,
\* the first file of the clean, may be gone already.
GitCleanFails(p) ==
    /\ GitFaults
    /\ pc[p] \in CleanPcs
    /\ Goto(p, Failed(cmd[p]))
    /\ blame' = blame \cup BlameClean(p)
    /\ UNCHANGED <<disk, flock, cmd, loc, bounds>>

\* Mutant: .dirty is not made.
TouchNothing(p) ==
    /\ pc[p] = "touch"
    /\ Goto(p, "plan")
    /\ UNCHANGED <<disk, flock, cmd, loc, blame, bounds>>

Touch(p) ==
    /\ pc[p] = "touch"
    /\ dirty' = TRUE
    /\ Goto(p, "plan")
    /\ UNCHANGED <<file, tree, head, git, flock, cmd, loc, blame, bounds>>

\* The packages to install (the execution plan) or to uninstall.
Plan(p) ==
    /\ pc[p] = "plan"
    /\ \E S \in SUBSET Pkg \ {{}} :
        Become(p, [loc[p] EXCEPT !.todo = S, !.at = "spec"])
    /\ Goto(p, "next")
    /\ UNCHANGED <<disk, flock, cmd, blame, bounds>>

\* Unsatisfiable, nothing to install, or the user answered no.
Abort(p) ==
    /\ pc[p] = "plan"
    /\ Goto(p, "undirty")
    /\ UNCHANGED <<disk, flock, cmd, loc, blame, bounds>>

\* An error return before anything was changed: the lock goes, .dirty stays.
GiveUp(p) ==
    /\ pc[p] \in {"ensure", "initing", "touch", "plan"}
    /\ Goto(p, Failed(cmd[p]))
    /\ UNCHANGED <<disk, flock, cmd, loc, blame, bounds>>

\* What is copied to tmp/ before a package is replaced: nothing the first time.
Backup(known, actual) == IF known THEN actual ELSE None

\* ttrek_InstallPackage, first half: a package the lock file knows is backed
\* up under tmp/ and its listed files are deleted.
RemoveOld(p) ==
    /\ pc[p] = "next"
    /\ cmd[p] = "install"
    /\ \E q \in loc[p].todo :
        LET known  == Installed(loc[p].mem.lock, q)
            listed == IF known THEN Listed(loc[p].mem.man, q) ELSE None
        IN \E del \in Deletions(listed, tree[q]) :
            /\ tree' = [tree EXCEPT ![q] = del.left]
            /\ Become(p, [loc[p] EXCEPT
                   !.todo = @ \ {q},
                   !.pkg = q,
                   !.clear = (del.left = None),
                   !.kept = [@ EXCEPT ![q] = Backup(known, tree[q])]])
            /\ Goto(p, IF del.ok THEN "script" ELSE "restore")
    /\ UNCHANGED <<file, dirty, head, git, flock, cmd, blame, bounds>>

\* The registry does not answer, or no script can be generated.
NoScript(p) ==
    /\ pc[p] = "script"
    /\ Goto(p, "restore")
    /\ UNCHANGED <<disk, flock, cmd, loc, blame, bounds>>

\* The install script is a child process; it inherits the lock's descriptor.
ScriptStart(p) ==
    /\ pc[p] = "script"
    /\ tree' = [tree EXCEPT ![loc[p].pkg] = Broken]
    /\ Goto(p, "child")
    /\ UNCHANGED <<file, dirty, head, git, flock, cmd, loc, blame, bounds>>

\* Mutant: the lock file is told what was built, not what was asked for.
RecordBuilt(m, q, v, got, asked) ==
    [spec |-> IF asked /\ m.spec # Torn THEN m.spec \cup {q} ELSE m.spec,
     lock |-> IF m.lock # Torn THEN [m.lock EXCEPT ![q] = got] ELSE Torn,
     man  |-> IF m.man # Torn THEN [m.man EXCEPT ![q] = got] ELSE Torn]

\* The three in-memory documents get the installed package; adding an item to
\* a document that did not parse does nothing.
\* `asked': the package has a direct version requirement.
Record(m, q, v, got, asked) ==
    [spec |-> IF asked /\ m.spec # Torn THEN m.spec \cup {q} ELSE m.spec,
     lock |-> IF m.lock # Torn THEN [m.lock EXCEPT ![q] = v] ELSE Torn,
     man  |-> IF m.man # Torn THEN [m.man EXCEPT ![q] = got] ELSE Torn]

\* The script succeeds.  The manifest gets the names that are new since the
\* script started, so files that were already there are not recorded.
ScriptDone(p) ==
    /\ pc[p] = "child"
    /\ \E v \in Ver, asked \in BOOLEAN :
        LET q == loc[p].pkg
            got == IF loc[p].clear THEN v ELSE Broken
        IN
        /\ tree' = [tree EXCEPT ![q] = got]
        /\ Become(p, [loc[p] EXCEPT !.mem = Record(loc[p].mem, q, v, got, asked)])
    /\ Goto(p, "next")
    /\ UNCHANGED <<file, dirty, head, git, flock, cmd, blame, bounds>>

\* Mutant: a failed script is tried again.
ScriptFailsRetried(p) ==
    /\ pc[p] = "child"
    /\ Goto(p, "script")
    /\ UNCHANGED <<disk, flock, cmd, loc, blame, bounds>>

ScriptFails(p) ==
    /\ pc[p] = "child"
    /\ Goto(p, "restore")
    /\ UNCHANGED <<disk, flock, cmd, loc, blame, bounds>>

\* Moving a package's backup back.  The file names come from the new manifest
\* entry, so the move may stop half way.
MovedBack(kept, q, whole) == IF q \in whole THEN kept[q] ELSE Broken

\* The packages completed before the failing one are moved back from tmp/,
\* when the failing one is itself in the lock file.
Restore(p) ==
    /\ pc[p] = "restore"
    /\ \E whole \in SUBSET Pkg :
        tree' = [q \in Pkg |->
            IF /\ Installed(loc[p].mem.lock, loc[p].pkg)
               /\ q # loc[p].pkg
               /\ loc[p].kept[q] # None
            THEN MovedBack(loc[p].kept, q, whole)
            ELSE tree[q]]
    /\ Goto(p, "unlock")
    /\ UNCHANGED <<file, dirty, head, git, flock, cmd, loc, blame, bounds>>

\* The package leaves the three in-memory documents.
Forget(m, q) == [spec |-> m.spec \ {q},
                 lock |-> [m.lock EXCEPT ![q] = None],
                 man  |-> [m.man EXCEPT ![q] = None]]

\* ttrek_UninstallPackage: files first, then the three in-memory documents;
\* a package one of them does not know is an error after its files are gone.
UninstallOne(p) ==
    /\ pc[p] = "next"
    /\ cmd[p] = "uninstall"
    /\ \E q \in loc[p].todo :
        LET m == loc[p].mem
            recorded == /\ Installed(m.lock, q)
                        /\ m.spec # Torn
                        /\ m.man # Torn
                        /\ Listed(m.man, q) # None
        IN \E del \in Deletions(Listed(m.man, q), tree[q]) :
            /\ tree' = [tree EXCEPT ![q] = del.left]
            /\ IF del.ok /\ recorded
               THEN /\ Become(p, [loc[p] EXCEPT
                           !.todo = @ \ {q},
                           !.mem = Forget(m, q)])
                    /\ UNCHANGED pc
               ELSE /\ Goto(p, "unlock")
                    /\ UNCHANGED loc
    /\ UNCHANGED <<file, dirty, head, git, flock, cmd, blame, bounds>>

\* The plan is done: the spec, lock and manifest files are rewritten in turn,
\* each by open(..., "w") and then a write.
MayWrite(p) == pc[p] = "write" \/ (pc[p] = "next" /\ loc[p].todo = {})

Truncate(p) ==
    /\ MayWrite(p)
    /\ loc[p].mem[loc[p].at] # Torn
    /\ file' = [file EXCEPT ![loc[p].at] = Torn]
    /\ Goto(p, "fill")
    /\ UNCHANGED <<tree, dirty, head, git, flock, cmd, loc, blame, bounds>>

\* Mutant: HEAD is amended after each document.
FillAndCommit(p) ==
    /\ pc[p] = "fill"
    /\ LET f == loc[p].at IN
        /\ file' = [file EXCEPT ![f] = loc[p].mem[f]]
        /\ head' = [tree |-> tree, man |-> file'.man, dirty |-> dirty]
        /\ Become(p, [loc[p] EXCEPT !.at = NextFile[f]])
        /\ Goto(p, IF f = "man" THEN "undirty" ELSE "write")
    /\ UNCHANGED <<tree, dirty, git, flock, cmd, blame, bounds>>

Fill(p) ==
    /\ pc[p] = "fill"
    /\ LET f == loc[p].at IN
        /\ file' = [file EXCEPT ![f] = loc[p].mem[f]]
        /\ Become(p, [loc[p] EXCEPT !.at = NextFile[f]])
        /\ Goto(p, IF f = "man" THEN "amend" ELSE "write")
    /\ UNCHANGED <<tree, dirty, head, git, flock, cmd, blame, bounds>>

\* A document that did not parse is a null root: writing it back crashes.
WriteNull(p) ==
    /\ MayWrite(p)
    /\ loc[p].mem[loc[p].at] = Torn
    /\ End(p)
    /\ blame' = blame \cup BlameCommit(p)
    /\ UNCHANGED <<disk, bounds>>

\* ttrek_GitAmend adds every file that is not ignored, .dirty included.
GitAmend(p) ==
    /\ pc[p] = "amend"
    /\ git = "born"
    /\ head' = [tree |-> tree, man |-> file.man, dirty |-> dirty]
    /\ Goto(p, "undirty")
    /\ UNCHANGED <<file, tree, dirty, git, flock, cmd, loc, blame, bounds>>

\* Mutant: a failed amend is ignored and .dirty is removed.
AmendFailsIgnored(p) ==
    /\ pc[p] = "amend"
    /\ git # "born" \/ GitFaults
    /\ Goto(p, "undirty")
    /\ blame' = blame \cup BlameCommit(p)
    /\ UNCHANGED <<disk, flock, cmd, loc, bounds>>

\* There is no commit to amend, or libgit2 reports an error.
AmendFails(p) ==
    /\ pc[p] = "amend"
    /\ git # "born" \/ GitFaults
    /\ Goto(p, "unlock")
    /\ blame' = blame \cup BlameCommit(p)
    /\ UNCHANGED <<disk, flock, cmd, loc, bounds>>

\* Removing .dirty; if it is already gone the command fails at this point.
Undirty(p) ==
    /\ pc[p] = "undirty"
    /\ dirty' = FALSE
    /\ Goto(p, "unlock")
    /\ UNCHANGED <<file, tree, head, git, flock, cmd, loc, blame, bounds>>

\* Local build and postInstall hook are over, or the command failed.
Unlock(p) ==
    /\ pc[p] = "unlock"
    /\ End(p)
    /\ UNCHANGED <<disk, blame, bounds>>

\* `ttrek run': the user's command runs in the environment, then ttrek exits.
RunDone(p) ==
    /\ pc[p] = "running"
    /\ End(p)
    /\ UNCHANGED <<disk, blame, bounds>>

\* `ttrek use': change the entries read earlier and rewrite ttrek.json,
\* without the lock.
EditSpec(p) ==
    /\ pc[p] = "edit"
    /\ loc[p].mem.spec # Torn
    /\ \E g \in Flag :
        \E new \in {loc[p].mem.spec \cup {g}, loc[p].mem.spec \ {g}} :
            Become(p, [loc[p] EXCEPT !.mem = [@ EXCEPT !.spec = new]])
    /\ file' = [file EXCEPT !.spec = Torn]
    /\ Goto(p, "editfill")
    /\ blame' = blame \cup (IF loc[p].mem.spec # file.spec \/ flock # NoProc
                            THEN {"stale"} ELSE {})
    /\ UNCHANGED <<tree, dirty, head, git, flock, cmd, bounds>>

EditSpecFill(p) ==
    /\ pc[p] = "editfill"
    /\ file' = [file EXCEPT !.spec = loc[p].mem.spec]
    /\ End(p)
    /\ blame' = blame \cup (IF file.spec # Torn \/ flock # NoProc THEN {"stale"} ELSE {})
    /\ UNCHANGED <<tree, dirty, head, git, bounds>>

EditNull(p) ==
    /\ pc[p] = "edit"
    /\ loc[p].mem.spec = Torn
    /\ End(p)
    /\ UNCHANGED <<disk, blame, bounds>>

(***************************************************************************)
(* Deaths                                                                  *)
(***************************************************************************)
Crash(p) ==
    /\ pc[p] \notin {"idle", "orphan"}
    /\ crashes < MaxCrashes
    /\ crashes' = crashes + 1
    /\ blame' = blame \cup BlameCommit(p) \cup BlameClean(p)
    /\ End(p)
    /\ UNCHANGED <<disk, starts>>

\* Mutant: the script does not inherit the lock's descriptor.
CrashClosingLock(p) ==
    /\ pc[p] = "child"
    /\ crashes < MaxCrashes
    /\ crashes' = crashes + 1
    /\ Goto(p, "orphan")
    /\ flock' = NoProc
    /\ UNCHANGED <<disk, cmd, loc, blame, starts>>

\* Only ttrek is killed: its script goes on, and so does the lock.
CrashLeavingScript(p) ==
    /\ pc[p] = "child"
    /\ crashes < MaxCrashes
    /\ crashes' = crashes + 1
    /\ Goto(p, "orphan")
    /\ UNCHANGED <<disk, flock, cmd, loc, blame, starts>>

OrphanDone(p) ==
    /\ pc[p] = "orphan"
    /\ \E c \in Ver \cup {Broken} : tree' = [tree EXCEPT ![loc[p].pkg] = c]
    /\ End(p)
    /\ UNCHANGED <<file, dirty, head, git, blame, bounds>>

Step(p) ==
    \/ ReadFile(p) \/ LockFile(p) \/ LockBusy(p)
    \/ GitInit(p) \/ GitInitCommit(p) \/ NoResetNeeded(p) \/ ResetFails(p)
    \/ GitReset(p) \/ GitResetFault(p) \/ GitClean(p) \/ GitCleanFails(p)
    \/ Touch(p) \/ Plan(p) \/ Abort(p) \/ GiveUp(p)
    \/ RemoveOld(p) \/ NoScript(p) \/ ScriptStart(p) \/ ScriptDone(p) \/ ScriptFails(p)
    \/ Restore(p) \/ UninstallOne(p)
    \/ Truncate(p) \/ Fill(p) \/ WriteNull(p)
    \/ GitAmend(p) \/ AmendFails(p) \/ Undirty(p) \/ Unlock(p)
    \/ RunDone(p) \/ EditSpec(p) \/ EditSpecFill(p) \/ EditNull(p)
    \/ OrphanDone(p)

Die(p) == Crash(p) \/ CrashLeavingScript(p)

Next == \E p \in Procs :
    \/ \E c \in Commands : Start(p, c)
    \/ Step(p)
    \/ Die(p)

Spec == Init /\ [][Next]_vars

\* The operating system schedules ttrek and its scripts, and scripts end.
FairSpec == Spec /\ \A p \in Procs : WF_vars(Step(p))

(***************************************************************************)
(* Properties                                                              *)
(***************************************************************************)
\* Every variable has its type; in particular only the scripts and the lock
\* file's versions differ from what a document may hold.
TypeOK ==
    /\ file \in Document
    /\ tree \in [Pkg -> Content]
    /\ dirty \in BOOLEAN
    /\ head \in [tree : [Pkg -> Content], man : {Torn} \cup [Pkg -> Content], dirty : BOOLEAN]
    /\ git \in {"none", "unborn", "born"}
    /\ flock \in Procs \cup {NoProc}
    /\ pc \in [Procs -> AllPcs]
    /\ cmd \in [Procs -> Commands \cup {"none"}]
    /\ loc \in [Procs -> Local]
    /\ blame \subseteq {"commit", "clean", "run", "stale", "reset"}
    /\ starts \in Nat
    /\ crashes \in Nat

\* The lock is exclusive (ttrek_LockFile): between a command's flock and its
\* unlock no other process is at a point that changes the environment.
Exclusive ==
    \A p, q \in Procs : pc[p] \in ChangePcs /\ pc[q] \in ChangePcs => p = q

\* .dirty guards the work tree (ttrek_EnsureGitReady): whenever nobody is in
\* the middle of a reset and .dirty is absent, the install tree and the
\* manifest are exactly what HEAD records, however many commands failed or
\* died on the way here.  What survives a missing .dirty is nobody's to repair.
DirtyGuards ==
    \/ dirty
    \/ \E p \in Procs : pc[p] \in CleanPcs
    \/ blame \cap {"clean", "run", "reset"} # {}
    \/ tree = head.tree /\ file.man = head.man

\* What the lock file promises is what a reset brings back: with no lock
\* holder, ttrek-lock.json (outside the repository) agrees with the tree and
\* the manifest HEAD records, and every direct dependency of ttrek.json is a
\* locked package.  Holds until one of the blamed hazards happens.
LockMatchesHead ==
    flock = NoProc /\ blame = {} =>
        /\ file.lock = head.tree
        /\ head.man = head.tree
        /\ file.spec # Torn => \A q \in file.spec \cap Pkg : file.lock[q] # None

\* Recovery (ttrek_GitResetHard): the step that ends a reset leaves the
\* packages that ttrek-lock.json lists, whole, whatever the interrupted
\* command had done to them.
RecoveryRestores ==
    [][\A p \in Procs :
         pc[p] \in CleanPcs /\ pc'[p] \in {"touch", "running"} /\ blame' = {}
            => tree' = file'.lock /\ file'.man = tree']_vars

\* ttrek_InstallSubCmd and the others unlock on every path, so a lock is
\* released once its holder runs on, by an unlock or by its death.
LockReleased == \A p \in Procs : flock = p ~> flock # p

\* Every command that was started ends: a busy lock is an error and not a
\* wait, and every error path returns.
CommandEnds == \A p \in Procs : pc[p] # "idle" ~> pc[p] = "idle"

\* Seen from outside, HEAD is a store that changes only by one whole commit
\* of the command that holds the lock, and at most once per holding
\* (PackageStore); everything in between is invisible.
Store == INSTANCE PackageStore WITH
    snapshot <- head.tree,
    holder   <- flock,
    phase    <- IF flock = NoProc THEN "free"
                ELSE IF pc[flock] \in {"undirty", "unlock"} THEN "done" ELSE "busy"
ImplementsStore == Store!Spec


\* The lock is taken so that no "other process is running" (ttrek_LockFile):
\* a holder starts its work from the lock file and manifest as they are.
HolderIsCurrent ==
    [][\A p \in Procs :
         pc[p] = "touch" /\ pc'[p] = "plan"
            => loc[p].mem.lock = file.lock /\ loc[p].mem.man = file.man]_vars
=============================================================================
