------------------------------ MODULE Uninstall ------------------------------
(***************************************************************************)
(* Which packages `ttrek uninstall' removes (ttrek_Uninstall): the named   *)
(* ones, every locked package that needs one of them, and, with            *)
(* -autoremove, the dependencies nobody needs any more.  The sets are      *)
(* computed by loops that insert into the unordered_set they iterate over, *)
(* so an insertion may make the iterator skip elements or meet them again: *)
(* after one, the elements still to visit are any subset of the set.  Then *)
(* the packages are removed one by one, from the tree and from the         *)
(* documents in memory, and the documents are written one after the other. *)
(***************************************************************************)
CONSTANTS
    Pkg,      \* package names
    Graphs    \* the "requires" entries a lock file may hold

ASSUME GraphAssumption == Graphs \subseteq [Pkg -> SUBSET Pkg]

VARIABLES
    requires,     \* the "requires" of each package of ttrek-lock.json
    direct,       \* the requirements of ttrek.json when the command starts
    asked,        \* the packages named on the command line
    autoremove,   \* the -autoremove option
    spec,         \* the requirements of ttrek.json on disk
    disk,         \* the packages of ttrek-lock.json on disk
    locked,       \* the packages of the lock file in memory
    uninstalls,   \* the packages to remove
    rdeps,        \* reverse_dependencies_map
    todo,         \* the elements the running loop has still to visit
    changed,      \* has this round of the loop found anything?
    phase

inputs == <<requires, direct, asked, autoremove>>
documents == <<spec, disk>>
vars == <<inputs, documents, locked, uninstalls, rdeps, todo, changed, phase>>

Phases == {"dependents", "erase", "orphans", "confirm", "remove",
           "between", "written", "aborted", "failed"}

Requirers(p) == {q \in Pkg : p \in requires[q]}

\* A lock file is closed: what a locked package requires is locked.  ttrek.json
\* may have names the lock file has not: it is edited by hand, and written first.
Init ==
    /\ requires \in Graphs
    /\ disk \in SUBSET Pkg
    /\ \A q \in Pkg : requires[q] \subseteq (IF q \in disk THEN disk ELSE {})
    /\ direct \in SUBSET Pkg
    /\ asked \in SUBSET Pkg \ {{}}
    /\ autoremove \in BOOLEAN
    /\ spec = direct
    /\ locked = disk
    /\ uninstalls = asked
    /\ rdeps = [p \in Pkg |-> Requirers(p)]
    /\ todo = asked
    /\ changed = FALSE
    /\ phase = "dependents"

(***************************************************************************)
(* The loops                                                               *)
(***************************************************************************)
\* Insert `new' while iterating: nothing moves when nothing is inserted.
Insert(u, new) ==
    /\ uninstalls' = uninstalls \cup new
    /\ IF new \subseteq uninstalls
       THEN todo' = todo \ {u} /\ UNCHANGED changed
       ELSE todo' \in SUBSET uninstalls' /\ changed' = TRUE

\* Mutant: one round is thought to be enough.
InsertOnce(u, new) ==
    /\ uninstalls' = uninstalls \cup new
    /\ IF new \subseteq uninstalls
       THEN todo' = todo \ {u}
       ELSE todo' \in SUBSET uninstalls'
    /\ UNCHANGED changed

\* Mutant: every visited package asks for another round.
VisitDependentsAgain(u) ==
    /\ phase = "dependents"
    /\ u \in todo
    /\ uninstalls' = uninstalls \cup rdeps[u]
    /\ todo' = todo \ {u}
    /\ changed' = TRUE
    /\ UNCHANGED <<inputs, documents, locked, rdeps, phase>>

\* Mutant: one round is thought to be enough.
VisitDependentsOnce(u) ==
    /\ phase = "dependents"
    /\ u \in todo
    /\ InsertOnce(u, rdeps[u])
    /\ UNCHANGED <<inputs, documents, locked, rdeps, phase>>

\* Whatever needs a package that goes, goes too.
VisitDependents(u) ==
    /\ phase = "dependents"
    /\ u \in todo
    /\ Insert(u, rdeps[u])
    /\ UNCHANGED <<inputs, documents, locked, rdeps, phase>>

EndDependents ==
    /\ phase = "dependents"
    /\ todo = {}
    /\ changed' = FALSE
    /\ IF changed THEN todo' = uninstalls /\ UNCHANGED phase
                  ELSE todo' = {} /\ phase' = "erase"
    /\ UNCHANGED <<inputs, documents, locked, uninstalls, rdeps>>

\* Mutant: direct requirements are counted like the others.
EraseAll ==
    /\ phase = "erase"
    /\ rdeps' = [p \in Pkg |-> rdeps[p] \ uninstalls]
    /\ changed' = (rdeps' # rdeps)
    /\ phase' = "orphans"
    /\ todo' = IF autoremove THEN uninstalls ELSE {}
    /\ UNCHANGED <<inputs, documents, locked, uninstalls>>

\* The packages that go are struck from the reverse dependencies of what they
\* require, except of direct requirements.
Erase ==
    /\ phase = "erase"
    /\ rdeps' = [p \in Pkg |-> IF p \in direct THEN rdeps[p] ELSE rdeps[p] \ uninstalls]
    /\ changed' = (rdeps' # rdeps)
    /\ phase' = "orphans"
    /\ todo' = IF autoremove THEN uninstalls ELSE {}
    /\ UNCHANGED <<inputs, documents, locked, uninstalls>>

\* A dependency of a package that goes, with no reverse dependency left.
VisitOrphans(u) ==
    /\ phase = "orphans"
    /\ u \in todo
    /\ Insert(u, {p \in requires[u] : rdeps[p] = {}})
    /\ UNCHANGED <<inputs, documents, locked, rdeps, phase>>

EndOrphans ==
    /\ phase = "orphans"
    /\ todo = {}
    /\ phase' = IF changed THEN "erase" ELSE "confirm"
    /\ changed' = FALSE
    /\ UNCHANGED <<inputs, documents, locked, uninstalls, rdeps, todo>>

(***************************************************************************)
(* The removal                                                             *)
(***************************************************************************)
Confirm ==
    /\ phase = "confirm"
    /\ phase' = "remove"
    /\ todo' = uninstalls
    /\ UNCHANGED <<inputs, documents, locked, uninstalls, rdeps, changed>>

AnswerNo ==
    /\ phase = "confirm"
    /\ phase' = "aborted"
    /\ UNCHANGED <<inputs, documents, locked, uninstalls, rdeps, todo, changed>>

\* A package that the lock file has goes from the documents in memory.
Remove(u) ==
    /\ phase = "remove"
    /\ u \in todo \cap locked
    /\ locked' = locked \ {u}
    /\ todo' = todo \ {u}
    /\ UNCHANGED <<inputs, documents, uninstalls, rdeps, changed, phase>>

\* Its files cannot be deleted, or one of the documents does not know it: the
\* command ends and nothing is written.
RemoveFails(u) ==
    /\ phase = "remove"
    /\ u \in todo
    /\ phase' = "failed"
    /\ UNCHANGED <<inputs, documents, locked, uninstalls, rdeps, todo, changed>>

\* Mutant: the lock file is written first.
WriteLockFirst ==
    /\ phase = "remove"
    /\ todo = {}
    /\ disk' = locked
    /\ phase' = "between"
    /\ UNCHANGED <<inputs, spec, locked, uninstalls, rdeps, todo, changed>>

WriteSpec ==
    /\ phase = "remove"
    /\ todo = {}
    /\ spec' = direct \ uninstalls
    /\ phase' = "between"
    /\ UNCHANGED <<inputs, disk, locked, uninstalls, rdeps, todo, changed>>

WriteLock ==
    /\ phase = "between"
    /\ disk' = locked
    /\ phase' = "written"
    /\ UNCHANGED <<inputs, spec, locked, uninstalls, rdeps, todo, changed>>

\* A document cannot be written, or the process dies before it is.
Stop ==
    /\ (phase = "remove" /\ todo = {}) \/ phase = "between"
    /\ phase' = "failed"
    /\ UNCHANGED <<inputs, documents, locked, uninstalls, rdeps, todo, changed>>

Next ==
    \/ \E u \in Pkg : VisitDependents(u) \/ VisitOrphans(u) \/ Remove(u) \/ RemoveFails(u)
    \/ EndDependents \/ Erase \/ EndOrphans
    \/ Confirm \/ AnswerNo \/ WriteSpec \/ WriteLock \/ Stop

Spec == Init /\ [][Next]_vars

\* One sequential process: it goes on until it returns.
FairSpec == Spec /\ WF_vars(Next)

(***************************************************************************)
(* Reference: the same set, without loops                                  *)
(***************************************************************************)
UpwardClosed(S) == \A p \in S : Requirers(p) \subseteq S

\* S also has the dependencies, required only from S, that nobody asked for.
Orphaned(S) == {p \in UNION {requires[u] : u \in S} : p \notin direct /\ Requirers(p) \subseteq S}

Acceptable(S) ==
    /\ asked \subseteq S
    /\ UpwardClosed(S)
    /\ autoremove => Orphaned(S) \subseteq S

\* The least acceptable set.
Expected == {p \in Pkg : \A S \in SUBSET Pkg : Acceptable(S) => p \in S}

(***************************************************************************)
(* Properties                                                              *)
(***************************************************************************)
\* Every variable has its type.
TypeOK ==
    /\ requires \in [Pkg -> SUBSET Pkg]
    /\ direct \subseteq Pkg
    /\ asked \subseteq Pkg
    /\ autoremove \in BOOLEAN
    /\ spec \subseteq Pkg
    /\ disk \subseteq Pkg
    /\ locked \subseteq Pkg
    /\ uninstalls \subseteq Pkg
    /\ rdeps \in [Pkg -> SUBSET Pkg]
    /\ todo \subseteq uninstalls
    /\ changed \in BOOLEAN
    /\ phase \in Phases

\* The list shown for confirmation does not depend on the order in which the
\* unordered_set is iterated: it is the least set that has the named packages,
\* what needs them and, with -autoremove, what only they needed.
ListIsExact == phase = "confirm" => uninstalls = Expected

\* Uninstalling never breaks what stays: the lock file on disk is closed after
\* every step, whether the command wrote, aborted, failed or was stopped.
DiskClosed == \A q \in disk : requires[q] \subseteq disk

\* What the user asked for in ttrek.json stays, with everything it needs,
\* unless it needs a named package itself: every removed direct requirement
\* is named or has a requirement that is removed.
DirectKept ==
    \A p \in uninstalls \cap direct : p \in asked \/ requires[p] \cap uninstalls # {}

\* No step takes a package's lock entry and leaves it in ttrek.json: whatever
\* fails, or dies between the two documents, the direct requirements that have
\* no entry are among those that had none (ttrek_Uninstall).
SpecStaysLocked == [][ spec' \ disk' \subseteq spec \ disk ]_vars

\* The loops come to an end.
Terminates == <>(phase \in {"written", "aborted", "failed"})
=============================================================================
