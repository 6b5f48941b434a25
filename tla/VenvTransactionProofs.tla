------------------------ MODULE VenvTransactionProofs ------------------------
(***************************************************************************)
(* Types, the lock, .dirty, the abstract store and the agreement of the    *)
(* documents with HEAD, for any number of processes, packages, versions,   *)
(* commands started and processes killed.                                  *)
(*                                                                         *)
(* The properties are not inductive: that the tree is HEAD's when .dirty   *)
(* is absent depends on nobody else working in it, hence on the lock, and  *)
(* on .dirty being there throughout the work.  SafeInv adds, for each      *)
(* process, what must be true at the point it has reached; `ttrek run',    *)
(* which resets without the lock, is held to what it blames.  MatchInv     *)
(* adds what the documents in each process's memory say of the tree.       *)
(***************************************************************************)
EXTENDS VenvTransaction, TLAPS

\* A process with a script has chosen the script's package.
HasPkg == \A p \in Procs : pc[p] \in {"script", "child", "orphan"} => loc[p].pkg \in Pkg

TypeInv == TypeOK /\ HasPkg

Cursor == {"spec", "lock", "man"}

(***************************************************************************)
(* Lemmas about the operators the steps are built from                     *)
(***************************************************************************)
LEMMA FreshType == Fresh \in Local
  BY DEF Fresh, Local, Document, Content, Entries, Empty

LEMMA NextFileType == \A f \in Cursor : NextFile[f] \in Cursor
  BY DEF NextFile, Cursor

\* Copying one document keeps the three documents well typed.
LEMMA PutType ==
  ASSUME NEW d \in Document, NEW e \in Document, NEW f \in Cursor
  PROVE  [d EXCEPT ![f] = e[f]] \in Document
  <1>1. CASE f = "spec"
    BY <1>1 DEF Document
  <1>2. CASE f = "lock"
    BY <1>2 DEF Document
  <1>3. CASE f = "man"
    BY <1>3 DEF Document
  <1>4. QED BY <1>1, <1>2, <1>3 DEF Cursor

\* Each way the steps change a process's local state keeps its type.
LEMMA LocalMem ==
  ASSUME NEW l \in Local, NEW m \in Document
  PROVE  [l EXCEPT !.mem = m] \in Local
  BY DEF Local

LEMMA LocalAt ==
  ASSUME NEW l \in Local, NEW f \in Cursor
  PROVE  [l EXCEPT !.at = f] \in Local
  BY DEF Local, Cursor

LEMMA LocalTodo ==
  ASSUME NEW l \in Local, NEW S \in SUBSET Pkg
  PROVE  [l EXCEPT !.todo = S] \in Local
  BY DEF Local

LEMMA LocalJob ==
  ASSUME NEW l \in Local, NEW S \in SUBSET Pkg, NEW q \in Pkg, NEW b \in BOOLEAN,
         NEW k \in [Pkg -> Content]
  PROVE  /\ [l EXCEPT !.todo = S, !.pkg = q, !.clear = b, !.kept = k] \in Local
         /\ [l EXCEPT !.todo = S, !.pkg = q, !.clear = b, !.kept = k].pkg = q
  BY DEF Local

LEMMA BecomeType ==
  ASSUME loc \in [Procs -> Local], NEW p \in Procs, NEW l \in Local, Become(p, l)
  PROVE  loc' \in [Procs -> Local] /\ loc'[p] = l /\ \A q \in Procs \ {p} : loc'[q] = loc[q]
  BY DEF Become

LEMMA DeletionsType ==
  ASSUME NEW a \in Content, NEW b \in Content, NEW d \in Deletions(a, b)
  PROVE  d.ok \in BOOLEAN /\ d.left \in Content
  <1>1. Broken \in Content /\ None \in Content
    BY DEF Content
  <1>2. CASE d \in [ok : BOOLEAN, left : {b, Broken}]
    BY <1>1, <1>2
  <1>3. CASE d = [ok |-> TRUE, left |-> None]
    BY <1>1, <1>3
  <1>4. CASE d = [ok |-> TRUE, left |-> b]
    BY <1>4
  <1>5. d \in [ok : BOOLEAN, left : {b, Broken}]
        \/ d = [ok |-> TRUE, left |-> None] \/ d = [ok |-> TRUE, left |-> b]
    BY DEF Deletions
  <1>6. QED BY <1>2, <1>3, <1>4, <1>5

LEMMA EndType ==
  ASSUME TypeInv, NEW p \in Procs, End(p)
  PROVE  /\ pc' \in [Procs -> AllPcs] /\ cmd' \in [Procs -> Commands \cup {"none"}]
         /\ loc' \in [Procs -> Local] /\ flock' \in Procs \cup {NoProc}
         /\ HasPkg'
  <1>1. loc' \in [Procs -> Local] /\ \A q \in Procs \ {p} : loc'[q] = loc[q]
    BY FreshType, BecomeType DEF TypeInv, TypeOK, End
  <1>2. pc' \in [Procs -> AllPcs] /\ pc'[p] = "idle" /\ \A q \in Procs \ {p} : pc'[q] = pc[q]
    BY DEF TypeInv, TypeOK, End, Goto, AllPcs
  <1>3. HasPkg'
    BY <1>1, <1>2 DEF HasPkg, TypeInv
  <1>4. QED BY <1>1, <1>2, <1>3 DEF TypeInv, TypeOK, End

(***************************************************************************)
(* Type correctness                                                        *)
(***************************************************************************)
\* Steps that move a control point and leave local states alone.
LEMMA GotoType ==
  ASSUME TypeInv, NEW p \in Procs, NEW l \in AllPcs, Goto(p, l), UNCHANGED loc,
         l \in {"script", "child", "orphan"} => loc[p].pkg \in Pkg
  PROVE  pc' \in [Procs -> AllPcs] /\ loc' \in [Procs -> Local] /\ HasPkg'
  <1>1. pc' \in [Procs -> AllPcs] /\ pc'[p] = l /\ \A q \in Procs \ {p} : pc'[q] = pc[q]
    BY DEF TypeInv, TypeOK, Goto
  <1>2. QED BY <1>1 DEF TypeInv, TypeOK, HasPkg

LEMMA BlameType ==
  ASSUME NEW p \in Procs
  PROVE  /\ BlameCommit(p) \subseteq {"commit", "clean", "run", "stale", "reset"}
         /\ BlameClean(p) \subseteq {"commit", "clean", "run", "stale", "reset"}
         /\ BlameRun(p) \subseteq {"commit", "clean", "run", "stale", "reset"}
  BY DEF BlameCommit, BlameClean, BlameRun

LEMMA StartType ==
  ASSUME TypeInv, NEW p \in Procs, NEW c \in Commands, Start(p, c) PROVE TypeInv'
  <1> DEFINE m == [loc[p].mem EXCEPT !.spec = file.spec]
             l == [[loc[p] EXCEPT !.mem = m] EXCEPT !.at = "lock"]
  <1>1. m \in Document
    BY PutType DEF TypeInv, TypeOK, Local, Cursor
  <1>2. l \in Local
    <2> HIDE DEF m
    <2> QED BY <1>1, LocalMem, LocalAt DEF TypeInv, TypeOK, Cursor
  <1>3. Become(p, l)
    BY DEF Start
  <1>4. loc' \in [Procs -> Local] /\ \A q \in Procs \ {p} : loc'[q] = loc[q]
    <2> HIDE DEF l
    <2> QED BY <1>2, <1>3, BecomeType DEF TypeInv, TypeOK
  <1>5. pc' \in [Procs -> AllPcs] /\ pc'[p] = "read" /\ \A q \in Procs \ {p} : pc'[q] = pc[q]
    BY DEF Start, TypeInv, TypeOK, Goto, AllPcs
  <1>6. HasPkg'
    BY <1>4, <1>5 DEF HasPkg, TypeInv
  <1>7. starts' \in Nat /\ cmd' \in [Procs -> Commands \cup {"none"}]
    BY DEF Start, TypeInv, TypeOK
  <1>8. QED BY <1>4, <1>5, <1>6, <1>7 DEF Start, TypeInv, TypeOK, disk

LEMMA ReadType ==
  ASSUME TypeInv, NEW p \in Procs, ReadFile(p) PROVE TypeInv'
  <1> DEFINE f == loc[p].at
             m == [loc[p].mem EXCEPT ![f] = file[f]]
             l == [[loc[p] EXCEPT !.mem = m] EXCEPT !.at = NextFile[f]]
  <1>0. f \in Cursor /\ NextFile[f] \in Cursor
    <2>1. f \in Cursor
      BY DEF TypeInv, TypeOK, Local, Cursor
    <2>2. QED BY <2>1, NextFileType
  <1>1. m \in Document
    BY <1>0, PutType DEF TypeInv, TypeOK, Local
  <1>2. l \in Local
    <2> HIDE DEF m, f
    <2> QED BY <1>0, <1>1, LocalMem, LocalAt DEF TypeInv, TypeOK
  <1>3. Become(p, l)
    BY DEF ReadFile
  <1>4. loc' \in [Procs -> Local] /\ \A q \in Procs \ {p} : loc'[q] = loc[q]
    <2> HIDE DEF l
    <2> QED BY <1>2, <1>3, BecomeType DEF TypeInv, TypeOK
  <1>5. /\ pc' \in [Procs -> AllPcs] /\ pc'[p] \notin {"script", "child", "orphan"}
        /\ \A q \in Procs \ {p} : pc'[q] = pc[q]
    BY DEF ReadFile, TypeInv, TypeOK, Goto, AllPcs, AfterRead
  <1>6. HasPkg'
    BY <1>4, <1>5 DEF HasPkg, TypeInv
  <1>7. QED BY <1>4, <1>5, <1>6 DEF ReadFile, TypeInv, TypeOK, disk, bounds

\* Steps that take, keep or lose the lock, and the reset of the work tree.
LEMMA EnsureType ==
  ASSUME TypeInv, NEW p \in Procs,
         \/ LockFile(p) \/ GitInit(p) \/ GitInitCommit(p) \/ NoResetNeeded(p)
         \/ ResetFails(p) \/ GitReset(p) \/ GitResetFault(p) \/ GitClean(p) \/ GitCleanFails(p)
  PROVE  TypeInv'
  <1>0. AfterEnsure(cmd[p]) \in AllPcs /\ Failed(cmd[p]) \in AllPcs
        /\ AfterEnsure(cmd[p]) \notin {"script", "child", "orphan"}
        /\ Failed(cmd[p]) \notin {"script", "child", "orphan"}
    BY DEF AfterEnsure, Failed, AllPcs, ChangePcs
  <1>a. \A l \in {"ensure", "initing", "cleaning", "halfcleaning"} :
            l \in AllPcs /\ l \notin {"script", "child", "orphan"}
    BY DEF AllPcs, ChangePcs, CleanPcs
  <1>b. \A q \in Pkg : head.tree[q] \in Content /\ tree[q] \in Content
    BY DEF TypeInv, TypeOK
  <1>c. None \in Content /\ Broken \in Content /\ Empty \in [Pkg -> Content]
    BY DEF Content, Empty
  <1>1. CASE LockFile(p)
    <2>1. blame' \subseteq {"commit", "clean", "run", "stale", "reset"}
      BY <1>1 DEF LockFile, TypeInv, TypeOK
    <2>2. QED BY <1>1, <1>a, <2>1, GotoType DEF LockFile, TypeInv, TypeOK, disk, bounds
  <1>2. CASE GitInit(p)
    BY <1>2, <1>a, GotoType DEF GitInit, TypeInv, TypeOK, bounds
  <1>3. CASE GitInitCommit(p)
    <2>1. head' \in [tree : [Pkg -> Content], man : {Torn} \cup [Pkg -> Content], dirty : BOOLEAN]
      BY <1>3, <1>c DEF GitInitCommit
    <2>2. QED BY <1>3, <1>0, <2>1, GotoType DEF GitInitCommit, TypeInv, TypeOK, bounds
  <1>4. CASE NoResetNeeded(p)
    BY <1>4, <1>0, GotoType DEF NoResetNeeded, TypeInv, TypeOK, disk, bounds
  <1>5. CASE ResetFails(p)
    BY <1>5, <1>0, GotoType DEF ResetFails, TypeInv, TypeOK, disk, bounds
  <1>6. CASE GitReset(p)
    <2>1. tree' \in [Pkg -> Content]
      BY <1>6, <1>b, <1>c DEF GitReset
    <2>2. file' \in Document
      BY <1>6 DEF GitReset, TypeInv, TypeOK, Document
    <2>3. blame' \subseteq {"commit", "clean", "run", "stale", "reset"}
      BY <1>6, BlameType DEF GitReset, TypeInv, TypeOK
    <2>4. dirty' \in BOOLEAN
      BY <1>6 DEF GitReset, TypeInv, TypeOK
    <2>5. QED BY <1>6, <1>a, <2>1, <2>2, <2>3, <2>4, GotoType DEF GitReset, TypeInv, TypeOK, bounds
  <1>7. CASE GitResetFault(p)
    <2>3. blame' \subseteq {"commit", "clean", "run", "stale", "reset"}
      BY <1>7, BlameType DEF GitResetFault, TypeInv, TypeOK
    <2>4. dirty' \in BOOLEAN
      BY <1>7 DEF GitResetFault, TypeInv, TypeOK
    <2>5. QED BY <1>7, <1>a, <2>3, <2>4, GotoType DEF GitResetFault, TypeInv, TypeOK, bounds
  <1>8. CASE GitClean(p)
    <2>1. tree' \in [Pkg -> Content]
      BY <1>8, <1>b, <1>c DEF GitClean, TypeInv, TypeOK
    <2>2. file' \in Document
      BY <1>8 DEF GitClean, TypeInv, TypeOK, Document
    <2>3. blame' \subseteq {"commit", "clean", "run", "stale", "reset"}
      BY <1>8, BlameType DEF GitClean, TypeInv, TypeOK
    <2>4. QED BY <1>8, <1>0, <2>1, <2>2, <2>3, GotoType DEF GitClean, TypeInv, TypeOK, bounds
  <1>9. CASE GitCleanFails(p)
    <2>1. blame' \subseteq {"commit", "clean", "run", "stale", "reset"}
      BY <1>9, BlameType DEF GitCleanFails, TypeInv, TypeOK
    <2>2. QED BY <1>9, <1>0, <2>1, GotoType DEF GitCleanFails, TypeInv, TypeOK, disk, bounds
  <1>10. QED BY <1>1, <1>2, <1>3, <1>4, <1>5, <1>6, <1>7, <1>8, <1>9

\* Steps between .dirty and the commit that leave local states alone.
LEMMA WorkType ==
  ASSUME TypeInv, NEW p \in Procs,
         \/ Touch(p) \/ Abort(p) \/ GiveUp(p) \/ NoScript(p) \/ ScriptStart(p)
         \/ ScriptFails(p) \/ Restore(p) \/ Truncate(p) \/ GitAmend(p) \/ AmendFails(p)
         \/ Undirty(p) \/ CrashLeavingScript(p)
  PROVE  TypeInv'
  <1>0. Failed(cmd[p]) \in AllPcs /\ Failed(cmd[p]) \notin {"script", "child", "orphan"}
    BY DEF Failed, AllPcs
  <1>a. \A l \in {"plan", "restore", "fill", "undirty", "unlock"} :
            l \in AllPcs /\ l \notin {"script", "child", "orphan"}
    BY DEF AllPcs, ChangePcs, WorkPcs
  <1>b. \A l \in {"child", "orphan"} : l \in AllPcs
    BY DEF AllPcs, ChangePcs, WorkPcs
  <1>c. Broken \in Content /\ \A q \in Pkg : tree[q] \in Content /\ loc[p].kept[q] \in Content
    BY DEF TypeInv, TypeOK, Content, Local
  <1>1. CASE Touch(p)
    BY <1>1, <1>a, GotoType DEF Touch, TypeInv, TypeOK, bounds
  <1>2. CASE Abort(p)
    BY <1>2, <1>a, GotoType DEF Abort, TypeInv, TypeOK, disk, bounds
  <1>3. CASE GiveUp(p)
    BY <1>3, <1>0, GotoType DEF GiveUp, TypeInv, TypeOK, disk, bounds
  <1>4. CASE NoScript(p)
    BY <1>4, <1>a, GotoType DEF NoScript, TypeInv, TypeOK, disk, bounds
  <1>5. CASE ScriptStart(p)
    <2>1. tree' \in [Pkg -> Content]
      BY <1>5, <1>c DEF ScriptStart, TypeInv, TypeOK
    <2>2. loc[p].pkg \in Pkg
      BY <1>5 DEF ScriptStart, TypeInv, HasPkg
    <2>3. QED BY <1>5, <1>b, <2>1, <2>2, GotoType DEF ScriptStart, TypeInv, TypeOK, bounds
  <1>6. CASE ScriptFails(p)
    BY <1>6, <1>a, GotoType DEF ScriptFails, TypeInv, TypeOK, disk, bounds
  <1>7. CASE Restore(p)
    <2>1. tree' \in [Pkg -> Content]
      BY <1>7, <1>c DEF Restore, MovedBack
    <2>2. QED BY <1>7, <1>a, <2>1, GotoType DEF Restore, TypeInv, TypeOK, bounds
  <1>8. CASE Truncate(p)
    <2>1. file' \in Document
      <3>1. loc[p].at \in Cursor
        BY DEF TypeInv, TypeOK, Local, Cursor
      <3>2. CASE loc[p].at = "spec"
        BY <1>8, <3>2 DEF Truncate, TypeInv, TypeOK, Document
      <3>3. CASE loc[p].at = "lock"
        BY <1>8, <3>3 DEF Truncate, TypeInv, TypeOK, Document
      <3>4. CASE loc[p].at = "man"
        BY <1>8, <3>4 DEF Truncate, TypeInv, TypeOK, Document
      <3>5. QED BY <3>1, <3>2, <3>3, <3>4 DEF Cursor
    <2>2. QED BY <1>8, <1>a, <2>1, GotoType DEF Truncate, TypeInv, TypeOK, bounds
  <1>9. CASE GitAmend(p)
    <2>1. head' \in [tree : [Pkg -> Content], man : {Torn} \cup [Pkg -> Content], dirty : BOOLEAN]
      BY <1>9 DEF GitAmend, TypeInv, TypeOK, Document
    <2>2. QED BY <1>9, <1>a, <2>1, GotoType DEF GitAmend, TypeInv, TypeOK, bounds
  <1>10. CASE AmendFails(p)
    <2>1. blame' \subseteq {"commit", "clean", "run", "stale", "reset"}
      BY <1>10, BlameType DEF AmendFails, TypeInv, TypeOK
    <2>2. QED BY <1>10, <1>a, <2>1, GotoType DEF AmendFails, TypeInv, TypeOK, disk, bounds
  <1>11. CASE Undirty(p)
    BY <1>11, <1>a, GotoType DEF Undirty, TypeInv, TypeOK, bounds
  <1>12. CASE CrashLeavingScript(p)
    <2>1. loc[p].pkg \in Pkg
      BY <1>12 DEF CrashLeavingScript, TypeInv, HasPkg
    <2>2. crashes' \in Nat
      BY <1>12 DEF CrashLeavingScript, TypeInv, TypeOK
    <2>3. QED BY <1>12, <1>b, <2>1, <2>2, GotoType DEF CrashLeavingScript, TypeInv, TypeOK, disk
  <1>13. QED BY <1>1, <1>2, <1>3, <1>4, <1>5, <1>6, <1>7, <1>8, <1>9, <1>10, <1>11, <1>12

\* Steps with which a process leaves.
LEMMA LeaveType ==
  ASSUME TypeInv, NEW p \in Procs,
         \/ LockBusy(p) \/ WriteNull(p) \/ Unlock(p) \/ RunDone(p) \/ EditSpecFill(p)
         \/ EditNull(p) \/ Crash(p) \/ OrphanDone(p)
  PROVE  TypeInv'
  <1>1. CASE LockBusy(p) \/ Unlock(p) \/ RunDone(p) \/ EditNull(p)
    BY <1>1, EndType DEF LockBusy, Unlock, RunDone, EditNull, TypeInv, TypeOK, disk, bounds
  <1>2. CASE WriteNull(p)
    <2>1. blame' \subseteq {"commit", "clean", "run", "stale", "reset"}
      BY <1>2, BlameType DEF WriteNull, TypeInv, TypeOK
    <2>2. QED BY <1>2, <2>1, EndType DEF WriteNull, TypeInv, TypeOK, disk, bounds
  <1>3. CASE EditSpecFill(p)
    <2>0. loc[p].mem \in Document
      BY DEF TypeInv, TypeOK, Local
    <2>1. file' \in Document
      BY <1>3, <2>0 DEF EditSpecFill, TypeInv, TypeOK, Document
    <2>2. blame' \subseteq {"commit", "clean", "run", "stale", "reset"}
      BY <1>3 DEF EditSpecFill, TypeInv, TypeOK
    <2>3. QED BY <1>3, <2>1, <2>2, EndType DEF EditSpecFill, TypeInv, TypeOK, bounds
  <1>4. CASE Crash(p)
    <2>1. blame' \subseteq {"commit", "clean", "run", "stale", "reset"}
      BY <1>4, BlameType DEF Crash, TypeInv, TypeOK
    <2>2. crashes' \in Nat
      BY <1>4 DEF Crash, TypeInv, TypeOK
    <2>3. QED BY <1>4, <2>1, <2>2, EndType DEF Crash, TypeInv, TypeOK, disk
  <1>5. CASE OrphanDone(p)
    <2>1. PICK c \in Ver \cup {Broken} : tree' = [tree EXCEPT ![loc[p].pkg] = c]
      BY <1>5 DEF OrphanDone
    <2>2. c \in Content
      BY DEF Content
    <2>3. tree' \in [Pkg -> Content]
      BY <2>1, <2>2 DEF TypeInv, TypeOK
    <2>4. QED BY <1>5, <2>3, EndType DEF OrphanDone, TypeInv, TypeOK, bounds
  <1>6. QED BY <1>1, <1>2, <1>3, <1>4, <1>5

\* Steps that change a process's work list or its documents.
LEMMA PlanType ==
  ASSUME TypeInv, NEW p \in Procs, Plan(p) PROVE TypeInv'
  <1>1. PICK S \in SUBSET Pkg : Become(p, [[loc[p] EXCEPT !.todo = S] EXCEPT !.at = "spec"])
    BY DEF Plan
  <1>2. [[loc[p] EXCEPT !.todo = S] EXCEPT !.at = "spec"] \in Local
    BY LocalTodo, LocalAt DEF TypeInv, TypeOK, Cursor
  <1>3. loc' \in [Procs -> Local] /\ \A q \in Procs \ {p} : loc'[q] = loc[q]
    BY <1>1, <1>2, BecomeType DEF TypeInv, TypeOK
  <1>4. pc' \in [Procs -> AllPcs] /\ pc'[p] = "next" /\ \A q \in Procs \ {p} : pc'[q] = pc[q]
    BY DEF Plan, TypeInv, TypeOK, Goto, AllPcs, ChangePcs, WorkPcs
  <1>5. HasPkg'
    BY <1>3, <1>4 DEF HasPkg, TypeInv
  <1>6. QED BY <1>3, <1>4, <1>5 DEF Plan, TypeInv, TypeOK, disk, bounds

LEMMA FillType ==
  ASSUME TypeInv, NEW p \in Procs, Fill(p) PROVE TypeInv'
  <1> DEFINE f == loc[p].at
             l == [loc[p] EXCEPT !.at = NextFile[f]]
  <1>1. f \in Cursor /\ loc[p].mem \in Document
    BY DEF TypeInv, TypeOK, Local, Cursor
  <1>2. file' \in Document
    BY <1>1, PutType DEF Fill, TypeInv, TypeOK
  <1>3. l \in Local
    BY <1>1, NextFileType, LocalAt DEF TypeInv, TypeOK
  <1>4. loc' \in [Procs -> Local] /\ \A q \in Procs \ {p} : loc'[q] = loc[q]
    <2>1. Become(p, l)
      BY DEF Fill
    <2> HIDE DEF l
    <2>2. QED BY <1>3, <2>1, BecomeType DEF TypeInv, TypeOK
  <1>5. /\ pc' \in [Procs -> AllPcs] /\ pc'[p] \in {"amend", "write"}
        /\ \A q \in Procs \ {p} : pc'[q] = pc[q]
    BY DEF Fill, TypeInv, TypeOK, Goto, AllPcs, ChangePcs, WorkPcs
  <1>6. HasPkg'
    BY <1>4, <1>5 DEF HasPkg, TypeInv
  <1>7. QED BY <1>2, <1>4, <1>5, <1>6 DEF Fill, TypeInv, TypeOK, bounds

LEMMA EditType ==
  ASSUME TypeInv, NEW p \in Procs, EditSpec(p) PROVE TypeInv'
  <1>0. PICK g \in Flag : \E new \in {loc[p].mem.spec \cup {g}, loc[p].mem.spec \ {g}} :
          Become(p, [loc[p] EXCEPT !.mem = [loc[p].mem EXCEPT !.spec = new]])
    BY DEF EditSpec
  <1>1. PICK new \in {loc[p].mem.spec \cup {g}, loc[p].mem.spec \ {g}} :
          Become(p, [loc[p] EXCEPT !.mem = [loc[p].mem EXCEPT !.spec = new]])
    BY <1>0
  <1> DEFINE m == [loc[p].mem EXCEPT !.spec = new]
  <1>2. m \in Document
    <2>1. loc[p].mem \in Document /\ loc[p].mem.spec # Torn
      BY DEF EditSpec, TypeInv, TypeOK, Local
    <2>2. new \in SUBSET Entries
      BY <2>1 DEF Document, Entries
    <2>3. QED BY <2>1, <2>2 DEF Document
  <1>3. loc' \in [Procs -> Local] /\ \A q \in Procs \ {p} : loc'[q] = loc[q]
    <2> HIDE DEF m
    <2>1. [loc[p] EXCEPT !.mem = m] \in Local
      BY <1>2, LocalMem DEF TypeInv, TypeOK
    <2>2. Become(p, [loc[p] EXCEPT !.mem = m])
      BY <1>1 DEF m
    <2>3. QED BY <2>1, <2>2, BecomeType DEF TypeInv, TypeOK
  <1>4. /\ pc' \in [Procs -> AllPcs] /\ pc'[p] = "editfill"
        /\ \A q \in Procs \ {p} : pc'[q] = pc[q]
    BY DEF EditSpec, TypeInv, TypeOK, Goto, AllPcs
  <1>5. HasPkg'
    BY <1>3, <1>4 DEF HasPkg, TypeInv
  <1>6. file' \in Document
    BY DEF EditSpec, TypeInv, TypeOK, Document
  <1>7. blame' \subseteq {"commit", "clean", "run", "stale", "reset"}
    BY DEF EditSpec, TypeInv, TypeOK
  <1>8. QED BY <1>3, <1>4, <1>5, <1>6, <1>7 DEF EditSpec, TypeInv, TypeOK, bounds

LEMMA RemoveOldType ==
  ASSUME TypeInv, NEW p \in Procs, RemoveOld(p) PROVE TypeInv'
  <1> DEFINE known(q) == Installed(loc[p].mem.lock, q)
             listed(q) == IF known(q) THEN Listed(loc[p].mem.man, q) ELSE None
             k(q) == [loc[p].kept EXCEPT ![q] = Backup(known(q), tree[q])]
  <1>0. PICK q \in loc[p].todo : \E del \in Deletions(listed(q), tree[q]) :
          /\ tree' = [tree EXCEPT ![q] = del.left]
          /\ Become(p, [loc[p] EXCEPT !.todo = loc[p].todo \ {q}, !.pkg = q,
                                      !.clear = (del.left = None), !.kept = k(q)])
          /\ Goto(p, IF del.ok THEN "script" ELSE "restore")
    BY DEF RemoveOld
  <1>1. PICK del \in Deletions(listed(q), tree[q]) :
          /\ tree' = [tree EXCEPT ![q] = del.left]
          /\ Become(p, [loc[p] EXCEPT !.todo = loc[p].todo \ {q}, !.pkg = q,
                                      !.clear = (del.left = None), !.kept = k(q)])
          /\ Goto(p, IF del.ok THEN "script" ELSE "restore")
    BY <1>0
  <1>2. loc[p] \in Local /\ q \in Pkg /\ loc[p].todo \in SUBSET Pkg
    BY DEF TypeInv, TypeOK, Local
  <1>3. tree[q] \in Content /\ None \in Content
    BY <1>2 DEF TypeInv, TypeOK, Content
  <1>4. listed(q) \in Content
    BY <1>2, <1>3 DEF Local, Document, Listed
  <1>5. del.left \in Content /\ del.ok \in BOOLEAN
    <2> HIDE DEF listed
    <2> QED BY <1>1, <1>3, <1>4, DeletionsType
  <1>6. k(q) \in [Pkg -> Content]
    BY <1>2, <1>3 DEF Local, Backup
  <1>7. /\ loc' \in [Procs -> Local] /\ loc'[p].pkg = q
        /\ \A r \in Procs \ {p} : loc'[r] = loc[r]
    <2> DEFINE rest == loc[p].todo \ {q}
               kept == k(q)
               clear == (del.left = None)
               l == [loc[p] EXCEPT !.todo = rest, !.pkg = q, !.clear = clear, !.kept = kept]
    <2>1. Become(p, l)
      BY <1>1
    <2>2. rest \in SUBSET Pkg /\ clear \in BOOLEAN /\ kept \in [Pkg -> Content]
      BY <1>2, <1>6
    <2> HIDE DEF rest, kept, clear
    <2>3. l \in Local /\ l.pkg = q
      <3>1. ASSUME NEW o \in Local
            PROVE  LET n == [o EXCEPT !.todo = rest, !.pkg = q, !.clear = clear, !.kept = kept]
                   IN  n \in Local /\ n.pkg = q
        BY <1>2, <2>2 DEF Local
      <3>2. QED BY <1>2, <3>1
    <2> HIDE DEF l
    <2>4. QED BY <2>1, <2>3, BecomeType DEF TypeInv, TypeOK
  <1>8. /\ pc' \in [Procs -> AllPcs]
        /\ \A r \in Procs \ {p} : pc'[r] = pc[r]
    <2>1. (IF del.ok THEN "script" ELSE "restore") \in AllPcs
      BY DEF AllPcs, ChangePcs, WorkPcs
    <2>2. QED BY <1>1, <2>1 DEF TypeInv, TypeOK, Goto
  <1>9. HasPkg'
    BY <1>2, <1>7, <1>8 DEF HasPkg, TypeInv
  <1>10. tree' \in [Pkg -> Content]
    BY <1>1, <1>5 DEF TypeInv, TypeOK
  <1>11. QED BY <1>7, <1>8, <1>9, <1>10 DEF RemoveOld, TypeInv, TypeOK, bounds

LEMMA ScriptDoneType ==
  ASSUME TypeInv, NEW p \in Procs, ScriptDone(p) PROVE TypeInv'
  <1> DEFINE q == loc[p].pkg
             m == loc[p].mem
  <1>0. PICK v \in Ver, asked \in BOOLEAN : \E got \in {v, Broken} :
          /\ tree' = [tree EXCEPT ![q] = got]
          /\ Become(p, [loc[p] EXCEPT !.mem =
               Record(m, q, v, got, asked)])
    BY DEF ScriptDone
  <1>1. PICK got \in {v, Broken} :
          /\ tree' = [tree EXCEPT ![q] = got]
          /\ Become(p, [loc[p] EXCEPT !.mem =
               Record(m, q, v, got, asked)])
    BY <1>0
  <1> DEFINE n == Record(m, q, v, got, asked)
  <1>2. q \in Pkg /\ m \in Document /\ got \in Content
    BY DEF TypeInv, TypeOK, HasPkg, ScriptDone, Local, Content
  <1>3. n \in Document
    <2>1. n.spec \in {Torn} \cup SUBSET Entries
      BY <1>2 DEF Document, Entries, Record
    <2>2. n.lock \in {Torn} \cup [Pkg -> Ver \cup {None}]
      BY <1>2 DEF Document, Record
    <2>3. n.man \in {Torn} \cup [Pkg -> Content]
      BY <1>2 DEF Document, Record
    <2>4. QED BY <2>1, <2>2, <2>3 DEF Document, Record
  <1>4. loc' \in [Procs -> Local] /\ \A r \in Procs \ {p} : loc'[r] = loc[r]
    <2>2. Become(p, [loc[p] EXCEPT !.mem = n])
      BY <1>1
    <2> HIDE DEF n
    <2>1. [loc[p] EXCEPT !.mem = n] \in Local
      BY <1>3, LocalMem DEF TypeInv, TypeOK
    <2>3. QED BY <2>1, <2>2, BecomeType DEF TypeInv, TypeOK
  <1>5. pc' \in [Procs -> AllPcs] /\ pc'[p] = "next" /\ \A r \in Procs \ {p} : pc'[r] = pc[r]
    BY DEF ScriptDone, TypeInv, TypeOK, Goto, AllPcs, ChangePcs, WorkPcs
  <1>6. HasPkg'
    BY <1>4, <1>5 DEF HasPkg, TypeInv
  <1>7. tree' \in [Pkg -> Content]
    BY <1>1, <1>2 DEF TypeInv, TypeOK
  <1>8. QED BY <1>4, <1>5, <1>6, <1>7 DEF ScriptDone, TypeInv, TypeOK, bounds

LEMMA UninstallType ==
  ASSUME TypeInv, NEW p \in Procs, UninstallOne(p) PROVE TypeInv'
  <1> DEFINE m == loc[p].mem
             n(q) == Forget(m, q)
  <1>0. PICK q \in loc[p].todo : \E del \in Deletions(Listed(m.man, q), tree[q]) :
          /\ tree' = [tree EXCEPT ![q] = del.left]
          /\ \/ /\ Installed(m.lock, q) /\ m.spec # Torn /\ m.man # Torn
                /\ Become(p, [[loc[p] EXCEPT !.todo = loc[p].todo \ {q}] EXCEPT !.mem = n(q)])
                /\ UNCHANGED pc
             \/ Goto(p, "unlock") /\ UNCHANGED loc
    BY DEF UninstallOne
  <1>1. PICK del \in Deletions(Listed(m.man, q), tree[q]) :
          /\ tree' = [tree EXCEPT ![q] = del.left]
          /\ \/ /\ Installed(m.lock, q) /\ m.spec # Torn /\ m.man # Torn
                /\ Become(p, [[loc[p] EXCEPT !.todo = loc[p].todo \ {q}] EXCEPT !.mem = n(q)])
                /\ UNCHANGED pc
             \/ Goto(p, "unlock") /\ UNCHANGED loc
    BY <1>0
  <1>2. loc[p] \in Local /\ q \in Pkg /\ m \in Document /\ loc[p].todo \in SUBSET Pkg
    BY DEF TypeInv, TypeOK, Local
  <1>3. tree[q] \in Content /\ Listed(m.man, q) \in Content
    BY <1>2 DEF TypeInv, TypeOK, Document, Listed, Content
  <1>4. del.left \in Content
    BY <1>1, <1>3, DeletionsType
  <1>5. tree' \in [Pkg -> Content]
    BY <1>1, <1>4 DEF TypeInv, TypeOK
  <1>6. pc' \in [Procs -> AllPcs] /\ loc' \in [Procs -> Local] /\ HasPkg'
    <2>1. CASE Goto(p, "unlock") /\ UNCHANGED loc
      <3>1. "unlock" \in AllPcs
        BY DEF AllPcs
      <3>2. QED BY <2>1, <3>1, GotoType
    <2>2. CASE /\ Installed(m.lock, q) /\ m.spec # Torn /\ m.man # Torn
               /\ Become(p, [[loc[p] EXCEPT !.todo = loc[p].todo \ {q}] EXCEPT !.mem = n(q)])
               /\ UNCHANGED pc
      <3>1. n(q) \in Document
        <4>1. n(q).spec \in SUBSET Entries
          BY <1>2, <2>2 DEF Document, Forget
        <4>2. n(q).lock \in [Pkg -> Ver \cup {None}]
          BY <1>2, <2>2 DEF Document, Installed, Forget
        <4>3. n(q).man \in [Pkg -> Content]
          BY <1>2, <2>2 DEF Document, Content, Forget
        <4>4. QED BY <4>1, <4>2, <4>3 DEF Document, Forget
      <3>2. loc' \in [Procs -> Local] /\ \A r \in Procs \ {p} : loc'[r] = loc[r]
        <4> HIDE DEF n
        <4>1. [[loc[p] EXCEPT !.todo = loc[p].todo \ {q}] EXCEPT !.mem = n(q)] \in Local
          BY <1>2, <3>1, LocalTodo, LocalMem
        <4>2. QED BY <4>1, <2>2, BecomeType DEF TypeInv, TypeOK
      <3>3. pc[p] = "next"
        BY DEF UninstallOne
      <3>4. QED BY <2>2, <3>2, <3>3 DEF TypeInv, TypeOK, HasPkg
    <2>3. QED BY <1>1, <2>1, <2>2
  <1>7. QED BY <1>5, <1>6 DEF UninstallOne, TypeInv, TypeOK, bounds

LEMMA TypeInvariant == Spec => []TypeInv
  <1>1. Init => TypeInv
    <2> SUFFICES ASSUME Init PROVE TypeInv
      OBVIOUS
    <2>1. loc \in [Procs -> Local]
      BY FreshType DEF Init
    <2>2. file \in Document /\ tree \in [Pkg -> Content]
      BY DEF Init, Document, Content, Entries, Empty
    <2>3. head \in [tree : [Pkg -> Content], man : {Torn} \cup [Pkg -> Content], dirty : BOOLEAN]
      BY DEF Init, Content, Empty
    <2>4. pc \in [Procs -> AllPcs] /\ HasPkg
      BY DEF Init, AllPcs, HasPkg
    <2>5. QED BY <2>1, <2>2, <2>3, <2>4 DEF Init, TypeOK, TypeInv
  <1>2. TypeInv /\ [Next]_vars => TypeInv'
    <2> SUFFICES ASSUME TypeInv, [Next]_vars PROVE TypeInv'
      OBVIOUS
    <2>1. CASE UNCHANGED vars
      BY <2>1 DEF TypeInv, TypeOK, HasPkg, vars
    <2>2. ASSUME NEW p \in Procs, NEW c \in Commands, Start(p, c) PROVE TypeInv'
      BY <2>2, StartType
    <2>3. ASSUME NEW p \in Procs, Step(p) PROVE TypeInv'
      BY <2>3, ReadType, EnsureType, WorkType, LeaveType, PlanType, FillType, EditType,
         RemoveOldType, ScriptDoneType, UninstallType DEF Step
    <2>4. ASSUME NEW p \in Procs, Die(p) PROVE TypeInv'
      BY <2>4, WorkType, LeaveType DEF Die
    <2>5. QED BY <2>1, <2>2, <2>3, <2>4 DEF Next
  <1>3. QED BY <1>1, <1>2, PTL DEF Spec

\* Every variable keeps its type, and a process that runs a script has a
\* package, whatever processes die and whatever they leave behind.
THEOREM TypeCorrect == Spec => []TypeOK
  <1>1. TypeInv => TypeOK
    BY DEF TypeInv
  <1>2. QED BY <1>1, TypeInvariant, PTL

(***************************************************************************)
(* The lock and .dirty                                                     *)
(***************************************************************************)
\* A command that locks, at one of these points, has the lock.
HoldPcs == ChangePcs \cup {"ensure", "unlock"}
Locked(p) == cmd[p] # "run" /\ pc[p] \in HoldPcs
\* The points `ttrek run' passes, without the lock.
RunPcs == {"read", "ensure", "initing", "running"} \cup CleanPcs

Blamed == blame \cap {"clean", "run", "reset"} # {}
Clean == tree = head.tree /\ file.man = head.man

ProcInv(p) ==
    /\ cmd[p] = "run" => pc[p] \in RunPcs
    /\ Locked(p) => flock = p
    /\ pc[p] \in WorkPcs \cup {"orphan"} => dirty \/ Blamed
    /\ pc[p] \in ChangePcs => git # "none"
    /\ pc[p] = "initing" => git = "unborn"
    /\ pc[p] = "halfcleaning" => "reset" \in blame
    /\ Locked(p) /\ pc[p] \in {"initing", "touch", "plan", "undirty"} => Clean \/ Blamed
    /\ ~ Locked(p) /\ pc[p] \in CleanPcs /\ flock # NoProc => "run" \in blame

OneInit == \A p, q \in Procs : pc[p] = "initing" /\ pc[q] = "initing" => p = q

GlobalInv ==
    /\ git # "born" => head.tree = Empty /\ head.man = Empty
    /\ git = "none" => ~dirty
    /\ DirtyGuards
    /\ OneInit

SafeInv == GlobalInv /\ \A p \in Procs : ProcInv(p)

\* A step of p: the other processes stay where they are.
Others(p) == \A q \in Procs \ {p} : pc'[q] = pc[q] /\ cmd'[q] = cmd[q]

-----------------------------------------------------------------------------
\* While p holds the lock nobody else is at a holding point of it.
LEMMA Alone ==
  ASSUME SafeInv, NEW p \in Procs, Locked(p), NEW q \in Procs \ {p}
  PROVE  ~ Locked(q) /\ flock = p
  BY DEF SafeInv, ProcInv

LEMMA GotoOthers ==
  ASSUME TypeOK, NEW p \in Procs, NEW s, Goto(p, s), cmd' = cmd
  PROVE  Others(p) /\ pc'[p] = s
  BY DEF Goto, TypeOK, Others

LEMMA EndOthers ==
  ASSUME TypeOK, NEW p \in Procs, End(p)
  PROVE  Others(p) /\ pc'[p] = "idle" /\ cmd'[p] = "none"
  BY DEF End, Goto, TypeOK, Others

\* What a process that does not move must be spared.
LEMMA Bystander ==
  ASSUME NEW q \in Procs, ProcInv(q), pc'[q] = pc[q], cmd'[q] = cmd[q],
         blame \subseteq blame', git # "none" => git' # "none",
         pc[q] = "initing" => git' = git,
         Locked(q) => /\ flock' = flock
                      /\ Blamed' \/ (dirty' = dirty /\ (Clean => Clean')),
         ~ Locked(q) /\ pc[q] \in CleanPcs /\ flock' # NoProc
            => flock' = flock \/ "run" \in blame'
  PROVE  ProcInv(q)'
  <1>1. Locked(q)' = Locked(q)
    BY DEF Locked
  <1>2. Blamed => Blamed'
    BY DEF Blamed
  <1>3. pc[q] \in WorkPcs \cup {"orphan"} => Locked(q)
    BY DEF ProcInv, Locked, RunPcs, CleanPcs, WorkPcs, HoldPcs, ChangePcs
  <1> HIDE DEF Locked
  <1>4. QED BY <1>1, <1>2, <1>3 DEF ProcInv

\* A step of p that leaves the lock as it is: only its own point is left to
\* check, when it has the lock, or nobody has, or the holder is not disturbed.
LEMMA MoveStep ==
  ASSUME TypeOK, SafeInv, NEW p \in Procs, Others(p), flock' = flock,
         blame \subseteq blame', git # "none" => git' # "none",
         \A q \in Procs \ {p} : pc[q] = "initing" => git' = git,
         \/ Locked(p) \/ flock = NoProc \/ Blamed'
         \/ dirty' = dirty /\ (Clean => Clean'),
         ProcInv(p)', GlobalInv'
  PROVE  SafeInv'
  <1>1. ASSUME NEW q \in Procs \ {p} PROVE ProcInv(q)'
    <2>1. ProcInv(q) /\ pc'[q] = pc[q] /\ cmd'[q] = cmd[q]
      BY DEF SafeInv, Others
    <2>2. Locked(q) => ~ Locked(p) /\ flock # NoProc
      BY <2>1, Alone, NullAssumption DEF ProcInv
    <2>3. QED BY <2>1, <2>2, Bystander
  <1>2. QED BY <1>1 DEF SafeInv

\* No second process creates the repository.
LEMMA InitOnce ==
  ASSUME SafeInv, NEW p \in Procs, Others(p),
         pc'[p] = "initing" => pc[p] = "initing" \/ git = "none"
  PROVE  OneInit'
  <1>1. \A q \in Procs : pc[q] = "initing" => git = "unborn"
    BY DEF SafeInv, ProcInv
  <1>2. QED BY <1>1 DEF SafeInv, GlobalInv, OneInit, Others

\* .dirty goes on guarding the tree when neither changes.
LEMMA GuardKept ==
  ASSUME SafeInv, NEW p \in Procs, Others(p), blame \subseteq blame', dirty' = dirty,
         Clean => Clean',
         pc[p] \in CleanPcs => pc'[p] \in CleanPcs \/ dirty \/ Blamed' \/ Clean'
  PROVE  DirtyGuards'
  <1>1. CASE dirty \/ Blamed' \/ Clean'
    BY <1>1 DEF DirtyGuards, Blamed, Clean
  <1>2. CASE ~ (dirty \/ Blamed' \/ Clean')
    <2>1. ~ Blamed /\ ~ Clean
      BY <1>2 DEF Blamed
    <2>2. PICK q \in Procs : pc[q] \in CleanPcs
      BY <1>2, <2>1 DEF SafeInv, GlobalInv, DirtyGuards, Blamed, Clean
    <2>3. pc'[q] \in CleanPcs
      BY <1>2, <2>2 DEF Others
    <2>4. QED BY <2>3 DEF DirtyGuards
  <1>3. QED BY <1>1, <1>2

\* A lock holder outside its own clean: without .dirty the tree is HEAD's.
LEMMA HolderGuard ==
  ASSUME SafeInv, NEW p \in Procs, Locked(p), pc[p] \notin CleanPcs
  PROVE  dirty \/ Blamed \/ Clean
  <1>1. ASSUME NEW q \in Procs, pc[q] \in CleanPcs PROVE Blamed
    <2>1. ~ Locked(q) /\ flock # NoProc
      BY <1>1, Alone, NullAssumption DEF SafeInv, ProcInv
    <2>2. "run" \in blame
      BY <1>1, <2>1 DEF SafeInv, ProcInv
    <2>3. QED BY <2>2 DEF Blamed
  <1>2. QED BY <1>1 DEF SafeInv, GlobalInv, DirtyGuards, Blamed, Clean

-----------------------------------------------------------------------------
\* A process that ends, by itself or killed, when it was not half way
\* through a clean that nobody is blamed for.
LEMMA EndStep ==
  ASSUME TypeOK, SafeInv, NEW p \in Procs, End(p), UNCHANGED <<dirty, head, git, file.man>>,
         blame \subseteq blame', tree' = tree \/ pc[p] = "orphan",
         pc[p] \in CleanPcs => dirty \/ Blamed'
  PROVE  SafeInv'
  <1>1. Others(p) /\ pc'[p] = "idle" /\ cmd'[p] = "none"
    BY EndOthers
  <1>2. ProcInv(p)'
    BY <1>1 DEF ProcInv, Locked, HoldPcs, ChangePcs, CleanPcs, WorkPcs
  <1>3. pc[p] = "orphan" => Locked(p) /\ (dirty \/ Blamed)
    BY DEF SafeInv, ProcInv, Locked, RunPcs, CleanPcs, HoldPcs, ChangePcs
  <1>4. ASSUME NEW q \in Procs \ {p} PROVE ProcInv(q)'
    <2>1. ProcInv(q) /\ pc'[q] = pc[q] /\ cmd'[q] = cmd[q]
      BY <1>1 DEF SafeInv, Others
    <2>2. flock' = flock \/ (flock = p /\ flock' = NoProc)
      BY DEF End
    <2>3. Locked(q) => flock' = flock /\ tree' = tree
      BY <1>3, <2>1, <2>2, Alone DEF ProcInv
    <2>4. QED BY <2>1, <2>2, <2>3, Bystander DEF Clean
  <1>5. DirtyGuards'
    <2>1. CASE tree' = tree
      BY <1>1, <2>1, GuardKept DEF Clean
    <2>2. CASE pc[p] = "orphan"
      BY <1>3, <2>2 DEF DirtyGuards, Blamed
    <2>3. QED BY <2>1, <2>2
  <1>6. GlobalInv'
    BY <1>1, <1>5, InitOnce DEF SafeInv, GlobalInv
  <1>7. QED BY <1>2, <1>4, <1>6 DEF SafeInv

LEMMA EndSteps ==
  ASSUME TypeOK, SafeInv, NEW p \in Procs,
         \/ LockBusy(p) \/ WriteNull(p) \/ Unlock(p) \/ RunDone(p)
         \/ EditSpecFill(p) \/ EditNull(p) \/ Crash(p) \/ OrphanDone(p)
  PROVE  SafeInv'
  <1>1. CASE LockBusy(p) \/ WriteNull(p) \/ Unlock(p) \/ RunDone(p) \/ EditNull(p) \/ OrphanDone(p)
    <2>1. pc[p] \notin CleanPcs
      BY <1>1 DEF LockBusy, WriteNull, Unlock, RunDone, EditNull, OrphanDone, MayWrite, CleanPcs
    <2>2. QED
      BY <1>1, <2>1, EndStep
      DEF LockBusy, WriteNull, Unlock, RunDone, EditNull, OrphanDone, disk
  <1>2. CASE EditSpecFill(p)
    <2>1. pc[p] \notin CleanPcs /\ file'.man = file.man
      BY <1>2 DEF EditSpecFill, CleanPcs, TypeOK, Document
    <2>2. QED BY <1>2, <2>1, EndStep DEF EditSpecFill
  <1>3. CASE Crash(p)
    <2>1. pc[p] \in CleanPcs => dirty \/ Blamed'
      BY <1>3 DEF Crash, BlameClean, Blamed
    <2>2. QED BY <1>3, <2>1, EndStep DEF Crash, disk
  <1>4. QED BY <1>1, <1>2, <1>3

\* Steps outside the lock that touch nothing the lock protects.
LEMMA FreeSteps ==
  ASSUME TypeOK, SafeInv, NEW p \in Procs,
         \/ \E c \in Commands : Start(p, c)
         \/ ReadFile(p) \/ EditSpec(p)
  PROVE  SafeInv'
  <1>1. UNCHANGED <<tree, dirty, head, git, file.man, flock>> /\ blame \subseteq blame'
    BY DEF Start, ReadFile, EditSpec, disk, TypeOK, Document
  <1>2. Others(p)
    BY DEF Start, ReadFile, EditSpec, Goto, TypeOK, Others
  <1>3. pc[p] \in {"idle", "read", "edit"}
    BY DEF Start, ReadFile, EditSpec
  <1>4. /\ pc'[p] \in {"read", "locking", "edit", "editfill"} \/ (pc'[p] = "ensure" /\ cmd'[p] = "run")
        /\ cmd'[p] = "run" => pc'[p] \in {"read", "ensure"}
    BY DEF Start, ReadFile, EditSpec, Goto, TypeOK, AfterRead, Locking, SafeInv, ProcInv, RunPcs,
       CleanPcs
  <1>5. ProcInv(p)'
    BY <1>4 DEF ProcInv, Locked, RunPcs, HoldPcs, ChangePcs, CleanPcs, WorkPcs
  <1>6. DirtyGuards'
    BY <1>1, <1>2, <1>3, GuardKept DEF Clean, CleanPcs
  <1>7. GlobalInv'
    BY <1>1, <1>2, <1>4, <1>6, InitOnce DEF SafeInv, GlobalInv
  <1>8. QED BY <1>1, <1>2, <1>5, <1>7, MoveStep DEF Clean

\* Taking the lock: nobody else was at a holding point, and a clean that is
\* under way is blamed.
LEMMA LockStep ==
  ASSUME TypeOK, SafeInv, NEW p \in Procs, LockFile(p) PROVE SafeInv'
  <1>1. \A q \in Procs : ~ Locked(q)
    BY NullAssumption DEF SafeInv, ProcInv, LockFile
  <1>2. Others(p) /\ pc'[p] = "ensure" /\ cmd' = cmd /\ pc[p] = "locking" /\ UNCHANGED disk
        /\ flock' = p /\ blame \subseteq blame'
    BY GotoOthers DEF LockFile
  <1>3. cmd[p] # "run"
    BY <1>2 DEF SafeInv, ProcInv, RunPcs, CleanPcs
  <1>4. ProcInv(p)'
    BY <1>2, <1>3 DEF ProcInv, Locked, RunPcs, HoldPcs, ChangePcs, CleanPcs, WorkPcs
  <1>5. ASSUME NEW q \in Procs \ {p} PROVE ProcInv(q)'
    <2>1. ProcInv(q) /\ pc'[q] = pc[q] /\ cmd'[q] = cmd[q]
      BY <1>2 DEF SafeInv, Others
    <2>2. pc[q] \in CleanPcs => "run" \in blame'
      BY DEF LockFile
    <2>3. QED BY <1>1, <1>2, <2>1, <2>2, Bystander DEF disk
  <1>6. GlobalInv'
    <2>1. DirtyGuards'
      BY <1>2, GuardKept DEF disk, Clean, CleanPcs
    <2>2. QED BY <1>2, <2>1, InitOnce DEF disk, SafeInv, GlobalInv
  <1>7. QED BY <1>4, <1>5, <1>6 DEF SafeInv

\* Work inside .dirty, between Touch and Undirty.
LEMMA WorkSteps ==
  ASSUME TypeOK, SafeInv, NEW p \in Procs,
         \/ Plan(p) \/ RemoveOld(p) \/ NoScript(p) \/ ScriptStart(p) \/ ScriptDone(p)
         \/ ScriptFails(p) \/ Restore(p) \/ UninstallOne(p) \/ Truncate(p) \/ Fill(p)
         \/ AmendFails(p) \/ CrashLeavingScript(p)
  PROVE  SafeInv'
  <1>1. PICK s \in (WorkPcs \ {"plan", "undirty"}) \cup {"orphan", "unlock"} : Goto(p, s)
    <2>1. CASE UninstallOne(p)
      <3>1. CASE Goto(p, "unlock")
        BY <3>1
      <3>2. CASE UNCHANGED pc
        <4>1. Goto(p, "next")
          BY <2>1, <3>2 DEF UninstallOne, Goto, TypeOK
        <4>2. QED BY <4>1 DEF WorkPcs
      <3>3. QED BY <2>1, <3>1, <3>2 DEF UninstallOne
    <2>2. CASE RemoveOld(p)
      BY <2>2 DEF RemoveOld, WorkPcs
    <2>3. CASE Fill(p)
      BY <2>3 DEF Fill, WorkPcs
    <2>4. CASE ScriptDone(p)
      BY <2>4 DEF ScriptDone, WorkPcs
    <2>5. CASE \/ Plan(p) \/ NoScript(p) \/ ScriptStart(p) \/ ScriptFails(p) \/ Restore(p)
               \/ Truncate(p) \/ AmendFails(p) \/ CrashLeavingScript(p)
      BY <2>5 DEF Plan, NoScript, ScriptStart, ScriptFails, Restore, Truncate, AmendFails,
         CrashLeavingScript, WorkPcs
    <2>6. QED BY <2>1, <2>2, <2>3, <2>4, <2>5
  <1>2. pc[p] \in WorkPcs
    BY DEF Plan, RemoveOld, NoScript, ScriptStart, ScriptDone, ScriptFails, Restore,
       UninstallOne, Truncate, Fill, AmendFails, CrashLeavingScript, MayWrite, WorkPcs
  <1>3. cmd' = cmd /\ flock' = flock /\ UNCHANGED <<dirty, git, head>> /\ blame \subseteq blame'
    BY DEF Plan, RemoveOld, NoScript, ScriptStart, ScriptDone, ScriptFails, Restore,
       UninstallOne, Truncate, Fill, AmendFails, CrashLeavingScript, disk
  <1>4. /\ ProcInv(p) /\ Locked(p) /\ (dirty \/ Blamed) /\ git # "none" /\ flock = p
    BY <1>2 DEF SafeInv, ProcInv, Locked, HoldPcs, ChangePcs, WorkPcs, RunPcs, CleanPcs
  <1>5. Others(p) /\ pc'[p] = s
    BY <1>1, <1>3, GotoOthers
  <1>6. ProcInv(p)'
    BY <1>1, <1>3, <1>4, <1>5 DEF ProcInv, Locked, Blamed, WorkPcs, CleanPcs
  <1>7. DirtyGuards'
    BY <1>3, <1>4 DEF DirtyGuards, Blamed
  <1>8. GlobalInv'
    <2>1. s # "initing"
      BY <1>1 DEF WorkPcs
    <2>2. QED BY <1>3, <1>5, <1>7, <2>1, InitOnce DEF SafeInv, GlobalInv
  <1>9. QED BY <1>3, <1>4, <1>5, <1>6, <1>8, MoveStep

\* `ttrek run' goes on to the user's command without a reset.
LEMMA RunSteps ==
  ASSUME TypeOK, SafeInv, NEW p \in Procs, cmd[p] = "run",
         NoResetNeeded(p) \/ ResetFails(p) \/ GiveUp(p)
  PROVE  SafeInv'
  <1>1. UNCHANGED <<disk, flock, cmd, blame>> /\ Goto(p, "running")
    BY DEF NoResetNeeded, ResetFails, GiveUp, AfterEnsure, Failed
  <1>2. Others(p) /\ pc'[p] = "running"
    BY <1>1, GotoOthers
  <1>3. pc[p] \notin CleanPcs
    BY DEF NoResetNeeded, ResetFails, GiveUp, CleanPcs
  <1>4. ProcInv(p)'
    BY <1>1, <1>2 DEF ProcInv, Locked, RunPcs, HoldPcs, ChangePcs, CleanPcs, WorkPcs
  <1>5. DirtyGuards'
    BY <1>1, <1>2, <1>3, GuardKept DEF disk, Clean
  <1>6. GlobalInv'
    BY <1>1, <1>2, <1>5, InitOnce DEF disk, SafeInv, GlobalInv
  <1>7. QED BY <1>1, <1>2, <1>4, <1>6, MoveStep DEF disk, Clean

\* The repository is created, by a lock holder or by `ttrek run'.
LEMMA InitSteps ==
  ASSUME TypeOK, SafeInv, NEW p \in Procs, GitInit(p) \/ GitInitCommit(p) PROVE SafeInv'
  <1>1. ProcInv(p) /\ GlobalInv
    BY DEF SafeInv
  <1>2. UNCHANGED <<file, tree, dirty, flock, cmd, blame>>
    BY DEF GitInit, GitInitCommit
  <1>3. pc[p] \notin CleanPcs
    BY DEF GitInit, GitInitCommit, CleanPcs
  <1>4. CASE GitInit(p)
    <2>1. /\ Others(p) /\ pc'[p] = "initing" /\ git = "none" /\ git' = "unborn" /\ head' = head
          /\ pc[p] = "ensure"
      BY <1>2, <1>4, GotoOthers DEF GitInit
    <2>2. \A q \in Procs : pc[q] # "initing"
      BY <2>1 DEF SafeInv, ProcInv
    <2>3. cmd[p] = "run" \/ Locked(p)
      BY <2>1 DEF Locked, HoldPcs
    <2>4. Locked(p) => Clean \/ Blamed
      BY <1>1, <1>3, <2>1, HolderGuard DEF GlobalInv
    <2>5. Locked(p)' => Locked(p)
      BY <1>2, <2>3 DEF Locked
    <2>6. ProcInv(p)'
      BY <1>1, <1>2, <2>1, <2>4, <2>5
      DEF ProcInv, RunPcs, CleanPcs, WorkPcs, Clean, Blamed
    <2>7. GlobalInv'
      BY <1>1, <1>2, <1>3, <2>1, GuardKept, InitOnce DEF GlobalInv, Clean
    <2>8. QED BY <1>2, <2>1, <2>2, <2>6, <2>7, MoveStep DEF Clean
  <1>5. CASE GitInitCommit(p)
    <2>1. /\ Others(p) /\ pc'[p] = AfterEnsure(cmd[p]) /\ git = "unborn" /\ git' = "born"
          /\ pc[p] = "initing"
      BY <1>1, <1>2, <1>5, GotoOthers DEF GitInitCommit, ProcInv
    <2>2. head'.tree = head.tree /\ head'.man = head.man
      BY <1>1, <1>5, <2>1 DEF GitInitCommit, GlobalInv
    <2>3. Clean' = Clean
      BY <1>2, <2>2 DEF Clean
    <2>4. Locked(p)' => Locked(p)
      BY <1>2, <2>1 DEF Locked, HoldPcs, ChangePcs
    <2>5. ProcInv(p)'
      BY <1>1, <1>2, <2>1, <2>3, <2>4
      DEF ProcInv, AfterEnsure, Locked, Blamed, RunPcs, HoldPcs, ChangePcs, CleanPcs, WorkPcs
    <2>6. \A q \in Procs \ {p} : pc[q] # "initing"
      BY <1>1, <2>1 DEF GlobalInv, OneInit
    <2>7. pc'[p] # "initing"
      BY <2>1 DEF AfterEnsure
    <2>8. GlobalInv'
      BY <1>1, <1>2, <1>3, <2>1, <2>2, <2>3, <2>7, GuardKept, InitOnce DEF GlobalInv
    <2>9. QED BY <1>2, <2>1, <2>3, <2>5, <2>6, <2>8, MoveStep
  <1>6. QED BY <1>4, <1>5

\* The steps of a lock holder that decide whether a reset is needed, make
\* .dirty, commit and remove .dirty.
LEMMA GuardSteps ==
  ASSUME TypeOK, SafeInv, NEW p \in Procs, cmd[p] # "run",
         \/ NoResetNeeded(p) \/ ResetFails(p) \/ Touch(p) \/ Abort(p) \/ GiveUp(p)
         \/ GitAmend(p) \/ Undirty(p)
  PROVE  SafeInv'
  <1>1. pc[p] \in {"ensure", "initing", "touch", "plan", "amend", "undirty"}
    BY DEF NoResetNeeded, ResetFails, Touch, Abort, GiveUp, GitAmend, Undirty
  <1>2. Locked(p) /\ ProcInv(p) /\ GlobalInv /\ flock = p
    BY <1>1 DEF SafeInv, ProcInv, Locked, HoldPcs, ChangePcs, CleanPcs, WorkPcs
  <1>3. pc[p] \notin CleanPcs
    BY <1>1 DEF CleanPcs
  <1>4. dirty \/ Blamed \/ Clean
    BY <1>2, <1>3, HolderGuard
  <1>5. UNCHANGED <<file, tree, git, flock, cmd, blame>>
    BY DEF NoResetNeeded, ResetFails, Touch, Abort, GiveUp, GitAmend, Undirty, disk
  <1>6. PICK s \in {"touch", "plan", "unlock", "undirty"} :
          /\ Goto(p, s)
          /\ s = "touch" => NoResetNeeded(p)
          /\ s = "plan" => Touch(p)
          /\ s = "undirty" => Abort(p) \/ GitAmend(p)
          /\ Undirty(p) => s = "unlock"
    BY DEF NoResetNeeded, ResetFails, Touch, Abort, GiveUp, GitAmend, Undirty, AfterEnsure, Failed
  <1>7. Others(p) /\ pc'[p] = s
    BY <1>5, <1>6, GotoOthers
  <1>8. CASE NoResetNeeded(p) \/ ResetFails(p) \/ Abort(p) \/ GiveUp(p)
    <2>1. UNCHANGED disk
      BY <1>8 DEF NoResetNeeded, ResetFails, Abort, GiveUp
    <2>2. ProcInv(p)'
      BY <1>2, <1>4, <1>5, <1>6, <1>7, <1>8, <2>1
      DEF ProcInv, disk, Clean, Blamed, NoResetNeeded, ResetFails, Abort, GiveUp, Touch, GitAmend,
          HoldPcs, ChangePcs, CleanPcs, WorkPcs
    <2>3. GlobalInv'
      BY <1>2, <1>3, <1>7, <2>1, <1>5, GuardKept, InitOnce DEF disk, GlobalInv, Clean
    <2>4. QED BY <1>2, <1>5, <1>7, <2>1, <2>2, <2>3, MoveStep DEF disk
  <1>9. CASE Touch(p)
    <2>1. s = "plan" /\ dirty' /\ head' = head /\ git # "none" /\ (Clean \/ Blamed)
      BY <1>2, <1>6, <1>7, <1>9 DEF Touch, ProcInv, ChangePcs, Goto, TypeOK
    <2>2. ProcInv(p)'
      BY <1>2, <1>5, <1>7, <2>1 DEF ProcInv, Clean, Blamed, CleanPcs
    <2>3. GlobalInv'
      BY <1>2, <1>5, <1>7, <2>1, InitOnce DEF GlobalInv, DirtyGuards
    <2>4. QED BY <1>2, <1>5, <1>7, <2>2, <2>3, MoveStep
  <1>10. CASE GitAmend(p)
    <2>1. s = "undirty" /\ dirty' = dirty /\ git = "born" /\ Clean' /\ (dirty \/ Blamed)
      BY <1>2, <1>6, <1>7, <1>10 DEF GitAmend, Goto, TypeOK, ProcInv, WorkPcs, Clean
    <2>2. ProcInv(p)'
      BY <1>2, <1>5, <1>7, <2>1 DEF ProcInv, Blamed, CleanPcs
    <2>3. GlobalInv'
      BY <1>2, <1>5, <1>7, <2>1, InitOnce DEF GlobalInv, DirtyGuards, Clean
    <2>4. QED BY <1>2, <1>5, <1>7, <2>2, <2>3, MoveStep
  <1>11. CASE Undirty(p)
    <2>1. s = "unlock" /\ (Clean \/ Blamed) /\ head' = head /\ dirty' = FALSE
      BY <1>2, <1>6, <1>11 DEF Undirty, ProcInv
    <2>2. ProcInv(p)'
      BY <1>2, <1>5, <1>7, <2>1 DEF ProcInv, WorkPcs, ChangePcs, CleanPcs
    <2>3. GlobalInv'
      BY <1>2, <1>5, <1>7, <2>1, InitOnce DEF GlobalInv, DirtyGuards, Clean, Blamed
    <2>4. QED BY <1>2, <1>5, <1>7, <2>2, <2>3, MoveStep
  <1>12. QED BY <1>8, <1>9, <1>10, <1>11

\* The reset and the clean, under the lock or by `ttrek run'.
LEMMA ResetSteps ==
  ASSUME TypeOK, SafeInv, NEW p \in Procs,
         GitReset(p) \/ GitResetFault(p) \/ GitClean(p) \/ GitCleanFails(p)
  PROVE  SafeInv'
  <1>1. ProcInv(p) /\ GlobalInv
    BY DEF SafeInv
  <1>2. pc[p] = "ensure" \/ pc[p] \in CleanPcs
    BY DEF GitReset, GitResetFault, GitClean, GitCleanFails
  <1>3. UNCHANGED <<head, git, flock, cmd>> /\ blame \subseteq blame'
    BY DEF GitReset, GitResetFault, GitClean, GitCleanFails, disk
  <1>4. Locked(p) \/ cmd[p] = "run"
    BY <1>2 DEF Locked, HoldPcs, ChangePcs
  <1>5. CASE GitReset(p) \/ GitResetFault(p)
    <2>1. PICK s \in CleanPcs : Goto(p, s) /\ (s = "halfcleaning" => "reset" \in blame')
      BY <1>5 DEF GitReset, GitResetFault, CleanPcs
    <2>2. Others(p) /\ pc'[p] = s /\ git = "born" /\ pc[p] = "ensure"
      BY <1>3, <1>5, <2>1, GotoOthers DEF GitReset, GitResetFault
    <2>3. Locked(p) \/ flock = NoProc \/ "run" \in blame'
      BY <1>4, <1>5 DEF GitReset, GitResetFault, BlameRun
    <2>4. Locked(p)' = Locked(p) /\ (Locked(p) => flock = p)
      BY <1>1, <1>3, <2>1, <2>2 DEF ProcInv, Locked, HoldPcs, ChangePcs
    <2>5. ProcInv(p)'
      <3>1. /\ s \in RunPcs
            /\ s \notin WorkPcs \cup {"orphan", "initing", "touch", "plan", "undirty"}
        BY <2>1 DEF CleanPcs, RunPcs, WorkPcs
      <3>2. QED BY <1>1, <1>3, <2>1, <2>2, <2>3, <2>4, <3>1 DEF ProcInv
    <2>6. GlobalInv'
      <3>1. DirtyGuards'
        BY <2>1, <2>2 DEF DirtyGuards
      <3>2. s # "initing"
        BY <2>1 DEF CleanPcs
      <3>3. QED BY <1>1, <1>3, <2>2, <3>1, <3>2, InitOnce DEF GlobalInv
    <2>7. QED BY <1>3, <2>2, <2>3, <2>5, <2>6, MoveStep DEF Blamed
  <1>6. CASE GitClean(p) \/ GitCleanFails(p)
    <2>1. PICK s \in {"touch", "unlock", "running"} :
            /\ Goto(p, s)
            /\ cmd[p] = "run" <=> s = "running"
            /\ s = "touch" => GitClean(p)
      BY <1>6 DEF GitClean, GitCleanFails, AfterEnsure, Failed
    <2>2. Others(p) /\ pc'[p] = s /\ pc[p] \in CleanPcs /\ dirty' = dirty /\ git # "none"
      BY <1>1, <1>3, <1>6, <2>1, GotoOthers DEF GitClean, GitCleanFails, disk, ProcInv, ChangePcs
    <2>3. Locked(p) \/ flock = NoProc \/ "run" \in blame
      BY <1>1, <2>2 DEF ProcInv
    <2>4. IF GitClean(p) THEN Clean' \/ Blamed' ELSE (Clean => Clean') /\ (dirty \/ Blamed')
      <3>1. CASE GitClean(p) /\ pc[p] = "cleaning"
        BY <3>1 DEF GitClean, Clean, TypeOK, Document
      <3>2. CASE GitClean(p) /\ pc[p] = "halfcleaning"
        BY <1>1, <1>3, <3>2 DEF ProcInv, Blamed
      <3>3. CASE ~ GitClean(p)
        BY <1>6, <3>3 DEF GitCleanFails, BlameClean, Blamed, Clean, disk
      <3>4. QED BY <2>2, <3>1, <3>2, <3>3 DEF CleanPcs
    <2>5. ProcInv(p)'
      <3>1. s \notin CleanPcs /\ s \notin WorkPcs \cup {"orphan", "initing", "halfcleaning", "undirty"}
        BY DEF CleanPcs, WorkPcs
      <3>2. Locked(p)' => Locked(p)
        BY <1>3, <1>4, <2>1, <2>2 DEF Locked
      <3>3. cmd'[p] = "run" => pc'[p] \in RunPcs
        BY <1>3, <2>1, <2>2 DEF RunPcs
      <3>4. pc'[p] \in {"initing", "touch", "plan", "undirty"} => Clean' \/ Blamed'
        BY <2>1, <2>2, <2>4, <3>1
      <3>5. QED BY <1>1, <1>3, <2>2, <3>1, <3>2, <3>3, <3>4 DEF ProcInv
    <2>6. GlobalInv'
      <3>1. DirtyGuards'
        BY <2>2, <2>4 DEF DirtyGuards, Clean, Blamed
      <3>2. QED BY <1>1, <1>3, <2>1, <2>2, <3>1, InitOnce DEF GlobalInv
    <2>7. Blamed' \/ (Clean => Clean')
      BY <2>4
    <2>8. "run" \in blame => Blamed'
      BY <1>3 DEF Blamed
    <2>9. QED BY <1>3, <2>2, <2>3, <2>5, <2>6, <2>8, MoveStep
  <1>7. QED BY <1>5, <1>6

-----------------------------------------------------------------------------
LEMMA SafeInvariant == Spec => []SafeInv
  <1>1. Init => SafeInv
    BY DEF Init, SafeInv, ProcInv, GlobalInv, OneInit, DirtyGuards, Locked, HoldPcs, ChangePcs,
       CleanPcs, WorkPcs, Clean
  <1>2. TypeOK /\ SafeInv /\ [Next]_vars => SafeInv'
    <2> SUFFICES ASSUME TypeOK, SafeInv, [Next]_vars PROVE SafeInv'
      OBVIOUS
    <2>1. CASE UNCHANGED vars
      BY <2>1 DEF vars, SafeInv, ProcInv, GlobalInv, OneInit, DirtyGuards, Locked, Clean, Blamed
    <2>2. ASSUME NEW p \in Procs, NEW c \in Commands, Start(p, c) PROVE SafeInv'
      BY <2>2, FreeSteps
    <2>3. ASSUME NEW p \in Procs, Step(p) PROVE SafeInv'
      <3>1. CASE \/ NoResetNeeded(p) \/ ResetFails(p) \/ Touch(p) \/ Abort(p) \/ GiveUp(p)
                 \/ GitAmend(p) \/ Undirty(p)
        <4>1. cmd[p] = "run" => ~ (Touch(p) \/ Abort(p) \/ GitAmend(p) \/ Undirty(p))
          BY DEF Touch, Abort, GitAmend, Undirty, SafeInv, ProcInv, RunPcs, CleanPcs
        <4>2. QED BY <3>1, <4>1, RunSteps, GuardSteps
      <3>2. QED
        BY <2>3, <3>1, FreeSteps, EndSteps, LockStep, WorkSteps, InitSteps, ResetSteps DEF Step
    <2>4. ASSUME NEW p \in Procs, Die(p) PROVE SafeInv'
      BY <2>4, EndSteps, WorkSteps DEF Die
    <2>5. QED BY <2>1, <2>2, <2>3, <2>4 DEF Next
  <1>3. QED BY <1>1, <1>2, TypeCorrect, PTL DEF Spec

\* The lock excludes: two processes are never both at a point that changes
\* the environment (ttrek_LockFile, taken by install, update and uninstall).
\* `ttrek run' resets the environment without it.
THEOREM LockExcludes ==
  ASSUME "run" \notin Commands PROVE Spec => []Exclusive
  <1>1. TypeOK /\ SafeInv => Exclusive
    BY NullAssumption DEF TypeOK, SafeInv, ProcInv, Exclusive, Locked, HoldPcs
  <1>2. QED BY <1>1, TypeCorrect, SafeInvariant, PTL

\* Without .dirty the work tree is the one of HEAD, whatever failed or died
\* before, unless a clean was interrupted, git_reset itself failed or
\* `ttrek run' reset the tree under a lock holder.
THEOREM DirtyGuarded == Spec => []DirtyGuards
  <1>1. SafeInv => DirtyGuards
    BY DEF SafeInv, GlobalInv
  <1>2. QED BY <1>1, SafeInvariant, PTL

-----------------------------------------------------------------------------
(***************************************************************************)
(* The transaction implements the abstract store: every step is the one    *)
(* step of PackageStore that its lock holder may take, or no step at all.  *)
(***************************************************************************)
DonePcs == {"undirty", "unlock"}
StoreStep == [Store!Next]_(Store!vars)

\* The holder (or another process) goes on without giving up the lock; it
\* changes what HEAD records only when it finishes.
LEMMA MoveStore ==
  ASSUME TypeOK, TypeOK', NEW p \in Procs, NEW s, Goto(p, s), flock' = flock,
         pc[p] \in DonePcs => s \in DonePcs,
         \/ head'.tree = head.tree
         \/ flock = p /\ pc[p] \notin DonePcs /\ s \in DonePcs
  PROVE  StoreStep
  <1>1. pc'[p] = s /\ \A q \in Procs \ {p} : pc'[q] = pc[q]
    BY DEF Goto, TypeOK
  <1>2. p # NoProc /\ flock \in Procs \cup {NoProc} /\ head'.tree \in Store!Snapshots
    BY NullAssumption DEF TypeOK, Content, Store!Snapshots
  <1>3. CASE flock = p /\ pc[p] \notin DonePcs /\ s \in DonePcs
    <2>1. Store!Finish
      BY <1>1, <1>2, <1>3 DEF Store!Finish, DonePcs
    <2>2. QED BY <2>1 DEF StoreStep, Store!Next
  <1>4. CASE ~ (flock = p /\ pc[p] \notin DonePcs /\ s \in DonePcs)
    <2>1. UNCHANGED Store!vars
      BY <1>1, <1>2, <1>4 DEF Store!vars, DonePcs
    <2>2. QED BY <2>1 DEF StoreStep
  <1>5. QED BY <1>3, <1>4

\* A process ends: it releases the lock if it holds it.
LEMMA EndStore ==
  ASSUME TypeOK, NEW p \in Procs, End(p), head' = head PROVE StoreStep
  <1>1. \A q \in Procs \ {p} : pc'[q] = pc[q]
    BY DEF End, Goto, TypeOK
  <1>2. p # NoProc /\ flock \in Procs \cup {NoProc}
    BY NullAssumption DEF TypeOK
  <1>3. CASE flock = p
    <2>1. Store!Release
      BY <1>2, <1>3 DEF End, Store!Release
    <2>2. QED BY <2>1 DEF StoreStep, Store!Next
  <1>4. CASE flock # p
    <2>1. UNCHANGED Store!vars
      BY <1>1, <1>2, <1>4 DEF End, Store!vars
    <2>2. QED BY <2>1 DEF StoreStep
  <1>5. QED BY <1>3, <1>4

LEMMA LockStore ==
  ASSUME TypeOK, NEW p \in Procs, LockFile(p) PROVE StoreStep
  <1>1. Store!Acquire(p)
    BY NullAssumption DEF LockFile, disk, Goto, TypeOK, Store!Acquire
  <1>2. QED BY <1>1 DEF StoreStep, Store!Next

\* Steps that keep the lock and leave HEAD alone.
LEMMA KeepStore ==
  ASSUME TypeOK, TypeOK', SafeInv, NEW p \in Procs,
         \/ \E c \in Commands : Start(p, c)
         \/ ReadFile(p) \/ EditSpec(p) \/ GitInit(p) \/ NoResetNeeded(p) \/ ResetFails(p)
         \/ GitReset(p) \/ GitResetFault(p) \/ GitClean(p) \/ GitCleanFails(p)
         \/ Touch(p) \/ Plan(p) \/ Abort(p) \/ GiveUp(p) \/ RemoveOld(p) \/ NoScript(p)
         \/ ScriptStart(p) \/ ScriptDone(p) \/ ScriptFails(p) \/ Restore(p) \/ UninstallOne(p)
         \/ Truncate(p) \/ Fill(p) \/ AmendFails(p) \/ Undirty(p) \/ CrashLeavingScript(p)
  PROVE  StoreStep
  <1>1. flock' = flock /\ head' = head
    BY DEF Start, ReadFile, EditSpec, GitInit, NoResetNeeded, ResetFails, GitReset,
       GitResetFault, GitClean, GitCleanFails, Touch, Plan, Abort, GiveUp, RemoveOld, NoScript,
       ScriptStart, ScriptDone, ScriptFails, Restore, UninstallOne, Truncate, Fill, AmendFails,
       Undirty, CrashLeavingScript, disk
  <1>2. pc[p] \in DonePcs => pc'[p] \in DonePcs
    BY DEF Start, ReadFile, EditSpec, GitInit, NoResetNeeded, ResetFails, GitReset,
       GitResetFault, GitClean, GitCleanFails, Touch, Plan, Abort, GiveUp, RemoveOld, NoScript,
       ScriptStart, ScriptDone, ScriptFails, Restore, UninstallOne, Truncate, Fill, AmendFails,
       Undirty, CrashLeavingScript, DonePcs, CleanPcs, MayWrite, Goto, TypeOK
  <1>3. Goto(p, pc'[p])
    <2>1. CASE pc' = pc
      BY <2>1 DEF Goto, TypeOK
    <2>2. CASE \E s : Goto(p, s)
      BY <2>2 DEF Goto, TypeOK
    <2>3. CASE ReadFile(p) \/ UninstallOne(p)
      BY <2>1, <2>2, <2>3 DEF ReadFile, UninstallOne
    <2>4. CASE ~ (ReadFile(p) \/ UninstallOne(p))
      BY <2>2, <2>4 DEF Start, EditSpec, GitInit, NoResetNeeded, ResetFails, GitReset,
         GitResetFault, GitClean, GitCleanFails, Touch, Plan, Abort, GiveUp, RemoveOld, NoScript,
         ScriptStart, ScriptDone, ScriptFails, Restore, Truncate, Fill, AmendFails, Undirty,
         CrashLeavingScript
    <2>5. QED BY <2>3, <2>4
  <1>4. QED BY <1>1, <1>2, <1>3, MoveStore

LEMMA CommitStore ==
  ASSUME TypeOK, TypeOK', SafeInv, NEW p \in Procs, GitInitCommit(p) \/ GitAmend(p)
  PROVE  StoreStep
  <1>1. CASE GitAmend(p)
    <2>1. flock = p /\ pc[p] \notin DonePcs
      BY <1>1 DEF GitAmend, SafeInv, ProcInv, Locked, RunPcs, CleanPcs, HoldPcs, ChangePcs,
         WorkPcs, DonePcs
    <2>2. "undirty" \in DonePcs
      BY DEF DonePcs
    <2>3. QED BY <1>1, <2>1, <2>2, MoveStore DEF GitAmend
  <1>2. CASE GitInitCommit(p)
    <2>1. head'.tree = head.tree
      BY <1>2 DEF GitInitCommit, SafeInv, ProcInv, GlobalInv
    <2>2. pc[p] \notin DonePcs
      BY <1>2 DEF GitInitCommit, DonePcs
    <2>3. QED BY <1>2, <2>1, <2>2, MoveStore DEF GitInitCommit
  <1>3. QED BY <1>1, <1>2

\* HEAD changes only by one whole commit of the command that holds the lock
\* (ttrek_GitAmend): the transaction implements PackageStore.
THEOREM StoreImplemented == Spec => ImplementsStore
  <1>1. Init => Store!Init
    BY DEF Init, Empty, Store!Init
  <1>2. TypeOK /\ TypeOK' /\ SafeInv /\ [Next]_vars => StoreStep
    <2> SUFFICES ASSUME TypeOK, TypeOK', SafeInv, [Next]_vars PROVE StoreStep
      OBVIOUS
    <2>1. CASE UNCHANGED vars
      BY <2>1 DEF vars, StoreStep, Store!vars
    <2>2. ASSUME NEW p \in Procs, NEW c \in Commands, Start(p, c) PROVE StoreStep
      BY <2>2, KeepStore
    <2>3. ASSUME NEW p \in Procs, Step(p) PROVE StoreStep
      <3>1. CASE \/ LockBusy(p) \/ WriteNull(p) \/ Unlock(p) \/ RunDone(p) \/ EditSpecFill(p)
                 \/ EditNull(p) \/ OrphanDone(p)
        BY <3>1, EndStore DEF LockBusy, WriteNull, Unlock, RunDone, EditSpecFill, EditNull,
           OrphanDone, disk
      <3>2. CASE LockFile(p)
        BY <3>2, LockStore
      <3>3. CASE GitInitCommit(p) \/ GitAmend(p)
        BY <3>3, CommitStore
      <3>4. QED BY <2>3, <3>1, <3>2, <3>3, KeepStore DEF Step
    <2>4. ASSUME NEW p \in Procs, Die(p) PROVE StoreStep
      BY <2>4, EndStore, KeepStore DEF Die, Crash, disk
    <2>5. QED BY <2>1, <2>2, <2>3, <2>4 DEF Next
  <1>3. TypeOK /\ TypeOK' /\ SafeInv /\ [Next]_vars => [Store!Next]_(Store!vars)
    BY <1>2 DEF StoreStep
  <1>4. QED
    BY <1>1, <1>3, TypeCorrect, SafeInvariant, PTL DEF Spec, ImplementsStore, Store!Spec

-----------------------------------------------------------------------------
(***************************************************************************)
(* The documents, the tree and HEAD.  As long as none of the hazards       *)
(* happened, what HEAD records is what ttrek-lock.json and the manifest    *)
(* list, except between a holder's first new document and its amend; and   *)
(* the documents a holder carries describe the tree it works on.           *)
(***************************************************************************)
\* Every package of a spec file that can be read is locked.
SpecOK(s, l) == s # Torn => \A q \in s \cap Pkg : l[q] # None

Settled == /\ file.lock = head.tree
           /\ file.man = head.tree
           /\ SpecOK(file.spec, file.lock)

\* p has begun to replace the documents and has not amended HEAD.
Committing(p) == \/ pc[p] \in {"write", "amend"}
                 \/ pc[p] = "fill" /\ loc[p].at # "spec"

\* The documents m describe the tree t, the packages of X apart.
Describes(m, X, t) ==
    /\ m.lock # Torn /\ m.man # Torn
    /\ \A q \in Pkg \ X : m.lock[q] = t[q] /\ m.man[q] = t[q]
    /\ SpecOK(m.spec, m.lock)

HolderMatch(p) ==
    /\ Locked(p) /\ pc[p] \in {"ensure", "initing", "touch", "plan"} \cup CleanPcs
          => loc[p].mem = file
    /\ pc[p] \in {"next", "script", "child"} => loc[p].at = "spec"
    /\ pc[p] \in {"next", "write", "fill", "amend"} => Describes(loc[p].mem, {}, tree)
    /\ pc[p] \in {"script", "child"} => loc[p].clear /\ Describes(loc[p].mem, {loc[p].pkg}, tree)
    /\ pc[p] \in {"write", "fill", "amend"} => loc[p].mem.spec # Torn
    /\ Committing(p) => file.spec = loc[p].mem.spec /\ loc[p].at # "spec"
    /\ Committing(p) /\ loc[p].at = "man" => file.lock = loc[p].mem.lock
    /\ pc[p] = "amend" => file.man = loc[p].mem.man /\ loc[p].at = "man"

\* Between `ttrek use' truncating ttrek.json and writing it again.
EditMatch(p) ==
    pc[p] = "editfill" =>
        /\ file.spec = Torn
        /\ SpecOK(loc[p].mem.spec, file.lock)
        /\ \A q \in Procs : Locked(q) => loc[q].mem.spec = Torn
        /\ \A q \in Procs : pc[q] = "editfill" => p = q

Agreement ==
    /\ head.man = head.tree
    /\ Settled \/ \E p \in Procs : Committing(p)
    /\ \A p \in Procs : HolderMatch(p) /\ EditMatch(p)

MatchInv == blame = {} => Agreement

-----------------------------------------------------------------------------
LEMMA CommittingLocked ==
  ASSUME SafeInv, NEW p \in Procs, Committing(p) PROVE Locked(p)
  BY DEF SafeInv, ProcInv, Committing, Locked, RunPcs, CleanPcs, HoldPcs, ChangePcs, WorkPcs

\* Nobody else commits while p has the lock.
LEMMA SettledNow ==
  ASSUME SafeInv, Agreement, NEW p \in Procs, Locked(p), ~ Committing(p)
  PROVE  Settled
  BY CommittingLocked, Alone DEF Agreement

LEMMA SettledFree ==
  ASSUME SafeInv, Agreement, flock = NoProc
  PROVE  Settled /\ \A p \in Procs : ~ Locked(p)
  BY CommittingLocked, NullAssumption DEF Agreement, SafeInv, ProcInv

\* A process outside the lock makes no promise about the documents.
LEMMA OutsideMatch ==
  ASSUME NEW q \in Procs, ~ Locked(q)', cmd'[q] = "run" => pc'[q] \in RunPcs
  PROVE  HolderMatch(q)'
  BY DEF HolderMatch, Locked, Committing, Describes, RunPcs, CleanPcs, HoldPcs, ChangePcs, WorkPcs

\* A step of the lock holder: its own point is left to check, and that it
\* leaves ttrek.json and the lock file alone while somebody edits the former.
LEMMA HolderAgree ==
  ASSUME SafeInv, SafeInv', Agreement, NEW p \in Procs, Locked(p), Others(p),
         \A q \in Procs \ {p} : loc'[q] = loc[q],
         loc[p].mem.spec = Torn => /\ file'.spec = file.spec /\ file'.lock = file.lock
                                   /\ loc'[p].mem.spec = Torn,
         pc'[p] # "editfill",
         head'.man = head'.tree, Settled' \/ Committing(p)', HolderMatch(p)'
  PROVE  Agreement'
  <1>1. ASSUME NEW q \in Procs PROVE HolderMatch(q)' /\ EditMatch(q)'
    <2>1. CASE q = p
      BY <2>1 DEF EditMatch
    <2>2. CASE q # p
      <3>1. ~ Locked(q)' /\ pc'[q] = pc[q] /\ cmd'[q] = cmd[q] /\ loc'[q] = loc[q]
        BY <2>2, Alone DEF Locked, Others
      <3>2. HolderMatch(q)'
        BY <3>1, OutsideMatch DEF SafeInv, ProcInv
      <3>3. EditMatch(q)'
        <4>1. SUFFICES ASSUME pc[q] = "editfill" PROVE EditMatch(q)'
          BY <3>1 DEF EditMatch
        <4>2. /\ file.spec = Torn /\ SpecOK(loc[q].mem.spec, file.lock)
              /\ loc[p].mem.spec = Torn
              /\ \A r \in Procs : pc[r] = "editfill" => q = r
          BY <4>1 DEF Agreement, EditMatch
        <4>3. \A r \in Procs \ {p} : ~ Locked(r)'
          BY Alone DEF Locked, Others
        <4>4. QED BY <3>1, <4>2, <4>3 DEF EditMatch, SpecOK, Others
      <3>4. QED BY <3>2, <3>3
    <2>3. QED BY <2>1, <2>2
  <1>2. QED BY <1>1 DEF Agreement

\* A step that leaves p without the lock and changes no document, and the
\* tree only if nobody else has the lock.
LEMMA OutsideAgree ==
  ASSUME SafeInv, SafeInv', Agreement, NEW p \in Procs, ~ Committing(p), ~ Locked(p)', Others(p),
         \A q \in Procs \ {p} : loc'[q] = loc[q],
         file' = file, head'.tree = head.tree, head'.man = head.man, pc'[p] # "editfill",
         tree' = tree \/ \A q \in Procs \ {p} : ~ Locked(q)
  PROVE  Agreement'
  <1>1. \A q \in Procs : ~ Locked(q) => ~ Locked(q)'
    BY DEF Locked, Others
  <1>2. ASSUME NEW q \in Procs PROVE HolderMatch(q)'
    <2>1. CASE ~ Locked(q) \/ q = p
      BY <1>1, <2>1, OutsideMatch DEF SafeInv, ProcInv
    <2>2. CASE Locked(q) /\ q # p
      <3>1. pc'[q] = pc[q] /\ cmd'[q] = cmd[q] /\ loc'[q] = loc[q] /\ tree' = tree
        BY <2>2 DEF Others
      <3>2. QED BY <3>1 DEF Agreement, HolderMatch, Locked, Committing, Describes
    <2>3. QED BY <2>1, <2>2
  <1>3. ASSUME NEW q \in Procs PROVE EditMatch(q)'
    <2>1. SUFFICES ASSUME pc'[q] = "editfill" PROVE EditMatch(q)'
      BY DEF EditMatch
    <2>2. q # p /\ pc[q] = "editfill" /\ loc'[q] = loc[q]
      BY <2>1 DEF Others
    <2>3. ASSUME NEW r \in Procs PROVE (Locked(r)' => loc'[r].mem.spec = Torn)
                                       /\ (pc'[r] = "editfill" => q = r)
      <3>1. (Locked(r)' => Locked(r) /\ loc'[r] = loc[r]) /\ (pc'[r] = "editfill" => pc[r] = "editfill")
        BY <1>1 DEF Others
      <3>2. QED BY <2>2, <3>1 DEF Agreement, EditMatch
    <2>4. QED BY <2>2, <2>3 DEF Agreement, EditMatch, SpecOK
  <1>4. Settled' \/ \E q \in Procs : Committing(q)'
    <2>1. CASE Settled
      BY <2>1 DEF Settled, SpecOK
    <2>2. ASSUME NEW q \in Procs, Committing(q) PROVE Committing(q)'
      BY <2>2 DEF Committing, Others
    <2>3. QED BY <2>1, <2>2 DEF Agreement
  <1>5. QED BY <1>2, <1>3, <1>4 DEF Agreement

-----------------------------------------------------------------------------
\* Steps of the holder outside the rewriting of the documents: they leave the
\* documents, and what HEAD records, as they are.
LEMMA QuietAgree ==
  ASSUME TypeOK, SafeInv, SafeInv', Agreement, NEW p \in Procs, NEW s, Locked(p),
         ~ Committing(p), Goto(p, s), cmd' = cmd, loc' = loc, file' = file,
         head'.tree = head.tree, head'.man = head.man,
         \/ s \in {"unlock", "undirty", "restore", "orphan"}
         \/ /\ s \in {"initing", "touch", "plan", "cleaning"}
            /\ pc[p] \in {"ensure", "initing", "touch"} \cup CleanPcs
  PROVE  Agreement'
  <1>1. Others(p) /\ pc'[p] = s
    BY GotoOthers
  <1>2. Settled'
    BY SettledNow DEF Settled, SpecOK
  <1>3. pc[p] \in {"ensure", "initing", "touch"} \cup CleanPcs => loc[p].mem = file
    BY DEF Agreement, HolderMatch, CleanPcs
  <1>4. HolderMatch(p)'
    BY <1>1, <1>3 DEF HolderMatch, Committing, CleanPcs
  <1>5. QED BY <1>1, <1>2, <1>4, HolderAgree DEF Agreement

LEMMA QuietSteps ==
  ASSUME TypeOK, SafeInv, SafeInv', Agreement, blame' = {}, NEW p \in Procs, cmd[p] # "run",
         \/ GitInit(p) \/ GitInitCommit(p) \/ NoResetNeeded(p) \/ ResetFails(p)
         \/ GitReset(p) \/ GitResetFault(p) \/ GitClean(p) \/ GitCleanFails(p)
         \/ Touch(p) \/ Abort(p) \/ GiveUp(p) \/ NoScript(p) \/ ScriptFails(p)
         \/ Restore(p) \/ AmendFails(p) \/ Undirty(p) \/ CrashLeavingScript(p)
  PROVE  Agreement'
  <1>1. AfterEnsure(cmd[p]) = "touch" /\ Failed(cmd[p]) = "unlock"
    BY DEF AfterEnsure, Failed
  <1>2. CASE AmendFails(p)
    BY <1>2 DEF AmendFails, BlameCommit
  <1>3. CASE GitResetFault(p)
    BY <1>3 DEF GitResetFault
  <1>4. CASE ~ AmendFails(p) /\ ~ GitResetFault(p)
    <2>1. /\ pc[p] \in {"ensure", "initing", "touch", "plan", "script", "child", "restore", "undirty"}
                         \cup CleanPcs
          /\ cmd' = cmd /\ loc' = loc
      BY <1>4 DEF GitInit, GitInitCommit, NoResetNeeded, ResetFails, GitReset, GitClean,
         GitCleanFails, Touch, Abort, GiveUp, NoScript, ScriptFails, Restore, Undirty,
         CrashLeavingScript
    <2>2. Locked(p) /\ ~ Committing(p)
      BY <2>1 DEF Locked, Committing, HoldPcs, ChangePcs, WorkPcs, CleanPcs
    <2>3. Settled /\ head.man = head.tree
      BY <2>2, SettledNow DEF Agreement
    <2>4. head'.tree = head.tree /\ head'.man = head.man
      <3>1. CASE GitInitCommit(p)
        BY <3>1 DEF GitInitCommit, SafeInv, ProcInv, GlobalInv
      <3>2. CASE ~ GitInitCommit(p)
        BY <1>4, <3>2 DEF GitInit, NoResetNeeded, ResetFails, GitReset, GitClean,
           GitCleanFails, Touch, Abort, GiveUp, NoScript, ScriptFails, Restore, Undirty,
           CrashLeavingScript, disk
      <3>3. QED BY <3>1, <3>2
    <2>5. file' = file
      <3>1. CASE GitReset(p)
        <4>1. file' = [file EXCEPT !.man = file.man]
          BY <2>3, <3>1 DEF GitReset, Settled
        <4>2. QED BY <4>1 DEF TypeOK, Document
      <3>2. CASE GitClean(p)
        <4>1. pc[p] = "cleaning"
          BY <3>2 DEF GitClean, SafeInv, ProcInv, CleanPcs
        <4>2. file' = [file EXCEPT !.man = file.man]
          BY <2>3, <3>2, <4>1 DEF GitClean, Settled
        <4>3. QED BY <4>2 DEF TypeOK, Document
      <3>3. CASE ~ GitReset(p) /\ ~ GitClean(p)
        BY <1>4, <3>3 DEF GitInit, GitInitCommit, NoResetNeeded, ResetFails, GitCleanFails, Touch,
           Abort, GiveUp, NoScript, ScriptFails, Restore, Undirty, CrashLeavingScript, disk
      <3>4. QED BY <3>1, <3>2, <3>3
    <2>6. PICK s \in {"unlock", "undirty", "restore", "orphan", "initing", "touch", "plan", "cleaning"} :
            /\ Goto(p, s)
            /\ s \in {"initing", "touch", "plan", "cleaning"}
                  => pc[p] \in {"ensure", "initing", "touch"} \cup CleanPcs
      BY <1>1, <1>4 DEF GitInit, GitInitCommit, NoResetNeeded, ResetFails, GitReset, GitClean,
         GitCleanFails, Touch, Abort, GiveUp, NoScript, ScriptFails, Restore, Undirty,
         CrashLeavingScript
    <2>7. QED BY <2>1, <2>2, <2>4, <2>5, <2>6, QuietAgree
  <1>5. QED BY <1>2, <1>3, <1>4

\* The plan starts from documents that describe the tree.
LEMMA PlanAgree ==
  ASSUME TypeOK, SafeInv, SafeInv', Agreement, blame' = {}, NEW p \in Procs, Plan(p)
  PROVE  Agreement'
  <1>1. Locked(p) /\ ~ Committing(p) /\ Clean
    BY DEF Plan, SafeInv, ProcInv, Blamed, Locked, Committing, RunPcs, CleanPcs, HoldPcs,
       ChangePcs, WorkPcs
  <1>2. Settled /\ loc[p].mem = file
    BY <1>1, SettledNow DEF Plan, Agreement, HolderMatch
  <1>3. PICK S : Become(p, [loc[p] EXCEPT !.todo = S, !.at = "spec"])
    BY DEF Plan
  <1>4. /\ loc'[p].mem = file /\ loc'[p].at = "spec"
        /\ \A q \in Procs \ {p} : loc'[q] = loc[q]
    BY <1>2, <1>3 DEF Become, TypeOK, Local
  <1>5. Others(p) /\ pc'[p] = "next" /\ file' = file /\ tree' = tree /\ head' = head
    BY GotoOthers DEF Plan, disk
  <1>6. Describes(file, {}, tree)
    <2>1. file.lock = tree /\ file.man = tree /\ SpecOK(file.spec, file.lock)
      BY <1>1, <1>2 DEF Clean, Settled
    <2>2. tree # Torn
      BY DataAssumption DEF TypeOK
    <2>3. QED BY <2>1, <2>2 DEF Describes
  <1>7. Settled' /\ HolderMatch(p)'
    <2>1. Settled'
      BY <1>2, <1>5 DEF Settled, SpecOK
    <2>2. Describes(loc'[p].mem, {}, tree')
      BY <1>4, <1>5, <1>6 DEF Describes, SpecOK
    <2>3. HolderMatch(p)'
      BY <1>4, <1>5, <2>2 DEF HolderMatch, Committing, CleanPcs
    <2>4. QED BY <2>1, <2>3
  <1>8. QED BY <1>1, <1>2, <1>4, <1>5, <1>7, HolderAgree DEF Agreement

\* The fields of a local state that a package's removal sets and keeps.
LEMMA JobFields ==
  ASSUME NEW l \in Local, NEW S, NEW q, NEW b, NEW k
  PROVE  LET n == [l EXCEPT !.todo = S, !.pkg = q, !.clear = b, !.kept = k]
         IN  n.mem = l.mem /\ n.at = l.at /\ n.pkg = q /\ n.clear = b
  BY DEF Local

LEMMA RemoveOldAgree ==
  ASSUME TypeOK, SafeInv, SafeInv', Agreement, blame' = {}, NEW p \in Procs, RemoveOld(p)
  PROVE  Agreement'
  <1> DEFINE m == loc[p].mem
             known(q) == Installed(m.lock, q)
             listed(q) == IF known(q) THEN Listed(m.man, q) ELSE None
             k(q) == [loc[p].kept EXCEPT ![q] = Backup(known(q), tree[q])]
  <1>1. Locked(p) /\ ~ Committing(p) /\ pc[p] = "next"
    BY DEF RemoveOld, SafeInv, ProcInv, Locked, Committing, HoldPcs, ChangePcs, WorkPcs
  <1>2. Settled /\ Describes(m, {}, tree) /\ loc[p].at = "spec" /\ head.man = head.tree
    BY <1>1, SettledNow DEF Agreement, HolderMatch
  <1>3. PICK q \in loc[p].todo : \E del \in Deletions(listed(q), tree[q]) :
          /\ tree' = [tree EXCEPT ![q] = del.left]
          /\ Become(p, [loc[p] EXCEPT !.todo = loc[p].todo \ {q}, !.pkg = q,
                                      !.clear = (del.left = None), !.kept = k(q)])
          /\ Goto(p, IF del.ok THEN "script" ELSE "restore")
    BY DEF RemoveOld
  <1>4. PICK del \in Deletions(listed(q), tree[q]) :
          /\ tree' = [tree EXCEPT ![q] = del.left]
          /\ Become(p, [loc[p] EXCEPT !.todo = loc[p].todo \ {q}, !.pkg = q,
                                      !.clear = (del.left = None), !.kept = k(q)])
          /\ Goto(p, IF del.ok THEN "script" ELSE "restore")
    BY <1>3
  <1>5. q \in Pkg /\ loc[p] \in Local
    BY DEF TypeOK, Local
  <1>6. del.ok /\ del.left = None
    <2>1. m.lock[q] = tree[q] /\ m.man[q] = tree[q] /\ m.lock # Torn /\ m.man # Torn
      BY <1>2, <1>5 DEF Describes
    <2>2. tree[q] # Broken
      <3>1. m.lock \in [Pkg -> Ver \cup {None}]
        BY <1>5, <2>1 DEF Local, Document
      <3>2. QED BY <1>5, <2>1, <3>1, NullAssumption
    <2>3. listed(q) = tree[q]
      BY <2>1 DEF Installed, Listed
    <2>4. QED
      <3> HIDE DEF listed
      <3> QED BY <2>2, <2>3 DEF Deletions
  <1>7. /\ loc'[p].mem = m /\ loc'[p].at = "spec" /\ loc'[p].pkg = q /\ loc'[p].clear
        /\ \A r \in Procs \ {p} : loc'[r] = loc[r]
    <2> DEFINE b == del.left = None
               kq == k(q)
               rest == loc[p].todo \ {q}
               n == [loc[p] EXCEPT !.todo = rest, !.pkg = q, !.clear = b, !.kept = kq]
    <2>1. Become(p, n)
      BY <1>4
    <2>2. b
      BY <1>6
    <2>3. n.mem = loc[p].mem /\ n.at = loc[p].at /\ n.pkg = q /\ n.clear = b
      <3> HIDE DEF kq, b, rest
      <3> QED BY <1>5, JobFields
    <2> HIDE DEF n, b
    <2>4. QED BY <1>2, <2>1, <2>2, <2>3 DEF Become, TypeOK
  <1>8. Others(p) /\ pc'[p] = "script" /\ file' = file /\ head' = head
    BY <1>4, <1>6, GotoOthers DEF RemoveOld
  <1>9. tree' = [tree EXCEPT ![q] = None]
    BY <1>4, <1>6
  <1>10. HolderMatch(p)'
    <2>1. Describes(m, {q}, tree')
      BY <1>2, <1>5, <1>7, <1>9 DEF Describes, SpecOK, TypeOK
    <2>2. Describes(loc'[p].mem, {loc'[p].pkg}, tree')
      <3> HIDE DEF m
      <3> QED BY <1>7, <2>1 DEF Describes, SpecOK
    <2>3. QED BY <1>7, <1>8, <2>2 DEF HolderMatch, Committing, CleanPcs
  <1>11. Settled'
    BY <1>2, <1>8 DEF Settled, SpecOK
  <1>12. QED BY <1>1, <1>2, <1>7, <1>8, <1>10, <1>11, HolderAgree

LEMMA ScriptStartAgree ==
  ASSUME TypeOK, SafeInv, SafeInv', Agreement, blame' = {}, NEW p \in Procs, ScriptStart(p)
  PROVE  Agreement'
  <1>1. Locked(p) /\ ~ Committing(p)
    BY DEF ScriptStart, SafeInv, ProcInv, Locked, Committing, RunPcs, CleanPcs, HoldPcs,
       ChangePcs, WorkPcs
  <1>2. Settled /\ loc[p].at = "spec" /\ loc[p].clear /\ Describes(loc[p].mem, {loc[p].pkg}, tree)
    BY <1>1, SettledNow DEF ScriptStart, Agreement, HolderMatch
  <1>3. Others(p) /\ pc'[p] = "child" /\ file' = file /\ head' = head /\ loc' = loc
        /\ tree' = [tree EXCEPT ![loc[p].pkg] = Broken]
    BY GotoOthers DEF ScriptStart
  <1>4. Settled'
    BY <1>2, <1>3 DEF Settled, SpecOK
  <1>5. HolderMatch(p)'
    <2>1. Describes(loc'[p].mem, {loc'[p].pkg}, tree')
      BY <1>2, <1>3 DEF Describes, SpecOK, TypeOK
    <2>2. QED BY <1>2, <1>3, <2>1 DEF HolderMatch, Committing, CleanPcs
  <1>6. QED BY <1>1, <1>3, <1>4, <1>5, HolderAgree DEF Agreement

\* A script that is done has installed one version, whole, and the documents
\* in memory say so.
LEMMA ScriptDoneAgree ==
  ASSUME TypeInv, SafeInv, SafeInv', Agreement, blame' = {}, NEW p \in Procs, ScriptDone(p)
  PROVE  Agreement'
  <1> DEFINE q == loc[p].pkg
             m == loc[p].mem
  <1>1. Locked(p) /\ ~ Committing(p)
    BY DEF ScriptDone, SafeInv, ProcInv, Locked, Committing, RunPcs, CleanPcs, HoldPcs,
       ChangePcs, WorkPcs
  <1>2. Settled /\ loc[p].at = "spec" /\ loc[p].clear /\ Describes(m, {q}, tree)
    BY <1>1, SettledNow DEF ScriptDone, Agreement, HolderMatch
  <1>3. TypeOK /\ q \in Pkg /\ loc[p] \in Local
    BY DEF ScriptDone, TypeInv, HasPkg, TypeOK
  <1>4. PICK v \in Ver, asked \in BOOLEAN :
          /\ tree' = [tree EXCEPT ![q] = v]
          /\ Become(p, [loc[p] EXCEPT !.mem = Record(m, q, v, v, asked)])
    BY <1>2 DEF ScriptDone
  <1> DEFINE n == Record(m, q, v, v, asked)
  <1>5. /\ loc'[p].mem = n /\ loc'[p].at = "spec"
        /\ \A r \in Procs \ {p} : loc'[r] = loc[r]
    <2>1. Become(p, [loc[p] EXCEPT !.mem = n])
      BY <1>4
    <2> HIDE DEF n
    <2>2. QED BY <1>2, <1>3, <2>1 DEF Become, TypeOK, Local
  <1>6. Others(p) /\ pc'[p] = "next" /\ file' = file /\ head' = head
    BY <1>3, GotoOthers DEF ScriptDone
  <1>7. /\ n.lock = [m.lock EXCEPT ![q] = v] /\ n.man = [m.man EXCEPT ![q] = v]
        /\ n.spec = IF asked /\ m.spec # Torn THEN m.spec \cup {q} ELSE m.spec
    BY <1>2 DEF Record, Describes
  <1>8. m.lock \in [Pkg -> Ver \cup {None}] /\ m.man \in [Pkg -> Content]
    BY <1>2, <1>3 DEF Local, Document, Describes
  <1>9. Describes(n, {}, tree')
    <2>1. n.lock # Torn /\ n.man # Torn
      BY <1>7, <1>8, DataAssumption, <1>3 DEF Content
    <2>2. \A r \in Pkg : n.lock[r] = tree'[r] /\ n.man[r] = tree'[r]
      BY <1>2, <1>3, <1>4, <1>7, <1>8 DEF Describes, TypeOK
    <2>3. SpecOK(n.spec, n.lock)
      BY <1>2, <1>3, <1>7, <1>8, NullAssumption DEF Describes, SpecOK
    <2> HIDE DEF n
    <2>4. QED BY <2>1, <2>2, <2>3 DEF Describes, SpecOK
  <1>10. HolderMatch(p)'
    <2>1. Describes(loc'[p].mem, {}, tree')
      <3> HIDE DEF n
      <3> QED BY <1>5, <1>9 DEF Describes, SpecOK
    <2>2. QED BY <1>5, <1>6, <2>1 DEF HolderMatch, Committing, CleanPcs
  <1>11. Settled'
    BY <1>2, <1>6 DEF Settled, SpecOK
  <1>12. m.spec = Torn => loc'[p].mem.spec = Torn
    BY <1>5, <1>7
  <1>13. QED BY <1>1, <1>5, <1>6, <1>10, <1>11, <1>12, HolderAgree DEF Agreement

LEMMA UninstallAgree ==
  ASSUME TypeOK, SafeInv, SafeInv', Agreement, blame' = {}, NEW p \in Procs, UninstallOne(p)
  PROVE  Agreement'
  <1> DEFINE m == loc[p].mem
             n(q) == Forget(m, q)
  <1>1. Locked(p) /\ ~ Committing(p) /\ pc[p] = "next"
    BY DEF UninstallOne, SafeInv, ProcInv, Locked, Committing, HoldPcs, ChangePcs, WorkPcs
  <1>2. Settled /\ Describes(m, {}, tree) /\ loc[p].at = "spec" /\ head.man = head.tree
    BY <1>1, SettledNow DEF Agreement, HolderMatch
  <1>3. file' = file /\ head' = head /\ cmd' = cmd
    BY DEF UninstallOne
  <1>4. PICK q \in loc[p].todo : \E del \in Deletions(Listed(m.man, q), tree[q]) :
          /\ tree' = [tree EXCEPT ![q] = del.left]
          /\ \/ /\ del.ok /\ m.spec # Torn /\ Listed(m.man, q) # None
                /\ Become(p, [[loc[p] EXCEPT !.todo = loc[p].todo \ {q}] EXCEPT !.mem = n(q)])
                /\ UNCHANGED pc
             \/ Goto(p, "unlock") /\ UNCHANGED loc
    BY DEF UninstallOne
  <1>5. PICK del \in Deletions(Listed(m.man, q), tree[q]) :
          /\ tree' = [tree EXCEPT ![q] = del.left]
          /\ \/ /\ del.ok /\ m.spec # Torn /\ Listed(m.man, q) # None
                /\ Become(p, [[loc[p] EXCEPT !.todo = loc[p].todo \ {q}] EXCEPT !.mem = n(q)])
                /\ UNCHANGED pc
             \/ Goto(p, "unlock") /\ UNCHANGED loc
    BY <1>4
  <1>6. Settled'
    BY <1>2, <1>3 DEF Settled, SpecOK
  <1>7. CASE Goto(p, "unlock") /\ UNCHANGED loc
    <2>1. Others(p) /\ pc'[p] = "unlock"
      BY <1>3, <1>7, GotoOthers
    <2>2. HolderMatch(p)'
      BY <2>1 DEF HolderMatch, Committing, CleanPcs
    <2>3. QED BY <1>1, <1>2, <1>3, <1>6, <1>7, <2>1, <2>2, HolderAgree
  <1>8. CASE /\ del.ok /\ m.spec # Torn /\ Listed(m.man, q) # None
             /\ Become(p, [[loc[p] EXCEPT !.todo = loc[p].todo \ {q}] EXCEPT !.mem = n(q)])
             /\ UNCHANGED pc
    <2>1. q \in Pkg /\ loc[p] \in Local
      BY DEF TypeOK, Local
    <2>2. /\ m.lock \in [Pkg -> Ver \cup {None}] /\ m.man \in [Pkg -> Content]
          /\ m.spec \in SUBSET Entries
      BY <1>2, <1>8, <2>1 DEF Local, Document, Describes
    <2>3. tree' = [tree EXCEPT ![q] = None]
      <3>1. m.man[q] = tree[q] /\ tree[q] # Broken /\ Listed(m.man, q) = tree[q]
        BY <1>2, <2>1, <2>2, NullAssumption DEF Describes, Listed
      <3>2. del.left = None
        BY <1>8, <3>1 DEF Deletions
      <3>3. QED BY <1>5, <3>2
    <2>4. /\ n(q).lock = [m.lock EXCEPT ![q] = None] /\ n(q).man = [m.man EXCEPT ![q] = None]
          /\ n(q).spec = m.spec \ {q}
      BY DEF Forget
    <2>5. Describes(n(q), {}, tree')
      <3>1. n(q).lock # Torn /\ n(q).man # Torn
        BY <2>1, <2>2, <2>4, DataAssumption DEF Content
      <3>2. \A r \in Pkg : n(q).lock[r] = tree'[r] /\ n(q).man[r] = tree'[r]
        BY <1>2, <2>1, <2>2, <2>3, <2>4 DEF Describes, TypeOK
      <3>3. SpecOK(n(q).spec, n(q).lock)
        BY <1>2, <1>8, <2>2, <2>4 DEF Describes, SpecOK
      <3> HIDE DEF n
      <3>4. QED BY <3>1, <3>2, <3>3 DEF Describes, SpecOK
    <2>6. /\ loc'[p].mem = n(q) /\ loc'[p].at = "spec"
          /\ \A r \in Procs \ {p} : loc'[r] = loc[r]
      <3> HIDE DEF n
      <3> QED BY <1>2, <1>8, <2>1 DEF Become, TypeOK, Local
    <2>7. Others(p) /\ pc'[p] = "next"
      BY <1>1, <1>3, <1>8 DEF Others
    <2>8. HolderMatch(p)'
      <3>1. Describes(loc'[p].mem, {}, tree')
        <4> HIDE DEF n
        <4> QED BY <2>5, <2>6 DEF Describes, SpecOK
      <3>2. QED BY <2>6, <2>7, <3>1 DEF HolderMatch, Committing, CleanPcs
    <2>9. QED BY <1>1, <1>2, <1>3, <1>6, <1>8, <2>6, <2>7, <2>8, HolderAgree
  <1>9. QED BY <1>5, <1>7, <1>8

\* The three documents are rewritten one by one.
LEMMA TruncateAgree ==
  ASSUME TypeOK, SafeInv, SafeInv', Agreement, blame' = {}, NEW p \in Procs, Truncate(p)
  PROVE  Agreement'
  <1> DEFINE m == loc[p].mem
             f == loc[p].at
  <1>1. Locked(p) /\ pc[p] \in {"next", "write"}
    BY DEF Truncate, MayWrite, SafeInv, ProcInv, Locked, RunPcs, CleanPcs, HoldPcs, ChangePcs,
       WorkPcs
  <1>2. Describes(m, {}, tree) /\ head.man = head.tree /\ m[f] # Torn
    BY <1>1 DEF Agreement, HolderMatch, Truncate
  <1>3. /\ Others(p) /\ pc'[p] = "fill" /\ file' = [file EXCEPT ![f] = Torn] /\ head' = head
        /\ loc' = loc /\ tree' = tree
    BY GotoOthers DEF Truncate
  <1>4. f \in {"spec", "lock", "man"} /\ file \in Document
    BY DEF TypeOK, Local
  <1>5. m.spec # Torn
    BY <1>1, <1>2 DEF Agreement, HolderMatch
  <1>6. CASE f = "spec"
    <2>1. pc[p] = "next" /\ ~ Committing(p)
      BY <1>1, <1>6 DEF Agreement, HolderMatch, Committing
    <2>2. Settled
      BY <1>1, <2>1, SettledNow
    <2>3. Settled'
      BY <1>3, <1>4, <1>6, <2>2 DEF Settled, SpecOK, Document
    <2>4. HolderMatch(p)'
      BY <1>2, <1>3, <1>5, <1>6 DEF HolderMatch, Committing, CleanPcs
    <2>5. QED BY <1>1, <1>2, <1>3, <1>5, <2>3, <2>4, HolderAgree
  <1>7. CASE f # "spec"
    <2>1. Committing(p)
      BY <1>1, <1>7 DEF Agreement, HolderMatch, Committing
    <2>2. file.spec = m.spec /\ (f = "man" => file.lock = m.lock)
      BY <2>1 DEF Agreement, HolderMatch
    <2>3. file'.spec = m.spec /\ (f = "man" => file'.lock = m.lock)
      BY <1>3, <1>4, <1>7, <2>2 DEF Document
    <2>4. HolderMatch(p)' /\ Committing(p)'
      BY <1>2, <1>3, <1>5, <1>7, <2>3 DEF HolderMatch, Committing, CleanPcs
    <2>5. QED BY <1>1, <1>2, <1>3, <1>5, <2>4, HolderAgree
  <1>8. QED BY <1>6, <1>7

LEMMA FillAgree ==
  ASSUME TypeOK, SafeInv, SafeInv', Agreement, blame' = {}, NEW p \in Procs, Fill(p)
  PROVE  Agreement'
  <1> DEFINE m == loc[p].mem
             f == loc[p].at
  <1>1. Locked(p)
    BY DEF Fill, SafeInv, ProcInv, Locked, RunPcs, CleanPcs, HoldPcs, ChangePcs, WorkPcs
  <1>2. Describes(m, {}, tree) /\ head.man = head.tree /\ m.spec # Torn
    BY DEF Agreement, HolderMatch, Fill
  <1>3. /\ Others(p) /\ pc'[p] = (IF f = "man" THEN "amend" ELSE "write")
        /\ file' = [file EXCEPT ![f] = m[f]] /\ head' = head /\ tree' = tree
    BY GotoOthers DEF Fill
  <1>4. f \in {"spec", "lock", "man"} /\ file \in Document /\ loc[p] \in Local
    BY DEF TypeOK, Local
  <1>5. /\ loc'[p].mem = m /\ loc'[p].at = NextFile[f]
        /\ \A r \in Procs \ {p} : loc'[r] = loc[r]
    BY <1>4 DEF Fill, Become, TypeOK, Local
  <1>6. NextFile[f] = IF f = "spec" THEN "lock" ELSE "man"
    BY <1>4 DEF NextFile
  <1>7. f # "spec" => file.spec = m.spec /\ (f = "man" => file.lock = m.lock)
    BY DEF Fill, Agreement, HolderMatch, Committing
  <1>8. /\ file'.spec = m.spec
        /\ f \in {"lock", "man"} => file'.lock = m.lock
        /\ f = "man" => file'.man = m.man
    BY <1>3, <1>4, <1>7 DEF Document
  <1>9. Committing(p)'
    BY <1>3 DEF Committing
  <1>10. HolderMatch(p)'
    <2>1. loc'[p].at = "man" <=> f \in {"lock", "man"}
      BY <1>4, <1>5, <1>6
    <2>2. loc'[p].at # "spec"
      BY <1>5, <1>6
    <2> HIDE DEF f, m
    <2>3. Describes(loc'[p].mem, {}, tree') /\ loc'[p].mem.spec # Torn
      BY <1>2, <1>3, <1>5
    <2>4. pc'[p] \in {"write", "amend"} /\ (pc'[p] = "amend" => f = "man")
      BY <1>3
    <2>5. QED BY <1>5, <1>8, <2>1, <2>2, <2>3, <2>4 DEF HolderMatch, CleanPcs
  <1>11. pc'[p] # "editfill"
    BY <1>3
  <1>12. QED BY <1>1, <1>2, <1>3, <1>5, <1>9, <1>10, <1>11, HolderAgree

\* The amend makes HEAD record what the new documents list.
LEMMA AmendAgree ==
  ASSUME TypeOK, SafeInv, SafeInv', Agreement, blame' = {}, NEW p \in Procs, GitAmend(p)
  PROVE  Agreement'
  <1> DEFINE m == loc[p].mem
  <1>1. Locked(p) /\ Committing(p)
    BY DEF GitAmend, SafeInv, ProcInv, Locked, Committing, RunPcs, CleanPcs, HoldPcs, ChangePcs,
       WorkPcs
  <1>2. /\ Describes(m, {}, tree) /\ m.spec # Torn
        /\ file.spec = m.spec /\ file.lock = m.lock /\ file.man = m.man
    BY <1>1 DEF Agreement, HolderMatch, GitAmend
  <1>3. /\ Others(p) /\ pc'[p] = "undirty" /\ file' = file /\ loc' = loc
        /\ head'.tree = tree /\ head'.man = file.man
    BY GotoOthers DEF GitAmend
  <1>4. m.lock = tree /\ m.man = tree
    <2>1. m.lock \in [Pkg -> Ver \cup {None}] /\ m.man \in [Pkg -> Content] /\ tree \in [Pkg -> Content]
      BY <1>2 DEF Describes, TypeOK, Local, Document
    <2>2. \A q \in Pkg : m.lock[q] = tree[q] /\ m.man[q] = tree[q]
      BY <1>2 DEF Describes
    <2>3. QED BY <2>1, <2>2
  <1>5. Settled' /\ head'.man = head'.tree
    BY <1>2, <1>3, <1>4 DEF Settled, SpecOK, Describes
  <1>6. HolderMatch(p)'
    BY <1>3 DEF HolderMatch, Committing, CleanPcs
  <1>7. QED BY <1>1, <1>3, <1>5, <1>6, HolderAgree

\* Taking the lock with documents that are not stale.
LEMMA LockAgree ==
  ASSUME TypeOK, SafeInv, SafeInv', Agreement, blame' = {}, NEW p \in Procs, LockFile(p)
  PROVE  Agreement'
  <1>1. Settled /\ \A q \in Procs : ~ Locked(q)
    BY SettledFree DEF LockFile
  <1>2. loc[p].mem = file
    BY DEF LockFile
  <1>3. Others(p) /\ pc'[p] = "ensure" /\ UNCHANGED disk /\ loc' = loc
    BY GotoOthers DEF LockFile
  <1>4. HolderMatch(p)'
    BY <1>2, <1>3 DEF HolderMatch, Committing, disk
  <1>5. ASSUME NEW q \in Procs \ {p} PROVE HolderMatch(q)' /\ ~ Locked(q)'
    <2>1. ~ Locked(q)'
      BY <1>1, <1>3 DEF Locked, Others
    <2>2. QED BY <2>1, OutsideMatch DEF SafeInv, ProcInv
  <1>6. ASSUME NEW q \in Procs PROVE EditMatch(q)'
    <2>1. SUFFICES ASSUME pc'[q] = "editfill" PROVE EditMatch(q)'
      BY DEF EditMatch
    <2>2. q # p /\ pc[q] = "editfill"
      BY <1>3, <2>1 DEF Others
    <2>3. /\ file.spec = Torn /\ SpecOK(loc[q].mem.spec, file.lock)
          /\ \A r \in Procs : pc[r] = "editfill" => q = r
      BY <2>2 DEF Agreement, EditMatch
    <2>4. \A r \in Procs : Locked(r)' => loc'[r].mem.spec = Torn
      BY <1>2, <1>3, <1>5, <2>3
    <2>5. \A r \in Procs : pc'[r] = "editfill" => q = r
      BY <1>3, <2>3 DEF Others
    <2>6. QED BY <1>3, <2>3, <2>4, <2>5 DEF EditMatch, SpecOK, disk
  <1>7. QED BY <1>1, <1>3, <1>4, <1>5, <1>6 DEF Agreement, Settled, SpecOK, disk

LEMMA EndAgree ==
  ASSUME TypeOK, SafeInv, SafeInv', Agreement, blame' = {}, NEW p \in Procs,
         \/ LockBusy(p) \/ WriteNull(p) \/ Unlock(p) \/ RunDone(p) \/ EditNull(p) \/ Crash(p)
         \/ OrphanDone(p)
  PROVE  Agreement'
  <1>1. /\ End(p) /\ file' = file /\ head' = head
        /\ tree' = tree \/ pc[p] = "orphan"
    BY DEF LockBusy, WriteNull, Unlock, RunDone, EditNull, Crash, OrphanDone, disk
  <1>2. ~ Committing(p)
    <2>1. CASE WriteNull(p) \/ Crash(p)
      BY <2>1 DEF WriteNull, Crash, BlameCommit, Committing
    <2>2. CASE LockBusy(p) \/ Unlock(p) \/ RunDone(p) \/ EditNull(p) \/ OrphanDone(p)
      BY <2>2 DEF LockBusy, Unlock, RunDone, EditNull, OrphanDone, Committing
    <2>3. QED BY <2>1, <2>2
  <1>3. Others(p) /\ pc'[p] = "idle" /\ \A q \in Procs \ {p} : loc'[q] = loc[q]
    BY <1>1, EndOthers DEF End, Become, TypeOK
  <1>4. ~ Locked(p)'
    BY <1>3 DEF Locked, HoldPcs, ChangePcs, CleanPcs, WorkPcs
  <1>5. pc[p] = "orphan" => \A q \in Procs \ {p} : ~ Locked(q)
    <2>1. pc[p] = "orphan" => Locked(p)
      BY DEF SafeInv, ProcInv, Locked, RunPcs, CleanPcs, HoldPcs, ChangePcs
    <2>2. QED BY <2>1, Alone
  <1>6. QED BY <1>1, <1>2, <1>3, <1>4, <1>5, OutsideAgree

\* `ttrek run', a command that starts and one that reads the documents.
LEMMA FreeAgree ==
  ASSUME TypeOK, SafeInv, SafeInv', Agreement, blame' = {}, NEW p \in Procs,
         \/ (\E c \in Commands : Start(p, c)) \/ ReadFile(p)
         \/ /\ cmd[p] = "run"
            /\ \/ GitInit(p) \/ GitInitCommit(p) \/ NoResetNeeded(p) \/ ResetFails(p)
               \/ GitReset(p) \/ GitResetFault(p) \/ GitClean(p) \/ GitCleanFails(p)
               \/ GiveUp(p)
  PROVE  Agreement'
  <1>1. CASE (\E c \in Commands : Start(p, c)) \/ ReadFile(p)
    <2>1. /\ Others(p) /\ UNCHANGED disk
          /\ \A q \in Procs \ {p} : loc'[q] = loc[q]
          /\ pc[p] \in {"idle", "read"}
          /\ \/ pc'[p] \in {"read", "locking", "edit"}
             \/ pc'[p] = "ensure" /\ cmd'[p] = "run"
      BY <1>1 DEF Start, ReadFile, Goto, Become, TypeOK, Others, AfterRead, Locking
    <2>2. ~ Committing(p) /\ ~ Locked(p)' /\ pc'[p] # "editfill"
      BY <2>1 DEF Committing, Locked, HoldPcs, ChangePcs, CleanPcs, WorkPcs
    <2>3. QED BY <2>1, <2>2, OutsideAgree DEF disk
  <1>2. CASE GitResetFault(p)
    BY <1>2 DEF GitResetFault
  <1>3. CASE /\ cmd[p] = "run"
             /\ \/ GitInit(p) \/ GitInitCommit(p) \/ NoResetNeeded(p) \/ ResetFails(p)
                \/ GitReset(p) \/ GitClean(p) \/ GitCleanFails(p) \/ GiveUp(p)
    <2>1. /\ cmd' = cmd /\ loc' = loc
          /\ tree' = tree \/ GitReset(p) \/ GitClean(p)
          /\ file' = file \/ GitReset(p) \/ GitClean(p)
      BY <1>3 DEF GitInit, GitInitCommit, NoResetNeeded, ResetFails, GitReset, GitClean,
         GitCleanFails, GiveUp, disk
    <2>2. \E s : Goto(p, s)
      BY <1>3 DEF GitInit, GitInitCommit, NoResetNeeded, ResetFails, GitReset, GitClean,
         GitCleanFails, GiveUp
    <2>3. Others(p)
      BY <2>1, <2>2, GotoOthers
    <2>4. ~ Committing(p) /\ ~ Locked(p)' /\ pc'[p] # "editfill"
      BY <1>3, <2>1 DEF SafeInv, ProcInv, Committing, Locked, RunPcs, CleanPcs
    <2>5. head'.tree = head.tree /\ head'.man = head.man
      <3>1. CASE GitInitCommit(p)
        BY <3>1 DEF GitInitCommit, SafeInv, ProcInv, GlobalInv
      <3>2. CASE ~ GitInitCommit(p)
        BY <1>3, <3>2 DEF GitInit, NoResetNeeded, ResetFails, GitReset, GitClean,
           GitCleanFails, GiveUp, disk
      <3>3. QED BY <3>1, <3>2
    <2>6. CASE GitReset(p) \/ GitClean(p)
      <3>1. Settled /\ head.man = head.tree /\ \A q \in Procs : ~ Locked(q)
        BY <1>3, <2>6, SettledFree DEF GitReset, GitClean, BlameRun, Agreement
      <3>2. GitClean(p) => pc[p] = "cleaning"
        BY DEF GitClean, SafeInv, SafeInv, ProcInv, CleanPcs
      <3>3. file' = [file EXCEPT !.man = file.man]
        BY <2>6, <3>1, <3>2 DEF GitReset, GitClean, Settled
      <3>4. file' = file
        BY <3>3 DEF TypeOK, Document
      <3>5. QED BY <2>1, <2>3, <2>4, <2>5, <3>1, <3>4, OutsideAgree
    <2>7. CASE ~ (GitReset(p) \/ GitClean(p))
      BY <2>1, <2>3, <2>4, <2>5, <2>7, OutsideAgree
    <2>8. QED BY <2>6, <2>7
  <1>4. QED BY <1>1, <1>2, <1>3

\* `ttrek use' edits ttrek.json when nobody has the lock, and nobody else
\* edits it.
LEMMA EditAgree ==
  ASSUME TypeOK, SafeInv, SafeInv', Agreement, blame' = {}, NEW p \in Procs,
         EditSpec(p) \/ EditSpecFill(p)
  PROVE  Agreement'
  <1>1. flock = NoProc
    BY DEF EditSpec, EditSpecFill
  <1>2. Settled /\ \A q \in Procs : ~ Locked(q)
    BY <1>1, SettledFree
  <1>3. UNCHANGED <<tree, dirty, head, git>>
    BY DEF EditSpec, EditSpecFill
  <1>4. Others(p) /\ \A q \in Procs \ {p} : loc'[q] = loc[q]
    BY EndOthers DEF EditSpec, EditSpecFill, Goto, Become, TypeOK, Others, End
  <1>5. pc'[p] \in {"editfill", "idle"}
    BY DEF EditSpec, EditSpecFill, End, Goto, TypeOK
  <1>6. \A q \in Procs : ~ Locked(q)'
    BY <1>2, <1>4, <1>5 DEF Locked, Others, HoldPcs, ChangePcs, CleanPcs, WorkPcs
  <1>7. \A q \in Procs : HolderMatch(q)'
    BY <1>6, OutsideMatch DEF SafeInv, ProcInv
  <1>8. file \in Document /\ loc[p] \in Local
    BY DEF TypeOK
  <1>9. CASE EditSpec(p)
    <2>1. file.spec # Torn /\ loc[p].mem.spec = file.spec
      BY <1>9 DEF EditSpec
    <2>2. \A q \in Procs : pc[q] # "editfill"
      BY <2>1 DEF Agreement, EditMatch
    <2>3. PICK g \in Flag : \E new \in {file.spec \cup {g}, file.spec \ {g}} :
            Become(p, [loc[p] EXCEPT !.mem = [loc[p].mem EXCEPT !.spec = new]])
      BY <1>9, <2>1 DEF EditSpec
    <2>4. PICK new \in {file.spec \cup {g}, file.spec \ {g}} :
            Become(p, [loc[p] EXCEPT !.mem = [loc[p].mem EXCEPT !.spec = new]])
      BY <2>3
    <2>5. loc'[p].mem.spec = new
      BY <1>8, <2>4 DEF Become, TypeOK, Local, Document
    <2>6. file'.spec = Torn /\ file'.lock = file.lock /\ file'.man = file.man
      BY <1>8, <1>9 DEF EditSpec, Document
    <2>7. SpecOK(new, file.lock)
      <3>1. new \cap Pkg = file.spec \cap Pkg
        BY DataAssumption
      <3>2. QED BY <1>2, <2>1, <3>1 DEF Settled, SpecOK
    <2>8. Settled'
      BY <1>2, <1>3, <2>6 DEF Settled, SpecOK
    <2>9. \A q \in Procs : EditMatch(q)'
      <3>1. \A q \in Procs : pc'[q] = "editfill" => q = p
        BY <1>4, <2>2 DEF Others
      <3>2. SpecOK(loc'[p].mem.spec, file'.lock)
        BY <2>5, <2>6, <2>7
      <3>3. QED BY <1>6, <2>6, <3>1, <3>2 DEF EditMatch
    <2>10. QED BY <1>3, <1>7, <2>8, <2>9 DEF Agreement
  <1>10. CASE EditSpecFill(p)
    <2>1. /\ pc[p] = "editfill" /\ SpecOK(loc[p].mem.spec, file.lock)
          /\ \A q \in Procs : pc[q] = "editfill" => p = q
      BY <1>10 DEF EditSpecFill, Agreement, EditMatch
    <2>2. /\ file'.spec = loc[p].mem.spec /\ file'.lock = file.lock /\ file'.man = file.man
      BY <1>8, <1>10 DEF EditSpecFill, Document
    <2>3. Settled'
      BY <1>2, <1>3, <2>1, <2>2 DEF Settled
    <2>4. pc'[p] = "idle"
      BY <1>10 DEF EditSpecFill, End, Goto, TypeOK
    <2>5. \A q \in Procs : pc'[q] # "editfill"
      BY <1>4, <2>1, <2>4 DEF Others
    <2>6. QED BY <1>3, <1>7, <2>3, <2>5 DEF Agreement, EditMatch
  <1>11. QED BY <1>9, <1>10

-----------------------------------------------------------------------------
LEMMA BlameGrows ==
  ASSUME [Next]_vars PROVE blame \subseteq blame'
  <1>1. CASE UNCHANGED vars
    BY <1>1 DEF vars
  <1>2. ASSUME NEW p \in Procs, NEW c \in Commands, Start(p, c) PROVE blame \subseteq blame'
    BY <1>2 DEF Start
  <1>3. ASSUME NEW p \in Procs, Step(p) PROVE blame \subseteq blame'
    BY <1>3 DEF Step, ReadFile, LockFile, LockBusy, GitInit, GitInitCommit, NoResetNeeded,
       ResetFails, GitReset, GitResetFault, GitClean, GitCleanFails, Touch, Plan, Abort, GiveUp,
       RemoveOld, NoScript, ScriptStart, ScriptDone, ScriptFails, Restore, UninstallOne,
       Truncate, Fill, WriteNull, GitAmend, AmendFails, Undirty, Unlock, RunDone, EditSpec,
       EditSpecFill, EditNull, OrphanDone
  <1>4. ASSUME NEW p \in Procs, Die(p) PROVE blame \subseteq blame'
    BY <1>4 DEF Die, Crash, CrashLeavingScript
  <1>5. QED BY <1>1, <1>2, <1>3, <1>4 DEF Next

LEMMA MatchInvariant == Spec => []MatchInv
  <1>1. Init => MatchInv
    <2> SUFFICES ASSUME Init PROVE Agreement
      BY DEF MatchInv
    <2>1. Settled /\ head.man = head.tree
      BY DEF Init, Settled, SpecOK
    <2>2. ASSUME NEW p \in Procs PROVE HolderMatch(p) /\ EditMatch(p)
      BY DEF Init, HolderMatch, EditMatch, Locked, Committing, HoldPcs, ChangePcs, CleanPcs,
         WorkPcs
    <2>3. QED BY <2>1, <2>2 DEF Agreement
  <1>2. TypeInv /\ SafeInv /\ SafeInv' /\ MatchInv /\ [Next]_vars => MatchInv'
    <2> SUFFICES ASSUME TypeInv, SafeInv, SafeInv', Agreement, blame' = {}, [Next]_vars
                 PROVE  Agreement'
      BY BlameGrows DEF MatchInv
    <2>1. TypeOK
      BY DEF TypeInv
    <2>2. CASE UNCHANGED vars
      BY <2>2 DEF vars, Agreement, Settled, HolderMatch, EditMatch, Describes, SpecOK, Committing,
         Locked
    <2>3. ASSUME NEW p \in Procs, NEW c \in Commands, Start(p, c) PROVE Agreement'
      BY <2>1, <2>3, FreeAgree
    <2>4. ASSUME NEW p \in Procs, Step(p) PROVE Agreement'
      <3>1. CASE \/ LockFile(p) \/ Plan(p) \/ RemoveOld(p) \/ ScriptStart(p) \/ ScriptDone(p)
                 \/ UninstallOne(p) \/ Truncate(p) \/ Fill(p) \/ GitAmend(p)
        BY <2>1, <3>1, LockAgree, PlanAgree, RemoveOldAgree, ScriptStartAgree, ScriptDoneAgree,
           UninstallAgree, TruncateAgree, FillAgree, AmendAgree
      <3>2. CASE \/ LockBusy(p) \/ WriteNull(p) \/ Unlock(p) \/ RunDone(p) \/ EditNull(p)
                 \/ OrphanDone(p) \/ EditSpec(p) \/ EditSpecFill(p) \/ ReadFile(p)
        BY <2>1, <3>2, EndAgree, EditAgree, FreeAgree
      <3>3. CASE \/ Touch(p) \/ Abort(p) \/ NoScript(p) \/ ScriptFails(p) \/ Restore(p)
                 \/ AmendFails(p) \/ Undirty(p)
        <4>1. cmd[p] # "run"
          BY <3>3 DEF Touch, Abort, NoScript, ScriptFails, Restore, AmendFails, Undirty, SafeInv,
             ProcInv, RunPcs, CleanPcs
        <4>2. QED BY <2>1, <3>3, <4>1, QuietSteps
      <3>4. CASE \/ GitInit(p) \/ GitInitCommit(p) \/ NoResetNeeded(p) \/ ResetFails(p)
                 \/ GitReset(p) \/ GitResetFault(p) \/ GitClean(p) \/ GitCleanFails(p)
                 \/ GiveUp(p)
        BY <2>1, <3>4, QuietSteps, FreeAgree
      <3>5. QED BY <2>4, <3>1, <3>2, <3>3, <3>4 DEF Step
    <2>5. ASSUME NEW p \in Procs, Die(p) PROVE Agreement'
      <3>1. CASE CrashLeavingScript(p)
        <4>1. cmd[p] # "run"
          BY <3>1 DEF CrashLeavingScript, SafeInv, ProcInv, RunPcs, CleanPcs
        <4>2. QED BY <2>1, <3>1, <4>1, QuietSteps
      <3>2. QED BY <2>1, <2>5, <3>1, EndAgree DEF Die
    <2>6. QED BY <2>2, <2>3, <2>4, <2>5 DEF Next
  <1>3. QED BY <1>1, <1>2, TypeInvariant, SafeInvariant, PTL DEF Spec

\* A step moves one process.
LEMMA StepOthers ==
  ASSUME TypeOK, NEW r \in Procs, (\E c \in Commands : Start(r, c)) \/ Step(r) \/ Die(r),
         NEW p \in Procs, p # r
  PROVE  pc'[p] = pc[p]
  <1>1. pc' = pc \/ \E s : Goto(r, s)
    BY DEF Step, Die, Start, ReadFile, LockFile, LockBusy, GitInit, GitInitCommit, NoResetNeeded,
       ResetFails, GitReset, GitResetFault, GitClean, GitCleanFails, Touch, Plan, Abort, GiveUp,
       RemoveOld, NoScript, ScriptStart, ScriptDone, ScriptFails, Restore, UninstallOne,
       Truncate, Fill, WriteNull, GitAmend, AmendFails, Undirty, Unlock, RunDone, EditSpec,
       EditSpecFill, EditNull, OrphanDone, Crash, CrashLeavingScript, End
  <1>2. QED BY <1>1 DEF Goto, TypeOK

\* What the lock file promises is what a reset brings back (ttrek.json,
\* ttrek-lock.json and the commit of ttrek_GitAmend): with nobody at work and
\* none of the hazards met, the lock file agrees with the tree and the
\* manifest that HEAD records and holds every direct dependency.
THEOREM LockMatches == Spec => []LockMatchesHead
  <1>1. SafeInv /\ MatchInv => LockMatchesHead
    BY SettledFree DEF MatchInv, LockMatchesHead, Settled, SpecOK, Agreement
  <1>2. QED BY <1>1, SafeInvariant, MatchInvariant, PTL

\* Recovery (ttrek_GitResetHard): the end of a reset leaves the packages of
\* ttrek-lock.json, whole.  When files cannot be deleted `ttrek run' goes on
\* after half a reset, so either it or that failure is left out.
THEOREM Recovers ==
  ASSUME "run" \notin Commands \/ ~ GitFaults PROVE Spec => RecoveryRestores
  <1>1. TypeOK /\ SafeInv /\ SafeInv' /\ MatchInv /\ [Next]_vars
          => [\A p \in Procs :
                pc[p] \in CleanPcs /\ pc'[p] \in {"touch", "running"} /\ blame' = {}
                   => tree' = file'.lock /\ file'.man = tree']_vars
    <2> SUFFICES ASSUME TypeOK, SafeInv, SafeInv', MatchInv, Next, NEW p \in Procs,
                        pc[p] \in CleanPcs, pc'[p] \in {"touch", "running"}, blame' = {}
                 PROVE  tree' = file'.lock /\ file'.man = tree'
      BY DEF CleanPcs, vars
    <2>1. Agreement
      BY BlameGrows DEF MatchInv
    <2>2. GitClean(p)
      <3>1. pc'[p] # pc[p] /\ pc[p] \in {"cleaning", "halfcleaning"}
        BY DEF CleanPcs
      <3>2. PICK r \in Procs : (\E c \in Commands : Start(r, c)) \/ Step(r) \/ Die(r)
        BY DEF Next
      <3>3. r = p
        BY <3>1, <3>2, StepOthers
      <3>4. pc'[p] # "idle"
        OBVIOUS
      <3>5. GitClean(p) \/ GitCleanFails(p)
        BY <3>1, <3>2, <3>3, <3>4
        DEF Step, Die, Start, ReadFile, LockFile, LockBusy, GitInit, GitInitCommit,
            NoResetNeeded, ResetFails, GitReset, GitResetFault, Touch, Plan, Abort, GiveUp,
            RemoveOld, NoScript, ScriptStart, ScriptDone, ScriptFails, Restore, UninstallOne,
            Truncate, Fill, WriteNull, GitAmend, AmendFails, Undirty, Unlock, RunDone, EditSpec,
            EditSpecFill, EditNull, OrphanDone, Crash, CrashLeavingScript, MayWrite, End, Goto,
            TypeOK
      <3>6. ~ GitCleanFails(p)
        BY DEF GitCleanFails, Failed, Goto, TypeOK
      <3>7. QED BY <3>5, <3>6
    <2>3. Settled /\ head.man = head.tree
      <3>1. CASE Locked(p)
        BY <2>1, <3>1, SettledNow DEF Committing, CleanPcs, Agreement
      <3>2. CASE ~ Locked(p)
        <4>1. flock = NoProc
          BY <3>2, BlameGrows DEF SafeInv, ProcInv
        <4>2. QED BY <2>1, <4>1, SettledFree DEF Agreement
      <3>3. QED BY <3>1, <3>2
    <2>4. blame = {}
      BY BlameGrows
    <2>5. pc[p] = "cleaning"
      BY <2>4 DEF SafeInv, ProcInv, CleanPcs
    <2>6. /\ tree' = head.tree /\ file' = [file EXCEPT !.man = head.man]
      BY <2>2, <2>5 DEF GitClean
    <2>7. file'.lock = file.lock /\ file'.man = head.man
      BY <2>6 DEF TypeOK, Document
    <2>8. QED BY <2>3, <2>6, <2>7 DEF Settled
  <1>2. QED BY <1>1, TypeCorrect, SafeInvariant, MatchInvariant, PTL DEF Spec, RecoveryRestores

\* The holder starts its work from the documents as they are, unless they
\* changed between its reading and its lock, which is what "stale" records:
\* the one way in which ttrek_LockFile's promise fails.
THEOREM HolderCurrent ==
  Spec => [](blame = {} => \A p \in Procs : pc[p] \in {"touch", "plan"} => loc[p].mem = file)
  <1>1. SafeInv /\ MatchInv
          => (blame = {} => \A p \in Procs : pc[p] \in {"touch", "plan"} => loc[p].mem = file)
    BY DEF MatchInv, Agreement, HolderMatch, SafeInv, ProcInv, Locked, RunPcs, CleanPcs, HoldPcs,
       ChangePcs, WorkPcs
  <1>2. QED BY <1>1, SafeInvariant, MatchInvariant, PTL
=============================================================================
