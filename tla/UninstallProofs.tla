--------------------------- MODULE UninstallProofs ---------------------------
(***************************************************************************)
(* What `ttrek uninstall' never does, for every set of packages and every  *)
(* lock file: break a package that stays, remove a direct requirement      *)
(* without need, or leave one in ttrek.json without its lock entry, even   *)
(* when the removal fails or is stopped between the two documents.         *)
(***************************************************************************)
EXTENDS Uninstall, TLAPS

(***************************************************************************)
(* The inductive invariant, one part per fact the loops maintain           *)
(***************************************************************************)
\* Nothing is required by a package that is not locked, and nothing a locked
\* package requires is missing.
GraphInv ==
    /\ DiskClosed
    /\ phase # "written" => \A q \in Pkg \ disk : requires[q] = {}

\* Reverse dependencies only lose packages that go; direct requirements keep theirs.
RdepsInv ==
    \A p \in Pkg :
        /\ rdeps[p] \subseteq Requirers(p)
        /\ Requirers(p) \subseteq rdeps[p] \cup uninstalls
        /\ p \in direct => rdeps[p] = Requirers(p)
        /\ phase = "dependents" => rdeps[p] = Requirers(p)

\* While no insertion has been seen, what has been visited is done with; once
\* the first loop is over the set is closed.
ClosureInv ==
    /\ phase = "dependents" /\ ~changed =>
          \A p \in uninstalls \ todo : Requirers(p) \subseteq uninstalls
    /\ phase # "dependents" => UpwardClosed(uninstalls)

\* Only named packages may be unknown to the lock file.
KnownInv == phase # "written" => uninstalls \subseteq disk \cup asked

\* The lock file in memory has lost exactly what the removal has passed.
RemovalInv ==
    /\ phase \notin {"remove", "between", "failed", "written"} => locked = disk
    /\ phase \in {"remove", "between"} =>
          /\ locked \subseteq disk
          /\ disk \ uninstalls \subseteq locked
          /\ locked \cap uninstalls \subseteq todo
    /\ phase = "between" => todo = {}

\* ttrek.json is as it was, but has lost what goes once it is written.
SpecInv ==
    /\ phase \in {"dependents", "erase", "orphans", "confirm", "remove"} => spec = direct
    /\ phase = "between" => spec = direct \ uninstalls

\* No element is inserted without need.
LeastInv == \A S \in SUBSET Pkg : Acceptable(S) => uninstalls \subseteq S

\* A round of the second loop that changes nothing leaves no orphan.
OrphanInv ==
    /\ asked \subseteq uninstalls
    /\ phase = "orphans" /\ ~autoremove => todo = {}
    /\ phase = "orphans" /\ ~changed /\ autoremove =>
          /\ \A p \in Pkg \ direct : rdeps[p] \cap uninstalls = {}
          /\ \A u \in uninstalls \ todo : \A p \in requires[u] :
                rdeps[p] = {} => p \in uninstalls
    /\ phase = "confirm" => Acceptable(uninstalls)

IInv ==
    /\ TypeOK
    /\ GraphInv
    /\ RdepsInv
    /\ ClosureInv
    /\ KnownInv
    /\ RemovalInv
    /\ DirectKept
    /\ SpecInv
    /\ LeastInv
    /\ OrphanInv

(***************************************************************************)
(* Init and steps                                                          *)
(***************************************************************************)
LEMMA InitIInv == Init => IInv
<1> SUFFICES ASSUME Init PROVE IInv
  OBVIOUS
<1> USE GraphAssumption
<1>1. TypeOK
  BY DEF Init, TypeOK, Phases, Requirers
<1>2. GraphInv
  BY <1>1 DEF Init, TypeOK, GraphInv, DiskClosed, Requirers
<1>3. RdepsInv
  BY <1>1 DEF Init, TypeOK, RdepsInv, Requirers, DiskClosed
<1>4. ClosureInv
  BY <1>1 DEF Init, TypeOK, ClosureInv, UpwardClosed, Requirers, DiskClosed
<1>5. KnownInv
  BY <1>1 DEF Init, TypeOK, KnownInv, Requirers, DiskClosed
<1>6. RemovalInv
  BY <1>1 DEF Init, TypeOK, RemovalInv, Requirers, DiskClosed
<1>7. DirectKept
  BY <1>1 DEF Init, TypeOK, DirectKept, Requirers, DiskClosed
<1>8. SpecInv
  BY DEF Init, SpecInv
<1>9. LeastInv
  BY <1>1 DEF Init, TypeOK, LeastInv, Acceptable, UpwardClosed, Orphaned, Requirers,
     DiskClosed
<1>10. OrphanInv
  BY <1>1 DEF Init, TypeOK, OrphanInv, Acceptable, UpwardClosed, Orphaned, Requirers,
     DiskClosed
<1> QED
  BY <1>1, <1>2, <1>3, <1>4, <1>5, <1>6, <1>7, <1>8, <1>9, <1>10 DEF IInv

LEMMA StepIInv == IInv /\ [Next]_vars => IInv'
<1> SUFFICES ASSUME IInv, [Next]_vars PROVE IInv'
  OBVIOUS
<1> USE DEF IInv, inputs, documents
<1>1. ASSUME NEW u \in Pkg, VisitDependents(u) PROVE IInv'
  <2>1. TypeOK'
    BY <1>1 DEF VisitDependents, Insert, TypeOK, Phases
  <2>2. GraphInv'
    BY <1>1 DEF VisitDependents, Insert, TypeOK, Phases, GraphInv, DiskClosed,
       RemovalInv, ClosureInv, UpwardClosed, Requirers
  <2>3. RdepsInv'
    BY <1>1 DEF VisitDependents, Insert, TypeOK, Phases, RdepsInv, Requirers
  <2>4. ClosureInv'
    BY <1>1 DEF VisitDependents, Insert, TypeOK, Phases, ClosureInv, UpwardClosed,
       Requirers, RdepsInv
  <2>5. KnownInv'
    BY <1>1 DEF VisitDependents, Insert, TypeOK, Phases, KnownInv, RdepsInv, Requirers,
       GraphInv, DiskClosed
  <2>6. RemovalInv'
    BY <1>1 DEF VisitDependents, Insert, TypeOK, Phases, RemovalInv
  <2>7. DirectKept'
    BY <1>1 DEF VisitDependents, Insert, TypeOK, Phases, DirectKept, RdepsInv, Requirers
  <2>8. SpecInv'
    BY <1>1 DEF VisitDependents, Insert, TypeOK, Phases, SpecInv
  <2>9. LeastInv'
    BY <1>1 DEF VisitDependents, Insert, TypeOK, Phases, LeastInv, Acceptable,
       UpwardClosed, Orphaned, Requirers, RdepsInv
  <2>10. OrphanInv'
    BY <1>1 DEF VisitDependents, Insert, TypeOK, Phases, OrphanInv, Acceptable,
       UpwardClosed, Orphaned, Requirers, RdepsInv, ClosureInv
  <2> QED
    BY <2>1, <2>2, <2>3, <2>4, <2>5, <2>6, <2>7, <2>8, <2>9, <2>10
<1>2. CASE EndDependents
  <2>1. TypeOK'
    BY <1>2 DEF EndDependents, TypeOK, Phases
  <2>2. GraphInv'
    BY <1>2 DEF EndDependents, TypeOK, Phases, GraphInv, DiskClosed, RemovalInv,
       ClosureInv, UpwardClosed, Requirers
  <2>3. RdepsInv'
    BY <1>2 DEF EndDependents, TypeOK, Phases, RdepsInv, Requirers
  <2>4. ClosureInv'
    BY <1>2 DEF EndDependents, TypeOK, Phases, ClosureInv, UpwardClosed, Requirers,
       RdepsInv
  <2>5. KnownInv'
    BY <1>2 DEF EndDependents, TypeOK, Phases, KnownInv, RdepsInv, Requirers, GraphInv,
       DiskClosed
  <2>6. RemovalInv'
    BY <1>2 DEF EndDependents, TypeOK, Phases, RemovalInv
  <2>7. DirectKept'
    BY <1>2 DEF EndDependents, TypeOK, Phases, DirectKept, RdepsInv, Requirers
  <2>8. SpecInv'
    BY <1>2 DEF EndDependents, TypeOK, Phases, SpecInv
  <2>9. LeastInv'
    BY <1>2 DEF EndDependents, TypeOK, Phases, LeastInv, Acceptable, UpwardClosed,
       Orphaned, Requirers, RdepsInv
  <2>10. OrphanInv'
    BY <1>2 DEF EndDependents, TypeOK, Phases, OrphanInv, Acceptable, UpwardClosed,
       Orphaned, Requirers, RdepsInv, ClosureInv
  <2> QED
    BY <2>1, <2>2, <2>3, <2>4, <2>5, <2>6, <2>7, <2>8, <2>9, <2>10
<1>3. CASE Erase
  <2>1. TypeOK'
    BY <1>3 DEF Erase, TypeOK, Phases
  <2>2. GraphInv'
    BY <1>3 DEF Erase, TypeOK, Phases, GraphInv, DiskClosed, RemovalInv, ClosureInv,
       UpwardClosed, Requirers
  <2>3. RdepsInv'
    BY <1>3 DEF Erase, TypeOK, Phases, RdepsInv, Requirers
  <2>4. ClosureInv'
    BY <1>3 DEF Erase, TypeOK, Phases, ClosureInv, UpwardClosed, Requirers, RdepsInv
  <2>5. KnownInv'
    BY <1>3 DEF Erase, TypeOK, Phases, KnownInv, RdepsInv, Requirers, GraphInv,
       DiskClosed
  <2>6. RemovalInv'
    BY <1>3 DEF Erase, TypeOK, Phases, RemovalInv
  <2>7. DirectKept'
    BY <1>3 DEF Erase, TypeOK, Phases, DirectKept, RdepsInv, Requirers
  <2>8. SpecInv'
    BY <1>3 DEF Erase, TypeOK, Phases, SpecInv
  <2>9. LeastInv'
    BY <1>3 DEF Erase, TypeOK, Phases, LeastInv, Acceptable, UpwardClosed, Orphaned,
       Requirers, RdepsInv
  <2>10. OrphanInv'
    BY <1>3 DEF Erase, TypeOK, Phases, OrphanInv, Acceptable, UpwardClosed, Orphaned,
       Requirers, RdepsInv, ClosureInv
  <2> QED
    BY <2>1, <2>2, <2>3, <2>4, <2>5, <2>6, <2>7, <2>8, <2>9, <2>10
<1>4. ASSUME NEW u \in Pkg, VisitOrphans(u) PROVE IInv'
  <2>1. TypeOK'
    BY <1>4 DEF VisitOrphans, Insert, TypeOK, Phases
  <2>2. GraphInv'
    BY <1>4 DEF VisitOrphans, Insert, TypeOK, Phases, GraphInv, DiskClosed, RemovalInv,
       ClosureInv, UpwardClosed, Requirers
  <2>3. RdepsInv'
    BY <1>4 DEF VisitOrphans, Insert, TypeOK, Phases, RdepsInv, Requirers
  <2>4. ClosureInv'
    BY <1>4 DEF VisitOrphans, Insert, TypeOK, Phases, ClosureInv, UpwardClosed,
       Requirers, RdepsInv
  <2>5. KnownInv'
    BY <1>4 DEF VisitOrphans, Insert, TypeOK, Phases, KnownInv, RdepsInv, Requirers,
       GraphInv, DiskClosed
  <2>6. RemovalInv'
    BY <1>4 DEF VisitOrphans, Insert, TypeOK, Phases, RemovalInv
  <2>7. DirectKept'
    BY <1>4 DEF VisitOrphans, Insert, TypeOK, Phases, DirectKept, RdepsInv, Requirers
  <2>8. SpecInv'
    BY <1>4 DEF VisitOrphans, Insert, TypeOK, Phases, SpecInv
  <2>9. LeastInv'
    <3> SUFFICES ASSUME NEW S \in SUBSET Pkg, Acceptable(S)' PROVE uninstalls' \subseteq S
      BY DEF LeastInv
    <3>1. Acceptable(S)
      BY <1>4 DEF VisitOrphans, Acceptable, Orphaned, UpwardClosed, Requirers
    <3>2. uninstalls \subseteq S
      BY <3>1 DEF LeastInv
    <3>3. u \in S /\ autoremove
      BY <1>4, <3>2 DEF VisitOrphans, TypeOK, OrphanInv
    <3>4. \A p \in requires[u] : rdeps[p] = {} => p \in Orphaned(S)
      <4> SUFFICES ASSUME NEW p \in requires[u], rdeps[p] = {} PROVE p \in Orphaned(S)
        OBVIOUS
      <4>1. p \in Pkg /\ u \in Requirers(p)
        BY DEF TypeOK, Requirers
      <4>2. p \notin direct /\ Requirers(p) \subseteq uninstalls
        BY <4>1 DEF RdepsInv
      <4> QED
        BY <4>2, <3>2, <3>3 DEF Orphaned
    <3> QED
      BY <1>4, <3>2, <3>1, <3>3, <3>4 DEF VisitOrphans, Insert, Acceptable
  <2>10. OrphanInv'
    BY <1>4 DEF VisitOrphans, Insert, TypeOK, Phases, OrphanInv, Acceptable,
       UpwardClosed, Orphaned, Requirers, RdepsInv, ClosureInv
  <2> QED
    BY <2>1, <2>2, <2>3, <2>4, <2>5, <2>6, <2>7, <2>8, <2>9, <2>10
<1>5. CASE EndOrphans
  <2>1. TypeOK'
    BY <1>5 DEF EndOrphans, TypeOK, Phases
  <2>2. GraphInv'
    BY <1>5 DEF EndOrphans, TypeOK, Phases, GraphInv, DiskClosed, RemovalInv,
       ClosureInv, UpwardClosed, Requirers
  <2>3. RdepsInv'
    BY <1>5 DEF EndOrphans, TypeOK, Phases, RdepsInv, Requirers
  <2>4. ClosureInv'
    BY <1>5 DEF EndOrphans, TypeOK, Phases, ClosureInv, UpwardClosed, Requirers,
       RdepsInv
  <2>5. KnownInv'
    BY <1>5 DEF EndOrphans, TypeOK, Phases, KnownInv, RdepsInv, Requirers, GraphInv,
       DiskClosed
  <2>6. RemovalInv'
    BY <1>5 DEF EndOrphans, TypeOK, Phases, RemovalInv
  <2>7. DirectKept'
    BY <1>5 DEF EndOrphans, TypeOK, Phases, DirectKept, RdepsInv, Requirers
  <2>8. SpecInv'
    BY <1>5 DEF EndOrphans, TypeOK, Phases, SpecInv
  <2>9. LeastInv'
    BY <1>5 DEF EndOrphans, TypeOK, Phases, LeastInv, Acceptable, UpwardClosed,
       Orphaned, Requirers, RdepsInv
  <2>10. OrphanInv'
    <3>1. CASE changed \/ ~autoremove
      BY <1>5, <3>1 DEF EndOrphans, OrphanInv, Acceptable, UpwardClosed, ClosureInv,
         Requirers
    <3>2. CASE ~changed /\ autoremove
      <4>1. Orphaned(uninstalls) \subseteq uninstalls
        <5> SUFFICES ASSUME NEW p \in Orphaned(uninstalls) PROVE p \in uninstalls
          OBVIOUS
        <5>1. PICK v \in uninstalls : p \in requires[v]
          BY DEF Orphaned
        <5>2. p \in Pkg /\ p \notin direct /\ Requirers(p) \subseteq uninstalls
          BY <5>1 DEF Orphaned, TypeOK
        <5>3. rdeps[p] = {}
          BY <1>5, <3>2, <5>2 DEF EndOrphans, OrphanInv, RdepsInv
        <5> QED
          BY <1>5, <3>2, <5>1, <5>3 DEF EndOrphans, OrphanInv
      <4>2. UpwardClosed(uninstalls)
        BY <1>5 DEF EndOrphans, ClosureInv
      <4>3. Acceptable(uninstalls)
        BY <4>1, <4>2 DEF Acceptable, OrphanInv
      <4>4. Acceptable(uninstalls)'
        BY <1>5, <4>3 DEF EndOrphans, Acceptable, UpwardClosed, Orphaned, Requirers
      <4> QED
        BY <1>5, <3>2, <4>4 DEF EndOrphans, OrphanInv
    <3> QED
      BY <3>1, <3>2 DEF TypeOK
  <2> QED
    BY <2>1, <2>2, <2>3, <2>4, <2>5, <2>6, <2>7, <2>8, <2>9, <2>10
<1>6. CASE Confirm
  BY <1>6 DEF Confirm, TypeOK, Phases, GraphInv, DiskClosed, RdepsInv, ClosureInv,
     UpwardClosed, Requirers, KnownInv, RemovalInv, DirectKept, SpecInv,
     LeastInv, OrphanInv, Acceptable, Orphaned
<1>7. CASE AnswerNo
  BY <1>7 DEF AnswerNo, TypeOK, Phases, GraphInv, DiskClosed, RdepsInv, ClosureInv,
     UpwardClosed, Requirers, KnownInv, RemovalInv, DirectKept, SpecInv,
     LeastInv, OrphanInv, Acceptable, Orphaned
<1>8. ASSUME NEW u \in Pkg, Remove(u) PROVE IInv'
  <2>1. TypeOK'
    BY <1>8 DEF Remove, TypeOK, Phases
  <2>2. GraphInv'
    BY <1>8 DEF Remove, TypeOK, Phases, GraphInv, DiskClosed, RemovalInv, ClosureInv,
       UpwardClosed, Requirers
  <2>3. RdepsInv'
    BY <1>8 DEF Remove, TypeOK, Phases, RdepsInv, Requirers
  <2>4. ClosureInv'
    BY <1>8 DEF Remove, TypeOK, Phases, ClosureInv, UpwardClosed, Requirers, RdepsInv
  <2>5. KnownInv'
    BY <1>8 DEF Remove, TypeOK, Phases, KnownInv, RdepsInv, Requirers, GraphInv,
       DiskClosed
  <2>6. RemovalInv'
    BY <1>8 DEF Remove, TypeOK, Phases, RemovalInv
  <2>7. DirectKept'
    BY <1>8 DEF Remove, TypeOK, Phases, DirectKept, RdepsInv, Requirers
  <2>8. SpecInv'
    BY <1>8 DEF Remove, TypeOK, Phases, SpecInv
  <2>9. LeastInv'
    BY <1>8 DEF Remove, TypeOK, Phases, LeastInv, Acceptable, UpwardClosed, Orphaned,
       Requirers, RdepsInv
  <2>10. OrphanInv'
    BY <1>8 DEF Remove, TypeOK, Phases, OrphanInv, Acceptable, UpwardClosed, Orphaned,
       Requirers, RdepsInv, ClosureInv
  <2> QED
    BY <2>1, <2>2, <2>3, <2>4, <2>5, <2>6, <2>7, <2>8, <2>9, <2>10
<1>9. ASSUME NEW u \in Pkg, RemoveFails(u) PROVE IInv'
  BY <1>9 DEF RemoveFails, TypeOK, Phases, GraphInv, DiskClosed, RdepsInv, ClosureInv,
     UpwardClosed, Requirers, KnownInv, RemovalInv, DirectKept, SpecInv,
     LeastInv, OrphanInv, Acceptable, Orphaned
<1>10. CASE WriteSpec
  <2>1. TypeOK'
    BY <1>10 DEF WriteSpec, TypeOK, Phases
  <2>2. GraphInv'
    BY <1>10 DEF WriteSpec, TypeOK, Phases, GraphInv, DiskClosed, RemovalInv, ClosureInv,
       UpwardClosed, Requirers
  <2>3. RdepsInv'
    BY <1>10 DEF WriteSpec, TypeOK, Phases, RdepsInv, Requirers
  <2>4. ClosureInv'
    BY <1>10 DEF WriteSpec, TypeOK, Phases, ClosureInv, UpwardClosed, Requirers, RdepsInv
  <2>5. KnownInv'
    BY <1>10 DEF WriteSpec, TypeOK, Phases, KnownInv, RdepsInv, Requirers, GraphInv,
       DiskClosed
  <2>6. RemovalInv'
    BY <1>10 DEF WriteSpec, TypeOK, Phases, RemovalInv
  <2>7. DirectKept'
    BY <1>10 DEF WriteSpec, TypeOK, Phases, DirectKept, RdepsInv, Requirers
  <2>8. SpecInv'
    BY <1>10 DEF WriteSpec, TypeOK, Phases, SpecInv
  <2>9. LeastInv'
    BY <1>10 DEF WriteSpec, TypeOK, Phases, LeastInv, Acceptable, UpwardClosed, Orphaned,
       Requirers, RdepsInv
  <2>10. OrphanInv'
    BY <1>10 DEF WriteSpec, TypeOK, Phases, OrphanInv, Acceptable, UpwardClosed, Orphaned,
       Requirers, RdepsInv, ClosureInv
  <2> QED
    BY <2>1, <2>2, <2>3, <2>4, <2>5, <2>6, <2>7, <2>8, <2>9, <2>10
<1>11. CASE UNCHANGED vars
  BY <1>11 DEF vars, TypeOK, GraphInv, DiskClosed, RdepsInv, ClosureInv, UpwardClosed,
     Requirers, KnownInv, RemovalInv, DirectKept, SpecInv,
     LeastInv, OrphanInv, Acceptable, Orphaned
<1>12. CASE WriteLock
  <2>1. TypeOK'
    BY <1>12 DEF WriteLock, TypeOK, Phases
  <2>2. GraphInv'
    BY <1>12 DEF WriteLock, TypeOK, Phases, GraphInv, DiskClosed, RemovalInv, ClosureInv,
       UpwardClosed, Requirers
  <2>3. RdepsInv'
    BY <1>12 DEF WriteLock, TypeOK, Phases, RdepsInv, Requirers
  <2>4. ClosureInv'
    BY <1>12 DEF WriteLock, TypeOK, Phases, ClosureInv, UpwardClosed, Requirers, RdepsInv
  <2>5. KnownInv'
    BY <1>12 DEF WriteLock, TypeOK, Phases, KnownInv, RdepsInv, Requirers, GraphInv,
       DiskClosed
  <2>6. RemovalInv'
    BY <1>12 DEF WriteLock, TypeOK, Phases, RemovalInv
  <2>7. DirectKept'
    BY <1>12 DEF WriteLock, TypeOK, Phases, DirectKept, RdepsInv, Requirers
  <2>8. SpecInv'
    BY <1>12 DEF WriteLock, TypeOK, Phases, SpecInv
  <2>9. LeastInv'
    BY <1>12 DEF WriteLock, TypeOK, Phases, LeastInv, Acceptable, UpwardClosed, Orphaned,
       Requirers, RdepsInv
  <2>10. OrphanInv'
    BY <1>12 DEF WriteLock, TypeOK, Phases, OrphanInv, Acceptable, UpwardClosed, Orphaned,
       Requirers, RdepsInv, ClosureInv
  <2> QED
    BY <2>1, <2>2, <2>3, <2>4, <2>5, <2>6, <2>7, <2>8, <2>9, <2>10
<1>13. CASE Stop
  BY <1>13 DEF Stop, TypeOK, Phases, GraphInv, DiskClosed, RdepsInv, ClosureInv,
     UpwardClosed, Requirers, KnownInv, RemovalInv, DirectKept, SpecInv,
     LeastInv, OrphanInv, Acceptable, Orphaned
<1> QED
  BY <1>1, <1>2, <1>3, <1>4, <1>5, <1>6, <1>7, <1>8, <1>9, <1>10, <1>11, <1>12, <1>13 DEF Next

LEMMA Invariant == Spec => []IInv
<1> QED
  BY InitIInv, StepIInv, PTL DEF Spec

\* Every variable of ttrek_Uninstall keeps its type.
THEOREM TypeCorrect == Spec => []TypeOK
<1>1. IInv => TypeOK
  BY DEF IInv
<1> QED
  BY Invariant, <1>1, PTL

\* A command never leaves a locked package on disk without its requirements,
\* whatever the order in which the loops meet the packages.
THEOREM LockStaysClosed == Spec => []DiskClosed
<1>1. IInv => DiskClosed
  BY DEF IInv, GraphInv
<1> QED
  BY Invariant, <1>1, PTL

\* A direct requirement of ttrek.json goes only when it is named or something
\* it requires goes.
THEOREM DirectStays == Spec => []DirectKept
<1>1. IInv => DirectKept
  BY DEF IInv
<1> QED
  BY Invariant, <1>1, PTL

\* The list shown for confirmation is the least set with the named packages,
\* all that needs them and, with -autoremove, what only they needed; the
\* iteration order of the unordered_set has no part in it.
THEOREM ListExact == Spec => []ListIsExact
<1>1. IInv => ListIsExact
  <2> SUFFICES ASSUME IInv, phase = "confirm" PROVE uninstalls = Expected
    BY DEF ListIsExact
  <2>1. uninstalls \subseteq Expected
    BY DEF IInv, TypeOK, LeastInv, Expected
  <2>2. Expected \subseteq uninstalls
    BY DEF IInv, TypeOK, OrphanInv, Expected
  <2> QED
    BY <2>1, <2>2
<1> QED
  BY Invariant, <1>1, PTL

\* No step of a command, none of those that fail or stop it, takes the lock
\* entry of a package and leaves the package in ttrek.json: ttrek.json is
\* written first, and of what both had they lose the same.
THEOREM SpecAlwaysLocked == Spec => SpecStaysLocked
<1>1. IInv /\ [Next]_vars => [spec' \ disk' \subseteq spec \ disk]_vars
  <2> SUFFICES ASSUME IInv, Next PROVE spec' \ disk' \subseteq spec \ disk
    OBVIOUS
  <2> USE DEF inputs, documents
  <2>1. CASE WriteSpec
    BY <2>1 DEF WriteSpec, IInv, SpecInv
  <2>2. CASE WriteLock
    <3>1. spec' = direct \ uninstalls /\ spec = direct \ uninstalls /\ disk' = locked
      BY <2>2 DEF WriteLock, IInv, SpecInv
    <3>2. disk \ uninstalls \subseteq locked
      BY <2>2 DEF WriteLock, IInv, RemovalInv
    <3> QED
      BY <3>1, <3>2
  <2>3. CASE ~WriteSpec /\ ~WriteLock
    <3>1. spec' = spec /\ disk' = disk
      BY <2>3 DEF Next, VisitDependents, VisitOrphans, Remove, RemoveFails, EndDependents,
         Erase, EndOrphans, Confirm, AnswerNo, Stop
    <3> QED
      BY <3>1
  <2> QED
    BY <2>1, <2>2, <2>3
<1> QED
  BY <1>1, Invariant, PTL DEF Spec, SpecStaysLocked
=============================================================================
