-------------------------- MODULE RequirementsProofs --------------------------
(***************************************************************************)
(* What is installed fits together, for every registry, every solution and *)
(* every sequence of commands, edits by hand and deaths between the two    *)
(* documents.  The argument is the lock file's part of the requirements:   *)
(* what is locked is asked for, so a solution has all of it, and is what   *)
(* the lock file holds after the install.  And a command leaves alone what *)
(* ttrek.json says of packages that it is not about.                       *)
(***************************************************************************)
EXTENDS Requirements, TLAPS

(***************************************************************************)
(* The invariant                                                           *)
(***************************************************************************)
Requirement == {AnyVersion, None} \cup SUBSET Versions
LockEntry == [version : Versions, requires : [Packages -> Requirement]]

DocumentsInv ==
    /\ registry \in [Packages -> [Versions -> [Packages -> Requirement]]]
    /\ spec \in [Packages -> {None} \cup Reqs]
    /\ lock \in [Packages -> {None} \cup LockEntry]

\* The lock file has what the registry says of the locked version.
FromRegistry == \A p \in Locked : lock[p].requires = registry[p][lock[p].version]

FitInv == DocumentsInv /\ FromRegistry /\ LockFits /\ SpecIsMet

Commands == {DirectDependencies} \cup (UNION {[A -> {AnyVersion} \cup Requests] : A \in NameSets})

\* A command line names packages with versions that the user wrote, or without.
LEMMA ArgumentsLemma ==
    ASSUME NEW argv \in Commands
    PROVE  /\ DOMAIN argv \subseteq Packages
           /\ \A p \in DOMAIN argv : argv[p] \in {AnyVersion} \cup Requests
<1>1. CASE argv = DirectDependencies
  BY <1>1 DEF DirectDependencies
<1>2. CASE \E A \in NameSets : argv \in [A -> {AnyVersion} \cup Requests]
  BY <1>2 DEF NameSets
<1> QED
  BY <1>1, <1>2 DEF Commands

\* What is asked for: of the command line, of ttrek.json, of the lock file.
LEMMA RequirementsLemma ==
    ASSUME DocumentsInv, NEW argv \in Commands, NEW p \in Packages
    PROVE  LET r == Requirements(argv)[p]
           IN /\ r \in {None, AnyVersion} \cup Reqs
              /\ p \in DOMAIN argv => r = argv[p] /\ r # None
              /\ p \notin DOMAIN argv /\ spec[p] # None => r = spec[p]
              /\ p \notin DOMAIN argv /\ spec[p] = None => r = IF p \in Locked THEN AnyVersion ELSE None
              /\ p \in Locked \/ spec[p] # None => r # None
<1>1. Requirements(argv)[p] = IF p \in DOMAIN argv THEN argv[p]
                              ELSE IF spec[p] # None THEN spec[p]
                              ELSE IF p \in Locked THEN AnyVersion ELSE None
  BY DEF Requirements, FromArguments, FromSpecFile, FromLockFile
<1>2. p \in DOMAIN argv => argv[p] \in {AnyVersion} \cup Reqs /\ argv[p] # None
  BY ArgumentsLemma, NamesAssumption DEF Reqs
<1>3. spec[p] \in {None} \cup Reqs
  BY DEF DocumentsInv
<1> QED
  BY <1>1, <1>2, <1>3, NamesAssumption

LEMMA CaretLemma ==
    ASSUME NEW v \in Versions
    PROVE  Caret(v) \in Reqs /\ v \in Caret(v) /\ Meaning(Caret(v)) = Caret(v)
<1> QED
  BY VersionAssumption, NamesAssumption DEF Caret, Reqs, Meaning

LEMMA MeaningLemma ==
    ASSUME NEW r \in {AnyVersion} \cup Reqs
    PROVE  Meaning(r) \subseteq Versions
<1>1. Reqs \subseteq SUBSET Versions
  BY RequestAssumption DEF Reqs, Caret
<1> QED
  BY <1>1 DEF Meaning

\* A solution of the requirements.
LEMMA SolutionLemma ==
    ASSUME DocumentsInv, NEW argv \in Commands, NEW sol \in Solutions(Requirements(argv))
    PROVE  /\ sol \in [Packages -> {None} \cup Versions]
           /\ Chosen(sol) \subseteq Packages /\ \A p \in Chosen(sol) : sol[p] \in Versions
           /\ \A p \in Packages : Requirements(argv)[p] # None =>
                  p \in Chosen(sol) /\ sol[p] \in Meaning(Requirements(argv)[p])
           /\ Locked \subseteq Chosen(sol)
           /\ Exact(sol) \subseteq Locked
<1> DEFINE req == Requirements(argv)
<1>1. \A p \in Packages : req[p] # None => sol[p] \in Meaning(req[p]) /\ sol[p] \in Versions /\ sol[p] # None
  <2> SUFFICES ASSUME NEW p \in Packages, req[p] # None
               PROVE  sol[p] \in Meaning(req[p]) /\ sol[p] \in Versions /\ sol[p] # None
    OBVIOUS
  <2>1. sol[p] \in Meaning(req[p])
    BY DEF Solutions
  <2>2. req[p] \in {AnyVersion} \cup Reqs
    BY RequirementsLemma
  <2>3. Meaning(req[p]) \subseteq Versions
    BY <2>2, MeaningLemma
  <2> QED
    BY <2>1, <2>3, NamesAssumption
<1>2. sol \in [Packages -> {None} \cup Versions]
  BY DEF Solutions
<1>3. \A p \in Locked : p \in Packages /\ req[p] # None
  BY RequirementsLemma DEF Locked
<1> HIDE DEF req
<1>4. Locked \subseteq Chosen(sol)
  BY <1>1, <1>3 DEF Chosen
<1> QED
  BY <1>1, <1>2, <1>4 DEF Chosen, Exact, req

(***************************************************************************)
(* Installing                                                              *)
(***************************************************************************)
LEMMA InstallStep ==
    ASSUME FitInv, NEW bare, NEW argv \in Commands, InstallOrUpdate(bare, argv)
    PROVE  FitInv'
<1> DEFINE req == Requirements(argv)
<1> DEFINE Writes(sol, S) ==
             /\ spec' = AddToSpec(req, sol, S)
             /\ \/ /\ lock' = AddToLock(sol, S)
                   /\ edited' = {p \in edited : p \in DOMAIN argv \ S}
                \/ edited' = edited \cup S /\ UNCHANGED lock
             /\ UNCHANGED registry
<1>0. PICK sol \in Solutions(req) :
          \E again \in SUBSET Exact(sol) : Writes(sol, (Chosen(sol) \ Exact(sol)) \cup again)
  BY DEF InstallOrUpdate
<1>1. PICK again \in SUBSET Exact(sol) : Writes(sol, (Chosen(sol) \ Exact(sol)) \cup again)
  BY <1>0
<1> DEFINE S == (Chosen(sol) \ Exact(sol)) \cup again
<1>2. /\ spec' = AddToSpec(req, sol, S)
      /\ \/ /\ lock' = AddToLock(sol, S)
            /\ edited' = {p \in edited : p \in DOMAIN argv \ S}
         \/ edited' = edited \cup S /\ UNCHANGED lock
      /\ UNCHANGED registry
  BY <1>1
<1>3. DocumentsInv /\ FromRegistry /\ LockFits /\ SpecIsMet
  BY DEF FitInv
<1>4. /\ \A p \in Chosen(sol) : p \in Packages /\ sol[p] \in Versions
      /\ \A p \in Packages : req[p] # None => p \in Chosen(sol) /\ sol[p] \in Meaning(req[p])
      /\ Locked \subseteq Chosen(sol) /\ Exact(sol) \subseteq Locked
  BY <1>3, SolutionLemma
<1>5. S \subseteq Chosen(sol) /\ Chosen(sol) \ S \subseteq Exact(sol)
  BY <1>4
<1>6. \A p \in Exact(sol) : p \in Locked /\ lock[p].version = sol[p]
  BY DEF Exact
<1> HIDE DEF S, req
<1>7. \A p \in Packages : spec'[p] = IF p \notin S \/ req[p] = None THEN spec[p]
                                     ELSE IF req[p] = AnyVersion THEN Caret(sol[p]) ELSE req[p]
  BY <1>2 DEF AddToSpec
<1>8. \A p \in Packages : req[p] \in {None, AnyVersion} \cup Reqs
  BY <1>3, RequirementsLemma DEF req
<1>9. spec' \in [Packages -> {None} \cup Reqs]
  <2>1. \A p \in Packages : spec'[p] \in {None} \cup Reqs
    <3> SUFFICES ASSUME NEW p \in Packages PROVE spec'[p] \in {None} \cup Reqs
      OBVIOUS
    <3>1. spec[p] \in {None} \cup Reqs
      BY <1>3 DEF DocumentsInv
    <3>2. p \in S => Caret(sol[p]) \in Reqs
      BY <1>4, <1>5, CaretLemma
    <3> QED
      BY <1>7, <1>8, <3>1, <3>2
  <2> QED
    BY <1>2, <2>1 DEF AddToSpec
<1>10. CASE edited' = edited \cup S /\ UNCHANGED lock
  <2>1. DocumentsInv' /\ FromRegistry' /\ LockFits'
    BY <1>2, <1>3, <1>9, <1>10 DEF DocumentsInv, FromRegistry, LockFits, Locked
  <2>2. SpecIsMet'
    BY <1>3, <1>7, <1>10 DEF SpecIsMet, Locked
  <2> QED
    BY <2>1, <2>2 DEF FitInv
<1>11. CASE lock' = AddToLock(sol, S) /\ edited' = {p \in edited : p \in DOMAIN argv \ S}
  <2>1. \A p \in Packages :
            lock'[p] = IF p \in S THEN [version |-> sol[p], requires |-> registry[p][sol[p]]] ELSE lock[p]
    BY <1>11 DEF AddToLock
  <2>2. \A p \in S : lock'[p] \in LockEntry /\ lock'[p] # None
    <3> SUFFICES ASSUME NEW p \in S PROVE lock'[p] \in LockEntry
      BY NamesAssumption DEF LockEntry, Requirement
    <3>1. p \in Packages /\ sol[p] \in Versions
      BY <1>4, <1>5
    <3>2. registry[p][sol[p]] \in [Packages -> Requirement]
      BY <1>3, <3>1 DEF DocumentsInv
    <3>3. lock'[p] = [version |-> sol[p], requires |-> registry[p][sol[p]]]
      BY <2>1, <3>1
    <3> QED
      BY <3>1, <3>2, <3>3 DEF LockEntry
  <2>3. DocumentsInv'
    <3>1. \A p \in Packages : lock'[p] \in {None} \cup LockEntry
      BY <1>3, <2>1, <2>2 DEF DocumentsInv
    <3>2. lock' \in [Packages -> {None} \cup LockEntry]
      BY <1>11, <3>1 DEF AddToLock
    <3> QED
      BY <1>2, <1>3, <1>9, <3>2 DEF DocumentsInv
  <2>4. \A p \in Chosen(sol) :
            /\ p \in Packages /\ lock'[p] # None /\ lock'[p].version = sol[p]
            /\ lock'[p].requires = registry[p][sol[p]]
    <3> SUFFICES ASSUME NEW p \in Chosen(sol)
                 PROVE  /\ p \in Packages /\ lock'[p] # None /\ lock'[p].version = sol[p]
                        /\ lock'[p].requires = registry[p][sol[p]]
      OBVIOUS
    <3>1. CASE p \in S
      <4>1. p \in Packages
        BY <1>4
      <4>2. lock'[p] = [version |-> sol[p], requires |-> registry[p][sol[p]]]
        BY <2>1, <3>1, <4>1
      <4> QED
        BY <2>2, <3>1, <4>1, <4>2
    <3>2. CASE p \notin S
      <4>1. p \in Locked /\ lock[p].version = sol[p] /\ p \in Packages
        BY <1>4, <1>5, <1>6, <3>2
      <4>2. lock'[p] = lock[p]
        BY <2>1, <3>2, <4>1
      <4> QED
        BY <1>3, <4>1, <4>2 DEF FromRegistry, Locked
    <3> QED
      BY <3>1, <3>2
  <2>5. Locked' = Chosen(sol)
    <3>1. \A p \in Packages : p \notin Chosen(sol) => lock'[p] = None
      BY <1>4, <1>5, <2>1 DEF Locked
    <3> QED
      BY <2>4, <3>1 DEF Locked
  <2>6. FromRegistry'
    BY <1>2, <2>4, <2>5 DEF FromRegistry
  <2>7. LockFits'
    <3> SUFFICES ASSUME NEW p \in Locked', NEW q \in Packages, lock'[p].requires[q] # None
                 PROVE  q \in Locked' /\ lock'[q].version \in Meaning(lock'[p].requires[q])
      BY DEF LockFits
    <3>1. p \in Chosen(sol) /\ lock'[p].requires = registry[p][sol[p]]
      BY <2>4, <2>5
    <3>2. sol[q] \in Meaning(registry[p][sol[p]][q])
      BY <3>1 DEF Solutions, Wanted
    <3>3. registry[p][sol[p]][q] \in Requirement /\ registry[p][sol[p]][q] # None
      BY <1>3, <1>4, <3>1 DEF DocumentsInv
    <3>4. sol[q] \in Versions
      BY <3>2, <3>3 DEF Requirement, Meaning
    <3>5. q \in Chosen(sol)
      BY <3>4, NamesAssumption DEF Chosen
    <3> QED
      BY <2>4, <2>5, <3>1, <3>2, <3>5
  <2>8. SpecIsMet'
    <3> SUFFICES ASSUME NEW p \in Packages, p \notin edited', spec'[p] # None
                 PROVE  p \in Locked' /\ lock'[p].version \in Meaning(spec'[p])
      BY DEF SpecIsMet
    <3>1. CASE p \in S
      <4>1. p \in Chosen(sol) /\ sol[p] \in Versions
        BY <1>4, <1>5, <3>1
      <4>2. req[p] # None
        <5>1. req[p] = None => spec'[p] = spec[p]
          BY <1>7
        <5>2. spec[p] # None => req[p] # None
          BY <1>3, RequirementsLemma DEF req
        <5> QED
          BY <5>1, <5>2
      <4>3. sol[p] \in Meaning(req[p]) /\ sol[p] \in Meaning(Caret(sol[p]))
        BY <1>4, <4>1, <4>2, CaretLemma
      <4>4. sol[p] \in Meaning(spec'[p])
        BY <1>7, <3>1, <4>2, <4>3
      <4> QED
        BY <2>4, <2>5, <4>1, <4>4
    <3>2. CASE p \notin S
      <4>1. spec'[p] = spec[p] /\ lock'[p] = lock[p]
        BY <1>7, <2>1, <3>2
      <4>2. CASE p \in edited
        <5>1. p \notin DOMAIN argv
          BY <1>11, <3>2, <4>2
        <5>2. req[p] = spec[p] /\ req[p] # None
          BY <1>3, <4>1, <5>1, RequirementsLemma DEF req
        <5> QED
          BY <1>4, <2>4, <2>5, <4>1, <5>2
      <4>3. CASE p \notin edited
        BY <1>3, <4>1, <4>3 DEF SpecIsMet, Locked
      <4> QED
        BY <4>2, <4>3
    <3> QED
      BY <3>1, <3>2
  <2> QED
    BY <2>3, <2>6, <2>7, <2>8 DEF FitInv
<1> QED
  BY <1>2, <1>10, <1>11

(***************************************************************************)
(* Uninstalling, and editing by hand                                       *)
(***************************************************************************)
Gone(asked, autoremove) == Removal(asked, autoremove)!Expected

\* What goes is closed under "requires it", and is locked if what is named is:
\* the locked packages are an acceptable set themselves.
LEMMA GoneLemma ==
    ASSUME LockFits, NEW asked \in SUBSET Locked, NEW autoremove \in BOOLEAN
    PROVE  /\ Gone(asked, autoremove) \subseteq Locked
           /\ \A p \in Packages : \A q \in Gone(asked, autoremove) :
                  q \in Requires[p] => p \in Gone(asked, autoremove)
<1> DEFINE M(S) == Removal(asked, autoremove)!Acceptable(S)
<1>1. \A p \in Packages :
          /\ Requires[p] \subseteq Packages /\ Requires[p] \subseteq Locked
          /\ Requires[p] # {} => p \in Locked
  BY DEF Requires, LockFits
<1>2. Gone(asked, autoremove) = {p \in Packages : \A S \in SUBSET Packages : M(S) => p \in S}
  BY DEF Gone, Removal!Expected
<1>3. \A S : M(S) <=>
          /\ asked \subseteq S
          /\ \A p \in S : \A q \in Packages : p \in Requires[q] => q \in S
          /\ autoremove => Removal(asked, autoremove)!Orphaned(S) \subseteq S
  BY DEF Removal!Acceptable, Removal!UpwardClosed, Removal!Requirers
<1>4. Removal(asked, autoremove)!Orphaned(Locked) \subseteq Locked
  BY <1>1 DEF Removal!Orphaned, Locked
<1> HIDE DEF M
<1>5. Locked \in SUBSET Packages /\ M(Locked)
  <2>1. \A p \in Locked : \A q \in Packages : p \in Requires[q] => q \in Locked
    BY <1>1
  <2> QED
    BY <1>3, <1>4, <2>1 DEF Locked
<1>6. Gone(asked, autoremove) \subseteq Locked
  BY <1>2, <1>5
<1>7. ASSUME NEW p \in Packages, NEW q \in Gone(asked, autoremove), q \in Requires[p]
      PROVE  p \in Gone(asked, autoremove)
  <2> SUFFICES ASSUME NEW S \in SUBSET Packages, M(S) PROVE p \in S
    BY <1>2
  <2>1. q \in S
    BY <1>2
  <2> QED
    BY <1>3, <1>7, <2>1
<1> QED
  BY <1>6, <1>7

\* A direct requirement that goes depends on a named package: if it does not,
\* the locked packages that it does not need are an acceptable set too.
LEMMA NeededLemma ==
    ASSUME LockFits, NEW asked \in SUBSET Locked, NEW autoremove \in BOOLEAN,
           NEW p \in Gone(asked, autoremove), spec[p] # None
    PROVE  DependsOn(p, asked)
<1> DEFINE Whole(T) == p \in T /\ \A q \in T : Requires[q] \subseteq T
           Needs == {q \in Packages : \A T \in SUBSET Packages : Whole(T) => q \in T}
           S == Locked \ Needs
           M(U) == Removal(asked, autoremove)!Acceptable(U)
<1>1. \A q \in Packages :
          /\ Requires[q] \subseteq Packages /\ Requires[q] \subseteq Locked
          /\ Requires[q] # {} => q \in Locked
  BY DEF Requires, LockFits
<1>2. Gone(asked, autoremove) = {q \in Packages : \A U \in SUBSET Packages : M(U) => q \in U}
  BY DEF Gone, Removal!Expected
<1>3. p \in Packages
  BY <1>2
<1>4. Needs \in SUBSET Packages /\ Whole(Needs)
  BY <1>1, <1>3
<1> SUFFICES ASSUME NEW T \in SUBSET Packages, Whole(T), T \cap asked = {} PROVE FALSE
  BY DEF DependsOn
<1>5. Needs \cap asked = {}
  OBVIOUS
<1>6. \A q \in Needs : q # p => \E r \in Needs \ {q} : q \in Requires[r]
  <2> SUFFICES ASSUME NEW q \in Needs, q # p, \A r \in Needs \ {q} : q \notin Requires[r]
               PROVE  FALSE
    OBVIOUS
  <2>1. Needs \ {q} \in SUBSET Packages /\ p \in Needs \ {q}
    BY <1>4
  <2>2. \A r \in Needs \ {q} : Requires[r] \subseteq Needs \ {q}
    BY <1>4
  <2>3. Whole(Needs \ {q})
    BY <2>1, <2>2
  <2> QED
    BY <2>1, <2>3
<1> HIDE DEF Needs
<1>7. asked \subseteq S
  BY <1>5
<1>8. \A q \in S : \A r \in Packages : q \in Requires[r] => r \in S
  BY <1>1, <1>4
<1>9. Removal(asked, autoremove)!Orphaned(S) \subseteq S
  <2> SUFFICES ASSUME NEW q \in Removal(asked, autoremove)!Orphaned(S) PROVE q \in S
    OBVIOUS
  <2>1. /\ \E u \in S : q \in Requires[u]
        /\ q \notin {r \in Packages : spec[r] # None}
        /\ {r \in Packages : q \in Requires[r]} \subseteq S
    BY DEF Removal!Orphaned, Removal!Requirers
  <2>2. q \in Locked /\ q \in Packages
    BY <1>1, <2>1 DEF Locked
  <2>3. q # p
    BY <1>3, <2>1
  <2>4. q \notin Needs
    BY <1>4, <1>6, <2>1, <2>3
  <2> QED
    BY <2>2, <2>4
<1>10. S \in SUBSET Packages
  BY DEF Locked
<1>11. M(S)
  <2>1. \A U : M(U) <=>
            /\ asked \subseteq U
            /\ \A q \in U : \A r \in Packages : q \in Requires[r] => r \in U
            /\ autoremove => Removal(asked, autoremove)!Orphaned(U) \subseteq U
    BY DEF Removal!Acceptable, Removal!UpwardClosed, Removal!Requirers
  <2> HIDE DEF M, S
  <2> QED
    BY <1>7, <1>8, <1>9, <2>1
<1>12. p \in S
  BY <1>2, <1>10, <1>11
<1> QED
  BY <1>4, <1>12

LEMMA UninstallStep ==
    ASSUME FitInv, NEW asked \in NameSets, NEW autoremove \in BOOLEAN,
           UninstallPackages(asked, autoremove)
    PROVE  FitInv'
<1> DEFINE gone == Gone(asked, autoremove)
<1>1. /\ asked \subseteq Locked
      /\ spec' = [p \in Packages |-> IF p \in gone THEN None ELSE spec[p]]
      /\ \/ lock' = [p \in Packages |-> IF p \in gone THEN None ELSE lock[p]]
         \/ UNCHANGED lock
      /\ edited' = edited \ gone
      /\ UNCHANGED registry
  BY DEF UninstallPackages, Gone
<1>2. DocumentsInv /\ FromRegistry /\ LockFits /\ SpecIsMet
  BY DEF FitInv
<1>3. \A p \in Packages : \A q \in gone : q \in Requires[p] => p \in gone
  BY <1>1, <1>2, GoneLemma
<1> HIDE DEF gone
<1>4. DocumentsInv'
  BY <1>1, <1>2 DEF DocumentsInv
<1> SUFFICES ASSUME lock' = [p \in Packages |-> IF p \in gone THEN None ELSE lock[p]]
             PROVE  FitInv'
  <2>1. CASE UNCHANGED lock
    <3>1. Locked' = Locked /\ UNCHANGED registry
      BY <1>1, <2>1 DEF Locked
    <3>2. \A p \in Packages : spec'[p] # None => p \notin gone /\ spec'[p] = spec[p]
      BY <1>1
    <3>3. SpecIsMet'
      BY <1>1, <1>2, <2>1, <3>1, <3>2 DEF SpecIsMet
    <3> QED
      BY <1>2, <1>4, <2>1, <3>1, <3>3 DEF FitInv, FromRegistry, LockFits
  <2> QED
    BY <1>1, <2>1
<1>5. Locked' = Locked \ gone /\ \A p \in Locked' : lock'[p] = lock[p]
  BY <1>1 DEF Locked
<1>6. FromRegistry'
  BY <1>1, <1>2, <1>5 DEF FromRegistry
<1>7. LockFits'
  <2> SUFFICES ASSUME NEW p \in Locked', NEW q \in Packages, lock'[p].requires[q] # None
               PROVE  q \in Locked' /\ lock'[q].version \in Meaning(lock'[p].requires[q])
    BY DEF LockFits
  <2>1. p \in Locked /\ p \notin gone /\ p \in Packages /\ lock'[p] = lock[p]
    BY <1>5 DEF Locked
  <2>2. q \in Locked /\ lock[q].version \in Meaning(lock[p].requires[q])
    BY <1>2, <2>1 DEF LockFits
  <2>3. q \in Requires[p]
    BY <2>1 DEF Requires
  <2>4. q \notin gone
    BY <1>3, <2>1, <2>3
  <2> QED
    BY <1>5, <2>1, <2>2, <2>4
<1>8. SpecIsMet'
  <2> SUFFICES ASSUME NEW p \in Packages, p \notin edited', spec'[p] # None
               PROVE  p \in Locked' /\ lock'[p].version \in Meaning(spec'[p])
    BY DEF SpecIsMet
  <2>1. p \notin gone /\ spec'[p] = spec[p] /\ p \notin edited
    BY <1>1
  <2>2. p \in Locked /\ lock[p].version \in Meaning(spec[p])
    BY <1>2, <2>1 DEF SpecIsMet
  <2> QED
    BY <1>5, <2>1, <2>2
<1> QED
  BY <1>4, <1>6, <1>7, <1>8 DEF FitInv

LEMMA EditStep ==
    ASSUME FitInv, NEW p \in Packages, NEW r \in {None} \cup Requests, EditSpec(p, r)
    PROVE  FitInv'
<1>1. spec' = [spec EXCEPT ![p] = r] /\ edited' = edited \cup {p} /\ UNCHANGED <<registry, lock>>
  BY DEF EditSpec
<1>2. r \in {None} \cup Reqs
  BY DEF Reqs
<1> QED
  BY <1>1, <1>2 DEF FitInv, DocumentsInv, FromRegistry, LockFits, SpecIsMet, Locked

\* Each step is an install, an uninstall or an edit.
LEMMA InstallsLemma ==
    ASSUME Install \/ InstallBare
    PROVE  \E bare \in BOOLEAN : \E argv \in Commands : InstallOrUpdate(bare, argv)
<1>1. DirectDependencies \in Commands
  BY DEF Commands
<1>2. \A A \in NameSets : \A argv \in [A -> {AnyVersion} \cup Requests] : argv \in Commands
  BY DEF Commands
<1>3. CASE Install
  <2>1. PICK A \in NameSets : \E argv \in [A -> {AnyVersion} \cup Requests] : InstallOrUpdate(FALSE, argv)
    BY <1>3 DEF Install
  <2>2. PICK argv \in [A -> {AnyVersion} \cup Requests] : InstallOrUpdate(FALSE, argv)
    BY <2>1
  <2>3. argv \in Commands /\ FALSE \in BOOLEAN
    BY <1>2
  <2> QED
    BY <2>2, <2>3
<1>4. CASE InstallBare
  <2>1. InstallOrUpdate(TRUE, DirectDependencies) /\ TRUE \in BOOLEAN
    BY <1>4 DEF InstallBare
  <2> QED
    BY <1>1, <2>1
<1> QED
  BY <1>3, <1>4

LEMMA FitStep == FitInv /\ [Next]_vars => FitInv'
<1> SUFFICES ASSUME FitInv, [Next]_vars PROVE FitInv'
  OBVIOUS
<1>1. CASE UNCHANGED vars
  BY <1>1 DEF vars, FitInv, DocumentsInv, FromRegistry, LockFits, SpecIsMet, Locked
<1>2. CASE Install \/ InstallBare
  BY <1>2, InstallsLemma, InstallStep
<1>3. CASE \E asked \in NameSets : \E autoremove \in BOOLEAN : UninstallPackages(asked, autoremove)
  BY <1>3, UninstallStep
<1>4. CASE \E p \in Packages : \E r \in {None} \cup Requests : EditSpec(p, r)
  BY <1>4, EditStep
<1> QED
  BY <1>1, <1>2, <1>3, <1>4 DEF Next

LEMMA InitFit == Init => FitInv
<1> SUFFICES ASSUME Init PROVE FitInv
  OBVIOUS
<1>1. registry \in [Packages -> [Versions -> [Packages -> Requirement]]]
  BY RegistryAssumption DEF Init, Requirement
<1>2. \A p \in Packages : spec[p] = None /\ lock[p] = None
  BY DEF Init, Nothing
<1>3. DocumentsInv
  BY <1>1 DEF DocumentsInv, Init, Nothing
<1>4. FromRegistry /\ LockFits /\ SpecIsMet
  BY <1>2 DEF FromRegistry, LockFits, SpecIsMet, Locked
<1> QED
  BY <1>3, <1>4 DEF FitInv

LEMMA FitInvariance == Spec => []FitInv
<1> QED
  BY InitFit, FitStep, PTL DEF Spec

\* Whatever has been installed, updated, uninstalled and edited: what a locked
\* package requires is locked in a version it admits (ttrek_Solve asks for the
\* packages of the lock file first).
THEOREM LockAlwaysFits == Spec => []LockFits
<1>1. FitInv => LockFits
  BY DEF FitInv
<1> QED
  BY <1>1, FitInvariance, PTL

\* Every requirement of ttrek.json is met by the lock file, but for entries that
\* were edited by hand or whose writer died between the two documents
\* (ttrek_AddPackageToSpec writes what the solution was asked for, or a caret).
THEOREM SpecAlwaysMet == Spec => []SpecIsMet
<1>1. FitInv => SpecIsMet
  BY DEF FitInv
<1> QED
  BY <1>1, FitInvariance, PTL

\* A command leaves the entries of other packages in ttrek.json alone, unless
\* they are locked and become direct, or depend on one that is uninstalled;
\* that holds of a command that dies between the documents as well.
THEOREM OthersAlwaysStay == Spec => OthersStay
<1> DEFINE Stays ==
        \A p \in Packages \ last'.named :
           spec'[p] # spec[p] =>
              \/ spec[p] = None /\ p \in Locked /\ \E v \in Versions : spec'[p] = Caret(v)
              \/ spec'[p] = None /\ p \in Locked /\ DependsOn(p, last'.named)
<1>1. ASSUME FitInv, NEW bare, NEW argv \in Commands, InstallOrUpdate(bare, argv) PROVE Stays
  <2> SUFFICES ASSUME NEW p \in Packages, p \notin last'.named, spec'[p] # spec[p]
               PROVE  spec[p] = None /\ p \in Locked /\ \E v \in Versions : spec'[p] = Caret(v)
    OBVIOUS
  <2> DEFINE req == Requirements(argv)
             Writes(sol, S) == spec' = AddToSpec(req, sol, S)
  <2>1. last' = [bare |-> bare, named |-> DOMAIN argv]
    BY <1>1 DEF InstallOrUpdate
  <2>2. p \notin DOMAIN argv
    BY <2>1
  <2>3. PICK sol \in Solutions(req) :
            \E again \in SUBSET Exact(sol) : Writes(sol, (Chosen(sol) \ Exact(sol)) \cup again)
    BY <1>1 DEF InstallOrUpdate
  <2>4. PICK S : S \subseteq Chosen(sol) /\ Writes(sol, S)
    <3>1. PICK again \in SUBSET Exact(sol) : Writes(sol, (Chosen(sol) \ Exact(sol)) \cup again)
      BY <2>3
    <3>2. (Chosen(sol) \ Exact(sol)) \cup again \subseteq Chosen(sol)
      BY DEF Exact
    <3> QED
      BY <3>1, <3>2
  <2>5. spec'[p] = IF p \notin S \/ req[p] = None THEN spec[p]
                   ELSE IF req[p] = AnyVersion THEN Caret(sol[p]) ELSE req[p]
    BY <2>4 DEF AddToSpec
  <2>6. DocumentsInv
    BY <1>1 DEF FitInv
  <2>7. p \in S /\ req[p] # None /\ sol[p] \in Versions
    BY <2>4, <2>5, <2>6, SolutionLemma
  <2>8. spec[p] # None => req[p] = spec[p] /\ spec[p] # AnyVersion
    BY <2>2, <2>6, RequirementsLemma, NamesAssumption DEF DocumentsInv
  <2>9. spec[p] = None => p \in Locked /\ req[p] = AnyVersion
    BY <2>2, <2>6, <2>7, RequirementsLemma
  <2> HIDE DEF req
  <2> QED
    BY <2>5, <2>7, <2>8, <2>9
<1>2. ASSUME FitInv, NEW asked \in NameSets, NEW autoremove \in BOOLEAN, UninstallPackages(asked, autoremove)
      PROVE  Stays
  <2>1. Gone(asked, autoremove) \subseteq Locked
    BY <1>2, GoneLemma DEF FitInv, UninstallPackages
  <2>2. /\ last'.named = asked /\ asked \subseteq Locked
        /\ \A p \in Packages :
              spec'[p] = IF p \in Gone(asked, autoremove) THEN None ELSE spec[p]
    BY <1>2 DEF UninstallPackages, Gone
  <2>3. \A p \in Gone(asked, autoremove) : spec[p] # None => DependsOn(p, asked)
    BY <1>2, <2>2, NeededLemma DEF FitInv
  <2> QED
    BY <2>1, <2>2, <2>3
<1>3. ASSUME FitInv, NEW p \in Packages, NEW r \in {None} \cup Requests, EditSpec(p, r) PROVE Stays
  <2>1. last'.named = {p} /\ spec' = [spec EXCEPT ![p] = r]
    BY <1>3 DEF EditSpec
  <2> QED
    BY <1>3, <2>1 DEF FitInv, DocumentsInv
<1>4. FitInv /\ [Next]_vars => [Stays]_vars
  <2> SUFFICES ASSUME FitInv, Next PROVE Stays
    OBVIOUS
  <2> HIDE DEF Stays
  <2> QED
    BY <1>1, <1>2, <1>3, InstallsLemma DEF Next
<1> QED
  BY <1>4, FitInvariance, PTL DEF Spec, OthersStay
==============================================================================
