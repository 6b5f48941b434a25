-------------------------- MODULE InstallScriptProofs --------------------------
(***************************************************************************)
(* What use flags and install scripts guarantee for every list of flags,   *)
(* every registry and every line that may fail: a package that is passed   *)
(* over as exact was built by the commands that its flags call for now,    *)
(* what is recorded is one install in one step or nothing, and the         *)
(* project's own sources are never fetched over.                           *)
(***************************************************************************)
EXTENDS InstallScript, Iterations

(***************************************************************************)
(* Sequences                                                               *)
(***************************************************************************)
\* What FlattenSeq is made of is in what it returns, and nothing else.
LEMMA FlattenLemma ==
    ASSUME NEW X, NEW ss \in Seq(Seq(X))
    PROVE  FlattenSeq(ss) \in Seq(X)
<1>1. Len(ss) \in Nat /\ \A i \in 1..Len(ss) : ss[i] \in Seq(X)
  OBVIOUS
<1>2. CASE Len(ss) = 0
  <2>1. ss = << >>
    BY <1>2
  <2> QED
    BY <1>2, <2>1 DEF FlattenSeq
<1>3. CASE Len(ss) # 0
  <2> DEFINE N == Len(ss)
             W[i \in 1..N] == IF i = 1 THEN ss[i] ELSE W[i - 1] \o ss[i]
             g == [i \in Nat |-> [s \in Seq(X) |-> IF i \in 1..N THEN s \o ss[i] ELSE s]]
  <2>1. FlattenSeq(ss) = W[N]
    BY <1>3 DEF FlattenSeq
  <2>2. ss[1] \in Seq(X) /\ g \in [Nat -> [Seq(X) -> Seq(X)]] /\ N >= 1 /\ N \in Nat
    BY <1>1, <1>3
  <2>3. PICK f : Iterates(f, Seq(X), 1, N, ss[1], g)
    <3> HIDE DEF g, N, W
    <3> QED
      BY <2>2, Iteration
  <2>4. f \in [1..N -> Seq(X)] /\ \A i \in 1..N : f[i] = IF i = 1 THEN ss[1] ELSE g[i][f[i - 1]]
    BY <2>3 DEF Iterates
  <2>5. \A i \in 1..N : i \in Nat /\ (i # 1 => i - 1 \in 1..N)
    BY <2>2
  <2>6. f = [i \in 1..N |-> IF i = 1 THEN ss[i] ELSE f[i - 1] \o ss[i]]
    <3>1. \A i \in 1..N : \A s \in Seq(X) : g[i][s] = s \o ss[i]
      BY <2>5
    <3>2. \A i \in 1..N : i # 1 => f[i - 1] \in Seq(X)
      BY <2>4, <2>5
    <3> HIDE DEF g, N, W
    <3> QED
      BY <2>4, <3>1, <3>2
  <2>7. W = [i \in 1..N |-> IF i = 1 THEN ss[i] ELSE W[i - 1] \o ss[i]]
    <3> HIDE DEF g, N
    <3>1. \E h : h = [i \in 1..N |-> IF i = 1 THEN ss[i] ELSE h[i - 1] \o ss[i]]
      BY <2>6, Zenon
    <3> QED
      BY <3>1, Zenon
  <2> HIDE DEF W, N
  <2> DEFINE A == {n \in Nat : n <= N => W[n] \in Seq(X)}
  <2>8. 1 \in A
    <3>1. 1 \in 1..N
      BY <2>2
    <3>2. W[1] = ss[1]
      BY <2>7, <3>1
    <3> QED
      BY <2>2, <3>2
  <2>9. ASSUME NEW n \in Nat, n >= 1, n \in A PROVE n + 1 \in A
    <3> SUFFICES ASSUME n + 1 <= N PROVE W[n + 1] \in Seq(X)
      OBVIOUS
    <3>1. n + 1 \in 1..N /\ (n + 1) - 1 = n /\ n + 1 # 1 /\ n <= N
      BY <2>2, <2>9
    <3>2. W[n + 1] = W[n] \o ss[n + 1] /\ W[n] \in Seq(X)
      BY <2>7, <2>9, <3>1
    <3>3. ss[n + 1] \in Seq(X)
      BY <1>1, <3>1 DEF N
    <3> QED
      BY <3>2, <3>3
  <2> HIDE DEF A
  <2>10. N \in A
    BY <2>2, <2>8, <2>9, Induction
  <2> QED
    BY <2>1, <2>2, <2>10 DEF A
<1> QED
  BY <1>2, <1>3

(***************************************************************************)
(* Tables and lists of flags (UseFlags)                                    *)
(***************************************************************************)
\* A table has one sign for each name.
OneSign(T) == \A f, g \in T : f.name = g.name => f = g

LEMMA TableLemma ==
    ASSUME NEW X, NEW s \in Seq(X)
    PROVE  /\ Table(s) \subseteq X /\ Table(s) \subseteq Elements(s) /\ OneSign(Table(s))
           /\ IsFiniteSet(Table(s)) /\ Cardinality(Table(s)) \in Nat
           /\ \A f : f \in Table(s) <=>
                \E i \in 1..Len(s) : s[i] = f /\ \A k \in (i + 1)..Len(s) : s[k].name # f.name
<1>1. Len(s) \in Nat /\ DOMAIN s = 1..Len(s) /\ \A i \in 1..Len(s) : s[i] \in X
  OBVIOUS
<1>2. \A f : f \in Table(s) <=>
          \E i \in 1..Len(s) : s[i] = f /\ \A k \in (i + 1)..Len(s) : s[k].name # f.name
  BY <1>1 DEF Table
<1>3. Table(s) \subseteq X /\ Table(s) \subseteq Elements(s)
  BY <1>1, <1>2 DEF Elements
<1>4. OneSign(Table(s))
  <2> SUFFICES ASSUME NEW f \in Table(s), NEW g \in Table(s), f.name = g.name PROVE f = g
    BY DEF OneSign
  <2>1. PICK i \in 1..Len(s) : s[i] = f /\ \A k \in (i + 1)..Len(s) : s[k].name # f.name
    BY <1>2
  <2>2. PICK j \in 1..Len(s) : s[j] = g /\ \A k \in (j + 1)..Len(s) : s[k].name # g.name
    BY <1>2
  <2>3. ~(i < j) /\ ~(j < i)
    BY <1>1, <2>1, <2>2
  <2> QED
    BY <1>1, <2>1, <2>2, <2>3
<1>5. IsFiniteSet(Elements(s))
  <2>1. s \in Surjection(1..Len(s), Elements(s))
    BY <1>1 DEF Surjection, Elements
  <2>2. IsFiniteSet(1..Len(s))
    BY <1>1, FS_Interval
  <2> QED
    BY <2>1, <2>2, FS_Surjection
<1>6. IsFiniteSet(Table(s)) /\ Cardinality(Table(s)) \in Nat
  BY <1>3, <1>5, FS_Subset, FS_CardinalityType
<1> QED
  BY <1>2, <1>3, <1>4, <1>6

\* A list of a table has each of its flags once, and is read as that table.
LEMMA ListLemma ==
    ASSUME NEW T, IsFiniteSet(T), OneSign(T), NEW t \in ListsOf(T)
    PROVE  t \in Seq(T) /\ Elements(t) = T /\ Table(t) = T
<1>1. /\ Cardinality(T) \in Nat /\ t \in [1..Cardinality(T) -> T] /\ T \subseteq Elements(t)
      /\ t \in Seq(T) /\ Len(t) = Cardinality(T) /\ DOMAIN t = 1..Len(t)
  BY FS_CardinalityType DEF ListsOf
<1>2. Elements(t) = T
  BY <1>1 DEF Elements
<1>3. \A i, j \in 1..Len(t) : t[i] = t[j] => i = j
  <2>1. t \in Surjection(1..Len(t), T)
    BY <1>1 DEF Surjection, Elements
  <2>2. IsFiniteSet(1..Len(t)) /\ Cardinality(1..Len(t)) = Len(t)
    BY <1>1, FS_Interval
  <2>3. t \in Injection(1..Len(t), T)
    BY <1>1, <2>1, <2>2, FS_SurjSameCardinalityImpliesInj
  <2> QED
    BY <2>3 DEF Injection, IsInjective
<1>4. \A f \in T : f \in Table(t)
  <2> SUFFICES ASSUME NEW f \in T PROVE f \in Table(t)
    OBVIOUS
  <2>1. PICK i \in 1..Len(t) : t[i] = f
    BY <1>1 DEF Elements
  <2>2. ASSUME NEW k \in (i + 1)..Len(t) PROVE t[k].name # f.name
    <3>1. k \in 1..Len(t) /\ k # i
      BY <1>1, <2>2
    <3>2. t[k] # f /\ t[k] \in T
      BY <1>1, <1>3, <2>1, <3>1
    <3> QED
      BY <3>2 DEF OneSign
  <2> QED
    BY <2>1, <2>2, <1>1, TableLemma
<1>5. Table(t) \subseteq T
  BY <1>1, TableLemma
<1> QED
  BY <1>1, <1>2, <1>4, <1>5

\* Flags that are put behind a list change nothing for other names.
LEMMA BehindLemma ==
    ASSUME NEW X, NEW s \in Seq(X), NEW a \in Seq(X), NEW f, f.name \notin Names(a)
    PROVE  f \in Table(s \o a) <=> f \in Table(s)
<1> DEFINE c == s \o a
           n == Len(s) + Len(a)
<1>1. /\ Len(s) \in Nat /\ Len(a) \in Nat /\ n \in Nat /\ n >= Len(s) /\ c \in Seq(X) /\ n = Len(c)
      /\ \A i \in 1..Len(s) : c[i] = s[i]
      /\ \A i \in (Len(s) + 1)..n : c[i] = a[i - Len(s)] /\ i - Len(s) \in 1..Len(a)
  OBVIOUS
<1>2. \A i \in 1..Len(a) : a[i].name # f.name
  BY DEF Names, Elements
<1>3. \A i \in (Len(s) + 1)..n : c[i].name # f.name
  BY <1>1, <1>2
<1> HIDE DEF c, n
<1>4. f \in Table(c) <=> \E i \in 1..n : c[i] = f /\ \A k \in (i + 1)..n : c[k].name # f.name
  <2>1. n = Len(c) /\ DOMAIN c = 1..n
    BY <1>1
  <2> QED
    BY <2>1 DEF Table
<1>5. f \in Table(s) <=>
          \E i \in 1..Len(s) : s[i] = f /\ \A k \in (i + 1)..Len(s) : s[k].name # f.name
  BY <1>1, TableLemma
<1>6. ASSUME f \in Table(s) PROVE f \in Table(c)
  <2>1. PICK i \in 1..Len(s) : s[i] = f /\ \A k \in (i + 1)..Len(s) : s[k].name # f.name
    BY <1>5, <1>6
  <2>2. \A k \in (i + 1)..n : c[k].name # f.name
    <3> SUFFICES ASSUME NEW k \in (i + 1)..n PROVE c[k].name # f.name
      OBVIOUS
    <3>1. k \in (i + 1)..Len(s) \/ k \in (Len(s) + 1)..n
      BY <1>1
    <3>2. k \in (i + 1)..Len(s) => k \in 1..Len(s)
      BY <1>1
    <3> QED
      BY <1>1, <1>3, <2>1, <3>1, <3>2
  <2>3. i \in 1..n /\ c[i] = f
    BY <1>1, <2>1
  <2> QED
    BY <1>4, <2>2, <2>3
<1>7. ASSUME f \in Table(c) PROVE f \in Table(s)
  <2>1. PICK i \in 1..n : c[i] = f /\ \A k \in (i + 1)..n : c[k].name # f.name
    BY <1>4, <1>7
  <2>2. i \in 1..Len(s)
    BY <1>1, <1>3, <2>1
  <2>3. \A k \in (i + 1)..Len(s) : k \in (i + 1)..n /\ k \in 1..Len(s)
    BY <1>1, <2>2
  <2>4. s[i] = f /\ \A k \in (i + 1)..Len(s) : s[k].name # f.name
    BY <1>1, <2>1, <2>2, <2>3
  <2> QED
    BY <1>5, <2>2, <2>4
<1> QED
  BY <1>6, <1>7 DEF c

LEMMA LineLemma ==
    ASSUME NEW line \in Lines
    PROVE  ModeOf(line) \in Mode /\ Arguments(line) \in Seq(Flag)
<1>1. line \in Seq(Flag) /\ Len(line) \in Nat /\ DOMAIN line = 1..Len(line)
  BY LinesAssumption
<1>2. Left(line) \in Nat /\ Left(line) <= Len(line)
  <2>1. IsFiniteSet(1..Len(line)) /\ Cardinality(1..Len(line)) = Len(line)
    BY <1>1, FS_Interval
  <2>2. {i \in DOMAIN line : line[i] # OptionUser} \in SUBSET (1..Len(line))
    BY <1>1
  <2> QED
    BY <2>1, <2>2, FS_Subset, FS_CardinalityType DEF Left
<1>3. Arguments(line) \in Seq(Flag)
  BY <1>1, <1>2 DEF Arguments
<1> QED
  BY <1>3 DEF ModeOf, Mode

(***************************************************************************)
(* The documents (UseFlags)                                                *)
(***************************************************************************)
FlagsInv == useFlags \in [Mode -> Seq(Flag)]

RecordInv ==
    \A p \in Pkg : record[p] # None =>
        /\ record[p] \in [iuse : KnownSets, use : SUBSET Flag]
        /\ record[p].use \subseteq record[p].iuse
        /\ OneSign(record[p].use)

UseInv == FlagsInv /\ RecordInv

LEMMA InForceLemma ==
    ASSUME FlagsInv
    PROVE  InForce \subseteq Flag /\ OneSign(InForce)
<1>1. useFlags["local"] \in Seq(Flag)
  BY DEF FlagsInv, Mode
<1> QED
  BY <1>1, TableLemma DEF InForce

\* `use' leaves a list of flags behind.
LEMMA UseStep ==
    ASSUME UseInv, NEW line \in Lines, UseAdd(line) \/ UseDel(line) \/ UseSet(line)
    PROVE  UseInv'
<1>1. ModeOf(line) \in Mode /\ Arguments(line) \in Seq(Flag) /\ useFlags[ModeOf(line)] \in Seq(Flag)
      /\ useFlags \in [Mode -> Seq(Flag)]
  BY LineLemma DEF UseInv, FlagsInv
<1>2. \A T \in SUBSET Flag : IsFiniteSet(T) /\ OneSign(T) => \A t \in ListsOf(T) : t \in Seq(Flag)
  <2> SUFFICES ASSUME NEW T \in SUBSET Flag, IsFiniteSet(T), OneSign(T), NEW t \in ListsOf(T)
               PROVE  t \in Seq(Flag)
    OBVIOUS
  <2>1. t \in Seq(T)
    BY ListLemma
  <2> QED
    BY <2>1
<1>3. CASE UseAdd(line)
  <2> DEFINE s == useFlags[ModeOf(line)] \o Arguments(line)
  <2>1. s \in Seq(Flag)
    BY <1>1
  <2>2. Table(s) \in SUBSET Flag /\ IsFiniteSet(Table(s)) /\ OneSign(Table(s))
    BY <2>1, TableLemma
  <2>3. \A t \in ListsOf(Table(s)) : t \in Seq(Flag)
    BY <1>2, <2>2
  <2>4. UNCHANGED useFlags \/ \E t \in Seq(Flag) : useFlags' = [useFlags EXCEPT ![ModeOf(line)] = t]
    BY <1>3, <2>3 DEF UseAdd
  <2> QED
    BY <1>1, <1>3, <2>4 DEF UseInv, FlagsInv, RecordInv, UseAdd
<1>4. CASE UseDel(line)
  <2> DEFINE left == {f \in Table(useFlags[ModeOf(line)]) : f.name \notin Names(Arguments(line))}
  <2>1. left \in SUBSET Flag /\ IsFiniteSet(left) /\ OneSign(left)
    BY <1>1, TableLemma, FS_Subset DEF OneSign
  <2>2. \A t \in ListsOf(left) : t \in Seq(Flag)
    BY <1>2, <2>1
  <2>3. UNCHANGED useFlags \/ \E t \in Seq(Flag) : useFlags' = [useFlags EXCEPT ![ModeOf(line)] = t]
    BY <1>4, <2>2 DEF UseDel
  <2> QED
    BY <1>1, <1>4, <2>3 DEF UseInv, FlagsInv, RecordInv, UseDel
<1>5. CASE UseSet(line)
  BY <1>1, <1>5 DEF UseInv, FlagsInv, RecordInv, UseSet
<1> QED
  BY <1>3, <1>4, <1>5

LEMMA InstallStep ==
    ASSUME UseInv, NEW changed \in SUBSET Pkg, NEW known \in [changed -> KnownSets], Install(changed, known)
    PROVE  UseInv'
<1>1. InForce \subseteq Flag /\ OneSign(InForce)
  BY InForceLemma DEF UseInv
<1>2. \A S : Intersection(S) \in SUBSET Flag /\ Intersection(S) \subseteq S /\ OneSign(Intersection(S))
  BY <1>1 DEF Intersection, OneSign
<1>3. FlagsInv'
  BY DEF UseInv, FlagsInv, Install
<1>4. ASSUME NEW p \in Pkg, record'[p] # None
      PROVE  /\ record'[p] \in [iuse : KnownSets, use : SUBSET Flag]
             /\ record'[p].use \subseteq record'[p].iuse
             /\ OneSign(record'[p].use)
  <2>1. CASE p \in changed
    <3>1. record'[p] = [iuse |-> known[p], use |-> Intersection(known[p])]
      BY <2>1 DEF Install
    <3> QED
      BY <1>2, <2>1, <3>1
  <2>2. CASE p \notin changed /\ p \in Installed /\ ~Exact(p)
    <3>1. record'[p] = [record[p] EXCEPT !.use = Intersection(record[p].iuse)]
      BY <2>2 DEF Install
    <3>2. record[p] \in [iuse : KnownSets, use : SUBSET Flag]
      BY <2>2 DEF UseInv, RecordInv, Installed
    <3> QED
      BY <1>2, <3>1, <3>2
  <2>3. CASE p \notin changed /\ ~(p \in Installed /\ ~Exact(p))
    <3>1. record'[p] = record[p]
      BY <2>3 DEF Install
    <3> QED
      BY <1>4, <3>1 DEF UseInv, RecordInv
  <2> QED
    BY <2>1, <2>2, <2>3
<1> QED
  BY <1>3, <1>4 DEF UseInv, RecordInv

LEMMA UseInvStep == UseInv /\ [Next]_vars => UseInv'
<1> SUFFICES ASSUME UseInv, [Next]_vars PROVE UseInv'
  OBVIOUS
<1>1. CASE UNCHANGED vars
  BY <1>1 DEF vars, UseInv, FlagsInv, RecordInv
<1> QED
  BY <1>1, UseStep, InstallStep DEF Next

LEMMA InitUseInv == Init => UseInv
<1> SUFFICES ASSUME Init PROVE UseInv
  OBVIOUS
<1>1. << >> \in Seq(Flag)
  OBVIOUS
<1> QED
  BY <1>1 DEF Init, UseInv, FlagsInv, RecordInv

LEMMA UseInvariance == Spec => []UseInv
<1> QED
  BY InitUseInv, UseInvStep, PTL DEF Spec

\* Every list is a list of flags, and every package was built with flags that
\* it knows, each with one sign.
THEOREM TypeCorrect == Spec => []TypeOK
<1>1. UseInv => TypeOK
  BY DEF UseInv, FlagsInv, RecordInv, TypeOK, Installed, OneSign
<1> QED
  BY <1>1, UseInvariance, PTL

\* Whatever the flags have been, a package is found exact when and only when
\* building it again would record the same flags
\* (ttrek_HashTableCompareUseFlagsEqual).
THEOREM ExactMeansUnchanged == Spec => []ExactIffUnchanged
<1>1. UseInv => ExactIffUnchanged
  <2> SUFFICES ASSUME UseInv, NEW p \in Installed
               PROVE  Exact(p) <=> Intersection(record[p].iuse) = record[p].use
    BY DEF ExactIffUnchanged
  <2>1. record[p].use \subseteq record[p].iuse
    BY DEF UseInv, RecordInv, Installed
  <2> QED
    BY <2>1 DEF Exact, Intersection
<1> QED
  BY <1>1, UseInvariance, PTL

\* In a step of `use add' or `use del', whatever the lines and however the
\* tables are written out, other flags keep their sign (ttrek_AddUseFlags,
\* ttrek_DelUseFlags).
THEOREM OthersAreKept == Spec => OthersKept
<1> DEFINE Kept(line) ==
        UseAdd(line) \/ UseDel(line) =>
            \A f \in Flag : f.name \notin Names(Arguments(line)) =>
                (f \in Table(useFlags[ModeOf(line)]) <=> f \in Table(useFlags'[ModeOf(line)]))
<1>1. ASSUME UseInv, NEW line \in Lines PROVE Kept(line)
  <2> SUFFICES ASSUME UseAdd(line) \/ UseDel(line), NEW f \in Flag, f.name \notin Names(Arguments(line))
               PROVE  f \in Table(useFlags[ModeOf(line)]) <=> f \in Table(useFlags'[ModeOf(line)])
    OBVIOUS
  <2> DEFINE m == ModeOf(line)
             a == Arguments(line)
  <2>1. m \in Mode /\ a \in Seq(Flag) /\ useFlags[m] \in Seq(Flag) /\ useFlags \in [Mode -> Seq(Flag)]
    BY <1>1, LineLemma DEF UseInv, FlagsInv
  <2> HIDE DEF m, a
  <2>2. CASE UNCHANGED useFlags
    BY <2>2
  <2>3. ASSUME NEW t \in ListsOf(Table(useFlags[m] \o a)), useFlags' = [useFlags EXCEPT ![m] = t]
        PROVE  f \in Table(useFlags[m]) <=> f \in Table(useFlags'[m])
    <3>1. useFlags[m] \o a \in Seq(Flag) /\ useFlags'[m] = t
      BY <2>1, <2>3
    <3>2. IsFiniteSet(Table(useFlags[m] \o a)) /\ OneSign(Table(useFlags[m] \o a))
      BY <3>1, TableLemma
    <3>3. Table(t) = Table(useFlags[m] \o a)
      BY <2>3, <3>2, ListLemma
    <3>4. f \in Table(useFlags[m] \o a) <=> f \in Table(useFlags[m])
      BY <2>1, BehindLemma DEF a
    <3> QED
      BY <3>1, <3>3, <3>4
  <2> DEFINE left == {x \in Table(useFlags[m]) : x.name \notin Names(a)}
  <2>4. ASSUME NEW t \in ListsOf(left), useFlags' = [useFlags EXCEPT ![m] = t]
        PROVE  f \in Table(useFlags[m]) <=> f \in Table(useFlags'[m])
    <3>1. useFlags'[m] = t
      BY <2>1, <2>4
    <3>2. IsFiniteSet(left) /\ OneSign(left)
      BY <2>1, TableLemma, FS_Subset DEF OneSign
    <3>3. Table(t) = left
      BY <2>4, <3>2, ListLemma
    <3>4. f \in left <=> f \in Table(useFlags[m])
      BY DEF a
    <3> QED
      BY <3>1, <3>3, <3>4
  <2> QED
    BY <2>2, <2>3, <2>4 DEF m, a, UseAdd, UseDel
<1>2. UseInv /\ [Next]_vars => [\A line \in Lines : Kept(line)]_vars
  BY <1>1
<1> QED
  BY <1>2, UseInvariance, PTL DEF Spec, OthersKept

(***************************************************************************)
(* Scripts                                                                 *)
(***************************************************************************)
\* The lines that a script may have: a local one has none that fetches, nor the
\* one that removes the repository.
MayRun(local) ==
    IF local THEN {l \in ScriptLine : l.run \notin Fetching \cup {"remove .git"}} ELSE ScriptLine

\* One line, or two, make a sequence of lines.
LEMMA PairLemma ==
    ASSUME NEW X, NEW x \in X, NEW y \in X
    PROVE  <<x>> \in Seq(X) /\ <<x, y>> \in Seq(X)
<1> QED
  OBVIOUS

LEMMA ElementLemma ==
    ASSUME NEW X, NEW s \in Seq(X), NEW i \in DOMAIN s
    PROVE  s[i] \in X
<1> QED
  OBVIOUS

LEMMA BodyLemma ==
    ASSUME NEW c \in Commands, NEW table, NEW local \in BOOLEAN,
           c.cmd \in CommandNames, local => c.cmd \notin Fetching
    PROVE  Body(c, table) \in Seq(MayRun(local))
<1> DEFINE X == MayRun(local)
           work == Line(c.cmd, OptionsOn(c, table))
<1>1. OptionsOn(c, table) \in SUBSET Nat
  <2>1. DOMAIN c.options \subseteq Nat
    BY DEF Commands
  <2> QED
    BY <2>1 DEF OptionsOn
<1>2. work \in X
  BY <1>1 DEF Line, ScriptLine, MayRun, CommandNames, Fetching, Optioned
<1>3. Line("cd", {}) \in X /\ Line("export", {}) \in X
  BY DEF Line, ScriptLine, MayRun, CommandNames, Fetching
<1>4. Line("remove .git", {}) \in ScriptLine
  BY DEF Line, ScriptLine
<1> HIDE DEF X
<1>5. /\ <<work>> \in Seq(X) /\ <<Line("cd", {}), work>> \in Seq(X)
      /\ <<work, Line("export", {})>> \in Seq(X)
  BY <1>2, <1>3, PairLemma, Zenon
<1>6. c.cmd = "git" => <<work, Line("remove .git", {})>> \in Seq(X)
  <2> SUFFICES ASSUME c.cmd = "git" PROVE Line("remove .git", {}) \in X
    BY <1>2, PairLemma, Zenon
  <2> QED
    BY <1>4 DEF X, MayRun, Fetching
<1>7. Body(c, table) \in Seq(X)
  BY <1>5, <1>6 DEF Body
<1> QED
  BY <1>7 DEF X

\* A command that is on and not skipped has a name that is known; one that
\* fetches is skipped in a local build.
LEMMA ScriptLemma ==
    ASSUME NEW commands \in Seq(Commands), NEW table, NEW local \in BOOLEAN,
           Generates(commands, table, local)
    PROVE  Script(commands, table, local) \in Seq(MayRun(local))
<1> DEFINE X == MayRun(local)
           line(i) == IF Enabled(commands[i].if, table) /\ ~Skipped(commands[i], local)
                      THEN Body(commands[i], table) ELSE << >>
           ss == [i \in DOMAIN commands |-> line(i)]
<1>1. Len(commands) \in Nat /\ DOMAIN commands = 1..Len(commands)
      /\ \A i \in DOMAIN commands : commands[i] \in Commands
  OBVIOUS
<1>2. ASSUME NEW i \in DOMAIN commands PROVE line(i) \in Seq(X)
  <2> DEFINE on == Enabled(commands[i].if, table) /\ ~Skipped(commands[i], local)
  <2>1. CASE on
    <3>1. commands[i].cmd \in CommandNames /\ (local => commands[i].cmd \notin Fetching)
      BY <2>1 DEF Generates, Faulty, Skipped
    <3>2. Body(commands[i], table) \in Seq(X)
      BY <1>1, <3>1, BodyLemma
    <3> QED
      BY <2>1, <3>2
  <2>2. CASE ~on
    <3>1. line(i) = << >>
      BY <2>2
    <3>2. << >> \in Seq(X)
      OBVIOUS
    <3> HIDE DEF X, line
    <3> QED
      BY <3>1, <3>2
  <2> QED
    BY <2>1, <2>2
<1>3. ss \in Seq(Seq(X))
  <2> HIDE DEF X, line
  <2> QED
    BY <1>1, <1>2
<1>4. Script(commands, table, local) = FlattenSeq(ss)
  BY DEF Script
<1> HIDE DEF X, ss
<1> QED
  BY <1>3, <1>4, FlattenLemma DEF X

\* Two tables that agree about the flags that the commands ask for give one script.
LEMMA AgreeLemma ==
    ASSUME NEW commands \in Seq(Commands), NEW T, NEW U,
           \A f \in Flags(commands) : Enabled(f, T) <=> Enabled(f, U)
    PROVE  Script(commands, T, FALSE) = Script(commands, U, FALSE)
<1> DEFINE on(i, table) == Enabled(commands[i].if, table) /\ ~Skipped(commands[i], FALSE)
           line(i, table) == IF on(i, table) THEN Body(commands[i], table) ELSE << >>
           ss(table) == [i \in DOMAIN commands |-> line(i, table)]
<1>1. ASSUME NEW i \in DOMAIN commands PROVE line(i, T) = line(i, U)
  <2> DEFINE c == commands[i]
  <2>1. c \in Elements(commands)
    BY DEF Elements
  <2>2. \A f \in {c.if} \cup {c.options[j].if : j \in DOMAIN c.options} : f \in Flags(commands)
    BY <2>1 DEF Flags
  <2> HIDE DEF c
  <2>3. Enabled(c.if, T) <=> Enabled(c.if, U)
    BY <2>2
  <2>4. \A j \in DOMAIN c.options : Enabled(c.options[j].if, T) <=> Enabled(c.options[j].if, U)
    BY <2>2
  <2>5. OptionsOn(c, T) = OptionsOn(c, U)
    BY <2>4 DEF OptionsOn
  <2>6. Body(c, T) = Body(c, U)
    BY <2>5 DEF Body
  <2> QED
    BY <2>3, <2>6 DEF c
<1>2. ss(T) = ss(U)
  <2> HIDE DEF line
  <2> QED
    BY <1>1
<1>3. Script(commands, T, FALSE) = FlattenSeq(ss(T)) /\ Script(commands, U, FALSE) = FlattenSeq(ss(U))
  BY DEF Script
<1> QED
  BY <1>2, <1>3

(***************************************************************************)
(* The invariant of an install                                             *)
(***************************************************************************)
Recorded(r, T) == [iuse |-> r.iuse, use |-> T \cap r.iuse]
Made(r, T) == [recipe |-> r, lines |-> Script(r.commands, T, FALSE)]
Entry(r, T) == [record |-> Recorded(r, T), built |-> Made(r, T)]

\* A package has been built from a recipe with some table, and recorded with it.
BuiltInv ==
    \A p \in Pkg : record[p] # None =>
        \E r \in Recipes : \E T \in SUBSET Flag : record[p] = Recorded(r, T) /\ built[p] = Made(r, T)

TodoInv == todo \in [Pkg -> Recipes \cup {None}]

\* No `use' comes in between: what waits to be recorded was built with the
\* flags in force.
PendingInv == pending \in [Pkg -> {Entry(r, InForce) : r \in Recipes} \cup {None}]

RunInv ==
    /\ current \in Pkg \cup {None, Project}
    /\ current \in Pkg =>
        /\ todo[current] # None
        /\ script = Script(todo[current].commands, InForce, FALSE)
        /\ script \in Seq(ScriptLine)
    /\ current = Project => script \in Seq(MayRun(TRUE))

\* Until it ends, an install has every package that is not exact before it or
\* behind it.
PlannedInv ==
    Some(todo) # {} \/ Some(pending) # {} =>
        /\ Solvable(useFlags["local"])
        /\ \A p \in Installed : Exact(p) \/ todo[p] # None \/ pending[p] # None

InstallInv == BuiltInv /\ TodoInv /\ PendingInv /\ RunInv /\ PlannedInv

LEMMA RecipeLemma ==
    ASSUME NEW r \in Recipes
    PROVE  /\ r # None /\ r.iuse \in KnownSets /\ r.iuse \in SUBSET Flag /\ r.commands \in Seq(Commands)
           /\ \A T \in SUBSET Flag :
                  Script(r.commands, T, FALSE) \in Seq(ScriptLine) => Entry(r, T) # None
<1>1. r # None /\ r.iuse \in KnownSets /\ r.iuse \in SUBSET Flag /\ r.commands \in Seq(Commands)
  BY RecipeAssumption, KnownAssumption, NamesAssumption
<1>2. ASSUME NEW T \in SUBSET Flag, Script(r.commands, T, FALSE) \in Seq(ScriptLine)
      PROVE  Entry(r, T) # None
  <2>1. Recorded(r, T) \in [iuse : SUBSET Flag, use : SUBSET Flag]
    BY <1>1 DEF Recorded
  <2>2. Made(r, T) \in [recipe : Recipes, lines : Seq(ScriptLine)]
    BY <1>2 DEF Made
  <2>3. Entry(r, T) \in [record : [iuse : SUBSET Flag, use : SUBSET Flag],
                         built : [recipe : Recipes, lines : Seq(ScriptLine)]]
    BY <2>1, <2>2 DEF Entry
  <2> QED
    BY <2>3, NamesAssumption
<1> QED
  BY <1>1, <1>2

LEMMA NothingLemma ==
    /\ Nothing \in [Pkg -> Recipes \cup {None}]
    /\ \A S : Nothing \in [Pkg -> S \cup {None}]
    /\ Some(Nothing) = {}
<1> QED
  BY DEF Nothing, Some

LEMMA InitInstallInv == ScriptInit => InstallInv
<1> SUFFICES ASSUME ScriptInit PROVE InstallInv
  OBVIOUS
<1>1. BuiltInv
  BY DEF ScriptInit, Init, BuiltInv
<1>2. TodoInv /\ PendingInv /\ PlannedInv
  BY NothingLemma DEF ScriptInit, TodoInv, PendingInv, PlannedInv
<1>3. RunInv
  BY NamesAssumption DEF ScriptInit, RunInv
<1> QED
  BY <1>1, <1>2, <1>3 DEF InstallInv

(***************************************************************************)
(* Steps                                                                   *)
(***************************************************************************)
\* While the documents and the flags stay, so does what depends on them.
LEMMA SameDocuments ==
    ASSUME UNCHANGED <<useFlags, record, built>>
    PROVE  /\ InForce' = InForce /\ Installed' = Installed
           /\ \A p : Exact(p)' <=> Exact(p)
           /\ BuiltInv => BuiltInv'
<1> QED
  BY DEF InForce, Installed, Exact, BuiltInv

\* An install that ends leaves nothing to do.
LEMMA ClearStep ==
    ASSUME InstallInv, Clear, BuiltInv'
    PROVE  InstallInv'
<1>1. TodoInv' /\ PendingInv' /\ PlannedInv'
  BY NothingLemma DEF Clear, TodoInv, PendingInv, PlannedInv, Some
<1>2. RunInv'
  BY NamesAssumption DEF Clear, RunInv
<1> QED
  BY <1>1, <1>2 DEF InstallInv

LEMMA EndStep ==
    ASSUME InstallInv, End
    PROVE  InstallInv'
<1> QED
  BY ClearStep, SameDocuments DEF End, InstallInv

LEMMA UseCommandStep ==
    ASSUME InstallInv, UseCommand
    PROVE  InstallInv'
<1>1. UNCHANGED <<record, built, todo, pending, current, script, ran>>
  BY DEF UseCommand, UseAdd, UseDel, UseSet, install
<1>2. BuiltInv' /\ TodoInv'
  BY <1>1 DEF InstallInv, BuiltInv, TodoInv
<1>3. RunInv'
  <2>1. current' = None
    BY <1>1 DEF UseCommand, Idle
  <2> QED
    BY <2>1, NamesAssumption DEF RunInv
<1>4. PlannedInv'
  BY <1>1 DEF UseCommand, Idle, PlannedInv, Some
<1>5. PendingInv'
  <2>1. pending \in [Pkg -> {None}]
    BY DEF UseCommand, Idle, Some, InstallInv, PendingInv
  <2> QED
    BY <1>1, <2>1 DEF PendingInv
<1> QED
  BY <1>2, <1>3, <1>4, <1>5 DEF InstallInv

LEMMA PlanStep ==
    ASSUME InstallInv, NEW S \in SUBSET Pkg, Plan(S)
    PROVE  InstallInv'
<1>1. UNCHANGED <<useFlags, record, built, pending, current, script, ran>> /\ current = None
      /\ Solvable(useFlags["local"])
  BY DEF Plan, Idle
<1> DEFINE changed == {p \in Installed \ S : ~Exact(p)}
<1>2. PICK recipe \in [S -> Recipes] :
          todo' = [p \in Pkg |-> IF p \in S THEN recipe[p]
                                 ELSE IF p \in changed THEN built[p].recipe ELSE None]
  BY DEF Plan
<1>3. ASSUME NEW p \in changed PROVE p \in Pkg /\ built[p].recipe \in Recipes
  <2>1. p \in Pkg /\ record[p] # None
    BY <1>3 DEF Installed
  <2>2. PICK r \in Recipes : \E T \in SUBSET Flag : record[p] = Recorded(r, T) /\ built[p] = Made(r, T)
    BY <2>1 DEF InstallInv, BuiltInv
  <2> QED
    BY <2>1, <2>2 DEF Made
<1> HIDE DEF changed
<1>4. TodoInv'
  BY <1>2, <1>3 DEF TodoInv
<1>5. ASSUME NEW p \in Installed PROVE Exact(p) \/ todo'[p] # None
  <2>1. p \in Pkg /\ (p \in S \/ p \in changed \/ Exact(p))
    BY <1>5 DEF changed, Installed
  <2>2. p \in S => todo'[p] \in Recipes
    BY <1>2, <2>1
  <2>3. p \notin S /\ p \in changed => todo'[p] \in Recipes
    BY <1>2, <1>3, <2>1
  <2> QED
    BY <2>1, <2>2, <2>3, RecipeLemma
<1>6. PlannedInv'
  BY <1>1, <1>5, SameDocuments DEF PlannedInv
<1>7. BuiltInv' /\ PendingInv'
  BY <1>1, SameDocuments DEF InstallInv, PendingInv
<1>8. RunInv'
  <2>1. current' = None
    BY <1>1
  <2> QED
    BY <2>1, NamesAssumption DEF RunInv
<1> QED
  BY <1>4, <1>6, <1>7, <1>8 DEF InstallInv

LEMMA StartStep ==
    ASSUME InstallInv, NEW p \in Pkg, Start(p)
    PROVE  InstallInv'
<1>1. CASE End
  BY <1>1, EndStep
<1>2. CASE /\ Generates(todo[p].commands, InForce, FALSE)
           /\ current' = p
           /\ script' = Script(todo[p].commands, InForce, FALSE)
           /\ UNCHANGED <<useFlags, record, built, todo, pending, ran>>
  <2>1. BuiltInv' /\ TodoInv' /\ PendingInv' /\ PlannedInv' /\ InForce' = InForce
    BY <1>2, SameDocuments DEF InstallInv, TodoInv, PendingInv, PlannedInv, Some
  <2>2. todo[p] # None /\ todo[p] \in Recipes
    BY DEF Start, InstallInv, TodoInv
  <2>3. script' \in Seq(ScriptLine)
    BY <1>2, <2>2, RecipeLemma, ScriptLemma DEF MayRun
  <2>4. RunInv'
    BY <1>2, <2>1, <2>2, <2>3, NamesAssumption DEF RunInv
  <2> QED
    BY <2>1, <2>4 DEF InstallInv
<1> QED
  BY <1>1, <1>2 DEF Start

LEMMA LineEndsStep ==
    ASSUME InstallInv, LineEnds
    PROVE  InstallInv'
<1>1. UNCHANGED <<useFlags, record, built, todo, pending, current, script>>
  BY DEF LineEnds
<1> QED
  BY <1>1, SameDocuments DEF InstallInv, TodoInv, PendingInv, RunInv, PlannedInv, Some

LEMMA RecordStep ==
    ASSUME UseInv, InstallInv, NEW p \in Pkg, Record(p)
    PROVE  InstallInv'
<1> DEFINE r == todo[p]
<1>1. UNCHANGED <<useFlags, record, built>> /\ current = p /\ current' = None
  BY DEF Record
<1>2. InForce' = InForce /\ InForce \in SUBSET Flag /\ BuiltInv'
  <2>1. BuiltInv' /\ InForce' = InForce
    BY <1>1, SameDocuments DEF InstallInv
  <2> QED
    BY <2>1, InForceLemma DEF UseInv
<1>3. r \in Recipes /\ script = Script(r.commands, InForce, FALSE) /\ script \in Seq(ScriptLine)
  BY <1>1 DEF InstallInv, RunInv, TodoInv
<1>4. pending' = [pending EXCEPT ![p] = Entry(r, InForce)]
  BY <1>3 DEF Record, Entry, Recorded, Made, Intersection
<1>5. todo' = [todo EXCEPT ![p] = None]
  BY DEF Record
<1> HIDE DEF r
<1>6. TodoInv' /\ PendingInv'
  BY <1>2, <1>3, <1>4, <1>5 DEF InstallInv, TodoInv, PendingInv
<1>7. RunInv'
  BY <1>1, NamesAssumption DEF RunInv
<1>8. Entry(r, InForce) # None
  BY <1>2, <1>3, RecipeLemma
<1>9. PlannedInv'
  <2>1. Some(todo) # {}
    BY <1>1 DEF Some, InstallInv, RunInv
  <2>2. /\ Solvable(useFlags["local"])
        /\ \A q \in Installed : Exact(q) \/ todo[q] # None \/ pending[q] # None
    BY <2>1 DEF InstallInv, PlannedInv
  <2>3. \A q \in Pkg : (pending[q] # None => pending'[q] # None)
                       /\ (todo[q] # None => todo'[q] # None \/ pending'[q] # None)
    BY <1>4, <1>5, <1>8 DEF InstallInv, TodoInv, PendingInv
  <2>4. Installed \subseteq Pkg
    BY DEF Installed
  <2> QED
    BY <1>1, <2>2, <2>3, <2>4, SameDocuments DEF PlannedInv
<1> QED
  BY <1>2, <1>6, <1>7, <1>9 DEF InstallInv

LEMMA FinishStep ==
    ASSUME UseInv, InstallInv, Finish
    PROVE  InstallInv'
<1>1. InForce' = InForce /\ InForce \in SUBSET Flag
  BY InForceLemma DEF Finish, InForce, UseInv
<1>2. BuiltInv'
  <2> SUFFICES ASSUME NEW p \in Pkg, record'[p] # None
               PROVE  \E r \in Recipes : \E T \in SUBSET Flag :
                          record'[p] = Recorded(r, T) /\ built'[p] = Made(r, T)
    BY DEF BuiltInv
  <2>1. CASE pending[p] = None
    <3>1. record'[p] = record[p] /\ built'[p] = built[p]
      BY <2>1 DEF Finish
    <3> QED
      BY <3>1 DEF InstallInv, BuiltInv
  <2>2. CASE pending[p] # None
    <3>1. PICK r \in Recipes : pending[p] = Entry(r, InForce)
      BY <2>2 DEF InstallInv, PendingInv
    <3>2. record'[p] = Recorded(r, InForce) /\ built'[p] = Made(r, InForce)
      BY <2>2, <3>1 DEF Finish, Entry
    <3> QED
      BY <1>1, <3>2
  <2> QED
    BY <2>1, <2>2
<1>3. TodoInv' /\ PendingInv' /\ PlannedInv'
  BY NothingLemma DEF Finish, InstallInv, TodoInv, PendingInv, PlannedInv, Some
<1>4. RunInv'
  BY NamesAssumption DEF Finish, RunInv
<1> QED
  BY <1>2, <1>3, <1>4 DEF InstallInv

LEMMA LocalBuildStep ==
    ASSUME InstallInv, LocalBuild
    PROVE  InstallInv'
<1>1. UNCHANGED <<useFlags, record, built, todo, pending, ran>> /\ current' = Project
  BY DEF LocalBuild
<1>2. BuiltInv' /\ TodoInv' /\ PendingInv' /\ PlannedInv'
  BY <1>1, SameDocuments DEF InstallInv, TodoInv, PendingInv, PlannedInv, Some
<1>3. script' \in Seq(MayRun(TRUE))
  BY BuildAssumption, ScriptLemma DEF LocalBuild
<1>4. RunInv'
  BY <1>1, <1>3, NamesAssumption DEF RunInv
<1> QED
  BY <1>2, <1>4 DEF InstallInv

(***************************************************************************)
(* Refinement of UseFlags                                                  *)
(***************************************************************************)
\* What an install writes in the end is one step for all that it built: no
\* package that is not exact is left out.
LEMMA FinishIsInstall ==
    ASSUME UseInv, InstallInv, Finish
    PROVE  Next
<1> DEFINE changed == Some(pending)
           known == [p \in changed |-> pending[p].record.iuse]
<1>1. \A p \in changed : p \in Pkg /\ \E r \in Recipes : pending[p] = Entry(r, InForce)
  BY DEF Some, InstallInv, PendingInv
<1>2. ASSUME NEW p \in changed
      PROVE  /\ pending[p].record.iuse \in KnownSets
             /\ pending[p].record = [iuse |-> known[p], use |-> Intersection(known[p])]
  <2>1. PICK r \in Recipes : pending[p] = Entry(r, InForce)
    BY <1>1, <1>2
  <2>2. pending[p].record = [iuse |-> r.iuse, use |-> Intersection(r.iuse)]
    BY <2>1 DEF Entry, Recorded, Intersection
  <2>3. pending[p].record.iuse = r.iuse /\ known[p] = r.iuse
    BY <1>2, <2>2
  <2> QED
    BY <2>2, <2>3, RecipeLemma
<1>3. /\ Solvable(useFlags["local"])
      /\ \A p \in Installed : Exact(p) \/ p \in changed
  BY DEF Finish, InstallInv, PlannedInv, Some, Installed
<1>4. changed \in SUBSET Pkg /\ known \in [changed -> KnownSets]
  BY <1>1, <1>2
<1>5. \A p \in Pkg : pending[p] # None <=> p \in changed
  BY DEF Some
<1> HIDE DEF changed, known
<1>6. record' = [p \in Pkg |->
        IF p \in changed THEN [iuse |-> known[p], use |-> Intersection(known[p])]
        ELSE IF p \in Installed /\ ~Exact(p)
             THEN [record[p] EXCEPT !.use = Intersection(record[p].iuse)]
             ELSE record[p]]
  <2>1. record' = [p \in Pkg |-> IF p \notin changed THEN record[p] ELSE pending[p].record]
    BY <1>5 DEF Finish
  <2>2. \A p \in Pkg : ~(p \notin changed /\ p \in Installed /\ ~Exact(p))
    BY <1>3
  <2> QED
    BY <1>2, <2>1, <2>2, Zenon
<1>7. Install(changed, known)
  BY <1>3, <1>6 DEF Install, Finish
<1> QED
  BY <1>4, <1>7 DEF Next

LEMMA StepRefines == UseInv /\ InstallInv /\ [ScriptNext]_allVars => [Next]_vars
<1> SUFFICES ASSUME UseInv, InstallInv, [ScriptNext]_allVars PROVE [Next]_vars
  OBVIOUS
<1>1. CASE UNCHANGED allVars
  BY <1>1 DEF allVars, vars
<1>2. CASE UseCommand
  BY <1>2 DEF UseCommand, Next
<1>3. ASSUME NEW S \in SUBSET Pkg, Plan(S) PROVE UNCHANGED vars
  BY <1>3 DEF Plan, vars
<1>4. ASSUME NEW p \in Pkg, Start(p) \/ Record(p) PROVE UNCHANGED vars
  BY <1>4 DEF Start, Record, End, vars
<1>5. CASE LineEnds \/ LineFails \/ LocalBuild \/ LocalDone
  BY <1>5 DEF LineEnds, LineFails, LocalBuild, LocalDone, End, vars
<1>6. CASE Finish
  BY <1>6, FinishIsInstall
<1> QED
  BY <1>1, <1>2, <1>3, <1>4, <1>5, <1>6 DEF ScriptNext

LEMMA InstallInvStep == UseInv /\ InstallInv /\ [ScriptNext]_allVars => InstallInv'
<1> SUFFICES ASSUME UseInv, InstallInv, [ScriptNext]_allVars PROVE InstallInv'
  OBVIOUS
<1>1. CASE UNCHANGED allVars
  BY <1>1, SameDocuments DEF allVars, InstallInv, TodoInv, PendingInv, RunInv, PlannedInv, Some
<1>2. CASE LineFails \/ LocalDone
  BY <1>2, EndStep DEF LineFails, LocalDone
<1>3. ASSUME NEW p \in Pkg, Start(p) \/ Record(p) PROVE InstallInv'
  BY <1>3, StartStep, RecordStep
<1>4. ASSUME NEW S \in SUBSET Pkg, Plan(S) PROVE InstallInv'
  BY <1>4, PlanStep
<1> QED
  BY <1>1, <1>2, <1>3, <1>4, UseCommandStep, LineEndsStep, FinishStep, LocalBuildStep DEF ScriptNext

LEMMA Invariance == ScriptSpec => [](UseInv /\ InstallInv)
<1>1. ScriptInit => UseInv /\ InstallInv
  BY InitUseInv, InitInstallInv DEF ScriptInit
<1>2. UseInv /\ InstallInv /\ [ScriptNext]_allVars => (UseInv /\ InstallInv)'
  BY StepRefines, UseInvStep, InstallInvStep
<1> QED
  BY <1>1, <1>2, PTL DEF ScriptSpec

\* An install in steps, any of which may fail, is one step of the use flags or
\* none (ttrek_install): it writes the flags of all that it built, and every
\* package that was not exact is among them.
THEOREM ScriptsImplementUse == ScriptSpec => ImplementsUse
<1>1. ScriptInit => Init
  BY DEF ScriptInit
<1> QED
  BY <1>1, StepRefines, Invariance, PTL DEF ScriptSpec, ImplementsUse, Spec

\* A package that a plan passes over was built by the commands that its recipe
\* gives for the flags in force, if the recipe declares the flags it asks for:
\* exact_use_flags_p and the two places of "if" agree, for every registry and
\* every history of `use' and of installs that fail.
THEOREM PassedOverIsCurrent == ScriptSpec => []KeptIsCurrent
<1>1. InstallInv => KeptIsCurrent
  <2> SUFFICES ASSUME InstallInv, NEW p \in Installed, Exact(p), Declared(built[p].recipe)
               PROVE  built[p].lines = Script(built[p].recipe.commands, InForce, FALSE)
    BY DEF KeptIsCurrent
  <2>1. PICK r \in Recipes, T \in SUBSET Flag : record[p] = Recorded(r, T) /\ built[p] = Made(r, T)
    BY DEF Installed, InstallInv, BuiltInv
  <2>2. built[p].recipe = r /\ built[p].lines = Script(r.commands, T, FALSE)
    BY <2>1 DEF Made
  <2>3. InForce \cap r.iuse = T \cap r.iuse
    BY <2>1 DEF Exact, Recorded
  <2>4. \A f \in Flags(r.commands) : Enabled(f, T) <=> Enabled(f, InForce)
    <3>1. \A f \in Flags(r.commands) : f \in r.iuse \/ f = NoFlag
      BY <2>2 DEF Declared
    <3> QED
      BY <2>3, <3>1 DEF Enabled
  <2>5. r.commands \in Seq(Commands)
    BY RecipeLemma
  <2> QED
    BY <2>2, <2>4, <2>5, AgreeLemma
<1> QED
  BY <1>1, Invariance, PTL

\* No line of a local build fetches over the sources or removes their
\* repository, whatever "build" of ttrek.json says (enable_in_local_build).
THEOREM SourcesStay == ScriptSpec => []SourcesKept
<1>1. InstallInv => SourcesKept
  <2> SUFFICES ASSUME InstallInv, current = Project, NEW i \in DOMAIN script
               PROVE  script[i].run \notin Fetching \cup {"remove .git"}
    BY DEF SourcesKept
  <2>1. script \in Seq(MayRun(TRUE))
    BY DEF InstallInv, RunInv
  <2>2. script[i] \in MayRun(TRUE)
    BY <2>1, ElementLemma
  <2> QED
    BY <2>2 DEF MayRun
<1> QED
  BY <1>1, Invariance, PTL
==============================================================================
