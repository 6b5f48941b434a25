------------------------- MODULE InstallOrderProofs -------------------------
(***************************************************************************)
(* What the sort guarantees for every solution and registry, what the plan *)
(* guarantees for every lock file and order of the solution, and what the  *)
(* two guarantee together: every package finds its dependencies in place   *)
(* when it is built.                                                       *)
(***************************************************************************)
EXTENDS InstallOrder, Iterations

(***************************************************************************)
(* Sequences                                                               *)
(***************************************************************************)
LEMMA OrdersLemma ==
    ASSUME NEW S, NEW s \in Orders(S), IsFiniteSet(S)
    PROVE  s \in Seq(S) /\ Distinct(s) /\ Elements(s) = S
<1>1. Cardinality(S) \in Nat
  BY FS_CardinalityType
<1>2. s \in [1..Cardinality(S) -> S] /\ Distinct(s) /\ S \subseteq Elements(s)
  BY DEF Orders
<1>3. s \in Seq(S) /\ DOMAIN s = 1..Cardinality(S)
  BY <1>1, <1>2
<1> QED
  BY <1>2, <1>3 DEF Elements

LEMMA AppendLemma ==
    ASSUME NEW S, NEW s \in Seq(S), NEW x \in S
    PROVE  /\ Append(s, x) \in Seq(S)
           /\ Elements(Append(s, x)) = Elements(s) \cup {x}
           /\ Distinct(s) /\ x \notin Elements(s) => Distinct(Append(s, x))
           /\ DOMAIN Append(s, x) = 1..(Len(s) + 1) /\ DOMAIN s = 1..Len(s) /\ Len(s) \in Nat
           /\ \A i \in 1..Len(s) : Append(s, x)[i] = s[i]
           /\ Append(s, x)[Len(s) + 1] = x
  BY DEF Elements, Distinct

LEMMA QueueLemma ==
    ASSUME NEW S, NEW s \in Seq(S), s # << >>, NEW t \in Seq(S)
    PROVE  /\ Head(s) \in Elements(s)
           /\ Tail(s) \o t \in Seq(S)
           /\ Elements(Tail(s) \o t) = Elements(Tail(s)) \cup Elements(t)
           /\ Elements(s) = {Head(s)} \cup Elements(Tail(s))
           /\ Distinct(s) => Head(s) \notin Elements(Tail(s))
           /\ Distinct(s) /\ Distinct(t) /\ Elements(s) \cap Elements(t) = {}
                => Distinct(Tail(s) \o t)
<1>1. /\ Len(s) \in Nat /\ Len(s) > 0 /\ Len(t) \in Nat
      /\ DOMAIN s = 1..Len(s) /\ DOMAIN t = 1..Len(t)
      /\ \A i \in 1..Len(s) : s[i] \in S
      /\ Head(s) = s[1]
  OBVIOUS
<1>2. /\ Tail(s) \in Seq(S) /\ Len(Tail(s)) = Len(s) - 1 /\ DOMAIN Tail(s) = 1..(Len(s) - 1)
      /\ \A i \in 1..(Len(s) - 1) : Tail(s)[i] = s[i + 1]
  OBVIOUS
<1>3. /\ Tail(s) \o t \in Seq(S)
      /\ DOMAIN (Tail(s) \o t) = 1..(Len(s) - 1 + Len(t))
      /\ \A i \in 1..(Len(s) - 1) : (Tail(s) \o t)[i] = s[i + 1]
      /\ \A i \in 1..Len(t) : (Tail(s) \o t)[Len(s) - 1 + i] = t[i]
      /\ \A i \in 1..(Len(s) - 1 + Len(t)) :
            \/ i \in 1..(Len(s) - 1) /\ (Tail(s) \o t)[i] = s[i + 1]
            \/ i - (Len(s) - 1) \in 1..Len(t) /\ (Tail(s) \o t)[i] = t[i - (Len(s) - 1)]
  BY <1>1, <1>2
<1>4. Elements(s) = {Head(s)} \cup Elements(Tail(s))
  <2>1. \A i \in 1..Len(s) : i = 1 \/ (i - 1 \in 1..(Len(s) - 1) /\ s[i] = Tail(s)[i - 1])
    BY <1>1, <1>2
  <2>2. \A i \in 1..(Len(s) - 1) : i + 1 \in 1..Len(s) /\ Tail(s)[i] = s[i + 1]
    BY <1>1, <1>2
  <2>3. \A x \in Elements(s) : x = Head(s) \/ x \in Elements(Tail(s))
    <3> SUFFICES ASSUME NEW x \in Elements(s) PROVE x = Head(s) \/ x \in Elements(Tail(s))
      OBVIOUS
    <3>1. PICK i \in 1..Len(s) : x = s[i]
      BY <1>1 DEF Elements
    <3>2. CASE i = 1
      BY <1>1, <3>1, <3>2
    <3>3. CASE i - 1 \in 1..(Len(s) - 1) /\ s[i] = Tail(s)[i - 1]
      BY <1>2, <3>1, <3>3 DEF Elements
    <3> QED
      BY <2>1, <3>2, <3>3
  <2>4. \A x \in Elements(Tail(s)) : x \in Elements(s)
    BY <1>1, <1>2, <2>2 DEF Elements
  <2>5. Head(s) \in Elements(s)
    BY <1>1 DEF Elements
  <2> QED
    BY <2>3, <2>4, <2>5
<1>5. Elements(Tail(s) \o t) = Elements(Tail(s)) \cup Elements(t)
  <2>1. \A i \in 1..(Len(s) - 1) : i \in DOMAIN (Tail(s) \o t) /\ (Tail(s) \o t)[i] = Tail(s)[i]
    BY <1>1, <1>2, <1>3
  <2>2. \A i \in 1..Len(t) : Len(s) - 1 + i \in DOMAIN (Tail(s) \o t)
    BY <1>1, <1>3
  <2>3. \A x \in Elements(Tail(s)) : x \in Elements(Tail(s) \o t)
    BY <1>2, <2>1 DEF Elements
  <2>4. \A x \in Elements(t) : x \in Elements(Tail(s) \o t)
    <3> SUFFICES ASSUME NEW x \in Elements(t) PROVE x \in Elements(Tail(s) \o t)
      OBVIOUS
    <3>1. PICK i \in 1..Len(t) : x = t[i]
      BY <1>1 DEF Elements
    <3>2. x = (Tail(s) \o t)[Len(s) - 1 + i]
      BY <1>3, <3>1
    <3> QED
      BY <2>2, <3>2 DEF Elements
  <2>5. \A x \in Elements(Tail(s) \o t) : x \in Elements(Tail(s)) \/ x \in Elements(t)
    BY <1>1, <1>2, <1>3 DEF Elements
  <2> QED
    BY <2>3, <2>4, <2>5
<1>6. Distinct(s) => Head(s) \notin Elements(Tail(s))
  BY <1>1, <1>2 DEF Distinct, Elements
<1>7. ASSUME Distinct(s), Distinct(t), Elements(s) \cap Elements(t) = {}
      PROVE  Distinct(Tail(s) \o t)
  <2>1. \A i \in 1..Len(s), j \in 1..Len(t) : s[i] # t[j]
    BY <1>1, <1>7 DEF Elements
  <2> DEFINE r == Tail(s) \o t
             n == Len(s) - 1
  <2>2. \A i, j \in DOMAIN r : r[i] = r[j] => i = j
    <3> SUFFICES ASSUME NEW i \in DOMAIN r, NEW j \in DOMAIN r, r[i] = r[j] PROVE i = j
      OBVIOUS
    <3>1. CASE i \in 1..n /\ j \in 1..n
      BY <1>1, <1>3, <1>7, <3>1 DEF Distinct
    <3>2. CASE i - n \in 1..Len(t) /\ j - n \in 1..Len(t)
      BY <1>1, <1>3, <1>7, <3>2 DEF Distinct
    <3>3. CASE i \in 1..n /\ j - n \in 1..Len(t)
      BY <1>1, <1>3, <2>1, <3>3
    <3>4. CASE i - n \in 1..Len(t) /\ j \in 1..n
      BY <1>1, <1>3, <2>1, <3>4
    <3> QED
      BY <1>3, <3>1, <3>2, <3>3, <3>4
  <2> QED
    BY <2>2 DEF Distinct
<1> QED
  BY <1>1, <1>3, <1>4, <1>5, <1>6, <1>7 DEF Elements

(***************************************************************************)
(* The sort (PackageSort)                                                  *)
(***************************************************************************)
Chosen == Elements(installs)
Out == Elements(result)

TypeInv ==
    /\ installs \in Seq(Pkg)
    /\ dependencies_map \in [Pkg -> SUBSET Pkg]
    /\ indegree \in [Chosen -> Nat]
    /\ q \in Seq(Chosen)
    /\ result \in Seq(Chosen)
    /\ done \in BOOLEAN

\* indegree counts the dependencies still to come out, in or out of the solution.
CountInv ==
    /\ \A p \in Chosen : indegree[p] = Cardinality(dependencies_map[p] \ Out)
    /\ \A p \in Chosen : indegree[p] = 0 <=> p \in Elements(q) \cup Out

OrderInv == \A i \in DOMAIN result : dependencies_map[result[i]] \subseteq {result[j] : j \in 1..(i - 1)}

SortedInv ==
    done => /\ q = << >>
            /\ \A i, j \in DOMAIN installs : i < j => Index(installs[i]) <= Index(installs[j])

SortIInv == TypeInv /\ ComesOutOnce /\ CountInv /\ OrderInv /\ SortedInv

LEMMA CountFacts ==
    ASSUME TypeInv, CountInv
    PROVE  /\ IsFiniteSet(Chosen) /\ Chosen \subseteq Pkg
           /\ \A p \in Chosen : dependencies_map[p] \subseteq Pkg
           /\ \A S \in SUBSET Pkg : IsFiniteSet(S)
           /\ \A p \in Chosen : indegree[p] = 0 => dependencies_map[p] \subseteq Out
<1>1. \A S \in SUBSET Pkg : IsFiniteSet(S)
  BY PkgAssumption, FS_Subset
<1>2. Chosen \subseteq Pkg
  BY DEF TypeInv, Chosen, Elements
<1>3. \A p \in Chosen : dependencies_map[p] \subseteq Pkg
  BY <1>2 DEF TypeInv
<1>4. \A p \in Chosen : indegree[p] = 0 => dependencies_map[p] \subseteq Out
  <2> SUFFICES ASSUME NEW p \in Chosen, indegree[p] = 0 PROVE dependencies_map[p] \subseteq Out
    OBVIOUS
  <2>1. IsFiniteSet(dependencies_map[p] \ Out)
    BY <1>1, <1>3
  <2>2. dependencies_map[p] \ Out = {}
    BY <2>1, FS_EmptySet DEF CountInv
  <2> QED
    BY <2>2
<1> QED
  BY <1>1, <1>2, <1>3, <1>4

LEMMA SortInitIInv == SortInit => SortIInv
<1> SUFFICES ASSUME SortInit PROVE SortIInv
  OBVIOUS
<1> USE DEF SortInit
<1>1. installs \in Seq(Pkg) /\ dependencies_map \in [Pkg -> SUBSET Pkg] /\ Chosen \subseteq Pkg
  BY SolutionsAssumption, RelationsAssumption DEF Chosen, Elements
<1>2. \A S \in SUBSET Pkg : IsFiniteSet(S) /\ Cardinality(S) \in Nat
  BY PkgAssumption, FS_Subset, FS_CardinalityType
<1>3. indegree \in [Chosen -> Nat] /\ \A p \in Chosen : indegree[p] = Cardinality(dependencies_map[p])
  BY <1>1, <1>2 DEF Chosen
<1>4. /\ q \in Seq({p \in Chosen : indegree[p] = 0}) /\ Distinct(q)
      /\ Elements(q) = {p \in Chosen : indegree[p] = 0}
  BY <1>1, <1>2, OrdersLemma DEF Chosen
<1>5. Out = {} /\ result \in Seq(Chosen) /\ Distinct(result) /\ DOMAIN result = {}
  BY DEF Out, Elements, Distinct
<1>6. q \in Seq(Chosen)
  <2> DEFINE Ready == {p \in Chosen : indegree[p] = 0}
  <2>1. Ready \subseteq Chosen /\ q \in Seq(Ready)
    BY <1>4
  <2> HIDE DEF Ready
  <2> QED
    BY <2>1
<1>7. TypeInv
  BY <1>1, <1>3, <1>5, <1>6 DEF TypeInv
<1>8. CountInv
  BY <1>3, <1>4, <1>5 DEF CountInv
<1>9. ComesOutOnce
  BY <1>4, <1>5 DEF ComesOutOnce, Out
<1> QED
  BY <1>5, <1>7, <1>8, <1>9 DEF SortIInv, OrderInv, SortedInv

LEMMA PopStep == SortIInv /\ Pop => SortIInv'
<1> SUFFICES ASSUME SortIInv, Pop PROVE SortIInv'
  OBVIOUS
<1> DEFINE x == Head(q)
           Freed == {d \in Graph(x) : indegree[d] = 1}
<1>0. /\ installs' = installs /\ dependencies_map' = dependencies_map /\ done' = done
      /\ Chosen' = Chosen /\ q # << >> /\ result' = Append(result, x)
  BY DEF Pop, Chosen
<1>f. /\ TypeInv /\ CountInv /\ OrderInv /\ SortedInv
      /\ Distinct(q) /\ Distinct(result) /\ Elements(q) \cap Out = {}
      /\ IsFiniteSet(Chosen) /\ Chosen \subseteq Pkg
      /\ \A p \in Chosen : dependencies_map[p] \subseteq Pkg
      /\ \A S \in SUBSET Pkg : IsFiniteSet(S)
      /\ \A p \in Chosen : indegree[p] = 0 => dependencies_map[p] \subseteq Out
  BY CountFacts DEF SortIInv, ComesOutOnce, Out
<1>x. x \in Elements(q) /\ x \in Chosen /\ x \notin Out /\ indegree[x] = 0
  <2>1. x \in Elements(q)
    BY <1>0, <1>f, QueueLemma DEF TypeInv
  <2>2. x \in Chosen
    BY <1>0, <1>f DEF TypeInv
  <2> QED
    BY <2>1, <2>2, <1>f DEF CountInv
<1>r. /\ result' \in Seq(Chosen) /\ Out' = Out \cup {x} /\ Distinct(result')
      /\ Len(result) \in Nat /\ DOMAIN result = 1..Len(result) /\ DOMAIN result' = 1..(Len(result) + 1)
      /\ \A i \in 1..Len(result) : result'[i] = result[i]
      /\ result'[Len(result) + 1] = x
  BY <1>0, <1>f, <1>x, AppendLemma DEF TypeInv, Out
<1>i. /\ indegree' \in [Chosen -> Nat]
      /\ \A d \in Chosen : indegree'[d] = Cardinality(dependencies_map[d] \ Out')
      /\ \A d \in Chosen : indegree'[d] = indegree[d] - (IF d \in Graph(x) THEN 1 ELSE 0)
  <2>1. indegree' = [d \in Chosen |-> indegree[d] - (IF d \in Graph(x) THEN 1 ELSE 0)]
    BY DEF Pop, Decremented, Chosen
  <2>2. ASSUME NEW d \in Chosen
        PROVE  indegree'[d] = Cardinality(dependencies_map[d] \ Out') /\ indegree'[d] \in Nat
    <3> DEFINE S == dependencies_map[d] \ Out
    <3>1. IsFiniteSet(S) /\ indegree[d] = Cardinality(S) /\ Cardinality(S) \in Nat
      BY <1>f, FS_CardinalityType DEF CountInv
    <3>2. CASE d \in Graph(x)
      <4>1. x \in S
        BY <3>2, <1>x DEF Graph
      <4>2. Cardinality(S \ {x}) = Cardinality(S) - 1 /\ IsFiniteSet(S \ {x})
        BY <3>1, <4>1, FS_RemoveElement
      <4>3. S \ {x} = dependencies_map[d] \ Out'
        BY <1>r
      <4>4. Cardinality(S \ {x}) \in Nat
        BY <4>2, FS_CardinalityType
      <4> QED
        BY <2>1, <3>1, <3>2, <4>2, <4>3, <4>4
    <3>3. CASE d \notin Graph(x)
      <4>1. x \notin dependencies_map[d]
        BY <3>3 DEF Graph, Chosen
      <4>2. S = dependencies_map[d] \ Out'
        BY <1>r, <4>1
      <4>3. indegree'[d] = indegree[d]
        BY <2>1, <3>1, <3>3
      <4> QED
        BY <3>1, <4>2, <4>3
    <3> QED
      BY <3>2, <3>3
  <2> QED
    BY <2>1, <2>2
<1>q. /\ q' \in Seq(Chosen) /\ Distinct(q')
      /\ Elements(q) \cap Freed = {} /\ Out \cap Freed = {} /\ Freed \subseteq Chosen
      /\ Elements(q') = (Elements(q) \ {x}) \cup Freed
  <2>1. PICK s \in Orders(Freed) : q' = Tail(q) \o s
    BY DEF Pop
  <2>2. Freed \subseteq Chosen /\ IsFiniteSet(Freed)
    BY <1>f DEF Graph, Chosen
  <2>3. s \in Seq(Chosen) /\ Distinct(s) /\ Elements(s) = Freed
    <3>1. s \in Seq(Freed) /\ Distinct(s) /\ Elements(s) = Freed
      BY <2>1, <2>2, OrdersLemma
    <3> HIDE DEF Freed
    <3> QED
      BY <3>1, <2>2
  <2>4. Elements(q) \cap Freed = {} /\ Out \cap Freed = {}
    BY <1>f, <2>2 DEF CountInv
  <2>5. q \in Seq(Chosen)
    BY <1>f DEF TypeInv
  <2>6. /\ q' \in Seq(Chosen) /\ Elements(q') = Elements(Tail(q)) \cup Freed
        /\ Elements(q) = {x} \cup Elements(Tail(q)) /\ x \notin Elements(Tail(q)) /\ Distinct(q')
    BY <1>0, <1>f, <2>1, <2>3, <2>4, <2>5, QueueLemma
  <2> QED
    BY <2>2, <2>4, <2>6
<1>1. TypeInv'
  BY <1>0, <1>f, <1>r, <1>i, <1>q DEF TypeInv
<1>2. ComesOutOnce'
  <2>1. Elements(q') \cap Out' = {}
    BY <1>f, <1>r, <1>q, <1>x
  <2> QED
    BY <2>1, <1>r, <1>q DEF ComesOutOnce, Out
<1>3. CountInv'
  <2>1. ASSUME NEW d \in Chosen PROVE indegree'[d] = 0 <=> d \in Elements(q') \cup Out'
    <3>1. indegree[d] \in Nat /\ (indegree[d] = 0 <=> d \in Elements(q) \cup Out)
      BY <1>f DEF TypeInv, CountInv
    <3>2. d \in Graph(x) => indegree[d] # 0
      BY <1>f, <1>x DEF Graph
    <3> QED
      BY <1>i, <1>q, <1>r, <1>x, <3>1, <3>2
  <2> QED
    BY <1>0, <1>i, <2>1 DEF CountInv
<1>4. OrderInv'
  <2> SUFFICES ASSUME NEW i \in DOMAIN result', NEW d \in dependencies_map[result'[i]]
               PROVE  d \in {result'[j] : j \in 1..(i - 1)}
    BY <1>0 DEF OrderInv
  <2>1. CASE i \in 1..Len(result)
    BY <2>1, <1>f, <1>r DEF OrderInv
  <2>2. CASE i = Len(result) + 1
    BY <2>2, <1>f, <1>r, <1>x DEF Out, Elements
  <2> QED
    BY <2>1, <2>2, <1>r
<1>5. SortedInv'
  <2>1. ~done
    BY <1>f, <1>0 DEF SortedInv
  <2> QED
    BY <2>1, <1>0 DEF SortedInv
<1> QED
  BY <1>1, <1>2, <1>3, <1>4, <1>5 DEF SortIInv


LEMMA SortStep == SortIInv /\ SortInstalls => SortIInv'
<1> SUFFICES ASSUME SortIInv, SortInstalls PROVE SortIInv'
  OBVIOUS
<1>0. /\ q = << >> /\ q' = q /\ result' = result /\ indegree' = indegree
      /\ dependencies_map' = dependencies_map /\ done' = TRUE
  BY DEF SortInstalls
<1>1. PICK s \in Orders(Chosen) :
        /\ \A i, j \in DOMAIN s : i < j => Index(s[i]) <= Index(s[j])
        /\ installs' = s
  BY DEF SortInstalls, Chosen
<1>2. TypeInv /\ CountInv /\ OrderInv /\ ComesOutOnce /\ IsFiniteSet(Chosen) /\ Chosen \subseteq Pkg
  BY CountFacts DEF SortIInv
<1>3. s \in Seq(Chosen) /\ Elements(s) = Chosen
  BY <1>1, <1>2, OrdersLemma
<1>4. Chosen' = Chosen /\ Out' = Out /\ \A p : Index(p)' = Index(p)
  <2>1. Chosen' = Chosen
    BY <1>1, <1>3 DEF Chosen
  <2>2. Out' = Out
    BY <1>0 DEF Out
  <2>3. \A p : Index(p)' = Index(p)
    BY <1>0 DEF Index, Elements
  <2> QED
    BY <2>1, <2>2, <2>3
<1>5. installs' \in Seq(Pkg)
  <2> HIDE DEF Chosen
  <2> QED
    BY <1>1, <1>2, <1>3
<1>6. TypeInv'
  BY <1>0, <1>2, <1>4, <1>5 DEF TypeInv
<1>7. ComesOutOnce' /\ CountInv' /\ OrderInv'
  BY <1>0, <1>2, <1>4 DEF ComesOutOnce, CountInv, OrderInv
<1>8. SortedInv'
  BY <1>0, <1>1, <1>4 DEF SortedInv
<1> QED
  BY <1>6, <1>7, <1>8 DEF SortIInv

LEMMA SortInvariance == SortSpec => []SortIInv
<1>1. SortIInv /\ UNCHANGED sortVars => SortIInv'
  <2> SUFFICES ASSUME SortIInv, UNCHANGED sortVars PROVE SortIInv'
    OBVIOUS
  <2>1. /\ installs' = installs /\ dependencies_map' = dependencies_map /\ indegree' = indegree
        /\ q' = q /\ result' = result /\ done' = done
    BY DEF sortVars
  <2>2. Chosen' = Chosen /\ Out' = Out
    BY <2>1 DEF Chosen, Out
  <2>3. \A p : Index(p)' = Index(p)
    BY <2>1 DEF Index, Elements
  <2>4. TypeInv' /\ CountInv' /\ OrderInv' /\ ComesOutOnce'
    BY <2>1, <2>2 DEF SortIInv, TypeInv, CountInv, OrderInv, ComesOutOnce
  <2>5. SortedInv'
    BY <2>1, <2>3 DEF SortIInv, SortedInv
  <2> QED
    BY <2>4, <2>5 DEF SortIInv
<1> QED
  BY SortInitIInv, PopStep, SortStep, <1>1, PTL DEF SortSpec, SortNext

\* What came out stands in the sorted solution in the order it came out.
LEMMA SortedAfter ==
    ASSUME SortIInv
    PROVE  ResolvedAfterDeps
<1> SUFFICES ASSUME done, NEW p \in Out, NEW d \in dependencies_map[p]
             PROVE  Before(d, p)
  BY DEF ResolvedAfterDeps, Out
<1>1. /\ TypeInv /\ OrderInv /\ SortedInv /\ Distinct(result)
      /\ Len(result) \in Nat /\ DOMAIN result = 1..Len(result)
      /\ \A i \in DOMAIN result : result[i] \in Chosen
  BY DEF SortIInv, ComesOutOnce, TypeInv
<1>2. \A i \in DOMAIN result : result[i] \in Out /\ Index(result[i]) = i - 1
  <2> SUFFICES ASSUME NEW i \in DOMAIN result
               PROVE  result[i] \in Out /\ Index(result[i]) = i - 1
    OBVIOUS
  <2>1. result[i] \in Elements(result)
    BY DEF Elements
  <2>2. \A k \in DOMAIN result : result[k] = result[i] => k = i
    BY <1>1 DEF Distinct
  <2>3. (CHOOSE k \in DOMAIN result : result[k] = result[i]) = i
    BY <2>2
  <2> QED
    BY <2>1, <2>3 DEF Index, Out
<1>3. PICK i \in DOMAIN result : p = result[i]
  BY DEF Out, Elements
<1>4. PICK j \in 1..(i - 1) : d = result[j]
  BY <1>1, <1>3 DEF OrderInv
<1>5. j \in DOMAIN result /\ i \in Nat /\ j \in Nat /\ j < i
  BY <1>1, <1>4
<1>6. Index(p) = i - 1 /\ Index(d) = j - 1 /\ p \in Chosen /\ d \in Chosen
  BY <1>1, <1>2, <1>3, <1>4, <1>5
<1>7. PICK a \in DOMAIN installs : installs[a] = p
  BY <1>6 DEF Chosen, Elements
<1>8. PICK b \in DOMAIN installs : installs[b] = d
  BY <1>6 DEF Chosen, Elements
<1>9. a \in Nat /\ b \in Nat
  BY <1>1 DEF TypeInv
<1>10. ~(a <= b)
  <2>1. a # b
    BY <1>5, <1>6, <1>7, <1>8
  <2>2. a < b => Index(p) <= Index(d)
    BY <1>1, <1>7, <1>8 DEF SortedInv
  <2> QED
    BY <2>1, <2>2, <1>5, <1>6, <1>9
<1> QED
  BY <1>7, <1>8, <1>9, <1>10 DEF Before

(***************************************************************************)
(* What comes out is what can be resolved.  Closure(p) is the least set    *)
(* that has what p depends on and is closed; among the packages that did   *)
(* not come out, one with a smallest closure has no dependency left.       *)
(***************************************************************************)
LEMMA ClosureChain ==
    ASSUME TypeInv, NEW p \in Pkg
    PROVE  /\ Cardinality(Pkg) \in Nat /\ Cardinality(Pkg) >= 1
           /\ \E f \in [1..Cardinality(Pkg) -> SUBSET Pkg] :
                /\ f[1] = DependenciesOf({p})
                /\ \A n \in 2..Cardinality(Pkg) : f[n] = f[n - 1] \cup DependenciesOf(f[n - 1])
                /\ Closure(p) = f[Cardinality(Pkg)]
<1> DEFINE N == Cardinality(Pkg)
           S == DependenciesOf({p})
           g == [n \in Nat |-> [T \in SUBSET Pkg |-> T \cup DependenciesOf(T)]]
           W[n \in 1..N] == IF n = 1 THEN S ELSE W[n - 1] \cup DependenciesOf(W[n - 1])
<1>1. N \in Nat /\ N >= 1
  <2>1. N \in Nat /\ Pkg # {}
    BY PkgAssumption, FS_CardinalityType
  <2>2. N # 0
    BY <2>1, PkgAssumption, FS_EmptySet
  <2> QED
    BY <2>1, <2>2
<1>2. Closure(p) = W[N]
  BY DEF Closure
<1>3. \A T \in SUBSET Pkg : DependenciesOf(T) \in SUBSET Pkg
  BY DEF DependenciesOf, TypeInv
<1>4. S \in SUBSET Pkg /\ g \in [Nat -> [SUBSET Pkg -> SUBSET Pkg]]
  BY <1>3
<1>5. PICK f : Iterates(f, SUBSET Pkg, 1, N, S, g)
  <2> HIDE DEF g, N, W, S
  <2> QED
    BY <1>1, <1>4, Iteration
<1>6. f \in [1..N -> SUBSET Pkg] /\ \A n \in 1..N : f[n] = IF n = 1 THEN S ELSE g[n][f[n - 1]]
  BY <1>5 DEF Iterates
<1>7. \A n \in 1..N : n \in Nat /\ (n # 1 => n - 1 \in 1..N)
  BY <1>1
<1>8. f = [n \in 1..N |-> IF n = 1 THEN S ELSE f[n - 1] \cup DependenciesOf(f[n - 1])]
  <2>1. \A n \in Nat : \A T \in SUBSET Pkg : g[n][T] = T \cup DependenciesOf(T)
    OBVIOUS
  <2>2. \A n \in 1..N : n # 1 => f[n - 1] \in SUBSET Pkg
    BY <1>6, <1>7
  <2> HIDE DEF g, N, W, S
  <2> QED
    BY <1>6, <1>7, <2>1, <2>2
<1>9. W = [n \in 1..N |-> IF n = 1 THEN S ELSE W[n - 1] \cup DependenciesOf(W[n - 1])]
  <2> HIDE DEF g, N, S
  <2>1. \E h : h = [n \in 1..N |-> IF n = 1 THEN S ELSE h[n - 1] \cup DependenciesOf(h[n - 1])]
    BY <1>8, Zenon
  <2> QED
    BY <2>1, Zenon
<1> HIDE DEF W, N, S
<1>10. W[1] = S /\ \A n \in 2..N : W[n] = W[n - 1] \cup DependenciesOf(W[n - 1])
  <2>1. 1 \in 1..N /\ \A n \in 2..N : n \in 1..N /\ n # 1
    BY <1>1
  <2> QED
    BY <1>9, <2>1, Zenon
<1>11. W \in [1..N -> SUBSET Pkg]
  <2> DEFINE A == {n \in Nat : n <= N => W[n] \in SUBSET Pkg}
  <2>1. 1 \in A
    BY <1>4, <1>10
  <2>2. ASSUME NEW n \in Nat, n >= 1, n \in A PROVE n + 1 \in A
    <3> SUFFICES ASSUME n + 1 <= N PROVE W[n + 1] \in SUBSET Pkg
      OBVIOUS
    <3>1. n + 1 \in 2..N /\ (n + 1) - 1 = n /\ n <= N
      BY <1>1, <2>2
    <3>2. W[n + 1] = W[n] \cup DependenciesOf(W[n])
      BY <1>10, <3>1
    <3> QED
      BY <1>3, <2>2, <3>1, <3>2
  <2> HIDE DEF A
  <2>3. \A n \in Nat : n >= 1 => n \in A
    BY <2>1, <2>2, Induction
  <2>4. \A n \in 1..N : W[n] \in SUBSET Pkg
    BY <1>1, <2>3 DEF A
  <2> QED
    BY <1>9, <2>4
<1> QED
  BY <1>1, <1>2, <1>10, <1>11 DEF N, S

LEMMA ClosureLeast ==
    ASSUME TypeInv, NEW p \in Pkg, NEW T, DependenciesOf({p}) \subseteq T, DependenciesOf(T) \subseteq T
    PROVE  Closure(p) \subseteq T
<1> DEFINE N == Cardinality(Pkg)
<1>1. N \in Nat /\ N >= 1
  BY ClosureChain
<1>2. PICK f \in [1..N -> SUBSET Pkg] :
          /\ f[1] = DependenciesOf({p})
          /\ \A n \in 2..N : f[n] = f[n - 1] \cup DependenciesOf(f[n - 1])
          /\ Closure(p) = f[N]
  BY ClosureChain
<1> HIDE DEF N
<1> DEFINE A == {n \in Nat : n <= N => f[n] \subseteq T}
<1>3. 1 \in A
  BY <1>2
<1>4. ASSUME NEW n \in Nat, n >= 1, n \in A PROVE n + 1 \in A
  <2> SUFFICES ASSUME n + 1 <= N PROVE f[n + 1] \subseteq T
    OBVIOUS
  <2>1. n + 1 \in 2..N /\ (n + 1) - 1 = n /\ n <= N
    BY <1>1, <1>4
  <2>2. f[n + 1] = f[n] \cup DependenciesOf(f[n]) /\ f[n] \subseteq T
    BY <1>2, <1>4, <2>1
  <2>3. DependenciesOf(f[n]) \subseteq DependenciesOf(T)
    BY <2>2 DEF DependenciesOf
  <2> QED
    BY <2>2, <2>3
<1> HIDE DEF A
<1>5. N \in A
  BY <1>1, <1>3, <1>4, Induction
<1> QED
  BY <1>1, <1>2, <1>5 DEF A

\* A set of the chain that is not closed has at least as many members as its
\* place in it, and the last place is the number of packages.
LEMMA ClosureClosed ==
    ASSUME TypeInv, NEW p \in Pkg
    PROVE  /\ Closure(p) \subseteq Pkg
           /\ DependenciesOf({p}) \subseteq Closure(p)
           /\ DependenciesOf(Closure(p)) \subseteq Closure(p)
<1> DEFINE N == Cardinality(Pkg)
           Closed(T) == DependenciesOf(T) \subseteq T
<1>1. N \in Nat /\ N >= 1
  BY ClosureChain
<1>2. PICK f \in [1..N -> SUBSET Pkg] :
          /\ f[1] = DependenciesOf({p})
          /\ \A n \in 2..N : f[n] = f[n - 1] \cup DependenciesOf(f[n - 1])
          /\ Closure(p) = f[N]
  BY ClosureChain
<1>3. /\ DependenciesOf({}) = {}
      /\ \A T \in SUBSET Pkg : DependenciesOf(T) \subseteq Pkg
      /\ \A T \in SUBSET Pkg : IsFiniteSet(T) /\ Cardinality(T) \in Nat
      /\ \A T \in SUBSET Pkg : Cardinality(T) <= N /\ (Cardinality(T) = N => T = Pkg)
  BY PkgAssumption, FS_Subset, FS_CardinalityType DEF DependenciesOf, TypeInv
<1> HIDE DEF N
<1> DEFINE Large(n) == Closed(f[n]) \/ Cardinality(f[n]) >= n
           A == {n \in Nat : n <= N => f[1] \subseteq f[n] /\ Large(n)}
<1>4. 1 \in A
  <2>1. f[1] \in SUBSET Pkg
    BY <1>1, <1>2
  <2>2. CASE f[1] = {}
    BY <1>3, <2>2
  <2>3. CASE f[1] # {}
    <3>1. Cardinality(f[1]) # 0
      BY <1>3, <2>1, <2>3, FS_EmptySet
    <3> QED
      BY <1>3, <2>1, <3>1
  <2> QED
    BY <2>2, <2>3
<1>5. ASSUME NEW n \in Nat, n >= 1, n \in A PROVE n + 1 \in A
  <2> SUFFICES ASSUME n + 1 <= N PROVE f[1] \subseteq f[n + 1] /\ Large(n + 1)
    OBVIOUS
  <2>1. n + 1 \in 2..N /\ (n + 1) - 1 = n /\ n <= N /\ n \in 1..N /\ n + 1 \in 1..N
    BY <1>1, <1>5
  <2>2. /\ f[n + 1] = f[n] \cup DependenciesOf(f[n]) /\ f[1] \subseteq f[n] /\ Large(n)
        /\ f[n] \in SUBSET Pkg /\ f[n + 1] \in SUBSET Pkg
    BY <1>2, <1>5, <2>1
  <2>3. CASE Closed(f[n])
    <3>1. f[n + 1] = f[n]
      BY <2>2, <2>3
    <3> QED
      BY <2>2, <2>3, <3>1
  <2>4. CASE ~Closed(f[n])
    <3>1. f[n] \subseteq f[n + 1] /\ f[n] # f[n + 1]
      BY <2>2, <2>4
    <3>2. Cardinality(f[n]) <= Cardinality(f[n + 1]) /\ Cardinality(f[n]) # Cardinality(f[n + 1])
      BY <1>3, <2>2, <3>1, FS_Subset
    <3>3. Cardinality(f[n]) \in Nat /\ Cardinality(f[n + 1]) \in Nat /\ Cardinality(f[n]) >= n
      BY <1>3, <2>2, <2>4
    <3>4. Cardinality(f[n + 1]) >= n + 1
      BY <3>2, <3>3
    <3> QED
      BY <2>2, <3>4
  <2> QED
    BY <2>3, <2>4
<1> HIDE DEF A
<1>6. N \in A
  BY <1>1, <1>4, <1>5, Induction
<1>7. f[1] \subseteq f[N] /\ Large(N) /\ f[N] \in SUBSET Pkg
  <2>1. N <= N /\ N \in 1..N
    BY <1>1
  <2>2. f[N] \in SUBSET Pkg
    BY <2>1
  <2> HIDE DEF Large
  <2> QED
    BY <1>6, <2>1, <2>2 DEF A
<1>8. Closed(f[N])
  <2>1. CASE Cardinality(f[N]) >= N
    <3>1. f[N] = Pkg
      BY <1>1, <1>3, <1>7, <2>1
    <3> QED
      BY <1>3, <1>7, <3>1
  <2> QED
    BY <1>7, <2>1
<1> QED
  BY <1>2, <1>7, <1>8

LEMMA OutIsResolvable ==
    ASSUME SortIInv, NEW p \in Out
    PROVE  p \in Chosen /\ Resolvable(p)
<1>1. /\ TypeInv /\ OrderInv /\ Distinct(result) /\ result \in Seq(Chosen) /\ Chosen \subseteq Pkg
      /\ DOMAIN result = 1..Len(result) /\ Len(result) \in Nat
      /\ \A i \in DOMAIN result : result[i] \in Chosen
  BY CountFacts DEF SortIInv, ComesOutOnce, TypeInv
<1> DEFINE Prior(i) == {result[j] : j \in 1..(i - 1)}
<1>2. \A i \in DOMAIN result : Closure(result[i]) \subseteq Prior(i)
  <2> SUFFICES ASSUME NEW i \in DOMAIN result PROVE Closure(result[i]) \subseteq Prior(i)
    OBVIOUS
  <2>1. DependenciesOf({result[i]}) \subseteq Prior(i)
    BY <1>1 DEF DependenciesOf, OrderInv
  <2>2. DependenciesOf(Prior(i)) \subseteq Prior(i)
    <3> SUFFICES ASSUME NEW j \in 1..(i - 1), NEW d \in dependencies_map[result[j]]
                 PROVE  d \in Prior(i)
      BY DEF DependenciesOf
    <3>1. j \in DOMAIN result /\ \A k \in 1..(j - 1) : k \in 1..(i - 1)
      BY <1>1
    <3>2. d \in Prior(j)
      BY <1>1, <3>1 DEF OrderInv
    <3> QED
      BY <3>1, <3>2
  <2>3. result[i] \in Pkg
    BY <1>1
  <2> HIDE DEF Prior
  <2> QED
    BY <1>1, <2>1, <2>2, <2>3, ClosureLeast
<1>3. \A i \in DOMAIN result : \A j \in 1..(i - 1) : j \in DOMAIN result /\ result[j] # result[i]
  BY <1>1 DEF Distinct
<1>4. \A i \in DOMAIN result : result[i] \notin Closure(result[i]) /\ Closure(result[i]) \subseteq Out
  <2> SUFFICES ASSUME NEW i \in DOMAIN result
               PROVE  result[i] \notin Prior(i) /\ Prior(i) \subseteq Out
    BY <1>2
  <2> QED
    BY <1>3 DEF Out, Elements
<1>5. \A d \in Out : d \in Chosen /\ d \notin Closure(d) /\ Closure(d) \subseteq Out
  BY <1>1, <1>4 DEF Out, Elements
<1> QED
  BY <1>5 DEF Resolvable, Chosen

LEMMA ResolvableIsOut ==
    ASSUME SortIInv, q = << >>, NEW p \in Chosen, Resolvable(p)
    PROVE  p \in Out
<1> DEFINE Left == ({p} \cup Closure(p)) \ Out
           Closures == {Closure(u) : u \in Left}
<1>1. /\ TypeInv /\ CountInv /\ Chosen \subseteq Pkg
      /\ \A d \in Chosen : dependencies_map[d] \subseteq Pkg
      /\ \A S \in SUBSET Pkg : IsFiniteSet(S)
  BY CountFacts DEF SortIInv
<1>2. \A d \in {p} \cup Closure(p) : d \in Chosen /\ d \notin Closure(d)
  BY DEF Resolvable, Chosen
<1>3. SUFFICES ASSUME Left # {} PROVE FALSE
  OBVIOUS
<1>4. \A u \in Left : \E v \in Left : v \in dependencies_map[u]
  <2> SUFFICES ASSUME NEW u \in Left PROVE \E v \in Left : v \in dependencies_map[u]
    OBVIOUS
  <2>1. u \in Chosen /\ u \notin Out
    BY <1>2
  <2>2. Elements(q) = {}
    BY DEF Elements
  <2>3. Cardinality(dependencies_map[u] \ Out) # 0
    BY <1>1, <2>1, <2>2 DEF CountInv
  <2>4. dependencies_map[u] \ Out # {}
    BY <2>3, FS_EmptySet
  <2>5. dependencies_map[u] \subseteq Closure(p)
    <3>1. dependencies_map[u] \subseteq DependenciesOf({u})
      BY <2>1 DEF DependenciesOf, Chosen
    <3>2. u \in Closure(p) => DependenciesOf({u}) \subseteq DependenciesOf(Closure(p))
      BY DEF DependenciesOf
    <3>3. DependenciesOf({p}) \subseteq Closure(p) /\ DependenciesOf(Closure(p)) \subseteq Closure(p)
      BY <1>1, ClosureClosed
    <3>4. u = p \/ u \in Closure(p)
      OBVIOUS
    <3> QED
      BY <3>1, <3>2, <3>3, <3>4
  <2> QED
    BY <2>4, <2>5
<1>5. \A u \in Left, v \in Left : v \in dependencies_map[u] =>
          Closure(v) \subseteq Closure(u) /\ v \in Closure(u) /\ v \notin Closure(v)
  <2> SUFFICES ASSUME NEW u \in Left, NEW v \in Left, v \in dependencies_map[u]
               PROVE  Closure(v) \subseteq Closure(u) /\ v \in Closure(u) /\ v \notin Closure(v)
    OBVIOUS
  <2>1. u \in Chosen /\ v \in Chosen /\ u \in Pkg /\ v \in Pkg
    BY <1>1, <1>2
  <2>2. /\ DependenciesOf({u}) \subseteq Closure(u) /\ DependenciesOf(Closure(u)) \subseteq Closure(u)
    BY <1>1, <2>1, ClosureClosed
  <2>3. v \in Closure(u)
    BY <2>1, <2>2 DEF DependenciesOf, Chosen
  <2>4. DependenciesOf({v}) \subseteq Closure(u)
    BY <2>2, <2>3 DEF DependenciesOf
  <2>5. Closure(v) \subseteq Closure(u)
    BY <1>1, <2>1, <2>2, <2>4, ClosureLeast
  <2> QED
    BY <1>2, <2>3, <2>5
<1>6. Closures \subseteq FiniteSubsetsOf(Pkg) /\ Closures # {}
  <2>1. \A u \in Left : Closure(u) \in SUBSET Pkg
    BY <1>1, <1>2, ClosureClosed
  <2>2. \A u \in Left : Closure(u) \in FiniteSubsetsOf(Pkg)
    BY <1>1, <2>1 DEF FiniteSubsetsOf
  <2> QED
    BY <1>3, <2>2
<1>7. IsWellFoundedOn(StrictSubsetOrdering(Pkg), FiniteSubsetsOf(Pkg))
  BY FS_StrictSubsetOrderingWellFounded
<1> HIDE DEF Left, Closures
<1>8. PICK C \in Closures : \A D \in Closures : ~(<<D, C>> \in StrictSubsetOrdering(Pkg))
  BY <1>6, <1>7, WFMin
<1>9. PICK u \in Left : C = Closure(u)
  BY <1>8 DEF Closures
<1>10. PICK v \in Left : v \in dependencies_map[u]
  BY <1>4
<1>11. Closure(v) \subseteq C /\ Closure(v) # C /\ Closure(v) \in Closures
  BY <1>5, <1>9, <1>10 DEF Closures
<1>12. Closure(v) \in SUBSET Pkg /\ C \in SUBSET Pkg
  BY <1>6, <1>8, <1>11 DEF FiniteSubsetsOf
<1>13. <<Closure(v), C>> \in StrictSubsetOrdering(Pkg)
  BY <1>11, <1>12, StrictSubset
<1> QED
  BY <1>8, <1>11, <1>13

\* The queue and the result hold packages of the solution, and no count of
\* dependencies goes below zero (PackageDatabase::topological_sort).
THEOREM SortTypeCorrect == SortSpec => []SortTypeOK
<1>1. SortIInv => SortTypeOK
  BY DEF SortIInv, TypeInv, SortTypeOK, Chosen
<1> QED
  BY SortInvariance, <1>1, PTL

\* No package comes out of the loop twice, whatever the registry says depends
\* on what (PackageDatabase.h:613-623).
THEOREM OutOnce == SortSpec => []ComesOutOnce
<1>1. SortIInv => ComesOutOnce
  BY DEF SortIInv
<1> QED
  BY SortInvariance, <1>1, PTL

\* For every solution and registry, what comes out of the loop is installed
\* after all its dependencies, wherever std::sort leaves the packages that
\* did not (PackageDatabase.h:631-640).
THEOREM DependenciesFirst == SortSpec => []ResolvedAfterDeps
<1> QED
  BY SortInvariance, SortedAfter, PTL
\* The loop takes out exactly the packages that depend on nothing outside the
\* solution and on no cycle, for every solution and registry, whatever the
\* order in which equals come out (PackageDatabase.h:613-623).
THEOREM AllResolvableComeOut == SortSpec => []ResolvableComeOut
<1>1. SortIInv => ResolvableComeOut
  BY OutIsResolvable, ResolvableIsOut DEF ResolvableComeOut, Out, Chosen
<1> QED
  BY SortInvariance, <1>1, PTL

(***************************************************************************)
(* The plan (ExecutionPlan)                                                *)
(***************************************************************************)
\* Direct installs are settled from the start, by the input alone.
Direct == {p \in Solution : in.force \/ p \in Required \ UpToDate}

\* Locked packages that the lock file says require a direct install.
Built == {p \in in.lock.packages : in.lock.requires[p] \cap Direct # {}}

InputInv ==
    /\ in \in Input
    /\ in.lock.packages \subseteq Solution

PlanInv ==
    /\ plan \in [Solution -> InstallType]
    /\ \A p \in Solution : plan[p] = "DIRECT" <=> p \in Direct
    /\ \A p \in Solution : plan[p] = "ALREADY" => p \in UpToDate
    /\ forgotten \subseteq UpToDate
    /\ forgotten \cap Direct = {}

SetsInv ==
    /\ reverse_dependencies \subseteq in.lock.packages
    /\ dependencies \subseteq Pkg
    /\ has_unknown \in BOOLEAN
    /\ announced \subseteq Pkg
    /\ installed \in Seq(Pkg)

LoopInv ==
    /\ pc \in {"empty", "collect", "scan", "settle", "ready", "install"}
    /\ max_depth \in 0..MaxDepth
    /\ pc \in {"collect", "scan"} => max_depth > 0
    /\ at \in 1..Len(in.installs) + 1

\* In a round, what was built on a direct install waits or is marked, and it
\* is marked once the loop has passed it.
BuiltInv ==
    /\ pc = "scan" => Built \subseteq reverse_dependencies
    /\ \A p \in Built : plan[p] \in {"UNKNOWN", "DIRECT", "RDEP"}
    /\ pc = "scan" => \A i \in 1..(at - 1) : in.installs[i] \in Built => plan[in.installs[i]] # "UNKNOWN"
    /\ pc \in {"settle", "ready", "install"} => \A p \in Built : plan[p] # "UNKNOWN"

IInv == InputInv /\ PlanInv /\ SetsInv /\ LoopInv /\ BuiltInv

(***************************************************************************)
(* The inductive invariant of the plan                                     *)
(***************************************************************************)
LEMMA InputFacts ==
    ASSUME in \in Input
    PROVE  /\ in.installs \in Seq(Pkg) /\ Len(in.installs) \in Nat
           /\ \A i \in 1..Len(in.installs) : in.installs[i] \in Pkg
           /\ Solution = {in.installs[i] : i \in 1..Len(in.installs)}
           /\ Solution \subseteq Pkg
           /\ in.lock \in LockFile
           /\ in.depends \in [Pkg -> SUBSET Pkg]
           /\ in.new \subseteq Pkg
           /\ \A p \in Pkg : Dependants(p) \subseteq in.lock.packages /\ Dependencies(p) \subseteq Pkg
  BY SolutionsAssumption, LockAssumption, RelationsAssumption
     DEF Input, LockFile, Solution, Elements, Dependants, Dependencies

LEMMA InitIInv == Init => IInv
<1> SUFFICES ASSUME Init PROVE IInv
  OBVIOUS
<1> USE DEF Init
<1>1. InputInv
  BY DEF InputInv
<1>2. PlanInv
  BY DEF PlanInv, InitialType, InstallType, Direct
<1>3. SetsInv
  <2>1. << >> \in Seq(Pkg)
    OBVIOUS
  <2>2. reverse_dependencies = {} /\ dependencies = {} /\ announced = {} /\ installed = << >> /\ has_unknown = FALSE
    OBVIOUS
  <2> QED
    BY <2>1, <2>2 DEF SetsInv
<1>4. LoopInv
  BY InputFacts, DepthAssumption DEF LoopInv
<1>5. BuiltInv
  <2>1. \A p \in Built : p \in Solution
    BY DEF Built
  <2> QED
    BY <2>1 DEF BuiltInv, InitialType
<1> QED
  BY <1>1, <1>2, <1>3, <1>4, <1>5 DEF IInv

\* A step that leaves the input alone leaves alone all that is defined by it.
LEMMA InputConstant ==
    ASSUME in' = in
    PROVE  /\ Solution' = Solution /\ Required' = Required /\ UpToDate' = UpToDate
           /\ Direct' = Direct /\ Built' = Built
  BY DEF Solution, Required, UpToDate, Direct, Built

LEMMA CollectStep == IInv /\ Collect => IInv'
<1> SUFFICES ASSUME IInv, Collect PROVE IInv'
  OBVIOUS
<1> USE DEF IInv, Collect, outcome
<1>0. /\ Solution' = Solution /\ Required' = Required /\ UpToDate' = UpToDate
      /\ Direct' = Direct /\ Built' = Built
  BY InputConstant
<1>f. Solution \subseteq Pkg /\ Built \subseteq Solution /\ OfType("DIRECT") = Direct /\ Len(in.installs) \in Nat
  BY InputFacts DEF InputInv, PlanInv, OfType, Built, Direct
<1>1. InputInv'
  BY <1>0 DEF InputInv
<1>2. PlanInv'
  BY <1>0 DEF PlanInv, InstallType
<1>3. SetsInv'
  <2>1. \A p \in Direct : Dependants(p) \subseteq in.lock.packages /\ Dependencies(p) \subseteq Pkg
    BY <1>f, InputFacts DEF InputInv, Direct
  <2>2. reverse_dependencies' \subseteq in.lock.packages /\ dependencies' \subseteq Pkg
    BY <1>f, <2>1
  <2> QED
    BY <2>2 DEF SetsInv
<1>4. LoopInv'
  BY <1>f DEF LoopInv
<1>5. BuiltInv'
  <2>1. Built \subseteq reverse_dependencies'
    <3> SUFFICES ASSUME NEW x \in Built PROVE x \in reverse_dependencies'
      OBVIOUS
    <3>1. PICK d \in Direct : d \in in.lock.requires[x]
      BY DEF Built
    <3>2. d \notin forgotten
      BY DEF PlanInv
    <3>3. x \in Dependants(d)
      BY <3>1, <3>2 DEF Dependants, Built
    <3> QED
      BY <3>1, <3>3, <1>f
  <2>2. \A p \in Built : plan'[p] \in {"UNKNOWN", "DIRECT", "RDEP"}
    BY <1>f DEF BuiltInv
  <2> QED
    BY <2>1, <2>2, <1>0, <1>f DEF BuiltInv
<1> QED
  BY <1>1, <1>2, <1>3, <1>4, <1>5

LEMMA ScanStep == IInv /\ Scan => IInv'
<1> SUFFICES ASSUME IInv, Scan PROVE IInv'
  OBVIOUS
<1> USE DEF IInv
<1>0. /\ in' = in /\ Solution' = Solution /\ Required' = Required /\ UpToDate' = UpToDate
      /\ Direct' = Direct /\ Built' = Built
  BY InputConstant DEF Scan
<1>f. /\ Solution \subseteq Pkg /\ Built \subseteq Solution /\ Len(in.installs) \in Nat
      /\ Scanned \in Solution /\ Scanned \in Pkg
      /\ Dependants(Scanned) \subseteq in.lock.packages /\ Dependencies(Scanned) \subseteq Pkg
  BY InputFacts DEF InputInv, LoopInv, Built, Scan, Scanned
<1>p. \/ UNCHANGED plan
      \/ /\ plan[Scanned] = "UNKNOWN"
         /\ \E t \in {"RDEP", "DEP", "ALREADY"} : plan' = [plan EXCEPT ![Scanned] = t]
         /\ Scanned \in reverse_dependencies => plan' = [plan EXCEPT ![Scanned] = "RDEP"]
         /\ plan' = [plan EXCEPT ![Scanned] = "ALREADY"] => Scanned \in Required
  <2>1. CASE plan[Scanned] # "UNKNOWN"
    BY <2>1 DEF Scan
  <2>2. CASE plan[Scanned] = "UNKNOWN"
    <3>1. Classify
      BY <2>2 DEF Scan
    <3>2. plan \in [Solution -> InstallType]
      BY DEF PlanInv
    <3>3. \A s, t \in InstallType : [plan EXCEPT ![Scanned] = s] = [plan EXCEPT ![Scanned] = t] => s = t
      BY <3>2, <1>f
    <3>4. CASE Scanned \in reverse_dependencies /\ Spread("RDEP")
      BY <2>2, <3>3, <3>4 DEF Spread, InstallType
    <3>5. CASE Scanned \in dependencies \ reverse_dependencies /\ Spread("DEP")
      BY <2>2, <3>3, <3>5 DEF Spread, InstallType
    <3> QED
      BY <2>2, <3>1, <3>4, <3>5 DEF Classify
  <2> QED
    BY <2>1, <2>2
<1>u. plan[Scanned] = "UNKNOWN" /\ UNCHANGED plan => Scanned \notin reverse_dependencies
  <2> SUFFICES ASSUME plan[Scanned] = "UNKNOWN", UNCHANGED plan, Scanned \in reverse_dependencies PROVE FALSE
    OBVIOUS
  <2>1. plan' = [plan EXCEPT ![Scanned] = "RDEP"]
    BY DEF Scan, Classify, Spread
  <2> QED
    BY <2>1, <1>f DEF PlanInv
<1>s. /\ reverse_dependencies \subseteq reverse_dependencies'
      /\ reverse_dependencies' \subseteq in.lock.packages
      /\ dependencies' \subseteq Pkg
      /\ has_unknown' \in BOOLEAN
  BY <1>f DEF Scan, Classify, Spread, sets, SetsInv
<1>1. InputInv'
  BY <1>0 DEF InputInv
<1>2. PlanInv'
  <2>1. Scanned \in Required /\ Scanned \notin Direct => Scanned \in UpToDate
    BY <1>f DEF Direct
  <2> QED
    BY <1>0, <1>f, <1>p, <2>1 DEF PlanInv, InstallType, Scan
<1>3. SetsInv'
  BY <1>0, <1>s DEF SetsInv, Scan, outcome
<1>4. LoopInv'
  BY <1>0, <1>f DEF LoopInv, Scan
<1>5. BuiltInv'
  <2>1. pc = "scan" /\ pc' = "scan" /\ at' = at + 1 /\ at \in Nat
    BY DEF Scan, LoopInv
  <2>2. \A p \in Built : plan'[p] \in {"UNKNOWN", "DIRECT", "RDEP"}
    BY <1>f, <1>p, <2>1 DEF BuiltInv, PlanInv
  <2>3. \A p \in Built : plan[p] # "UNKNOWN" => plan'[p] # "UNKNOWN"
    BY <1>f, <1>p DEF PlanInv
  <2>4. Scanned \in Built => plan'[Scanned] # "UNKNOWN"
    BY <1>f, <1>p, <1>u, <2>1 DEF BuiltInv, PlanInv
  <2>5. \A i \in 1..(at' - 1) : in.installs[i] \in Built => plan'[in.installs[i]] # "UNKNOWN"
    <3> SUFFICES ASSUME NEW i \in 1..at, in.installs[i] \in Built
                 PROVE  plan'[in.installs[i]] # "UNKNOWN"
      BY <2>1
    <3>1. CASE i = at
      BY <3>1, <2>4 DEF Scanned
    <3>2. CASE i \in 1..(at - 1)
      BY <3>2, <2>1, <2>3 DEF BuiltInv
    <3> QED
      BY <3>1, <3>2, <2>1
  <2> QED
    BY <1>0, <1>s, <2>1, <2>2, <2>5 DEF BuiltInv
<1> QED
  BY <1>1, <1>2, <1>3, <1>4, <1>5

LEMMA EndScanStep == IInv /\ EndScan => IInv'
<1> SUFFICES ASSUME IInv, EndScan PROVE IInv'
  OBVIOUS
<1> USE DEF IInv, EndScan, outcome, sets
<1>0. /\ in' = in /\ Solution' = Solution /\ UpToDate' = UpToDate /\ Direct' = Direct /\ Built' = Built
  BY InputConstant
<1>f. /\ Built \subseteq Solution /\ Len(in.installs) \in Nat /\ at = Len(in.installs) + 1
      /\ Solution = {in.installs[i] : i \in 1..Len(in.installs)}
  BY InputFacts DEF InputInv, LoopInv, Built
<1>1. InputInv' /\ PlanInv' /\ SetsInv'
  BY <1>0 DEF InputInv, PlanInv, SetsInv
<1>2. LoopInv'
  BY <1>f, DepthAssumption DEF LoopInv
<1>3. BuiltInv'
  <2>1. \A i \in 1..Len(in.installs) : in.installs[i] \in Built => plan[in.installs[i]] # "UNKNOWN"
    BY <1>f DEF BuiltInv
  <2>2. \A p \in Built : plan[p] # "UNKNOWN"
    BY <1>f, <2>1
  <2> QED
    BY <1>0, <2>2 DEF BuiltInv
<1> QED
  BY <1>1, <1>2, <1>3

LEMMA SettleStep == IInv /\ Settle => IInv'
<1> SUFFICES ASSUME IInv, Settle PROVE IInv'
  OBVIOUS
<1> USE DEF IInv, Settle, outcome, sets
<1>0. /\ in' = in /\ Solution' = Solution /\ UpToDate' = UpToDate /\ Direct' = Direct /\ Built' = Built
  BY InputConstant
<1>f. Built \subseteq Solution
  BY DEF InputInv, Built
<1>1. InputInv' /\ SetsInv'
  BY <1>0 DEF InputInv, SetsInv
<1>2. PlanInv'
  BY <1>0 DEF PlanInv, InstallType, OfType
<1>3. LoopInv'
  BY DEF LoopInv
<1>4. BuiltInv'
  <2>1. \A p \in Built : plan'[p] = plan[p]
    BY <1>f DEF BuiltInv, OfType
  <2> QED
    BY <1>0, <2>1 DEF BuiltInv
<1> QED
  BY <1>1, <1>2, <1>3, <1>4

LEMMA CarryOutStep == IInv /\ (Announce \/ Install) => IInv'
<1> SUFFICES ASSUME IInv, Announce \/ Install PROVE IInv'
  OBVIOUS
<1> USE DEF IInv, sets
<1>0. /\ in' = in /\ Solution' = Solution /\ UpToDate' = UpToDate /\ Direct' = Direct /\ Built' = Built
  BY InputConstant DEF Announce, Install
<1>f. Solution \subseteq Pkg /\ Len(in.installs) \in Nat
  BY InputFacts DEF InputInv
<1>1. InputInv' /\ PlanInv' /\ BuiltInv'
  BY <1>0 DEF InputInv, PlanInv, BuiltInv, Announce, Install
<1>2. SetsInv'
  <2>1. CASE Announce
    BY <2>1, <1>0, <1>f DEF SetsInv, Announce, OfType
  <2>2. CASE Install
    <3>1. Scanned \in Pkg
      BY <2>2, InputFacts DEF Install, LoopInv, InputInv, Scanned
    <3> QED
      BY <2>2, <3>1, <1>0 DEF SetsInv, Install
  <2> QED
    BY <2>1, <2>2
<1>3. LoopInv'
  BY <1>0, <1>f DEF LoopInv, Announce, Install
<1> QED
  BY <1>1, <1>2, <1>3

LEMMA IInvStep == IInv /\ [Next]_vars => IInv'
<1> SUFFICES ASSUME IInv, [Next]_vars PROVE IInv'
  OBVIOUS
<1>1. CASE UNCHANGED vars
  BY <1>1 DEF vars, sets, outcome, IInv, InputInv, PlanInv, SetsInv, LoopInv, BuiltInv, Solution, Direct,
     Built, Required, UpToDate
<1> QED
  BY <1>1, CollectStep, ScanStep, EndScanStep, SettleStep, CarryOutStep DEF Next

LEMMA Invariance == Spec => []IInv
<1> QED
  BY InitIInv, IInvStep, PTL DEF Spec

\* What the invariant says of a plan.
LEMMA PlanMeans ==
    ASSUME IInv
    PROVE  NothingStale /\ DependantsRebuilt
<1>1. NothingStale
  BY DEF IInv, PlanInv, NothingStale, OfType
<1>2. DependantsRebuilt
  <2> SUFFICES ASSUME Planned, NEW p \in in.lock.packages,
                      in.lock.requires[p] \cap OfType("DIRECT") # {}
               PROVE  plan[p] \in {"DIRECT", "RDEP"}
    BY DEF DependantsRebuilt
  <2>1. p \in Built
    BY DEF IInv, PlanInv, OfType, Built
  <2> QED
    BY <2>1 DEF IInv, BuiltInv, Planned
<1> QED
  BY <1>1, <1>2

\* The plan stays a plan of the solution, and the rounds are counted right.
THEOREM TypeCorrect == Spec => []TypeOK
<1>1. IInv => TypeOK
  BY DEF IInv, InputInv, PlanInv, SetsInv, LoopInv, TypeOK
<1> QED
  BY <1>1, Invariance, PTL

\* In any order of the solution, sorted or not, a package is passed over only
\* when it is up to date, and what was built on a direct install is built
\* again.
THEOREM PlanIsSafe == Spec => [](NothingStale /\ DependantsRebuilt)
<1> QED
  BY PlanMeans, Invariance, PTL

\* BuiltOn is the end of a chain of growing sets.
LEMMA BuiltOnChain ==
    ASSUME NEW S \in SUBSET Pkg, in.lock.packages \in SUBSET Pkg
    PROVE  \E f \in [0..Cardinality(Pkg) -> SUBSET Pkg] :
              /\ f[0] = S
              /\ \A n \in 1..Cardinality(Pkg) : f[n] = f[n - 1] \cup {p \in in.lock.packages : in.lock.requires[p] \cap f[n - 1] # {}}
              /\ BuiltOn(S) = f[Cardinality(Pkg)]
<1> DEFINE N == Cardinality(Pkg)
           g == [n \in Nat |-> [T \in SUBSET Pkg |-> T \cup {p \in in.lock.packages : in.lock.requires[p] \cap T # {}}]]
           W[n \in 0..N] ==
               IF n = 0 THEN S ELSE W[n - 1] \cup {p \in in.lock.packages : in.lock.requires[p] \cap W[n - 1] # {}}
<1>1. N \in Nat
  BY PkgAssumption, FS_CardinalityType
<1>2. BuiltOn(S) = W[N]
  BY DEF BuiltOn
<1>3. g \in [Nat -> [SUBSET Pkg -> SUBSET Pkg]]
  OBVIOUS
<1>4. PICK f : Iterates(f, SUBSET Pkg, 0, N, S, g)
  <2> HIDE DEF g, N, W
  <2>1. N >= 0
    BY <1>1
  <2> QED
    BY <1>1, <1>3, <2>1, Iteration
<1>5. f \in [0..N -> SUBSET Pkg] /\ \A n \in 0..N : f[n] = IF n = 0 THEN S ELSE g[n][f[n - 1]]
  BY <1>4 DEF Iterates
<1>6. \A n \in 0..N : n \in Nat /\ (n # 0 => n - 1 \in 0..N)
  BY <1>1
<1>7. f = [n \in 0..N |->
              IF n = 0 THEN S ELSE f[n - 1] \cup {p \in in.lock.packages : in.lock.requires[p] \cap f[n - 1] # {}}]
  <2>1. \A n \in Nat : \A T \in SUBSET Pkg : g[n][T] = T \cup {p \in in.lock.packages : in.lock.requires[p] \cap T # {}}
    OBVIOUS
  <2>2. \A n \in 0..N : n # 0 => f[n - 1] \in SUBSET Pkg
    BY <1>5, <1>6
  <2> HIDE DEF g, N, W
  <2> QED
    BY <1>5, <1>6, <2>1, <2>2
<1>8. W = [n \in 0..N |->
              IF n = 0 THEN S ELSE W[n - 1] \cup {p \in in.lock.packages : in.lock.requires[p] \cap W[n - 1] # {}}]
  <2> HIDE DEF g, N
  <2>1. \E h : h = [n \in 0..N |->
            IF n = 0 THEN S ELSE h[n - 1] \cup {p \in in.lock.packages : in.lock.requires[p] \cap h[n - 1] # {}}]
    BY <1>7, Zenon
  <2> QED
    BY <2>1, Zenon
<1> HIDE DEF W, N
<1>9. \A n \in 0..N : W[n] = IF n = 0 THEN S ELSE W[n - 1] \cup {p \in in.lock.packages : in.lock.requires[p] \cap W[n - 1] # {}}
  BY <1>8
<1>10. W[0] = S /\ \A n \in 1..N : W[n] = W[n - 1] \cup {p \in in.lock.packages : in.lock.requires[p] \cap W[n - 1] # {}}
  <2>1. 0 \in 0..N /\ \A n \in 1..N : n \in 0..N /\ n # 0
    BY <1>1
  <2> QED
    BY <1>9, <2>1, Zenon
<1>11. W \in [0..N -> SUBSET Pkg]
  <2> DEFINE A == {n \in Nat : n <= N => W[n] \in SUBSET Pkg}
  <2>1. 0 \in A
    BY <1>10
  <2>2. ASSUME NEW n \in Nat, n >= 0, n \in A PROVE n + 1 \in A
    <3> SUFFICES ASSUME n + 1 <= N PROVE W[n + 1] \in SUBSET Pkg
      OBVIOUS
    <3>1. n + 1 \in 1..N /\ (n + 1) - 1 = n /\ n <= N
      BY <1>1
    <3>2. W[n + 1] = W[n] \cup {p \in in.lock.packages : in.lock.requires[p] \cap W[n] # {}}
      BY <1>10, <3>1
    <3> QED
      BY <2>2, <3>1, <3>2
  <2> HIDE DEF A
  <2>3. \A n \in Nat : n >= 0 => n \in A
    BY <2>1, <2>2, Induction
  <2>4. \A n \in 0..N : W[n] \in SUBSET Pkg
    BY <1>1, <2>3 DEF A
  <2> QED
    BY <1>8, <2>4
<1> QED
  BY <1>2, <1>10, <1>11 DEF N

\* Who is in it is there for a reason that is in it too.
LEMMA BuiltOnGrounded ==
    ASSUME NEW S \in SUBSET Pkg, in.lock.packages \in SUBSET Pkg, NEW p \in BuiltOn(S)
    PROVE  p \in Pkg /\ (p \in S \/ (p \in in.lock.packages /\ in.lock.requires[p] \cap BuiltOn(S) # {}))
<1> DEFINE N == Cardinality(Pkg)
<1>0. N \in Nat
  BY PkgAssumption, FS_CardinalityType
<1>1. PICK f \in [0..N -> SUBSET Pkg] :
          /\ f[0] = S
          /\ \A n \in 1..N : f[n] = f[n - 1] \cup {x \in in.lock.packages : in.lock.requires[x] \cap f[n - 1] # {}}
          /\ BuiltOn(S) = f[N]
  BY BuiltOnChain
<1> HIDE DEF N
<1> DEFINE Grounded(n) == \A x \in f[n] : x \in S \/ (x \in in.lock.packages /\ in.lock.requires[x] \cap f[n] # {})
           A == {n \in Nat : n <= N => Grounded(n)}
<1>2. 0 \in A
  BY <1>1
<1>3. ASSUME NEW n \in Nat, n >= 0, n \in A PROVE n + 1 \in A
  <2> SUFFICES ASSUME n + 1 <= N PROVE Grounded(n + 1)
    OBVIOUS
  <2>1. n + 1 \in 1..N /\ (n + 1) - 1 = n /\ n <= N
    BY <1>0
  <2>2. f[n + 1] = f[n] \cup {x \in in.lock.packages : in.lock.requires[x] \cap f[n] # {}}
    BY <1>1, <2>1
  <2>3. Grounded(n)
    BY <1>3, <2>1
  <2> QED
    BY <2>2, <2>3
<1> HIDE DEF A
<1>4. N \in A
  BY <1>0, <1>2, <1>3, Induction
<1>5. Grounded(N)
  BY <1>0, <1>4 DEF A
<1>6. f[N] \subseteq Pkg
  BY <1>0, <1>1
<1> QED
  BY <1>1, <1>5, <1>6

(***************************************************************************)
(* What a package is built again for, what the user is shown, and the      *)
(* chains of dependants                                                    *)
(***************************************************************************)
Marked == {p \in Solution : plan[p] \in {"DIRECT", "RDEP", "DEP"}}

\* Who is to be built again as a dependant requires something that is built.
ReasonInv ==
    /\ pc = "scan" => \A x \in reverse_dependencies : in.lock.requires[x] \cap Marked # {}
    /\ pc \in {"scan", "settle"} \/ (Planned /\ max_depth > 0)
        => \A p \in OfType("RDEP") : in.lock.requires[p] \cap Marked # {}

\* While rounds are left, the plan leaves nothing open; what it says is shown,
\* and only that is installed.
ShownInv ==
    /\ pc = "scan" /\ ~has_unknown => \A i \in 1..(at - 1) : plan[in.installs[i]] # "UNKNOWN"
    /\ pc \in {"settle", "ready", "install"} /\ max_depth > 0 => \A p \in Solution : plan[p] # "UNKNOWN"
    /\ pc # "install" => installed = << >>
    /\ pc = "install" => announced = Marked
    /\ Elements(installed) \subseteq {p \in Solution : plan[p] # "ALREADY"}

\* As BuiltInv, for all that was built on a direct install in any number of
\* steps: what the loop has marked has handed its mark on.
Chain == BuiltOn(Direct)

ChainInv ==
    InOrder =>
        /\ Chain \cap forgotten = {}
        /\ \A p \in Chain : plan[p] \in {"UNKNOWN", "DIRECT", "RDEP"}
        /\ pc = "scan" => \A d \in Chain : plan[d] \in {"DIRECT", "RDEP"} =>
                            {x \in in.lock.packages : d \in in.lock.requires[x]} \subseteq reverse_dependencies
        /\ pc = "scan" => \A i \in 1..(at - 1) : in.installs[i] \in Chain => plan[in.installs[i]] # "UNKNOWN"
        /\ pc \in {"settle", "ready", "install"} => \A p \in Chain : plan[p] # "UNKNOWN"

OutcomeInv == ReasonInv /\ ShownInv /\ ChainInv

LEMMA InitOutcome == Init => OutcomeInv
<1> SUFFICES ASSUME Init PROVE OutcomeInv
  OBVIOUS
<1>1. /\ IInv /\ installed = << >> /\ forgotten = {} /\ pc \in {"empty", "collect"}
      /\ \A p \in Solution : plan[p] \in {"UNKNOWN", "DIRECT"}
  BY InitIInv DEF Init, InitialType
<1>2. ReasonInv /\ ShownInv
  BY <1>1 DEF ReasonInv, ShownInv, Planned, Elements
<1>3. Direct \in SUBSET Pkg /\ in.lock.packages \in SUBSET Pkg /\ Direct \subseteq Solution
  BY <1>1, InputFacts DEF IInv, InputInv, Direct
<1>4. Chain \subseteq Solution
  BY <1>1, <1>3, BuiltOnGrounded DEF Chain, IInv, InputInv
<1> QED
  BY <1>1, <1>2, <1>4 DEF OutcomeInv, ChainInv

\* The chain is part of the solution.
LEMMA ChainFacts ==
    ASSUME IInv
    PROVE  /\ Chain \subseteq Solution /\ Solution \subseteq Pkg
           /\ \A p \in Chain : p \in Direct \/ (p \in in.lock.packages /\ in.lock.requires[p] \cap Chain # {})
<1>1. Direct \in SUBSET Pkg /\ in.lock.packages \in SUBSET Pkg /\ Direct \subseteq Solution /\ Solution \subseteq Pkg
  BY InputFacts DEF IInv, InputInv, Direct
<1> QED
  BY <1>1, BuiltOnGrounded DEF Chain, IInv, InputInv

LEMMA ChainConstant ==
    ASSUME in' = in
    PROVE  Chain' = Chain /\ InOrder' = InOrder
<1>1. Direct' = Direct
  BY InputConstant
<1>2. Chain' = Chain
  BY <1>1 DEF Chain, BuiltOn
<1>3. InOrder' = InOrder
  BY DEF InOrder
<1> QED
  BY <1>2, <1>3

LEMMA CollectOutcome == IInv /\ OutcomeInv /\ Collect => OutcomeInv'
<1> SUFFICES ASSUME IInv, OutcomeInv, Collect PROVE OutcomeInv'
  OBVIOUS
<1>0. /\ Solution' = Solution /\ Direct' = Direct /\ Chain' = Chain /\ InOrder' = InOrder /\ in' = in
  BY InputConstant, ChainConstant DEF Collect
<1>f. /\ Chain \subseteq Solution /\ Solution \subseteq Pkg /\ OfType("DIRECT") = Direct /\ Direct \subseteq Solution
      /\ plan' = [p \in Solution |-> IF plan[p] = "RDEP" THEN "UNKNOWN" ELSE plan[p]]
      /\ pc' = "scan" /\ at' = 1 /\ installed' = installed /\ forgotten' = forgotten /\ pc = "collect"
      /\ reverse_dependencies' = UNION {Dependants(p) : p \in OfType("DIRECT")}
      /\ plan \in [Solution -> InstallType]
      /\ \A p \in Solution : plan[p] = "DIRECT" <=> p \in Direct
  BY ChainFacts DEF IInv, PlanInv, OfType, Direct, Collect, outcome
<1>1. ReasonInv'
  <2>1. OfType("RDEP")' = {}
    BY <1>0, <1>f DEF OfType
  <2>2. ASSUME NEW x \in reverse_dependencies' PROVE in.lock.requires[x] \cap Marked' # {}
    <3>1. PICK d \in Direct : x \in Dependants(d)
      BY <1>f, <2>2
    <3>2. d \in in.lock.requires[x]
      BY <3>1 DEF Dependants
    <3>3. d \in Marked'
      BY <1>0, <1>f, <3>1 DEF Marked
    <3> QED
      BY <3>2, <3>3
  <2> QED
    BY <1>0, <2>1, <2>2 DEF ReasonInv
<1>2. ShownInv'
  <2>1. installed = << >>
    BY <1>f DEF OutcomeInv, ShownInv
  <2> QED
    BY <1>f, <2>1 DEF ShownInv, Elements
<1>3. ChainInv'
  <2> SUFFICES ASSUME InOrder PROVE /\ Chain \cap forgotten = {}
                                    /\ \A p \in Chain : plan'[p] \in {"UNKNOWN", "DIRECT", "RDEP"}
                                    /\ \A d \in Chain : plan'[d] \in {"DIRECT", "RDEP"} =>
                                        {x \in in.lock.packages : d \in in.lock.requires[x]} \subseteq reverse_dependencies'
    BY <1>0, <1>f DEF ChainInv
  <2>1. Chain \cap forgotten = {} /\ \A p \in Chain : plan[p] \in {"UNKNOWN", "DIRECT", "RDEP"}
    BY DEF OutcomeInv, ChainInv
  <2>2. ASSUME NEW d \in Chain, plan'[d] \in {"DIRECT", "RDEP"},
               NEW x \in in.lock.packages, d \in in.lock.requires[x]
        PROVE  x \in reverse_dependencies'
    <3>1. d \in Direct
      BY <1>f, <2>1, <2>2
    <3>2. x \in Dependants(d)
      BY <2>1, <2>2 DEF Dependants
    <3> QED
      BY <1>f, <3>1, <3>2
  <2> QED
    BY <1>f, <2>1, <2>2
<1> QED
  BY <1>1, <1>2, <1>3 DEF OutcomeInv

\* How one package is classified.
LEMMA ScanFacts ==
    ASSUME IInv, Scan
    PROVE  /\ in' = in /\ pc = "scan" /\ pc' = "scan" /\ at \in Nat /\ at' = at + 1 /\ max_depth' = max_depth
           /\ forgotten' = forgotten /\ announced' = announced /\ installed' = installed
           /\ Scanned \in Solution /\ Scanned = in.installs[at]
           /\ plan \in [Solution -> InstallType] /\ plan' \in [Solution -> InstallType]
           /\ \A p \in Solution : p # Scanned \/ plan[p] # "UNKNOWN" => plan'[p] = plan[p]
           /\ reverse_dependencies \subseteq reverse_dependencies'
           /\ reverse_dependencies' \subseteq reverse_dependencies \cup Dependants(Scanned)
           /\ plan[Scanned] = "UNKNOWN" =>
                /\ plan'[Scanned] \in {"UNKNOWN", "RDEP", "DEP", "ALREADY"}
                /\ Scanned \in reverse_dependencies <=> plan'[Scanned] = "RDEP"
                /\ plan'[Scanned] = "RDEP" => Dependants(Scanned) \subseteq reverse_dependencies'
                /\ plan'[Scanned] \in {"UNKNOWN", "ALREADY"} => reverse_dependencies' = reverse_dependencies
                /\ plan'[Scanned] = "UNKNOWN" => has_unknown'
           /\ plan[Scanned] # "UNKNOWN" => reverse_dependencies' = reverse_dependencies
           /\ has_unknown => has_unknown'
<1>1. /\ in' = in /\ pc = "scan" /\ pc' = "scan" /\ at \in Nat /\ at' = at + 1 /\ max_depth' = max_depth
      /\ forgotten' = forgotten /\ announced' = announced /\ installed' = installed
      /\ Scanned \in Solution /\ Scanned = in.installs[at] /\ plan \in [Solution -> InstallType]
      /\ has_unknown \in BOOLEAN
  BY InputFacts DEF IInv, InputInv, PlanInv, SetsInv, LoopInv, Scan, Scanned, outcome
<1>2. CASE plan[Scanned] # "UNKNOWN"
  BY <1>1, <1>2 DEF Scan, sets
<1>3. CASE plan[Scanned] = "UNKNOWN"
  <2>1. Classify
    BY <1>3 DEF Scan
  <2>2. CASE Scanned \in reverse_dependencies /\ Spread("RDEP")
    BY <1>1, <1>3, <2>2 DEF Spread, InstallType
  <2>3. CASE Scanned \in dependencies \ reverse_dependencies /\ Spread("DEP")
    BY <1>1, <1>3, <2>3 DEF Spread, InstallType
  <2>4. CASE /\ Scanned \in Required \ (reverse_dependencies \cup dependencies)
             /\ plan' = [plan EXCEPT ![Scanned] = "ALREADY"]
             /\ UNCHANGED <<sets, has_unknown>>
    BY <1>1, <1>3, <2>4 DEF sets, InstallType
  <2>5. CASE /\ Scanned \notin Required \cup reverse_dependencies \cup dependencies
             /\ has_unknown' = TRUE
             /\ UNCHANGED <<plan, sets>>
    BY <1>1, <1>3, <2>5 DEF sets, InstallType
  <2> QED
    BY <2>1, <2>2, <2>3, <2>4, <2>5 DEF Classify
<1> QED
  BY <1>2, <1>3

LEMMA ScanReason == IInv /\ ReasonInv /\ Scan => ReasonInv'
<1> SUFFICES ASSUME IInv, ReasonInv, Scan PROVE ReasonInv'
  OBVIOUS
<1>0. Solution' = Solution /\ in' = in /\ pc = "scan" /\ pc' = "scan"
  BY InputConstant, ScanFacts
<1>1. Marked \subseteq Marked'
  BY <1>0, ScanFacts DEF Marked
<1>2. \A x \in reverse_dependencies : in.lock.requires[x] \cap Marked # {}
  BY <1>0 DEF ReasonInv
<1>3. ASSUME NEW x \in reverse_dependencies' PROVE in.lock.requires[x] \cap Marked' # {}
  <2>1. CASE x \in reverse_dependencies
    BY <1>1, <1>2, <2>1
  <2>2. CASE x \notin reverse_dependencies
    <3>1. x \in Dependants(Scanned) /\ plan[Scanned] = "UNKNOWN" /\ plan'[Scanned] \in {"RDEP", "DEP"}
      BY <1>3, <2>2, ScanFacts
    <3>2. Scanned \in in.lock.requires[x]
      BY <3>1 DEF Dependants
    <3>3. Scanned \in Marked'
      BY <1>0, <3>1, ScanFacts DEF Marked
    <3> QED
      BY <3>2, <3>3
  <2> QED
    BY <2>1, <2>2
<1>4. ASSUME NEW p \in OfType("RDEP")' PROVE in.lock.requires[p] \cap Marked' # {}
  <2>1. p \in Solution /\ plan'[p] = "RDEP"
    BY <1>0, <1>4 DEF OfType
  <2>2. CASE plan[p] = "RDEP"
    <3>1. p \in OfType("RDEP")
      BY <2>1, <2>2 DEF OfType
    <3> QED
      BY <1>0, <1>1, <3>1 DEF ReasonInv
  <2>3. CASE plan[p] # "RDEP"
    <3>1. p = Scanned /\ p \in reverse_dependencies
      BY <2>1, <2>3, ScanFacts
    <3> QED
      BY <1>1, <1>2, <3>1
  <2> QED
    BY <2>2, <2>3
<1> QED
  BY <1>0, <1>3, <1>4 DEF ReasonInv

LEMMA ScanShown == IInv /\ ShownInv /\ Scan => ShownInv'
<1> SUFFICES ASSUME IInv, ShownInv, Scan PROVE ShownInv'
  OBVIOUS
<1>0. Solution' = Solution /\ in' = in /\ pc = "scan" /\ pc' = "scan" /\ installed' = installed /\ at \in Nat /\ at' = at + 1
  BY InputConstant, ScanFacts
<1>1. installed' = << >>
  BY <1>0 DEF ShownInv
<1>2. ASSUME ~has_unknown', NEW i \in 1..at PROVE plan'[in.installs[i]] # "UNKNOWN"
  <2>1. ~has_unknown
    BY <1>2, ScanFacts
  <2>2. CASE i = at
    BY <1>2, <2>2, ScanFacts
  <2>3. CASE i \in 1..(at - 1)
    <3>1. plan[in.installs[i]] # "UNKNOWN"
      BY <1>0, <2>1, <2>3 DEF ShownInv
    <3>2. in.installs[i] \in Solution
      BY <1>0, <2>3, InputFacts DEF IInv, InputInv, LoopInv, Solution, Elements
    <3> QED
      BY <3>1, <3>2, ScanFacts
  <2> QED
    BY <1>0, <2>2, <2>3
<1>3. \A i \in 1..(at' - 1) : i \in 1..at
  BY <1>0
<1> QED
  BY <1>0, <1>1, <1>2, <1>3 DEF ShownInv, Elements

LEMMA ScanChain == IInv /\ ChainInv /\ Scan => ChainInv'
<1> SUFFICES ASSUME IInv, ChainInv, Scan, InOrder PROVE ChainInv'
  BY ChainConstant DEF ChainInv, Scan
<1>0. /\ in' = in /\ Chain' = Chain /\ pc = "scan" /\ pc' = "scan" /\ at \in Nat /\ at' = at + 1
      /\ forgotten' = forgotten
  BY ChainConstant, ScanFacts
<1>f. /\ Chain \subseteq Solution /\ Chain \cap forgotten = {}
      /\ \A p \in Chain : p \in Direct \/ (p \in in.lock.packages /\ in.lock.requires[p] \cap Chain # {})
      /\ \A p \in Chain : plan[p] \in {"UNKNOWN", "DIRECT", "RDEP"}
      /\ \A d \in Chain : plan[d] \in {"DIRECT", "RDEP"} =>
            {x \in in.lock.packages : d \in in.lock.requires[x]} \subseteq reverse_dependencies
      /\ \A i \in 1..(at - 1) : in.installs[i] \in Chain => plan[in.installs[i]] # "UNKNOWN"
      /\ \A p \in Solution : p \in Direct => plan[p] = "DIRECT"
  BY <1>0, ChainFacts DEF ChainInv, IInv, PlanInv
\* In a good order, a package of the chain is found among the dependants.
<1>1. ASSUME Scanned \in Chain, plan[Scanned] = "UNKNOWN" PROVE Scanned \in reverse_dependencies
  <2>1. Scanned \in in.lock.packages /\ in.lock.requires[Scanned] \cap Chain # {}
    BY <1>1, <1>f
  <2>2. PICK d \in Chain : d \in in.lock.requires[Scanned]
    BY <2>1
  <2>3. PICK j \in 1..Len(in.installs) : in.installs[j] = d
    BY <1>f, <2>2, InputFacts DEF IInv, InputInv
  <2>4. at \in DOMAIN in.installs /\ j \in DOMAIN in.installs
    BY <1>0, <2>3, InputFacts DEF IInv, InputInv, LoopInv, Scan
  <2>5. j < at
    BY <2>2, <2>3, <2>4, ScanFacts DEF InOrder
  <2>6. plan[d] \in {"DIRECT", "RDEP"}
    BY <1>0, <1>f, <2>2, <2>3, <2>5
  <2> QED
    BY <1>f, <2>1, <2>2, <2>6
<1>2. \A p \in Chain : plan'[p] \in {"UNKNOWN", "DIRECT", "RDEP"}
  BY <1>1, <1>f, ScanFacts
<1>3. ASSUME NEW d \in Chain, plan'[d] \in {"DIRECT", "RDEP"},
             NEW x \in in.lock.packages, d \in in.lock.requires[x]
      PROVE  x \in reverse_dependencies'
  <2>1. CASE plan[d] # "UNKNOWN"
    BY <1>f, <1>3, <2>1, ScanFacts
  <2>2. CASE plan[d] = "UNKNOWN"
    <3>1. d = Scanned /\ plan'[d] = "RDEP"
      BY <1>f, <1>3, <2>2, ScanFacts
    <3>2. x \in Dependants(d)
      BY <1>f, <1>3 DEF Dependants
    <3> QED
      BY <2>2, <3>1, <3>2, ScanFacts
  <2> QED
    BY <2>1, <2>2
<1>4. ASSUME NEW i \in 1..(at' - 1), in.installs[i] \in Chain PROVE plan'[in.installs[i]] # "UNKNOWN"
  <2>1. CASE i = at
    BY <1>1, <1>4, <2>1, ScanFacts
  <2>2. CASE i \in 1..(at - 1)
    BY <1>f, <1>4, <2>2, ScanFacts
  <2> QED
    BY <1>0, <1>4, <2>1, <2>2
<1> QED
  BY <1>0, <1>f, <1>2, <1>3, <1>4 DEF ChainInv

LEMMA EndScanOutcome == IInv /\ OutcomeInv /\ EndScan => OutcomeInv'
<1> SUFFICES ASSUME IInv, OutcomeInv, EndScan PROVE OutcomeInv'
  OBVIOUS
<1>0. /\ in' = in /\ Solution' = Solution /\ Chain' = Chain /\ InOrder' = InOrder
      /\ plan' = plan /\ reverse_dependencies' = reverse_dependencies /\ forgotten' = forgotten
      /\ installed' = installed /\ announced' = announced /\ at' = 1
      /\ pc = "scan" /\ pc' \in {"scan", "settle"} /\ max_depth \in Nat /\ max_depth' = max_depth - 1
      /\ pc' = "settle" /\ max_depth' > 0 => ~has_unknown
  BY InputConstant, ChainConstant DEF EndScan, sets, outcome, IInv, LoopInv, SetsInv
<1>1. ReasonInv'
  BY <1>0 DEF OutcomeInv, ReasonInv, Marked, OfType, Planned
<1>f. /\ at = Len(in.installs) + 1 /\ Len(in.installs) \in Nat
      /\ Solution = {in.installs[i] : i \in 1..Len(in.installs)} /\ Chain \subseteq Solution
  BY InputFacts, ChainFacts DEF IInv, InputInv, LoopInv, EndScan
<1>g. \A i \in 1..Len(in.installs) : i \in 1..(at - 1)
  BY <1>f
<1>2. ShownInv'
  <2>1. ASSUME ~has_unknown PROVE \A p \in Solution : plan[p] # "UNKNOWN"
    BY <1>0, <1>f, <1>g, <2>1 DEF OutcomeInv, ShownInv
  <2> QED
    BY <1>0, <2>1 DEF OutcomeInv, ShownInv, Elements
<1>3. ChainInv'
  <2>1. ASSUME InOrder PROVE \A p \in Chain : plan[p] # "UNKNOWN"
    BY <1>0, <1>f, <1>g, <2>1 DEF OutcomeInv, ChainInv
  <2> QED
    BY <1>0, <2>1 DEF OutcomeInv, ChainInv
<1> QED
  BY <1>1, <1>2, <1>3 DEF OutcomeInv

LEMMA SettleOutcome == IInv /\ OutcomeInv /\ Settle => OutcomeInv'
<1> SUFFICES ASSUME IInv, OutcomeInv, Settle PROVE OutcomeInv'
  OBVIOUS
<1> DEFINE settled == OfType("DEP") \cap UpToDate
<1>0. /\ in' = in /\ Solution' = Solution /\ Chain' = Chain /\ InOrder' = InOrder
      /\ plan' = [p \in Solution |-> IF p \in settled THEN "ALREADY" ELSE plan[p]]
      /\ forgotten' = forgotten \cup settled /\ max_depth' = max_depth
      /\ installed' = installed /\ announced' = announced
      /\ pc = "settle" /\ pc' \in {"collect", "ready"}
      /\ pc' = "ready" /\ max_depth > 0 => settled = {}
      /\ plan \in [Solution -> InstallType] /\ max_depth \in Nat
      /\ \A p \in settled : plan[p] = "DEP"
  BY InputConstant, ChainConstant DEF Settle, sets, outcome, IInv, PlanInv, LoopInv, OfType
<1> HIDE DEF settled
<1>1. ReasonInv'
  <2>1. ASSUME pc' = "ready", max_depth > 0 PROVE plan' = plan
    BY <1>0, <2>1
  <2> QED
    BY <1>0, <2>1 DEF OutcomeInv, ReasonInv, Marked, OfType, Planned
<1>2. ShownInv'
  BY <1>0 DEF OutcomeInv, ShownInv, Elements
<1>3. ChainInv'
  <2>1. ASSUME InOrder PROVE \A p \in Chain : p \in Solution /\ plan[p] # "DEP"
    BY <2>1, ChainFacts DEF OutcomeInv, ChainInv
  <2> QED
    BY <1>0, <2>1 DEF OutcomeInv, ChainInv
<1> QED
  BY <1>1, <1>2, <1>3 DEF OutcomeInv

LEMMA CarryOutOutcome == IInv /\ OutcomeInv /\ (Announce \/ Install) => OutcomeInv'
<1> SUFFICES ASSUME IInv, OutcomeInv, Announce \/ Install PROVE OutcomeInv'
  OBVIOUS
<1>0. /\ in' = in /\ Solution' = Solution /\ Chain' = Chain /\ InOrder' = InOrder
      /\ plan' = plan /\ forgotten' = forgotten /\ max_depth' = max_depth
      /\ pc \in {"ready", "install"} /\ pc' = "install"
  BY InputConstant, ChainConstant DEF Announce, Install, sets
<1>1. ReasonInv'
  BY <1>0 DEF OutcomeInv, ReasonInv, Marked, OfType, Planned
<1>2. ChainInv'
  BY <1>0 DEF OutcomeInv, ChainInv
<1>3. ShownInv'
  <2>1. CASE Announce
    <3>1. installed' = installed /\ installed = << >> /\ announced' = OfType("DIRECT") \cup OfType("RDEP") \cup OfType("DEP")
      BY <2>1 DEF Announce, OutcomeInv, ShownInv
    <3>2. announced' = Marked
      BY <3>1 DEF OfType, Marked
    <3> QED
      BY <1>0, <3>1, <3>2 DEF OutcomeInv, ShownInv, Marked, Elements
  <2>2. CASE Install
    <3>1. Scanned \in Solution /\ installed \in Seq(Pkg) /\ Solution \subseteq Pkg
      BY <2>2, InputFacts DEF IInv, InputInv, LoopInv, SetsInv, Install, Scanned
    <3>2. announced' = announced /\ announced = Marked
      BY <2>2 DEF Install, OutcomeInv, ShownInv
    <3>3. Elements(installed') \subseteq {p \in Solution : plan[p] # "ALREADY"}
      <4>1. Elements(installed) \subseteq {p \in Solution : plan[p] # "ALREADY"}
        BY DEF OutcomeInv, ShownInv
      <4>2. CASE plan[Scanned] = "ALREADY"
        BY <2>2, <4>1, <4>2 DEF Install
      <4>3. CASE plan[Scanned] # "ALREADY"
        <5>1. installed' = Append(installed, Scanned) /\ Scanned \in Pkg
          BY <2>2, <3>1, <4>3 DEF Install
        <5>2. Elements(installed') = Elements(installed) \cup {Scanned}
          BY <3>1, <5>1, AppendLemma
        <5> QED
          BY <3>1, <4>1, <4>3, <5>2
      <4> QED
        BY <4>2, <4>3
    <3> QED
      BY <1>0, <3>2, <3>3 DEF OutcomeInv, ShownInv, Marked
  <2> QED
    BY <2>1, <2>2
<1> QED
  BY <1>1, <1>2, <1>3 DEF OutcomeInv

LEMMA OutcomeStep == IInv /\ OutcomeInv /\ [Next]_vars => OutcomeInv'
<1> SUFFICES ASSUME IInv, OutcomeInv, [Next]_vars PROVE OutcomeInv'
  OBVIOUS
<1>1. CASE UNCHANGED vars
  <2>1. /\ in' = in /\ plan' = plan /\ reverse_dependencies' = reverse_dependencies /\ forgotten' = forgotten
        /\ has_unknown' = has_unknown /\ max_depth' = max_depth /\ at' = at
        /\ announced' = announced /\ installed' = installed /\ pc' = pc
    BY <1>1 DEF vars, sets, outcome
  <2>2. Solution' = Solution /\ Chain' = Chain /\ InOrder' = InOrder
    BY <2>1, InputConstant, ChainConstant
  <2>3. ReasonInv' /\ ShownInv'
    BY <2>1, <2>2 DEF OutcomeInv, ReasonInv, ShownInv, Marked, OfType, Planned, Elements
  <2>4. ChainInv'
    BY <2>1, <2>2 DEF OutcomeInv, ChainInv
  <2> QED
    BY <2>3, <2>4 DEF OutcomeInv
<1>2. CASE Scan
  BY <1>2, ScanReason, ScanShown, ScanChain DEF OutcomeInv
<1> QED
  BY <1>1, <1>2, CollectOutcome, EndScanOutcome, SettleOutcome, CarryOutOutcome DEF Next

\* What the invariant says of the plan and of what was installed.
LEMMA OutcomeMeans ==
    ASSUME IInv, OutcomeInv
    PROVE  RebuiltForAReason /\ AnnouncedUnlessCut /\ AllDependantsRebuilt
<1>1. RebuiltForAReason
  BY DEF OutcomeInv, ReasonInv, RebuiltForAReason, Marked, Planned
<1>2. AnnouncedUnlessCut
  <2> SUFFICES ASSUME max_depth > 0, NEW p \in Elements(installed) PROVE p \in announced
    BY DEF AnnouncedUnlessCut
  <2>1. pc = "install"
    BY DEF OutcomeInv, ShownInv, Elements
  <2>2. p \in Solution /\ plan[p] # "ALREADY" /\ plan[p] # "UNKNOWN" /\ plan[p] \in InstallType
    BY <2>1 DEF OutcomeInv, ShownInv, IInv, PlanInv
  <2> QED
    BY <2>1, <2>2 DEF OutcomeInv, ShownInv, Marked, InstallType
<1>3. AllDependantsRebuilt
  <2> SUFFICES ASSUME Planned, InOrder, NEW p \in BuiltOn(OfType("DIRECT"))
               PROVE  p \in OfType("DIRECT") \cup OfType("RDEP")
    BY DEF AllDependantsRebuilt
  <2>1. OfType("DIRECT") = Direct
    BY DEF IInv, PlanInv, OfType, Direct
  <2>2. p \in Chain
    BY <2>1 DEF Chain
  <2> QED
    BY <2>2, ChainFacts DEF OutcomeInv, ChainInv, Planned, OfType
<1> QED
  BY <1>1, <1>2, <1>3

LEMMA OutcomeInvariance == Spec => [](IInv /\ OutcomeInv)
<1> QED
  BY InitIInv, InitOutcome, IInvStep, OutcomeStep, PTL DEF Spec

\* In any order of the solution: a package is built again as a dependant only
\* when something it requires is built, what is installed was shown to the
\* user, and, in the lock file's order, dependants of dependants are built too.
THEOREM PlanIsJustified ==
    Spec => [](RebuiltForAReason /\ AnnouncedUnlessCut /\ AllDependantsRebuilt)
<1> QED
  BY OutcomeInvariance, OutcomeMeans, PTL

(***************************************************************************)
(* The composition implements the sort                                     *)
(***************************************************************************)
THEOREM SortImplemented == OrderSpec => SortSpec
<1>1. OrderInit => SortInit
  BY DEF OrderInit
<1>2. [OrderNext]_allVars => [SortNext]_sortVars
  BY DEF OrderNext, Sorting, Begin, Planning, allVars
<1> QED
  BY <1>1, <1>2, PTL DEF OrderSpec, SortSpec

(***************************************************************************)
(* The inductive invariant of the composition                              *)
(***************************************************************************)
\* The solution stays one the solver may have given; the plan is made of it.
SameInput ==
    /\ installs \in Solutions
    /\ dependencies_map \in Relations
    /\ pc # "waiting" => done /\ in.installs = installs /\ in.depends = dependencies_map

\* There is no plan yet, or it is as in ExecutionPlan.
PlanPart == IF pc = "waiting" THEN Waiting ELSE IInv /\ OutcomeInv

\* What the loop has passed has been installed or is up to date.
Carried ==
    /\ pc # "install" => installed = << >>
    /\ pc = "install" =>
        \A k \in 1..(at - 1) :
            plan[installs[k]] = "ALREADY" \/ \E j \in 1..Len(installed) : installed[j] = installs[k]

Joint == SameInput /\ PlanPart /\ Carried /\ DependenciesReady

LEMMA JointInit == OrderInit => Joint
  BY DEF OrderInit, SortInit, Waiting, Joint, SameInput, PlanPart, Carried, DependenciesReady

LEMMA SortingStep == Joint /\ Sorting => Joint'
<1> SUFFICES ASSUME Joint, Sorting PROVE Joint'
  OBVIOUS
<1>1. pc = "waiting" /\ UNCHANGED vars /\ SortNext
  BY DEF Sorting
<1>2. UNCHANGED dependencies_map
  BY <1>1 DEF SortNext, Pop, SortInstalls
<1>3. installs' \in Solutions
  <2>1. CASE Pop
    BY <2>1 DEF Pop, Joint, SameInput
  <2>2. CASE SortInstalls
    BY <2>2, OrdersAssumption DEF SortInstalls, Joint, SameInput
  <2> QED
    BY <1>1, <2>1, <2>2 DEF SortNext
<1>4. SameInput'
  BY <1>1, <1>2, <1>3 DEF Joint, SameInput, vars
<1>5. PlanPart'
  BY <1>1, <1>2 DEF Joint, PlanPart, Waiting, vars
<1>6. installed' = << >> /\ pc' = "waiting"
  BY <1>1 DEF Joint, PlanPart, Waiting, vars
<1> QED
  BY <1>4, <1>5, <1>6 DEF Joint, Carried, DependenciesReady

\* A plan begins as ExecutionPlan says it does.
LEMMA BeginIsInit == Joint /\ Begin => Init'
<1> SUFFICES ASSUME Joint, Begin PROVE Init'
  OBVIOUS
<1>1. PICK lock \in LockFiles, new \in SUBSET Pkg, force \in Forced :
        /\ lock.packages \cup new \subseteq Elements(installs)
        /\ new \cap lock.packages = {}
        /\ in' = [installs |-> installs, lock |-> lock, new |-> new,
                  depends |-> dependencies_map, force |-> force]
  BY DEF Begin
<1>2. in' \in Input /\ in'.lock = lock /\ in'.new = new /\ in'.installs = installs
  BY <1>1 DEF Input, Joint, SameInput
<1>3. Waiting /\ UNCHANGED <<reverse_dependencies, dependencies, forgotten, has_unknown, max_depth,
                              at, announced, installed>>
  BY DEF Begin, Joint, PlanPart, sets, outcome
<1>4. plan' = [p \in Solution' |-> InitialType(p)'] /\ pc' = IF OfType("DIRECT")' = {} THEN "empty" ELSE "collect"
  BY DEF Begin
<1> QED
  BY <1>1, <1>2, <1>3, <1>4 DEF Init, Waiting, Solution

LEMMA BeginStep == Joint /\ Begin => Joint'
<1> SUFFICES ASSUME Joint, Begin PROVE Joint'
  OBVIOUS
<1>1. Init'
  BY BeginIsInit
<1>2. IInv' /\ OutcomeInv'
  BY <1>1, InitIInv, InitOutcome, PTL
<1>3. pc' \in {"empty", "collect"} /\ installed' = << >>
  BY <1>1 DEF Init
<1>4. SameInput'
  BY DEF Begin, Joint, SameInput, sortVars
<1> QED
  BY <1>2, <1>3, <1>4 DEF Joint, PlanPart, Carried, DependenciesReady

LEMMA PlanStep == IInv /\ OutcomeInv /\ [Next]_vars => IInv' /\ OutcomeInv' /\ in' = in
<1> SUFFICES ASSUME IInv, OutcomeInv, [Next]_vars PROVE IInv' /\ OutcomeInv' /\ in' = in
  OBVIOUS
<1>1. in' = in
  BY DEF Next, Collect, Scan, EndScan, Settle, Announce, Install, vars
<1> QED
  BY <1>1, IInvStep, OutcomeStep

\* In the solution every package has one place.
LEMMA OnePlace ==
    ASSUME SameInput
    PROVE  /\ installs \in Seq(Pkg) /\ Len(installs) \in Nat /\ DOMAIN installs = 1..Len(installs)
           /\ \A i, j \in DOMAIN installs : installs[i] = installs[j] => i = j
  BY SolutionsAssumption DEF SameInput

LEMMA InstallIsReady ==
    ASSUME Joint, ResolvedAfterDeps, Install,
           plan[Scanned] # "ALREADY", Scanned \in Elements(result), NEW d \in dependencies_map[Scanned]
    PROVE  d \in UpToDate \/ \E j \in 1..Len(installed) : installed[j] = d
<1>1. /\ pc = "install" /\ at <= Len(in.installs) /\ IInv /\ done /\ in.installs = installs
  BY DEF Install, Joint, PlanPart, SameInput
<1>2. at \in 1..Len(installs) /\ Scanned = installs[at] /\ at \in Nat
  BY <1>1, OnePlace DEF IInv, LoopInv, Scanned, Joint
<1>3. PICK i, j \in DOMAIN installs : i < j /\ installs[i] = d /\ installs[j] = Scanned
  BY <1>1 DEF ResolvedAfterDeps, Before
<1>4. i \in 1..(at - 1)
  <2>1. j = at
    BY <1>2, <1>3, OnePlace DEF Joint
  <2> QED
    BY <2>1, <1>2, <1>3, OnePlace DEF Joint
<1>5. CASE plan[d] = "ALREADY"
  <2>1. d \in Solution
    BY <1>1, <1>3 DEF Solution, Elements
  <2> QED
    BY <1>1, <1>5, <2>1 DEF IInv, PlanInv
<1> QED
  BY <1>1, <1>3, <1>4, <1>5 DEF Joint, Carried

LEMMA PlanningStep == Joint /\ ResolvedAfterDeps /\ Planning => Joint'
<1> SUFFICES ASSUME Joint, ResolvedAfterDeps, Planning PROVE Joint'
  OBVIOUS
<1>1. pc # "waiting" /\ IInv /\ OutcomeInv /\ Next /\ UNCHANGED sortVars
  BY DEF Planning, Joint, PlanPart
<1>2. IInv' /\ OutcomeInv' /\ in' = in /\ UpToDate' = UpToDate
  BY <1>1, PlanStep DEF UpToDate
<1>3. pc' # "waiting"
  BY <1>2 DEF IInv, LoopInv
<1>4. SameInput' /\ PlanPart'
  BY <1>1, <1>2, <1>3 DEF Joint, SameInput, PlanPart, sortVars
<1>5. Carried' /\ DependenciesReady'
  <2>1. CASE ~Install
    <3>1. UNCHANGED installed /\ (pc' = "install" => at' = 1) /\ pc # "install"
      BY <1>1, <2>1 DEF Next, Collect, Scan, EndScan, Settle, Announce, outcome
    <3>2. installed = << >>
      BY <3>1 DEF Joint, Carried
    <3> QED
      BY <3>1, <3>2 DEF Carried, DependenciesReady
  <2>2. CASE Install /\ plan[Scanned] = "ALREADY"
    <3>1. UNCHANGED <<installed, plan, pc>> /\ at' = at + 1 /\ pc = "install"
      BY <2>2 DEF Install
    <3>2. at \in Nat /\ Scanned = installs[at] /\ installs' = installs
      BY <1>1 DEF IInv, LoopInv, Joint, SameInput, Scanned, sortVars
    <3>3. \A k \in 1..at : k = at \/ k \in 1..(at - 1)
      BY <3>2
    <3>4. Carried'
      BY <3>1, <3>2, <3>3, <2>2 DEF Carried, Joint
    <3> QED
      BY <3>1, <3>4, <1>1, <1>2 DEF DependenciesReady, Joint, sortVars
  <2>3. CASE Install /\ plan[Scanned] # "ALREADY"
    <3>1. installed' = Append(installed, Scanned) /\ UNCHANGED <<plan, pc>> /\ at' = at + 1 /\ pc = "install"
      BY <2>3 DEF Install
    <3>2. at \in Nat /\ Scanned = installs[at] /\ installs' = installs
      BY <1>1 DEF IInv, LoopInv, Joint, SameInput, Scanned, sortVars
    <3>3. /\ installed \in Seq(Pkg) /\ Len(installed) \in Nat /\ DOMAIN installed = 1..Len(installed)
          /\ DOMAIN installed' = 1..(Len(installed) + 1) /\ Len(installed') = Len(installed) + 1
          /\ \A i \in 1..Len(installed) : installed'[i] = installed[i]
          /\ installed'[Len(installed) + 1] = Scanned
      BY <1>1, <3>1 DEF IInv, SetsInv
    <3>4. Carried'
      <4> SUFFICES ASSUME NEW k \in 1..at, plan[installs[k]] # "ALREADY"
                   PROVE  \E j \in 1..Len(installed') : installed'[j] = installs[k]
        BY <3>1, <3>2 DEF Carried
      <4>1. CASE k = at
        BY <4>1, <3>2, <3>3
      <4>2. CASE k \in 1..(at - 1)
        <5>1. PICK j \in 1..Len(installed) : installed[j] = installs[k]
          BY <3>1, <4>2 DEF Joint, Carried
        <5> QED
          BY <5>1, <3>3
      <4> QED
        BY <4>1, <4>2, <3>2
    <3>5. DependenciesReady'
      <4> SUFFICES ASSUME NEW i \in 1..(Len(installed) + 1), installed'[i] \in Elements(result),
                          NEW d \in dependencies_map[installed'[i]]
                   PROVE  d \in UpToDate \/ \E j \in 1..(i - 1) : installed'[j] = d
        BY <3>3, <1>1, <1>2 DEF DependenciesReady, sortVars
      <4>1. CASE i = Len(installed) + 1
        <5>1. d \in UpToDate \/ \E j \in 1..Len(installed) : installed[j] = d
          BY <4>1, <2>3, <3>3, InstallIsReady
        <5> QED
          BY <5>1, <4>1, <3>3
      <4>2. CASE i \in 1..Len(installed)
        <5>1. d \in UpToDate \/ \E j \in 1..(i - 1) : installed[j] = d
          BY <4>2, <3>3 DEF Joint, DependenciesReady
        <5> QED
          BY <5>1, <4>2, <3>3
      <4> QED
        BY <4>1, <4>2, <3>3
    <3> QED
      BY <3>4, <3>5
  <2> QED
    BY <2>1, <2>2, <2>3
<1> QED
  BY <1>4, <1>5 DEF Joint

LEMMA JointInvariance == OrderSpec => []Joint
<1>1. Joint /\ ResolvedAfterDeps /\ [OrderNext]_allVars => Joint'
  <2> SUFFICES ASSUME Joint, ResolvedAfterDeps, [OrderNext]_allVars PROVE Joint'
    OBVIOUS
  <2>1. CASE UNCHANGED allVars
    <3>1. UNCHANGED vars /\ UNCHANGED sortVars
      BY <2>1 DEF allVars
    <3>2. SameInput' /\ Carried' /\ DependenciesReady'
      BY <3>1 DEF Joint, SameInput, Carried, DependenciesReady, UpToDate, vars, sortVars
    <3>3. PlanPart'
      <4>1. CASE pc = "waiting"
        BY <4>1, <3>1 DEF Joint, PlanPart, Waiting, vars, sortVars
      <4>2. CASE pc # "waiting"
        BY <4>2, <3>1, PlanStep DEF Joint, PlanPart, vars
      <4> QED
        BY <4>1, <4>2
    <3> QED
      BY <3>2, <3>3 DEF Joint
  <2> QED
    BY <2>1, SortingStep, BeginStep, PlanningStep DEF OrderNext
<1>2. OrderSpec => []ResolvedAfterDeps
  BY SortImplemented, DependenciesFirst, PTL
<1> QED
  BY <1>1, <1>2, JointInit, PTL DEF OrderSpec

(***************************************************************************)
(* Theorems of the composition                                             *)
(***************************************************************************)
\* For every solution, registry, lock file and bound on the rounds: a package
\* the sort could place finds each of its dependencies built before it or up
\* to date (ttrek_InstallOrUpdate).
THEOREM DependenciesAreReady == OrderSpec => []DependenciesReady
<1>1. Joint => DependenciesReady
  BY DEF Joint
<1> QED
  BY <1>1, JointInvariance, PTL

\* In the composition too, the loop takes out all that can be resolved, and
\* nothing else (ttrek_Solve).
THEOREM ResolvableInOrder == OrderSpec => []ResolvableComeOut
<1> QED
  BY SortImplemented, AllResolvableComeOut, PTL

\* In the composition too, nothing out of date is passed over.
THEOREM NothingStaleInOrder == OrderSpec => []NothingStale
<1>1. Joint => NothingStale
  <2>1. ASSUME IInv PROVE NothingStale
    BY <2>1, PlanMeans
  <2>2. ASSUME Waiting PROVE NothingStale
    BY <2>2 DEF Waiting, NothingStale, OfType, Solution, Elements
  <2> QED
    BY <2>1, <2>2 DEF Joint, PlanPart
<1> QED
  BY <1>1, JointInvariance, PTL

\* And what was built on a direct install is built again.
THEOREM DependantsRebuiltInOrder == OrderSpec => []DependantsRebuilt
<1>1. Joint => DependantsRebuilt
  BY PlanMeans DEF Joint, PlanPart, Waiting, Planned, DependantsRebuilt
<1> QED
  BY <1>1, JointInvariance, PTL

\* In a solution that has the lock file's order, everything that was built on a
\* direct install is built again, however long the chain between them and
\* however few the rounds (ttrek_GenerateExecutionPlan).
THEOREM ChainsRebuiltInOrder == OrderSpec => []AllDependantsRebuilt
<1>1. Joint => AllDependantsRebuilt
  BY OutcomeMeans DEF Joint, PlanPart, Waiting, Planned, AllDependantsRebuilt
<1> QED
  BY <1>1, JointInvariance, PTL

\* While rounds are left, a package is built again as a dependant only when
\* something it requires is built (ttrek_GenerateExecutionPlan).
THEOREM ReasonInOrder == OrderSpec => []RebuiltForAReason
<1>1. Joint => RebuiltForAReason
  BY OutcomeMeans DEF Joint, PlanPart, Waiting, Planned, RebuiltForAReason
<1> QED
  BY <1>1, JointInvariance, PTL

\* And what is installed was shown to the user (ttrek_PrintExecutionPlan).
THEOREM ShownInOrder == OrderSpec => []AnnouncedUnlessCut
<1>1. Joint => AnnouncedUnlessCut
  BY OutcomeMeans DEF Joint, PlanPart, Waiting, AnnouncedUnlessCut, Elements
<1> QED
  BY <1>1, JointInvariance, PTL
=============================================================================
