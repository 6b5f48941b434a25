----------------------------- MODULE Iterations -----------------------------
(***************************************************************************)
(* Induction.  The finite sets of numbers are well-founded under strict    *)
(* inclusion; from that follow the least number of a set, induction for a  *)
(* set of numbers, and that functions defined by iteration exist.  Nothing *)
(* in here takes an operator as a parameter.                               *)
(***************************************************************************)
EXTENDS FiniteSetTheorems, TLAPS

LEMMA StrictSubset ==
    ASSUME NEW S, NEW A \in SUBSET S, NEW B \in SUBSET S, A \subseteq B, A # B
    PROVE  <<A, B>> \in StrictSubsetOrdering(S)
<1>1. <<A, B>> \in (SUBSET S) \X (SUBSET S) /\ <<A, B>>[1] = A /\ <<A, B>>[2] = B
  OBVIOUS
<1> QED
  BY <1>1, Zenon DEF StrictSubsetOrdering

LEMMA LeastNumber ==
    ASSUME NEW S \in SUBSET Nat, S # {}
    PROVE  \E m \in S : \A k \in S : m <= k
<1> DEFINE T == {0..m : m \in S}
<1>1. \A m \in S : 0..m \subseteq Nat /\ IsFiniteSet(0..m)
  BY FS_Interval
<1>2. T \subseteq FiniteSubsetsOf(Nat)
  <2> SUFFICES ASSUME NEW m \in S PROVE 0..m \in FiniteSubsetsOf(Nat)
    OBVIOUS
  <2> QED
    BY <1>1, Zenon DEF FiniteSubsetsOf
<1>3. T # {} /\ IsWellFoundedOn(StrictSubsetOrdering(Nat), FiniteSubsetsOf(Nat))
  BY FS_StrictSubsetOrderingWellFounded
<1> HIDE DEF T
<1>4. PICK x \in T : \A y \in T : ~(<<y, x>> \in StrictSubsetOrdering(Nat))
  BY <1>2, <1>3, WFMin
<1>5. PICK m \in S : x = 0..m
  BY <1>4 DEF T
<1>6. SUFFICES ASSUME NEW k \in S, k < m PROVE FALSE
  OBVIOUS
<1>7. 0..k \in T
  BY DEF T
<1>8. 0..k \subseteq 0..m /\ m \in 0..m /\ m \notin 0..k
  BY <1>6
<1>9. 0..k # 0..m
  BY <1>8, Zenon
<1>10. 0..k \in SUBSET Nat /\ x \in SUBSET Nat
  BY <1>1, <1>5
<1>11. <<0..k, x>> \in StrictSubsetOrdering(Nat)
  BY <1>5, <1>8, <1>9, <1>10, StrictSubset, Zenon
<1> QED
  BY <1>4, <1>7, <1>11

\* Induction from a on, for what is said by a set of numbers.
LEMMA Induction ==
    ASSUME NEW a \in Nat, NEW S, a \in S, \A n \in Nat : n >= a /\ n \in S => n + 1 \in S
    PROVE  \A n \in Nat : n >= a => n \in S
<1> DEFINE Bad == {n \in Nat : n >= a /\ n \notin S}
<1>1. SUFFICES ASSUME Bad # {} PROVE FALSE
  OBVIOUS
<1>2. PICK m \in Bad : \A k \in Bad : m <= k
  BY <1>1, LeastNumber
<1>3. m \in Nat /\ m > a
  BY <1>2
<1>4. m - 1 \in Nat /\ m - 1 >= a /\ m - 1 \notin Bad
  BY <1>2, <1>3
<1>5. m - 1 \in S
  BY <1>4
<1>6. (m - 1) + 1 \in S
  BY <1>4, <1>5
<1>7. (m - 1) + 1 = m
  BY <1>3
<1> QED
  BY <1>2, <1>6, <1>7

\* f starts with x0 at a and goes on, at each n up to b, with g[n].
Iterates(f, X, a, b, x0, g) ==
    f \in [a..b -> X] /\ \A n \in a..b : f[n] = IF n = a THEN x0 ELSE g[n][f[n - 1]]

LEMMA Iteration ==
    ASSUME NEW X, NEW a \in Nat, NEW b \in Nat, b >= a, NEW x0 \in X, NEW g \in [Nat -> [X -> X]]
    PROVE  \E f : Iterates(f, X, a, b, x0, g)
<1> DEFINE Good(n) == \E f : Iterates(f, X, a, n, x0, g)
           S == {n \in Nat : Good(n)}
<1>1. Good(a)
  <2> DEFINE f == [k \in a..a |-> x0]
  <2>1. f \in [a..a -> X] /\ \A k \in a..a : k = a /\ f[k] = x0
    OBVIOUS
  <2> QED
    BY <2>1 DEF Iterates
<1>2. ASSUME NEW n \in Nat, n >= a, Good(n) PROVE Good(n + 1)
  <2>1. PICK f : f \in [a..n -> X] /\ \A k \in a..n : f[k] = IF k = a THEN x0 ELSE g[k][f[k - 1]]
    BY <1>2 DEF Iterates
  <2> DEFINE h == [k \in a..(n + 1) |-> IF k = n + 1 THEN g[n + 1][f[n]] ELSE f[k]]
  <2>2. n \in a..n /\ f[n] \in X /\ g[n + 1][f[n]] \in X
    BY <1>2, <2>1
  <2>3. h \in [a..(n + 1) -> X]
    BY <1>2, <2>1, <2>2
  <2>4. \A k \in a..n : h[k] = f[k]
    BY <1>2
  <2>5. \A k \in a..n : k # a => k - 1 \in a..n
    BY <1>2
  <2>6. h[n + 1] = g[n + 1][h[n]] /\ n + 1 # a /\ (n + 1) - 1 = n
    BY <1>2, <2>2, <2>4
  <2>7. \A k \in a..n : h[k] = IF k = a THEN x0 ELSE g[k][h[k - 1]]
    BY <2>1, <2>4, <2>5
  <2>8. \A k \in a..(n + 1) : k = n + 1 \/ k \in a..n
    BY <1>2
  <2> HIDE DEF h
  <2>9. \A k \in a..(n + 1) : h[k] = IF k = a THEN x0 ELSE g[k][h[k - 1]]
    BY <2>6, <2>7, <2>8
  <2> QED
    BY <2>3, <2>9 DEF Iterates
<1> HIDE DEF Good
<1>3. a \in S /\ \A n \in Nat : n >= a /\ n \in S => n + 1 \in S
  BY <1>1, <1>2
<1> HIDE DEF S
<1>4. b \in S
  BY <1>3, Induction
<1> QED
  BY <1>4 DEF S, Good
=============================================================================
