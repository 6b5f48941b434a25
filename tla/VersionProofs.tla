---------------------------- MODULE VersionProofs ----------------------------
(***************************************************************************)
(* What version_range guarantees for every order of versions and every     *)
(* requirement: no satisfying version is lost, an empty range means an     *)
(* unsatisfiable requirement (and contains every version), and a range is  *)
(* otherwise exact unless an excluded end precedes an included one.  Then, *)
(* that the order of semantic versions, as the code reads them, is one;    *)
(* and that the package database, which has candidates filtered by ranges  *)
(* and sorted in that order, marks the locked version, keeps caret ranges  *)
(* to their major but for numbers read as negative, and puts the newest    *)
(* number first, whatever is published and however wide an int is.         *)
(***************************************************************************)
EXTENDS VersionRange, Candidates, Iterations

(***************************************************************************)
(* The operators                                                           *)
(***************************************************************************)
\* The chosen start is one of the two, admits what both admit and, unless an
\* excluded start meets an included one, nothing else.
LEMMA StartLemma ==
    ASSUME NEW l \in Bound, NEW r \in Bound
    PROVE  LET s == TighterStart(l, r) IN
           /\ s \in {l, r}
           /\ (l.kind = "unbounded" => s = r) /\ (r.kind = "unbounded" => s = l)
           /\ \A x \in Version : Above(l, x) /\ Above(r, x) => Above(s, x)
           /\ ~(l.kind = "excluded" /\ r.kind = "included") =>
                 \A x \in Version : Above(s, x) => Above(l, x) /\ Above(r, x)
<1>1. CASE l = Unbounded \/ r = Unbounded
  BY <1>1 DEF Bound, Unbounded, TighterStart, Pick, Above
<1>2. CASE l # Unbounded /\ r # Unbounded
  BY <1>2, OrderAssumption DEF Bound, Unbounded, TighterStart, Pick, Above
<1> QED
  BY <1>1, <1>2

LEMMA EndLemma ==
    ASSUME NEW l \in Bound, NEW r \in Bound
    PROVE  LET e == TighterEnd(l, r) IN
           /\ e \in {l, r}
           /\ (l.kind = "unbounded" => e = r) /\ (r.kind = "unbounded" => e = l)
           /\ \A x \in Version : Below(l, x) /\ Below(r, x) => Below(e, x)
           /\ ~(l.kind = "excluded" /\ r.kind = "included") =>
                 \A x \in Version : Below(e, x) => Below(l, x) /\ Below(r, x)
<1>1. CASE l = Unbounded \/ r = Unbounded
  BY <1>1 DEF Bound, Unbounded, TighterEnd, Pick, Below
<1>2. CASE l # Unbounded /\ r # Unbounded
  BY <1>2, OrderAssumption DEF Bound, Unbounded, TighterEnd, Pick, Below
<1> QED
  BY <1>1, <1>2

\* A segment with a version in it is valid.
LEMMA InhabitedIsValid ==
    ASSUME NEW lo \in Bound, NEW hi \in Bound, NEW x \in Version,
           Above(lo, x), Below(hi, x)
    PROVE  ValidSegment(lo, hi)
  BY OrderAssumption DEF Bound, Unbounded, Above, Below, ValidSegment

\* The range of a part is one segment, which holds what satisfies the part.
PartLo(part) == PartRange(part)[1].lo
PartHi(part) == PartRange(part)[1].hi

LEMMA PartLemma ==
    ASSUME NEW part \in Part
    PROVE  /\ PartRange(part) = << Segment(PartLo(part), PartHi(part)) >>
           /\ PartLo(part) \in Bound /\ PartHi(part) \in Bound
           /\ PartLo(part).kind = "excluded" <=> part.op = ">"
           /\ PartLo(part).kind = "included" <=> part.op \in {">=", "==", "^"}
           /\ PartHi(part).kind = "excluded" <=> part.op \in {"<", "^"}
           /\ PartHi(part).kind = "included" <=> part.op \in {"<=", "=="}
           /\ \A x \in Version : Satisfies(x, part)
                 <=> Above(PartLo(part), x) /\ Below(PartHi(part), x)
<1> USE RequirementAssumption DEF PartRange, PartLo, PartHi, Segment, Bound, Unbounded, Included,
        Excluded, Part, Operator, Satisfies, Above, Below
<1>1. CASE part.op \in {">=", ">"}
  BY <1>1
<1>2. CASE part.op \in {"<=", "<"}
  BY <1>2
<1>3. CASE part.op = "=="
  BY <1>3, OrderAssumption
<1>4. CASE part.op = "^"
  BY <1>4
<1> QED
  BY <1>1, <1>2, <1>3, <1>4

(***************************************************************************)
(* The inductive invariant                                                 *)
(***************************************************************************)
\* The kind of an end tells which part it came from.
KindInv ==
    range # <<>> =>
        /\ range[1].lo.kind = "excluded" => \E i \in DOMAIN read : read[i].op = ">"
        /\ range[1].hi.kind = "excluded" => \E i \in DOMAIN read : read[i].op \in {"<", "^"}

IInv ==
    /\ TypeOK
    /\ KindInv
    /\ ExactUnlessMixed
    /\ NothingLost
    /\ EmptyIsUnsatisfiable

LEMMA InitIInv == Init => IInv
<1> SUFFICES ASSUME Init PROVE IInv
  OBVIOUS
<1>1. TypeOK
  <2>1. Unbounded \in Bound /\ ValidSegment(Unbounded, Unbounded)
    BY DEF Bound, Unbounded, ValidSegment
  <2> QED
    BY <2>1, RequirementAssumption DEF Init, TypeOK, Full
<1>2. \A x \in Version : Contains(range, x)
  BY DEF Init, Full, Contains, Segment, Unbounded, Above, Below
<1>3. \A x \in Version : SatisfiesAll(x)
  BY DEF Init, SatisfiesAll
<1>4. range # <<>> /\ KindInv
  BY DEF Init, Full, KindInv, Segment, Unbounded
<1> QED
  BY <1>1, <1>2, <1>3, <1>4 DEF IInv, ExactUnlessMixed, NothingLost, EmptyIsUnsatisfiable

\* Reading a part adds it to what a version must satisfy.
LEMMA ReadLemma ==
    ASSUME TypeOK, ReadPart
    PROVE  /\ Head(todo) \in Part
           /\ todo' \in Seq(Part) /\ read' \in Seq(Part)
           /\ DOMAIN read' = DOMAIN read \cup {Len(read) + 1}
           /\ \A i \in DOMAIN read : i \in 1..Len(read) /\ read'[i] = read[i]
           /\ read'[Len(read) + 1] = Head(todo)
           /\ \A x \in Version : SatisfiesAll(x)' <=> SatisfiesAll(x) /\ Satisfies(x, Head(todo))
           /\ Mixed => Mixed'
<1>1. /\ Head(todo) \in Part
      /\ todo' \in Seq(Part) /\ read' \in Seq(Part)
      /\ DOMAIN read' = DOMAIN read \cup {Len(read) + 1}
      /\ \A i \in DOMAIN read : i \in 1..Len(read) /\ read'[i] = read[i]
      /\ read'[Len(read) + 1] = Head(todo)
  BY DEF TypeOK, ReadPart
<1>2. \A x \in Version : SatisfiesAll(x)' <=> SatisfiesAll(x) /\ Satisfies(x, Head(todo))
  BY <1>1 DEF SatisfiesAll
<1>3. Mixed => Mixed'
  BY <1>1 DEF Mixed
<1> QED
  BY <1>1, <1>2, <1>3

LEMMA StepIInv == IInv /\ [Next]_vars => IInv'
<1> SUFFICES ASSUME IInv, [Next]_vars PROVE IInv'
  OBVIOUS
<1> USE DEF IInv
<1>1. CASE UNCHANGED vars
  BY <1>1 DEF vars, TypeOK, KindInv, ExactUnlessMixed, NothingLost, EmptyIsUnsatisfiable,
     Mixed, SatisfiesAll, Contains
<1>2. CASE ReadPart
  <2> DEFINE part == Head(todo)
  <2>1. /\ part \in Part
        /\ todo' \in Seq(Part) /\ read' \in Seq(Part)
        /\ DOMAIN read' = DOMAIN read \cup {Len(read) + 1}
        /\ \A i \in DOMAIN read : i \in 1..Len(read) /\ read'[i] = read[i]
        /\ read'[Len(read) + 1] = part
        /\ \A x \in Version : SatisfiesAll(x)' <=> SatisfiesAll(x) /\ Satisfies(x, part)
        /\ Mixed => Mixed'
    BY <1>2, ReadLemma
  <2>2. CASE range = <<>>
    <3>1. range' = <<>>
      BY <1>2, <2>2 DEF ReadPart, Intersection
    <3> QED
      BY <2>1, <2>2, <3>1 DEF TypeOK, KindInv, ExactUnlessMixed, NothingLost,
         EmptyIsUnsatisfiable, Contains
  <2>3. CASE range # <<>>
    <3>1. PICK lo \in Bound, hi \in Bound : range = << Segment(lo, hi) >>
      BY <2>3 DEF TypeOK
    <3> DEFINE lo2 == PartLo(part)
               hi2 == PartHi(part)
               start == TighterStart(lo, lo2)
               end == TighterEnd(hi, hi2)
    <3>2. /\ PartRange(part) = << Segment(lo2, hi2) >>
          /\ lo2 \in Bound /\ hi2 \in Bound
          /\ lo2.kind = "excluded" <=> part.op = ">"
          /\ lo2.kind = "included" <=> part.op \in {">=", "==", "^"}
          /\ hi2.kind = "excluded" <=> part.op \in {"<", "^"}
          /\ hi2.kind = "included" <=> part.op \in {"<=", "=="}
          /\ \A x \in Version : Satisfies(x, part) <=> Above(lo2, x) /\ Below(hi2, x)
      BY <2>1, PartLemma
    <3>3. range' = IF ValidSegment(start, end) THEN << Segment(start, end) >> ELSE <<>>
      BY <1>2, <3>1, <3>2 DEF ReadPart, Intersection, Segment
    <3>4. \A x \in Version : Contains(range, x) <=> Above(lo, x) /\ Below(hi, x)
      BY <3>1 DEF Contains, Segment
    <3>5. /\ start \in {lo, lo2}
          /\ \A x \in Version : Above(lo, x) /\ Above(lo2, x) => Above(start, x)
          /\ ~(lo.kind = "excluded" /\ lo2.kind = "included") =>
                \A x \in Version : Above(start, x) => Above(lo, x) /\ Above(lo2, x)
      BY <3>2, StartLemma
    <3>6. /\ end \in {hi, hi2}
          /\ \A x \in Version : Below(hi, x) /\ Below(hi2, x) => Below(end, x)
          /\ ~(hi.kind = "excluded" /\ hi2.kind = "included") =>
                \A x \in Version : Below(end, x) => Below(hi, x) /\ Below(hi2, x)
      BY <3>2, EndLemma
    <3> HIDE DEF part, lo2, hi2, start, end
    <3>7. \A x \in Version : SatisfiesAll(x)' => Above(start, x) /\ Below(end, x)
      BY <2>1, <3>2, <3>4, <3>5, <3>6 DEF NothingLost
    <3>8. /\ lo.kind = "excluded" => \E i \in DOMAIN read : read[i].op = ">"
          /\ hi.kind = "excluded" => \E i \in DOMAIN read : read[i].op \in {"<", "^"}
      BY <2>3, <3>1 DEF KindInv, Segment
    <3>9. ~Mixed' => /\ ~(lo.kind = "excluded" /\ lo2.kind = "included")
                     /\ ~(hi.kind = "excluded" /\ hi2.kind = "included")
      BY <2>1, <3>2, <3>8 DEF Mixed, TypeOK
    <3>10. CASE ValidSegment(start, end)
      <4>1. /\ range' = << Segment(start, end) >> /\ range' # <<>>
            /\ range'[1].lo = start /\ range'[1].hi = end
        BY <3>3, <3>10 DEF Segment
      <4>2. \A x \in Version : Contains(range, x)' <=> Above(start, x) /\ Below(end, x)
        BY <4>1 DEF Contains
      <4>3. TypeOK'
        BY <2>1, <3>2, <3>5, <3>6, <3>10, <4>1 DEF TypeOK
      <4>4. KindInv'
        BY <2>1, <3>2, <3>5, <3>6, <3>8, <4>1 DEF KindInv, TypeOK
      <4>5. ExactUnlessMixed'
        BY <2>1, <2>3, <3>2, <3>4, <3>5, <3>6, <3>9, <4>1, <4>2 DEF ExactUnlessMixed
      <4>6. NothingLost'
        BY <3>7, <4>2 DEF NothingLost
      <4> QED
        BY <4>1, <4>3, <4>4, <4>5, <4>6 DEF EmptyIsUnsatisfiable
    <3>11. CASE ~ValidSegment(start, end)
      <4>1. range' = <<>>
        BY <3>3, <3>11
      <4>2. \A x \in Version : ~ SatisfiesAll(x)'
        BY <3>2, <3>5, <3>6, <3>7, <3>11, InhabitedIsValid
      <4>3. \A x \in Version : Contains(range, x)'
        BY <4>1 DEF Contains
      <4> QED
        BY <2>1, <4>1, <4>2, <4>3 DEF TypeOK, KindInv, ExactUnlessMixed, NothingLost,
           EmptyIsUnsatisfiable
    <3> QED
      BY <3>10, <3>11
  <2> QED
    BY <2>2, <2>3
<1> QED
  BY <1>1, <1>2 DEF Next

LEMMA Invariant == Spec => []IInv
<1> QED
  BY InitIInv, StepIInv, PTL DEF Spec

\* Every range version_range builds is well formed.
THEOREM TypeCorrect == Spec => []TypeOK
<1>1. IInv => TypeOK
  BY DEF IInv
<1> QED
  BY Invariant, <1>1, PTL

\* A range holds exactly the versions that satisfy the requirement, or every
\* version when it has no segments, unless an excluded end precedes an
\* included one (version_range).
THEOREM RangeExact == Spec => []ExactUnlessMixed
<1>1. IInv => ExactUnlessMixed
  BY DEF IInv
<1> QED
  BY Invariant, <1>1, PTL

\* No version that satisfies a requirement is rejected by its range.
THEOREM NoVersionLost == Spec => []NothingLost
<1>1. IInv => NothingLost
  BY DEF IInv
<1> QED
  BY Invariant, <1>1, PTL

\* A range is empty only for a requirement that no version can satisfy.
THEOREM EmptyUnsatisfiable == Spec => []EmptyIsUnsatisfiable
<1>1. IInv => EmptyIsUnsatisfiable
  BY DEF IInv
<1> QED
  BY Invariant, <1>1, PTL

(***************************************************************************)
(* The order of semantic versions (semver_compare)                         *)
(***************************************************************************)
\* Least, and Lexicographic for two and for three numbers and for any number.
LEMMA LeastLemma ==
    ASSUME NEW D \in SUBSET Int, NEW m \in D, \A j \in D : m <= j
    PROVE  Least(D) = m
<1> DEFINE l == Least(D)
<1>1. l \in D /\ \A j \in D : l <= j
  BY Zenon DEF Least
<1> HIDE DEF l
<1>2. l <= m /\ m <= l /\ l \in Int /\ m \in Int
  BY <1>1
<1> QED
  BY <1>2 DEF l

LEMMA LexicographicThree ==
    ASSUME NEW a \in Int, NEW b \in Int, NEW c \in Int
    PROVE  Lexicographic(<<a, b, c>>) = IF a # 0 THEN a ELSE IF b # 0 THEN b ELSE c
<1> DEFINE cs == <<a, b, c>>
           D  == {i \in DOMAIN cs : cs[i] # 0}
<1>1. D \subseteq 1..3 /\ (1 \in D <=> a # 0) /\ (2 \in D <=> b # 0) /\ (3 \in D <=> c # 0)
  OBVIOUS
<1>2. cs[1] = a /\ cs[2] = b /\ cs[3] = c
  OBVIOUS
<1>3. Lexicographic(cs) = IF D = {} THEN 0 ELSE cs[Least(D)]
  BY DEF Lexicographic
<1> HIDE DEF cs, D
<1>4. D \in SUBSET Int /\ \A j \in D : j = 1 \/ j = 2 \/ j = 3
  BY <1>1
<1>5. CASE a # 0
  <2>1. 1 \in D /\ \A j \in D : 1 <= j
    BY <1>1, <1>4, <1>5
  <2>2. Least(D) = 1
    BY <1>4, <2>1, LeastLemma
  <2> QED
    BY <1>2, <1>3, <1>5, <2>1, <2>2 DEF cs
<1>6. CASE a = 0 /\ b # 0
  <2>1. 2 \in D /\ \A j \in D : 2 <= j
    BY <1>1, <1>4, <1>6
  <2>2. Least(D) = 2
    BY <1>4, <2>1, LeastLemma
  <2> QED
    BY <1>2, <1>3, <1>6, <2>1, <2>2 DEF cs
<1>7. CASE a = 0 /\ b = 0 /\ c # 0
  <2>1. 3 \in D /\ \A j \in D : 3 <= j
    BY <1>1, <1>4, <1>7
  <2>2. Least(D) = 3
    BY <1>4, <2>1, LeastLemma
  <2> QED
    BY <1>2, <1>3, <1>7, <2>1, <2>2 DEF cs
<1>8. CASE a = 0 /\ b = 0 /\ c = 0
  BY <1>1, <1>3, <1>4, <1>8 DEF cs
<1> QED
  BY <1>5, <1>6, <1>7, <1>8

LEMMA LexicographicTwo ==
    ASSUME NEW a \in Int, NEW b \in Int
    PROVE  Lexicographic(<<a, b>>) = IF a # 0 THEN a ELSE b
<1> DEFINE cs == <<a, b>>
           D  == {i \in DOMAIN cs : cs[i] # 0}
<1>1. D \subseteq 1..2 /\ (1 \in D <=> a # 0) /\ (2 \in D <=> b # 0)
  OBVIOUS
<1>2. cs[1] = a /\ cs[2] = b
  OBVIOUS
<1>3. Lexicographic(cs) = IF D = {} THEN 0 ELSE cs[Least(D)]
  BY DEF Lexicographic
<1> HIDE DEF cs, D
<1>4. D \in SUBSET Int /\ \A j \in D : j = 1 \/ j = 2
  BY <1>1
<1>5. CASE a # 0
  <2>1. 1 \in D /\ \A j \in D : 1 <= j
    BY <1>1, <1>4, <1>5
  <2>2. Least(D) = 1
    BY <1>4, <2>1, LeastLemma
  <2> QED
    BY <1>2, <1>3, <1>5, <2>1, <2>2 DEF cs
<1>6. CASE a = 0 /\ b # 0
  <2>1. 2 \in D /\ \A j \in D : 2 <= j
    BY <1>1, <1>4, <1>6
  <2>2. Least(D) = 2
    BY <1>4, <2>1, LeastLemma
  <2> QED
    BY <1>2, <1>3, <1>6, <2>1, <2>2 DEF cs
<1>7. CASE a = 0 /\ b = 0
  BY <1>1, <1>3, <1>4, <1>7 DEF cs
<1> QED
  BY <1>5, <1>6, <1>7

\* The first number that is not zero decides, if there is one.
LEMMA LexicographicLemma ==
    ASSUME NEW n \in Nat, NEW cs \in [1..n -> Int]
    PROVE  \/ (\A i \in 1..n : cs[i] = 0) /\ Lexicographic(cs) = 0
           \/ \E k \in 1..n : /\ \A i \in 1..n : i < k => cs[i] = 0
                              /\ cs[k] # 0 /\ Lexicographic(cs) = cs[k]
<1> DEFINE D == {i \in DOMAIN cs : cs[i] # 0}
<1>1. Lexicographic(cs) = IF D = {} THEN 0 ELSE cs[Least(D)]
  BY DEF Lexicographic
<1>2. D \in SUBSET Nat /\ D \in SUBSET Int /\ \A i \in 1..n : i \in D <=> cs[i] # 0
  OBVIOUS
<1>3. D \subseteq 1..n
  OBVIOUS
<1> HIDE DEF D
<1>4. CASE D = {}
  BY <1>1, <1>2, <1>4
<1>5. CASE D # {}
  <2>1. PICK k \in D : \A j \in D : k <= j
    BY <1>2, <1>5, LeastNumber
  <2>2. Least(D) = k
    BY <1>2, <2>1, LeastLemma
  <2>3. \A i \in 1..n : i < k => cs[i] = 0
    BY <1>2, <1>3, <2>1
  <2>4. k \in 1..n /\ cs[k] # 0 /\ Lexicographic(cs) = cs[k]
    BY <1>1, <1>2, <1>3, <1>5, <2>1, <2>2
  <2> QED
    BY <2>3, <2>4
<1> QED
  BY <1>4, <1>5

\* Identifiers of a prerelease are in a strict linear order.
IdLess(u, v) == u[1] < v[1] \/ (u[1] = v[1] /\ u[2] < v[2])

LEMMA IdentifierLemma ==
    ASSUME NEW u \in Identifier, NEW v \in Identifier
    PROVE  LET c == CompareIdentifier(u, v) IN
           /\ c \in {-1, 0, 1}
           /\ c = -1 <=> IdLess(u, v)
           /\ c = 1 <=> IdLess(v, u)
           /\ c = 0 <=> u = v
<1>1. /\ u[1] \in Int /\ u[2] \in Int /\ v[1] \in Int /\ v[2] \in Int
      /\ u = v <=> u[1] = v[1] /\ u[2] = v[2]
  BY DEF Identifier
<1> DEFINE s1 == Sign(u[1], v[1])
           s2 == Sign(u[2], v[2])
<1>2. s1 = (IF u[1] < v[1] THEN -1 ELSE IF u[1] = v[1] THEN 0 ELSE 1)
      /\ s2 = (IF u[2] < v[2] THEN -1 ELSE IF u[2] = v[2] THEN 0 ELSE 1)
  BY DEF Sign
<1>3. CompareIdentifier(u, v) = Lexicographic(<<s1, s2>>)
  BY DEF CompareIdentifier
<1> HIDE DEF s1, s2
<1>4. s1 \in Int /\ s2 \in Int
  BY <1>2
<1>5. CompareIdentifier(u, v) = IF s1 # 0 THEN s1 ELSE s2
  BY <1>3, <1>4, LexicographicTwo
<1> QED
  BY <1>1, <1>2, <1>5 DEF IdLess

\* a ends at, or has a lesser identifier at, the first place where b is not a.
Before(a, b) ==
    \E k \in 1..Len(b) :
        /\ \A j \in 1..(k - 1) : j <= Len(a) /\ a[j] = b[j]
        /\ k > Len(a) \/ IdLess(a[k], b[k])

Prerelease == Seq(Identifier)

\* A number is read as an integer, and an identifier as an identifier.
LEMMA ReadingLemma ==
    /\ \A n \in Int : ToInt(n) \in Int
    /\ \A id \in Identifier : Read(id) \in Identifier
<1>1. ASSUME NEW n \in Int PROVE ToInt(n) \in Int
  <2>1. Saturate(n) + MaxInt + 1 \in Int /\ 2 * (MaxInt + 1) \in Nat /\ 2 * (MaxInt + 1) > 0
    BY WidthAssumption DEF Saturate
  <2>2. \A a \in Int : \A b \in Nat : b > 0 => a % b \in Int
    OBVIOUS
  <2> QED
    BY <2>1, <2>2, WidthAssumption DEF ToInt
<1>2. ASSUME NEW id \in Identifier PROVE Read(id) \in Identifier
  <2>1. id[1] \in {0, 1} /\ id[2] \in Int /\ ToInt(id[2]) \in Int
    BY <1>1 DEF Identifier
  <2> QED
    BY <2>1 DEF Read, Identifier
<1> QED
  BY <1>1, <1>2

LEMMA PrereleaseLemma ==
    ASSUME NEW x \in Prerelease, NEW y \in Prerelease
    PROVE  LET a == Identifiers(x)
               b == Identifiers(y)
               c == ComparePrerelease(x, y)
           IN /\ a \in Prerelease /\ b \in Prerelease /\ Len(a) >= 1 /\ Len(b) >= 1
              /\ \/ c = -1 /\ Before(a, b)
                 \/ c = 1 /\ Before(b, a)
                 \/ c = 0 /\ a = b
<1> DEFINE a == Identifiers(x)
           b == Identifiers(y)
           n == IF Len(a) < Len(b) THEN Len(a) ELSE Len(b)
           ids == [i \in 1..n |-> CompareIdentifier(a[i], b[i])]
           cs == ids \o <<Sign(Len(a), Len(b))>>
<1>1. x # NoPre /\ y # NoPre
  BY NoPreAssumption DEF Prerelease
<1>2. \A z \in Prerelease : Identifiers(z) \in Prerelease /\ Len(Identifiers(z)) >= 1
  <2> SUFFICES ASSUME NEW z \in Prerelease
               PROVE  Identifiers(z) \in Prerelease /\ Len(Identifiers(z)) >= 1
    OBVIOUS
  <2>1. <<0, 0>> \in Identifier
    BY DEF Identifier
  <2>2. CASE z = << >>
    BY <2>1, <2>2 DEF Identifiers, Prerelease
  <2>3. CASE z # << >>
    <3>1. Len(z) \in Nat /\ Len(z) >= 1 /\ DOMAIN z = 1..Len(z)
          /\ \A i \in 1..Len(z) : z[i] \in Identifier
      BY <2>3 DEF Prerelease
    <3>2. Identifiers(z) = [i \in 1..Len(z) |-> Read(z[i])]
      BY <2>3, <3>1 DEF Identifiers
    <3>3. \A i \in 1..Len(z) : Read(z[i]) \in Identifier
      BY <3>1, ReadingLemma
    <3> QED
      BY <3>1, <3>2, <3>3 DEF Prerelease
  <2> QED
    BY <2>2, <2>3
<1>3. a \in Prerelease /\ b \in Prerelease /\ Len(a) >= 1 /\ Len(b) >= 1
  BY <1>2
<1>4. ComparePrerelease(x, y) = Lexicographic(cs)
  BY <1>1 DEF ComparePrerelease
<1> HIDE DEF a, b
<1>5. /\ Len(a) \in Nat /\ Len(b) \in Nat /\ n \in Nat /\ n <= Len(a) /\ n <= Len(b)
      /\ n = Len(a) \/ n = Len(b)
  BY <1>3 DEF Prerelease
<1> HIDE DEF n
<1>6. \A i \in 1..n : a[i] \in Identifier /\ b[i] \in Identifier
  BY <1>3, <1>5 DEF Prerelease
<1>7. /\ \A i \in 1..n : /\ ids[i] \in {-1, 0, 1}
                         /\ ids[i] = -1 <=> IdLess(a[i], b[i])
                         /\ ids[i] = 1 <=> IdLess(b[i], a[i])
                         /\ ids[i] = 0 <=> a[i] = b[i]
      /\ ids \in [1..n -> Int]
  <2>1. \A i \in 1..n : ids[i] = CompareIdentifier(a[i], b[i])
    OBVIOUS
  <2>2. \A i \in 1..n : CompareIdentifier(a[i], b[i]) \in Int
    BY <1>6, IdentifierLemma
  <2>3. ids \in [1..n -> Int]
    BY <2>2
  <2> HIDE DEF ids
  <2> QED
    BY <1>6, <2>1, <2>3, IdentifierLemma
<1> HIDE DEF ids
<1>8. LET s == Sign(Len(a), Len(b)) IN
      /\ cs \in [1..(n + 1) -> Int]
      /\ \A i \in 1..n : cs[i] = ids[i]
      /\ cs[n + 1] = s
      /\ s = IF Len(a) < Len(b) THEN -1 ELSE IF Len(a) = Len(b) THEN 0 ELSE 1
  <2> DEFINE s == Sign(Len(a), Len(b))
  <2>1. s = (IF Len(a) < Len(b) THEN -1 ELSE IF Len(a) = Len(b) THEN 0 ELSE 1)
    BY DEF Sign
  <2>2. s \in Int
    BY <2>1
  <2> HIDE DEF s
  <2>3. ids \in Seq(Int) /\ Len(ids) = n
    BY <1>5, <1>7
  <2>4. ids \o <<s>> \in Seq(Int) /\ Len(ids \o <<s>>) = n + 1 /\ (ids \o <<s>>)[n + 1] = s
        /\ \A i \in 1..n : (ids \o <<s>>)[i] = ids[i]
    BY <1>5, <2>2, <2>3
  <2>5. ids \o <<s>> \in [1..(n + 1) -> Int]
    <3> DEFINE t == ids \o <<s>>
    <3>1. t \in Seq(Int) /\ Len(t) = n + 1
      BY <2>4
    <3> HIDE DEF t
    <3>2. t \in [1..Len(t) -> Int]
      BY <3>1
    <3> QED
      BY <3>1, <3>2 DEF t
  <2> QED
    BY <2>1, <2>4, <2>5 DEF s
<1> HIDE DEF cs
<1> DEFINE L == Lexicographic(cs)
<1>9. \/ (\A i \in 1..(n + 1) : cs[i] = 0) /\ L = 0
      \/ \E k \in 1..(n + 1) : /\ \A i \in 1..(n + 1) : i < k => cs[i] = 0
                               /\ cs[k] # 0 /\ L = cs[k]
  BY <1>5, <1>8, LexicographicLemma
<1> HIDE DEF L
<1>10. CASE (\A i \in 1..(n + 1) : cs[i] = 0) /\ L = 0
  <2>1. Len(a) = Len(b)
    BY <1>5, <1>8, <1>10
  <2>2. \A i \in 1..Len(a) : a[i] = b[i]
    BY <1>5, <1>7, <1>8, <1>10, <2>1
  <2>3. a = b
    BY <1>3, <2>1, <2>2 DEF Prerelease
  <2> QED
    BY <1>3, <1>4, <1>10, <2>3 DEF a, b, L
<1>11. ASSUME NEW k \in 1..(n + 1), \A i \in 1..(n + 1) : i < k => cs[i] = 0, cs[k] # 0, L = cs[k]
       PROVE  (L = -1 /\ Before(a, b)) \/ (L = 1 /\ Before(b, a))
  <2>1. \A j \in 1..(k - 1) : j <= n /\ a[j] = b[j]
    BY <1>5, <1>7, <1>8, <1>11
  <2>2. CASE k <= n
    <3>1. L = ids[k] /\ k \in 1..n /\ k \in 1..Len(a) /\ k \in 1..Len(b)
      BY <1>5, <1>8, <1>11, <2>2
    <3>2. (L = -1 /\ IdLess(a[k], b[k])) \/ (L = 1 /\ IdLess(b[k], a[k]))
      BY <1>7, <1>11, <3>1
    <3>3. \A j \in 1..(k - 1) : j <= Len(a) /\ j <= Len(b) /\ a[j] = b[j]
      BY <1>5, <2>1, <3>1
    <3> QED
      BY <3>1, <3>2, <3>3 DEF Before
  <2>3. CASE k = n + 1
    <3>1. (L = -1 /\ Len(a) < Len(b)) \/ (L = 1 /\ Len(b) < Len(a))
      BY <1>5, <1>8, <1>11, <2>3
    <3>2. \A j \in 1..(k - 1) : j <= Len(a) /\ j <= Len(b) /\ a[j] = b[j]
      BY <1>5, <2>1
    <3>3. CASE L = -1 /\ Len(a) < Len(b)
      <4>1. k \in 1..Len(b) /\ k > Len(a)
        BY <1>5, <2>3, <3>3
      <4> QED
        BY <3>2, <3>3, <4>1 DEF Before
    <3>4. CASE L = 1 /\ Len(b) < Len(a)
      <4>1. k \in 1..Len(a) /\ k > Len(b)
        BY <1>5, <2>3, <3>4
      <4> QED
        BY <3>2, <3>4, <4>1 DEF Before
    <3> QED
      BY <3>1, <3>3, <3>4
  <2> QED
    BY <1>5, <1>11, <2>2, <2>3
<1> QED
  BY <1>3, <1>4, <1>9, <1>10, <1>11 DEF a, b, L

\* The order of prereleases is strict and linear.
LEMMA BeforeLemma ==
    /\ \A a, b \in Prerelease : Before(a, b) => ~ Before(b, a) /\ a # b
    /\ \A a, b, c \in Prerelease : Before(a, b) /\ Before(b, c) => Before(a, c)
<1>1. \A a \in Prerelease : /\ Len(a) \in Nat
                            /\ \A i \in 1..Len(a) : a[i] \in Identifier
  BY DEF Prerelease
<1>2. \A u, v \in Identifier : IdLess(u, v) => ~ IdLess(v, u) /\ u # v
  BY DEF IdLess, Identifier
<1>3. \A u, v, w \in Identifier : IdLess(u, v) /\ IdLess(v, w) => IdLess(u, w)
  BY DEF IdLess, Identifier
<1>4. ASSUME NEW a \in Prerelease, NEW b \in Prerelease, Before(a, b) PROVE a # b /\ ~ Before(b, a)
  <2>1. PICK k \in 1..Len(b) : /\ \A j \in 1..(k - 1) : j <= Len(a) /\ a[j] = b[j]
                               /\ k > Len(a) \/ IdLess(a[k], b[k])
    BY <1>4 DEF Before
  <2>2. a # b
    BY <1>1, <1>2, <2>1
  <2>3. ASSUME Before(b, a) PROVE FALSE
    <3>1. PICK m \in 1..Len(a) : /\ \A j \in 1..(m - 1) : j <= Len(b) /\ b[j] = a[j]
                                 /\ m > Len(b) \/ IdLess(b[m], a[m])
      BY <2>3 DEF Before
    <3>2. CASE k < m
      <4>1. k \in 1..(m - 1) /\ k \in 1..Len(a)
        BY <1>1, <3>1, <3>2
      <4>2. a[k] = b[k] /\ IdLess(a[k], b[k])
        BY <1>1, <2>1, <3>1, <4>1
      <4> QED
        BY <1>1, <1>2, <4>1, <4>2
    <3>3. CASE m < k
      <4>1. m \in 1..(k - 1) /\ m \in 1..Len(b)
        BY <1>1, <2>1, <3>3
      <4>2. a[m] = b[m] /\ IdLess(b[m], a[m])
        BY <1>1, <2>1, <3>1, <4>1
      <4> QED
        BY <1>1, <1>2, <4>1, <4>2
    <3>4. CASE m = k
      <4>1. IdLess(a[k], b[k]) /\ IdLess(b[k], a[k])
        BY <1>1, <2>1, <3>1, <3>4
      <4> QED
        BY <1>1, <1>2, <3>4, <4>1
    <3> QED
      BY <1>1, <3>2, <3>3, <3>4
  <2> QED
    BY <2>2, <2>3
<1>5. ASSUME NEW a \in Prerelease, NEW b \in Prerelease, NEW c \in Prerelease, Before(a, b), Before(b, c)
      PROVE  Before(a, c)
  <2>1. PICK k \in 1..Len(b) : /\ \A j \in 1..(k - 1) : j <= Len(a) /\ a[j] = b[j]
                               /\ k > Len(a) \/ IdLess(a[k], b[k])
    BY <1>5 DEF Before
  <2>2. PICK m \in 1..Len(c) : /\ \A j \in 1..(m - 1) : j <= Len(b) /\ b[j] = c[j]
                               /\ m > Len(b) \/ IdLess(b[m], c[m])
    BY <1>5 DEF Before
  <2>3. CASE k < m
    <3>1. k \in 1..Len(c) /\ b[k] = c[k]
      BY <1>1, <2>2, <2>3
    <3>2. \A j \in 1..(k - 1) : j <= Len(a) /\ a[j] = c[j]
      BY <1>1, <2>1, <2>2, <2>3
    <3> QED
      BY <2>1, <3>1, <3>2 DEF Before
  <2>4. CASE m < k
    <3>1. m <= Len(a) /\ a[m] = b[m] /\ IdLess(b[m], c[m])
      BY <1>1, <2>1, <2>2, <2>4
    <3>2. \A j \in 1..(m - 1) : j <= Len(a) /\ a[j] = c[j]
      BY <1>1, <2>1, <2>2, <2>4
    <3> QED
      BY <3>1, <3>2 DEF Before
  <2>5. CASE m = k
    <3>1. IdLess(b[k], c[k]) /\ k \in 1..Len(c)
      BY <1>1, <2>1, <2>2, <2>5
    <3>2. \A j \in 1..(k - 1) : j <= Len(a) /\ a[j] = c[j]
      BY <1>1, <2>1, <2>2, <2>5
    <3>3. k > Len(a) \/ IdLess(a[k], c[k])
      BY <1>1, <1>3, <2>1, <3>1
    <3> QED
      BY <3>1, <3>2, <3>3 DEF Before
  <2> QED
    BY <1>1, <2>3, <2>4, <2>5
<1> QED
  BY <1>4, <1>5

\* What Pack makes of a version that was parsed.
PackedVersion == [major : Int, minor : Int, patch : Int, pre : Prerelease]

LEMMA PackLemma == \A x \in Semantic : Pack(x) \in PackedVersion
<1> SUFFICES ASSUME NEW x \in Semantic PROVE Pack(x) \in PackedVersion
  OBVIOUS
<1>1. x.major \in Int /\ x.minor \in Int /\ x.patch \in Int /\ x.pre \in {NoPre} \cup Prerelease
  BY DEF Semantic, Prerelease
<1>2. ToInt(x.major) \in Int /\ ToInt(x.minor) \in Int /\ ToInt(x.patch) \in Int
  BY <1>1, ReadingLemma
<1>3. (IF x.pre = NoPre THEN << >> ELSE x.pre) \in Prerelease
  BY <1>1 DEF Prerelease
<1> QED
  BY <1>2, <1>3 DEF Pack, PackedVersion

\* The numbers decide one after the other.
NumbersLess(x, y) ==
    \/ x.major < y.major
    \/ x.major = y.major /\ x.minor < y.minor
    \/ x.major = y.major /\ x.minor = y.minor /\ x.patch < y.patch

SameNumbers(x, y) == x.major = y.major /\ x.minor = y.minor /\ x.patch = y.patch

LEMMA NumbersLemma ==
    ASSUME NEW x, NEW y,
           x.major \in Int, x.minor \in Int, x.patch \in Int, y.major \in Int, y.minor \in Int, y.patch \in Int
    PROVE  LET c == CompareVersion(x, y) IN
           \/ c = -1 /\ NumbersLess(x, y)
           \/ c = 0 /\ SameNumbers(x, y)
           \/ c = 1 /\ NumbersLess(y, x)
<1>1. \A m, n \in Int : Sign(m, n) = IF m < n THEN -1 ELSE IF m = n THEN 0 ELSE 1
  BY DEF Sign
<1>2. \A m, n \in Int : Sign(m, n) \in Int
  BY <1>1
<1>3. CompareVersion(x, y) =
          IF Sign(x.major, y.major) # 0 THEN Sign(x.major, y.major)
          ELSE IF Sign(x.minor, y.minor) # 0 THEN Sign(x.minor, y.minor)
          ELSE Sign(x.patch, y.patch)
  <2> DEFINE a == Sign(x.major, y.major)
             b == Sign(x.minor, y.minor)
             c == Sign(x.patch, y.patch)
  <2>1. a \in Int /\ b \in Int /\ c \in Int
    BY <1>2
  <2>2. CompareVersion(x, y) = Lexicographic(<<a, b, c>>)
    BY DEF CompareVersion
  <2> HIDE DEF a, b, c
  <2>3. CompareVersion(x, y) = IF a # 0 THEN a ELSE IF b # 0 THEN b ELSE c
    BY <2>1, <2>2, LexicographicThree
  <2> QED
    BY <2>3 DEF a, b, c
<1> QED
  BY <1>1, <1>3 DEF NumbersLess, SameNumbers

Earlier(x, y) ==
    \/ NumbersLess(x, y)
    \/ SameNumbers(x, y) /\ Before(Identifiers(x.pre), Identifiers(y.pre))

Alike(x, y) == SameNumbers(x, y) /\ Identifiers(x.pre) = Identifiers(y.pre)

\* Two versions that have been packed: one is earlier, or they are alike.
LEMMA CompareLemma ==
    ASSUME NEW x \in PackedVersion, NEW y \in PackedVersion
    PROVE  LET c == SemverCompare(x, y) IN
           /\ \/ c = -1 /\ Earlier(x, y)
              \/ c = 0 /\ Alike(x, y)
              \/ c = 1 /\ Earlier(y, x)
           /\ CompareVersion(x, y) # 0 => c = CompareVersion(x, y)
<1> DEFINE v == CompareVersion(x, y)
           p == ComparePrerelease(x.pre, y.pre)
<1>1. /\ x.major \in Int /\ x.minor \in Int /\ x.patch \in Int /\ x.pre \in Prerelease
      /\ y.major \in Int /\ y.minor \in Int /\ y.patch \in Int /\ y.pre \in Prerelease
  BY DEF PackedVersion
<1>2. \/ v = -1 /\ NumbersLess(x, y)
      \/ v = 0 /\ SameNumbers(x, y)
      \/ v = 1 /\ NumbersLess(y, x)
  BY <1>1, NumbersLemma
<1>3. \/ p = -1 /\ Before(Identifiers(x.pre), Identifiers(y.pre))
      \/ p = 1 /\ Before(Identifiers(y.pre), Identifiers(x.pre))
      \/ p = 0 /\ Identifiers(x.pre) = Identifiers(y.pre)
  BY <1>1, PrereleaseLemma
<1>4. SemverCompare(x, y) = Lexicographic(<<v, p>>)
  BY DEF SemverCompare
<1> HIDE DEF v, p
<1>5. v \in Int /\ p \in Int
  BY <1>2, <1>3
<1>6. SemverCompare(x, y) = IF v # 0 THEN v ELSE p
  BY <1>4, <1>5, LexicographicTwo
<1>7. SameNumbers(x, y) <=> SameNumbers(y, x)
  BY DEF SameNumbers
<1>8. \/ (IF v # 0 THEN v ELSE p) = -1 /\ Earlier(x, y)
      \/ (IF v # 0 THEN v ELSE p) = 0 /\ Alike(x, y)
      \/ (IF v # 0 THEN v ELSE p) = 1 /\ Earlier(y, x)
  BY <1>2, <1>3, <1>7 DEF Earlier, Alike
<1> QED
  BY <1>6, <1>8 DEF v

\* A version is not earlier than one that is alike or earlier.
LEMMA EarlierLemma ==
    \A x, y \in PackedVersion :
        Earlier(x, y) => ~ Earlier(y, x) /\ ~ Alike(y, x) /\ ~ Alike(x, y)
<1>1. \A x \in PackedVersion : /\ x.major \in Int /\ x.minor \in Int /\ x.patch \in Int
                               /\ Identifiers(x.pre) \in Prerelease
  BY PrereleaseLemma DEF PackedVersion
<1> QED
  BY <1>1, BeforeLemma DEF Earlier, Alike, NumbersLess, SameNumbers

\* The comparison that the package database hands to its ranges is an order, as
\* they assume (OrderAssumption): every published version is packed into one
\* that compares, with the others and with the ends of caret ranges, both ways
\* and transitively, however its numbers are read (semver_compare, Pack).
THEOREM SemverIsAnOrder ==
    /\ \A x \in Semantic : Pack(x) \in PackedVersion
    /\ \A x, y \in PackedVersion : SemverCompare(x, y) \in Int
    /\ \A x, y \in PackedVersion :
           SemverCompare(x, y) <= 0 <=> SemverCompare(y, x) >= 0
    /\ \A x, y, z \in PackedVersion :
           SemverCompare(x, y) <= 0 /\ SemverCompare(y, z) <= 0
               => SemverCompare(x, z) <= 0
    /\ \A x \in PackedVersion : NextMajorVersion(x) \in PackedVersion
<1> DEFINE C(x, y) == SemverCompare(x, y)
<1>1. \A x, y \in PackedVersion : \/ C(x, y) = -1 /\ Earlier(x, y)
                                  \/ C(x, y) = 0 /\ Alike(x, y)
                                  \/ C(x, y) = 1 /\ Earlier(y, x)
  BY CompareLemma
<1>2. \A x \in PackedVersion : /\ x.major \in Int /\ x.minor \in Int /\ x.patch \in Int
                               /\ Identifiers(x.pre) \in Prerelease
  BY PrereleaseLemma DEF PackedVersion
<1>3. \A x, y \in PackedVersion : Earlier(x, y) => ~ Earlier(y, x) /\ ~ Alike(y, x) /\ ~ Alike(x, y)
  BY EarlierLemma
<1>4. \A x, y, z \in PackedVersion : Earlier(x, y) /\ Earlier(y, z) => Earlier(x, z)
  <2> SUFFICES ASSUME NEW x \in PackedVersion, NEW y \in PackedVersion, NEW z \in PackedVersion,
                      Earlier(x, y), Earlier(y, z)
               PROVE  Earlier(x, z)
    OBVIOUS
  <2>1. CASE NumbersLess(x, y) \/ NumbersLess(y, z)
    BY <1>2, <2>1 DEF Earlier, NumbersLess, SameNumbers
  <2>2. CASE SameNumbers(x, y) /\ SameNumbers(y, z)
    BY <1>2, <2>2, BeforeLemma DEF Earlier, NumbersLess, SameNumbers
  <2> QED
    BY <2>1, <2>2 DEF Earlier
<1>5. \A x, y, z \in PackedVersion :
          /\ Alike(x, y) => Alike(y, x)
          /\ Alike(x, y) /\ Alike(y, z) => Alike(x, z)
          /\ Alike(x, y) /\ Earlier(y, z) => Earlier(x, z)
          /\ Earlier(x, y) /\ Alike(y, z) => Earlier(x, z)
  BY DEF Alike, Earlier, SameNumbers, NumbersLess
<1> HIDE DEF C
<1>6. \A x, y \in PackedVersion : C(x, y) <= 0 <=> Earlier(x, y) \/ Alike(x, y)
  BY <1>1, <1>3
<1>7. \A x, y \in PackedVersion : C(x, y) >= 0 <=> Earlier(y, x) \/ Alike(x, y)
  BY <1>1, <1>3
<1>8. \A x, y \in PackedVersion : C(x, y) \in Int
  BY <1>1
<1>9. \A x, y \in PackedVersion : C(x, y) <= 0 <=> C(y, x) >= 0
  BY <1>5, <1>6, <1>7
<1>10. \A x, y, z \in PackedVersion : C(x, y) <= 0 /\ C(y, z) <= 0 => C(x, z) <= 0
  BY <1>4, <1>5, <1>6
<1>11. \A x \in PackedVersion : NextMajorVersion(x) \in PackedVersion
  <2> SUFFICES ASSUME NEW x \in PackedVersion PROVE NextMajorVersion(x) \in PackedVersion
    OBVIOUS
  <2>1. << >> \in Prerelease
    BY DEF Prerelease
  <2> DEFINE n == Increment(x.major)
  <2>2. n \in Int
    BY WidthAssumption DEF PackedVersion, Increment
  <2>3. NextMajorVersion(x) = [x EXCEPT !.major = n, !.minor = 0, !.patch = 0, !.pre = << >>]
    BY DEF NextMajorVersion
  <2> HIDE DEF n
  <2>4. [x EXCEPT !.major = n, !.minor = 0, !.patch = 0, !.pre = << >>]
            \in PackedVersion
    <3>1. \A k, z \in Int : \A e \in Prerelease :
              [x EXCEPT !.major = k, !.minor = z, !.patch = z, !.pre = e] \in PackedVersion
      BY Zenon DEF PackedVersion
    <3>2. 0 \in Int
      OBVIOUS
    <3> QED
      BY <2>1, <2>2, <3>1, <3>2, Zenon
  <2> QED
    BY <2>3, <2>4
<1> QED
  BY <1>8, <1>9, <1>10, <1>11, PackLemma DEF C

(***************************************************************************)
(* The package database                                                    *)
(***************************************************************************)
Candidate == [name : Pkg, version : Published]

AnswersInv ==
    /\ registry \in [Pkg -> {S \in SUBSET Published : IsFiniteSet(S)}]
    /\ candidates \in Seq(Candidate)
    /\ answer \in [Pkg -> [ids : SUBSET Nat, marked : Nat]]
    /\ \A p \in Pkg : answer[p].ids = {i \in DOMAIN candidates : candidates[i].name = p}

\* A version of a package is a candidate once.
OnceInv == \A i, j \in DOMAIN candidates : candidates[i] = candidates[j] => i = j

SortedInv ==
    /\ sorted.ids \in Seq(DOMAIN candidates)
    /\ CaretKeepsMajor
    /\ NewestNumberFirst

\* Candidates are from the registry, and what is marked is an answer's own.
KnownInv ==
    /\ \A i \in DOMAIN candidates : candidates[i].version \in registry[candidates[i].name]
    /\ \A p \in Pkg : answer[p].marked \in answer[p].ids \cup {0}

DatabaseInv == AnswersInv /\ OnceInv /\ KnownInv /\ LockedIsMarked /\ SortedInv

\* Sequences.
LEMMA ElementsLemma ==
    ASSUME NEW S, NEW T, S \subseteq T, NEW s \in Seq(S)
    PROVE  /\ s \in Seq(T) /\ Len(s) \in Nat /\ DOMAIN s = 1..Len(s)
           /\ \A i \in DOMAIN s : s[i] \in S /\ 1 \in DOMAIN s
<1>1. Len(s) \in Nat /\ DOMAIN s = 1..Len(s) /\ \A i \in 1..Len(s) : s[i] \in S
  OBVIOUS
<1>2. s \in Seq(T)
  BY <1>1
<1>3. \A i \in 1..Len(s) : 1 \in 1..Len(s)
  BY <1>1
<1> QED
  BY <1>1, <1>2, <1>3

LEMMA ConcatenationLemma ==
    ASSUME NEW S, NEW s \in Seq(S), NEW t \in Seq(S)
    PROVE  /\ s \o t \in Seq(S) /\ Len(s) \in Nat /\ Len(t) \in Nat
           /\ DOMAIN (s \o t) = 1..(Len(s) + Len(t))
           /\ \A i \in 1..Len(s) : (s \o t)[i] = s[i]
           /\ \A i \in (Len(s) + 1)..(Len(s) + Len(t)) :
                  i - Len(s) \in 1..Len(t) /\ (s \o t)[i] = t[i - Len(s)]
<1>1. s \o t \in Seq(S) /\ Len(s \o t) = Len(s) + Len(t) /\ Len(s) \in Nat /\ Len(t) \in Nat
  OBVIOUS
<1>2. DOMAIN (s \o t) = 1..(Len(s) + Len(t))
  BY <1>1
<1>3. \A i \in 1..Len(s) : (s \o t)[i] = s[i]
  BY <1>1
<1>4. ASSUME NEW i \in (Len(s) + 1)..(Len(s) + Len(t))
      PROVE  i - Len(s) \in 1..Len(t) /\ (s \o t)[i] = t[i - Len(s)]
  BY <1>1
<1> QED
  BY <1>1, <1>2, <1>3, <1>4

\* An order of a finite set has each element once.
LEMMA OrdersLemma ==
    ASSUME NEW S, IsFiniteSet(S), NEW t \in Orders(S)
    PROVE  /\ t \in Seq(S)
           /\ \A i, j \in DOMAIN t : t[i] = t[j] => i = j
<1>1. /\ Cardinality(S) \in Nat /\ t \in [1..Cardinality(S) -> S] /\ DOMAIN t = 1..Cardinality(S)
      /\ \A v \in S : \E i \in DOMAIN t : t[i] = v
  <2>1. Cardinality(S) \in Nat
    BY FS_CardinalityType
  <2> QED
    BY <2>1 DEF Orders
<1>2. t \in Surjection(1..Cardinality(S), S)
  BY <1>1 DEF Surjection
<1>3. IsFiniteSet(1..Cardinality(S)) /\ Cardinality(1..Cardinality(S)) = Cardinality(S)
  BY <1>1, FS_Interval
<1>4. t \in Injection(1..Cardinality(S), S)
  BY <1>2, <1>3, FS_SurjSameCardinalityImpliesInj
<1>5. t \in Seq(S)
  BY <1>1
<1>6. \A i, j \in 1..Cardinality(S) : t[i] = t[j] => i = j
  BY <1>4 DEF Injection, IsInjective
<1> QED
  BY <1>1, <1>5, <1>6

\* The solver asks for the versions of a package that it has not asked for, or
\* whose request failed.
LEMMA GetStep ==
    ASSUME DatabaseInv, NEW p \in Pkg, GetCandidates(p)
    PROVE  DatabaseInv'
<1>1. AnswersInv /\ OnceInv /\ KnownInv /\ LockedIsMarked /\ SortedInv
  BY DEF DatabaseInv
<1>2. /\ answer[p].ids = {} /\ UNCHANGED <<registry, locked, strategy, sorted>>
      /\ answer[p] = Unasked
  BY DEF GetCandidates, Unasked
<1> DEFINE more(fetched) == [i \in DOMAIN fetched |-> [name |-> p, version |-> fetched[i]]]
<1>3. PICK fetched \in FetchPackageVersions(p) :
          LET all == candidates \o more(fetched)
          IN /\ candidates' = all
             /\ answer' = [answer EXCEPT ![p] = [ids    |-> {i \in DOMAIN all : all[i].name = p},
                                                 marked |-> Marked(p, all)]]
  BY DEF GetCandidates
<1> DEFINE all == candidates \o more(fetched)
           n == Len(candidates)
<1>4. /\ candidates' = all
      /\ answer' = [answer EXCEPT ![p] = [ids    |-> {i \in DOMAIN all : all[i].name = p},
                                          marked |-> Marked(p, all)]]
  BY <1>3
<1>5. /\ registry[p] \subseteq Published /\ IsFiniteSet(registry[p])
      /\ candidates \in Seq(Candidate) /\ n \in Nat /\ DOMAIN candidates = 1..n
  BY <1>1 DEF AnswersInv
<1>6. /\ fetched \in Seq(Published) /\ \A i \in DOMAIN fetched : fetched[i] \in registry[p]
      /\ \A i, j \in DOMAIN fetched : fetched[i] = fetched[j] => i = j
  <2>1. CASE fetched = << >>
    BY <2>1
  <2>2. CASE fetched \in Orders(registry[p])
    <3>1. fetched \in Seq(registry[p]) /\ \A i, j \in DOMAIN fetched : fetched[i] = fetched[j] => i = j
      BY <1>5, <2>2, OrdersLemma
    <3> QED
      BY <1>5, <3>1, ElementsLemma
  <2> QED
    BY <2>1, <2>2 DEF FetchPackageVersions
<1>7. /\ more(fetched) \in Seq(Candidate) /\ Len(more(fetched)) = Len(fetched) /\ Len(fetched) \in Nat
      /\ \A i \in 1..Len(fetched) : more(fetched)[i] = [name |-> p, version |-> fetched[i]]
  <2>1. DOMAIN fetched = 1..Len(fetched) /\ Len(fetched) \in Nat
        /\ \A i \in 1..Len(fetched) : fetched[i] \in Published
    BY <1>6
  <2>2. \A i \in DOMAIN fetched : [name |-> p, version |-> fetched[i]] \in Candidate
    BY <2>1 DEF Candidate
  <2> QED
    BY <2>1, <2>2
<1> HIDE DEF more
<1> HIDE DEF all, n
<1>8. /\ all \in Seq(Candidate) /\ DOMAIN all = 1..(n + Len(fetched))
      /\ \A i \in 1..n : all[i] = candidates[i]
      /\ \A i \in (n + 1)..(n + Len(fetched)) :
             i - n \in 1..Len(fetched) /\ all[i] = [name |-> p, version |-> fetched[i - n]]
      /\ \A i \in DOMAIN all : all[i] \in Candidate
  <2> DEFINE m == more(fetched)
  <2>1. candidates \in Seq(Candidate) /\ m \in Seq(Candidate)
    BY <1>5, <1>7
  <2> HIDE DEF m
  <2>2. /\ candidates \o m \in Seq(Candidate) /\ Len(candidates) \in Nat /\ Len(m) \in Nat
        /\ DOMAIN (candidates \o m) = 1..(Len(candidates) + Len(m))
        /\ \A i \in 1..Len(candidates) : (candidates \o m)[i] = candidates[i]
        /\ \A i \in (Len(candidates) + 1)..(Len(candidates) + Len(m)) :
               i - Len(candidates) \in 1..Len(m) /\ (candidates \o m)[i] = m[i - Len(candidates)]
    BY <2>1, ConcatenationLemma
  <2>3. Len(m) = Len(fetched) /\ \A i \in 1..Len(fetched) : m[i] = [name |-> p, version |-> fetched[i]]
    BY <1>7 DEF m
  <2>4. all = candidates \o m /\ n = Len(candidates)
    BY DEF all, n, m
  <2>5. /\ all \in Seq(Candidate) /\ DOMAIN all = 1..(n + Len(fetched))
        /\ \A i \in 1..n : all[i] = candidates[i]
    BY <2>2, <2>3, <2>4
  <2>6. ASSUME NEW i \in (n + 1)..(n + Len(fetched))
        PROVE  i - n \in 1..Len(fetched) /\ all[i] = [name |-> p, version |-> fetched[i - n]]
    <3>1. i - n \in 1..Len(fetched) /\ all[i] = m[i - n]
      BY <2>2, <2>3, <2>4
    <3> QED
      BY <2>3, <3>1
  <2>7. \A i \in DOMAIN all : all[i] \in Candidate
    BY <2>5, ElementsLemma
  <2> QED
    BY <2>5, <2>6, <2>7
<1>9. \A i \in DOMAIN all : i \in Nat /\ (i \in 1..n \/ i \in (n + 1)..(n + Len(fetched)))
  BY <1>5, <1>7, <1>8
<1>10. \A i \in 1..n : candidates[i].name # p /\ i \in DOMAIN all /\ all[i] = candidates[i]
  <2>1. answer[p].ids = {i \in 1..n : candidates[i].name = p}
    BY <1>1, <1>5 DEF AnswersInv
  <2>2. \A i \in 1..n : candidates[i].name # p
    BY <1>2, <2>1
  <2>3. \A i \in 1..n : i \in 1..(n + Len(fetched))
    BY <1>5, <1>7
  <2> QED
    BY <1>8, <2>2, <2>3
<1>11. \A i \in (n + 1)..(n + Len(fetched)) : all[i].name = p /\ all[i].version = fetched[i - n]
  <2> SUFFICES ASSUME NEW i \in (n + 1)..(n + Len(fetched))
               PROVE  all[i].name = p /\ all[i].version = fetched[i - n]
    OBVIOUS
  <2>1. all[i] = [name |-> p, version |-> fetched[i - n]]
    BY <1>8
  <2> QED
    BY <2>1
<1>12. OnceInv'
  <2> SUFFICES ASSUME NEW i \in DOMAIN all, NEW j \in DOMAIN all, all[i] = all[j] PROVE i = j
    BY <1>4 DEF OnceInv
  <2>1. CASE i \in 1..n /\ j \in 1..n
    BY <1>1, <1>5, <1>10, <2>1 DEF OnceInv
  <2>2. CASE i \in (n + 1)..(n + Len(fetched)) /\ j \in (n + 1)..(n + Len(fetched))
    <3>1. fetched[i - n] = fetched[j - n]
      BY <1>11, <2>2
    <3>2. i - n \in DOMAIN fetched /\ j - n \in DOMAIN fetched
      <4>1. DOMAIN fetched = 1..Len(fetched)
        BY <1>6, ElementsLemma
      <4>2. i - n \in 1..Len(fetched) /\ j - n \in 1..Len(fetched)
        BY <1>8, <2>2
      <4> QED
        BY <4>1, <4>2
    <3>3. i - n = j - n
      BY <1>6, <3>1, <3>2
    <3> QED
      BY <1>5, <1>9, <3>3
  <2>3. CASE i \in 1..n /\ j \in (n + 1)..(n + Len(fetched))
    BY <1>10, <1>11, <2>3
  <2>4. CASE j \in 1..n /\ i \in (n + 1)..(n + Len(fetched))
    BY <1>10, <1>11, <2>4
  <2> QED
    BY <1>9, <2>1, <2>2, <2>3, <2>4
<1> DEFINE own == {i \in DOMAIN all : all[i].name = p}
           same == {i \in own : all[i].version = locked[p]}
           found == IF same = {} THEN DefaultId ELSE CHOOSE i \in same : TRUE
<1>13. Marked(p, all) = IF locked[p] # None /\ strategy # "latest" /\ found \in own THEN found ELSE 0
  BY DEF Marked
<1>14. own \subseteq Nat
  BY <1>9
<1>15. Marked(p, all) \in Nat
  BY <1>13, <1>14
<1>16. AnswersInv'
  <2>1. answer' \in [Pkg -> [ids : SUBSET Nat, marked : Nat]]
    BY <1>1, <1>4, <1>14, <1>15 DEF AnswersInv
  <2>2. ASSUME NEW q \in Pkg PROVE answer'[q].ids = {i \in DOMAIN all : all[i].name = q}
    <3>1. CASE q = p
      BY <1>1, <1>4, <3>1 DEF AnswersInv
    <3>2. CASE q # p
      <4>1. answer'[q] = answer[q]
        BY <1>1, <1>4, <3>2 DEF AnswersInv
      <4>2. answer[q].ids = {i \in 1..n : candidates[i].name = q}
        BY <1>1, <1>5 DEF AnswersInv
      <4>3. \A i \in DOMAIN all : all[i].name = q <=> i \in 1..n /\ candidates[i].name = q
        BY <1>9, <1>10, <1>11, <3>2
      <4>4. \A i \in 1..n : i \in DOMAIN all
        BY <1>10
      <4> QED
        BY <4>1, <4>2, <4>3, <4>4
    <3> QED
      BY <3>1, <3>2
  <2> QED
    BY <1>1, <1>2, <1>4, <1>8, <2>1, <2>2 DEF AnswersInv
<1>17. LockedIsMarked'
  <2> SUFFICES ASSUME NEW q \in Pkg, strategy # "latest"
               PROVE  /\ \A i \in answer'[q].ids :
                             all[i].version = locked[q] => answer'[q].marked = i
                      /\ answer'[q].marked \in {0, DefaultId}
                            \/ all[answer'[q].marked].version = locked[q]
    BY <1>2, <1>4 DEF LockedIsMarked, DefaultId
  <2>1. CASE q = p
    <3>1. answer'[p].ids = own /\ answer'[p].marked = Marked(p, all)
      BY <1>1, <1>4 DEF AnswersInv
    <3>2. ASSUME NEW i \in own, all[i].version = locked[p] PROVE Marked(p, all) = i
      <4>1. i \in same
        BY <3>2
      <4>2. \A j \in same : j = i
        <5> SUFFICES ASSUME NEW j \in same PROVE j = i
          OBVIOUS
        <5>1. i \in DOMAIN all /\ j \in DOMAIN all
          BY <3>2
        <5>2. all[i].name = all[j].name /\ all[i].version = all[j].version
          BY <3>2
        <5>3. all[i] = all[j]
          BY <1>8, <5>1, <5>2 DEF Candidate
        <5> QED
          BY <1>4, <1>12, <5>1, <5>3 DEF OnceInv
      <4>3. found \in same
        BY <4>1, Zenon
      <4>4. found = i
        BY <4>2, <4>3
      <4>5. all[i].version \in Published
        <5>1. i \in DOMAIN all
          BY <3>2
        <5> QED
          BY <1>8, <5>1 DEF Candidate
      <4>6. locked[p] # None
        BY <3>2, <4>5, PublishedAssumption
      <4> HIDE DEF found, own, same
      <4> QED
        BY <1>13, <2>1, <3>2, <4>4, <4>6
    <3>3. CASE same = {}
      <4>1. found = DefaultId
        BY <3>3
      <4> HIDE DEF found, own, same
      <4> QED
        BY <1>13, <2>1, <3>1, <3>2, <4>1
    <3>4. CASE same # {}
      <4>1. found \in same
        BY <3>4, Zenon
      <4>2. all[found].version = locked[p]
        BY <4>1
      <4> HIDE DEF found, own, same
      <4> QED
        BY <1>13, <2>1, <3>1, <3>2, <4>2
    <3> QED
      BY <3>3, <3>4
  <2>2. CASE q # p
    <3>1. answer'[q] = answer[q]
      BY <1>1, <1>4, <2>2 DEF AnswersInv
    <3>2. \A i \in answer[q].ids : i \in 1..n /\ all[i] = candidates[i]
      BY <1>1, <1>5, <1>10 DEF AnswersInv
    <3>3. answer[q].marked \in answer[q].ids \cup {0}
      BY <1>1 DEF KnownInv
    <3> QED
      BY <1>1, <3>1, <3>2, <3>3 DEF LockedIsMarked
  <2> QED
    BY <2>1, <2>2
<1>18. SortedInv'
  <2>1. sorted.ids \in Seq(1..n) /\ DOMAIN candidates = 1..n /\ 1..n \subseteq DOMAIN all
    BY <1>1, <1>5, <1>10 DEF SortedInv
  <2>2. sorted'.ids \in Seq(DOMAIN candidates')
    <3>1. sorted.ids \in Seq(DOMAIN all)
      BY <2>1, ElementsLemma
    <3> QED
      BY <1>2, <1>4, <3>1
  <2>3. \A i \in DOMAIN sorted.ids :
            /\ sorted.ids[i] \in 1..n /\ all[sorted.ids[i]] = candidates[sorted.ids[i]]
            /\ all[sorted.ids[1]] = candidates[sorted.ids[1]]
    <3>1. \A i \in DOMAIN sorted.ids : sorted.ids[i] \in 1..n /\ 1 \in DOMAIN sorted.ids
      BY <2>1, ElementsLemma
    <3> QED
      BY <1>10, <3>1
  <2>4. CaretKeepsMajor'
    <3>1. CaretKeepsMajor /\ sorted' = sorted /\ candidates' = all
      BY <1>1, <1>2, <1>4 DEF SortedInv
    <3> QED
      BY <2>3, <3>1 DEF CaretKeepsMajor
  <2>5. NewestNumberFirst'
    <3>1. NewestNumberFirst /\ sorted' = sorted /\ candidates' = all
      BY <1>1, <1>2, <1>4 DEF SortedInv
    <3> QED
      BY <2>3, <3>1 DEF NewestNumberFirst
  <2> QED
    BY <2>2, <2>4, <2>5 DEF SortedInv
<1>19. KnownInv'
  <2>1. ASSUME NEW i \in DOMAIN all PROVE all[i].version \in registry[all[i].name]
    <3>1. CASE i \in 1..n
      BY <1>1, <1>5, <1>10, <3>1 DEF KnownInv
    <3>2. CASE i \in (n + 1)..(n + Len(fetched))
      <4>1. i - n \in 1..Len(fetched)
        BY <1>8, <3>2
      <4>2. i - n \in DOMAIN fetched
        BY <1>6, <4>1, ElementsLemma
      <4> QED
        BY <1>6, <1>11, <3>2, <4>2
    <3> QED
      BY <1>9, <3>1, <3>2
  <2>2. ASSUME NEW q \in Pkg PROVE answer'[q].marked \in answer'[q].ids \cup {0}
    <3>1. CASE q = p
      <4>1. answer'[p].ids = own /\ answer'[p].marked = Marked(p, all)
        BY <1>1, <1>4 DEF AnswersInv
      <4> HIDE DEF own, found
      <4> QED
        BY <1>13, <3>1, <4>1
    <3>2. CASE q # p
      BY <1>1, <1>4, <3>2 DEF AnswersInv, KnownInv
    <3> QED
      BY <3>1, <3>2
  <2> QED
    BY <1>2, <1>4, <2>1, <2>2 DEF KnownInv
<1> QED
  BY <1>12, <1>16, <1>17, <1>18, <1>19 DEF DatabaseInv

\* What the range of a caret requirement contains is of its major version, or
\* of the next one with a number that is negative.
LEMMA CaretLemma ==
    ASSUME NEW x \in PackedVersion, NEW v \in PackedVersion, v.major < MaxInt,
           SemverCompare(x, v) >= 0,
           SemverCompare(x, NextMajorVersion(v)) < 0
    PROVE  x.major = v.major \/ (x.major = v.major + 1 /\ ReadsNegative(x))
<1> DEFINE w == NextMajorVersion(v)
<1>1. w \in PackedVersion
  BY SemverIsAnOrder
<1>2. w.major = v.major + 1 /\ w.minor = 0 /\ w.patch = 0 /\ w.pre = << >>
  <2>1. Increment(v.major) = v.major + 1
    BY WidthAssumption DEF Increment, PackedVersion
  <2> QED
    BY <2>1 DEF NextMajorVersion, PackedVersion
<1>3. Identifiers(w.pre) = << <<0, 0>> >>
  BY <1>2 DEF Identifiers
<1> HIDE DEF w
<1> DEFINE a == Identifiers(x.pre)
           b == << <<0, 0>> >>
<1>4. /\ x.major \in Int /\ x.minor \in Int /\ x.patch \in Int /\ v.major \in Int
      /\ a \in Prerelease /\ Len(a) \in Nat /\ Len(a) >= 1 /\ a[1] \in Identifier
  <2>1. x.pre \in Prerelease
    BY DEF PackedVersion
  <2>2. a \in Prerelease /\ Len(a) >= 1
    BY <2>1, PrereleaseLemma
  <2> HIDE DEF a
  <2>3. Len(a) \in Nat /\ a[1] \in Identifier
    BY <2>2 DEF Prerelease
  <2> QED
    BY <2>2, <2>3 DEF PackedVersion
<1>5. ~ Earlier(x, v)
  <2>1. SemverCompare(x, v) # -1
    OBVIOUS
  <2>2. Earlier(v, x) \/ Alike(x, v)
    BY <2>1, CompareLemma
  <2> QED
    BY <2>2, EarlierLemma
<1>6. Earlier(x, w)
  <2>1. SemverCompare(x, w) < 0
    BY DEF w
  <2> QED
    BY <1>1, <2>1, CompareLemma
<1>7. Before(a, b) => a[1][1] = 0 /\ a[1][2] < 0
  <2> SUFFICES ASSUME Before(a, b) PROVE a[1][1] = 0 /\ a[1][2] < 0
    OBVIOUS
  <2>1. Len(b) = 1 /\ b[1] = <<0, 0>>
    OBVIOUS
  <2> HIDE DEF a, b
  <2>2. PICK k \in 1..Len(b) : k > Len(a) \/ IdLess(a[k], b[k])
    BY DEF Before
  <2>3. IdLess(a[1], <<0, 0>>)
    BY <1>4, <2>1, <2>2
  <2> QED
    BY <1>4, <2>3 DEF IdLess, Identifier
<1>8. NumbersLess(x, w) \/ (SameNumbers(x, w) /\ a[1][1] = 0 /\ a[1][2] < 0)
  BY <1>3, <1>6, <1>7 DEF Earlier
<1>9. x.major <= v.major + 1 /\ (x.major = v.major + 1 => ReadsNegative(x))
  <2>1. x.major < v.major + 1
        \/ (x.major = v.major + 1
              /\ (x.minor < 0 \/ x.patch < 0 \/ (a[1][1] = 0 /\ a[1][2] < 0)))
    BY <1>2, <1>4, <1>8 DEF NumbersLess, SameNumbers
  <2> QED
    BY <1>4, <2>1 DEF ReadsNegative
<1>10. ~ x.major < v.major
  BY <1>5 DEF Earlier, NumbersLess
<1> QED
  BY <1>4, <1>9, <1>10

\* What the range of a caret requirement contains is between its ends.
LEMMA CaretRangeLemma ==
    ASSUME NEW part, part.op = "^", NEW x, Ranges!Contains(Ranges!PartRange(part), x)
    PROVE  /\ SemverCompare(x, part.v) >= 0
           /\ SemverCompare(x, NextMajorVersion(part.v)) < 0
<1> DEFINE lo == Ranges!Included(part.v)
           hi == Ranges!Excluded(NextMajorVersion(part.v))
<1>1. Ranges!PartRange(part) = << Ranges!Segment(lo, hi) >>
  BY DEF Ranges!PartRange
<1>2. Ranges!Above(lo, x) /\ Ranges!Below(hi, x)
  BY <1>1 DEF Ranges!Contains, Ranges!Segment
<1> QED
  BY <1>2 DEF Ranges!Above, Ranges!Below, Ranges!Included,
              Ranges!Excluded

\* The solver filters the candidates of a package and has the rest sorted.
LEMMA SortStep ==
    ASSUME DatabaseInv, NEW p \in Pkg, NEW part \in Parts,
           SortCandidates(p, part)
    PROVE  DatabaseInv'
<1>1. AnswersInv /\ OnceInv /\ KnownInv /\ LockedIsMarked /\ SortedInv
  BY DEF DatabaseInv
<1>2. UNCHANGED <<registry, locked, strategy, candidates, answer>>
  BY DEF SortCandidates
<1> DEFINE kept == FilterCandidates(answer[p].ids, part)
           n == Len(candidates)
<1>3. PICK s \in Orders(kept) : Sorted(s) /\ sorted' = [part |-> part, ids |-> s]
  BY DEF SortCandidates
<1>4. /\ candidates \in Seq(Candidate) /\ n \in Nat /\ DOMAIN candidates = 1..n
      /\ \A i \in 1..n : candidates[i] \in Candidate
  BY <1>1, ElementsLemma DEF AnswersInv
<1>5. kept \subseteq 1..n /\ \A i \in kept :
          Ranges!Contains(Ranges!PartRange([part EXCEPT !.v = Pack(part.v)]),
                                   Pack(candidates[i].version))
  BY <1>1, <1>4 DEF AnswersInv, FilterCandidates
<1> HIDE DEF kept, n
<1>6. /\ s \in Seq(kept) /\ s \in Seq(1..n)
      /\ \A i \in DOMAIN s : s[i] \in kept /\ 1 \in DOMAIN s
      /\ DOMAIN s = 1..Len(s) /\ Len(s) \in Nat
  <2>1. IsFiniteSet(1..n)
    BY <1>4, FS_Interval
  <2>2. IsFiniteSet(kept)
    BY <1>5, <2>1, FS_Subset
  <2>3. s \in Seq(kept)
    BY <2>2, OrdersLemma
  <2> QED
    BY <1>5, <2>3, ElementsLemma
<1> DEFINE version(i) == candidates[s[i]].version
           packed(i) == Pack(version(i))
<1>7. \A i \in DOMAIN s : packed(i) \in PackedVersion
  <2> SUFFICES ASSUME NEW i \in DOMAIN s PROVE packed(i) \in PackedVersion
    OBVIOUS
  <2>1. s[i] \in 1..n
    BY <1>5, <1>6
  <2>2. version(i) \in Published
    BY <1>4, <2>1 DEF Candidate
  <2>3. version(i) \in Semantic
    BY <2>2, PublishedAssumption
  <2> QED
    BY <2>3, PackLemma
<1>8. CaretKeepsMajor'
  <2> DEFINE v == Pack(part.v)
             pt == [part EXCEPT !.v = v]
  <2> SUFFICES ASSUME NEW i \in DOMAIN s, part.op = "^", v.major < MaxInt
               PROVE  packed(i).major = v.major
                      \/ (packed(i).major = v.major + 1 /\ ReadsNegative(packed(i)))
    BY <1>2, <1>3 DEF CaretKeepsMajor
  <2>1. part.v \in Semantic
    BY PartAssumption
  <2>2. v \in PackedVersion
    BY <2>1, PackLemma
  <2>3. pt.op = "^" /\ pt.v = v
    BY PartAssumption
  <2>4. Ranges!Contains(Ranges!PartRange(pt), packed(i))
    BY <1>5, <1>6
  <2> HIDE DEF pt, v, packed
  <2>5. /\ SemverCompare(packed(i), v) >= 0
        /\ SemverCompare(packed(i), NextMajorVersion(v)) < 0
    BY <2>3, <2>4, CaretRangeLemma
  <2> QED
    BY <1>7, <2>2, <2>5, CaretLemma
<1>9. NewestNumberFirst'
  <2> SUFFICES ASSUME NEW i \in DOMAIN s
               PROVE  CompareVersion(packed(1), packed(i)) >= 0
    BY <1>2, <1>3 DEF NewestNumberFirst
  <2>1. 1 \in DOMAIN s
    BY <1>6
  <2> HIDE DEF version, packed
  <2>3. CASE i = 1
    <3>1. packed(1) \in PackedVersion
      BY <1>7, <2>1
    <3>2. ~ NumbersLess(packed(1), packed(1))
      BY <3>1 DEF NumbersLess, PackedVersion
    <3>3. CompareVersion(packed(1), packed(1)) = 0
      BY <3>1, <3>2, NumbersLemma DEF PackedVersion
    <3> QED
      BY <2>3, <3>3
  <2>4. CASE i # 1
    <3>1. 1 < i
      BY <1>6, <2>1, <2>4
    <3>2. SemverCompare(packed(1), packed(i)) >= 0
      BY <1>3, <2>1, <3>1 DEF Sorted, Comparison, version, packed
    <3>3. packed(1) \in PackedVersion /\ packed(i) \in PackedVersion
      BY <1>7, <2>1
    <3>4. CompareVersion(packed(1), packed(i)) # 0
              => SemverCompare(packed(1), packed(i)) = CompareVersion(packed(1), packed(i))
      BY <3>3, CompareLemma
    <3> QED
      BY <3>2, <3>4
  <2> QED
    BY <2>3, <2>4
<1>10. SortedInv'
  <2>1. sorted'.ids = s /\ candidates' = candidates
    BY <1>2, <1>3
  <2> QED
    BY <1>4, <1>6, <1>8, <1>9, <2>1 DEF SortedInv
<1>11. AnswersInv' /\ OnceInv' /\ KnownInv' /\ LockedIsMarked'
  BY <1>1, <1>2 DEF AnswersInv, OnceInv, KnownInv, LockedIsMarked
<1> QED
  BY <1>10, <1>11 DEF DatabaseInv

(***************************************************************************)
(* The theorems about the package database                                 *)
(***************************************************************************)
LEMMA DatabaseInvariant == DatabaseSpec => []DatabaseInv
<1>1. DatabaseInit => DatabaseInv
  <2> SUFFICES ASSUME DatabaseInit PROVE DatabaseInv
    OBVIOUS
  <2>1. \A p \in Pkg : answer[p] = [ids |-> {}, marked |-> 0]
    BY DEF DatabaseInit, Unasked
  <2>2. candidates = << >> /\ DOMAIN candidates = {}
    BY DEF DatabaseInit
  <2>3. registry \in [Pkg -> {S \in SUBSET Published : IsFiniteSet(S)}]
    BY DEF DatabaseInit
  <2>4. answer \in [Pkg -> [ids : SUBSET Nat, marked : Nat]]
    BY DEF DatabaseInit, Unasked
  <2>5. sorted.ids = << >> /\ DOMAIN sorted.ids = {}
    BY DEF DatabaseInit
  <2>6. SortedInv
    <3>1. sorted.ids \in Seq(DOMAIN candidates)
      BY <2>5
    <3> QED
      BY <2>5, <3>1 DEF SortedInv, CaretKeepsMajor, NewestNumberFirst
  <2>7. AnswersInv
    BY <2>1, <2>2, <2>3, <2>4 DEF AnswersInv
  <2>8. OnceInv /\ KnownInv /\ LockedIsMarked
    BY <2>1, <2>2 DEF OnceInv, KnownInv, LockedIsMarked, DefaultId
  <2> QED
    BY <2>6, <2>7, <2>8 DEF DatabaseInv
<1>2. DatabaseInv /\ [DatabaseNext]_databaseVars => DatabaseInv'
  <2> SUFFICES ASSUME DatabaseInv, [DatabaseNext]_databaseVars PROVE DatabaseInv'
    OBVIOUS
  <2>1. ASSUME NEW p \in Pkg, GetCandidates(p) PROVE DatabaseInv'
    BY <2>1, GetStep
  <2>2. ASSUME NEW p \in Pkg, NEW part \in Parts, SortCandidates(p, part) PROVE DatabaseInv'
    BY <2>2, SortStep
  <2>3. CASE UNCHANGED databaseVars
    <3>1. UNCHANGED <<registry, locked, strategy, candidates, answer, sorted>>
      BY <2>3 DEF databaseVars
    <3> QED
      BY <3>1 DEF DatabaseInv, AnswersInv, OnceInv, KnownInv, SortedInv, LockedIsMarked,
                  CaretKeepsMajor, NewestNumberFirst
  <2> QED
    BY <2>1, <2>2, <2>3 DEF DatabaseNext
<1> QED
  BY <1>1, <1>2, PTL DEF DatabaseSpec

\* Candidates are from the registry, each once, and the answer for a package
\* has exactly its candidates, one of which may be marked (get_candidates).
THEOREM DatabaseTypeCorrect == DatabaseSpec => []DatabaseTypeOK
<1>1. DatabaseInv => DatabaseTypeOK
  BY DEF DatabaseInv, AnswersInv, OnceInv, KnownInv, DatabaseTypeOK
<1> QED
  BY <1>1, DatabaseInvariant, PTL

\* Whatever is fetched in which order, the candidates of a package with its
\* locked version have that one marked, and no others have one marked unless
\* theirs were the first of all (get_candidates).
THEOREM LockedAlwaysMarked == DatabaseSpec => []LockedIsMarked
<1>1. DatabaseInv => LockedIsMarked
  BY DEF DatabaseInv
<1> QED
  BY <1>1, DatabaseInvariant, PTL

\* A caret requirement never leaves a candidate of another major version, but
\* one of the next with a number that is read as negative
\* (Pack::next_major_version).
THEOREM CaretAlwaysKeepsMajor == DatabaseSpec => []CaretKeepsMajor
<1>1. DatabaseInv => CaretKeepsMajor
  BY DEF DatabaseInv, SortedInv
<1> QED
  BY <1>1, DatabaseInvariant, PTL

\* The first of the sorted candidates is of the greatest version number, as
\* numbers are read (sort_candidates).
THEOREM NewestAlwaysFirst == DatabaseSpec => []NewestNumberFirst
<1>1. DatabaseInv => NewestNumberFirst
  BY DEF DatabaseInv, SortedInv
<1> QED
  BY <1>1, DatabaseInvariant, PTL
==============================================================================
