------------------------------- MODULE Semver -------------------------------
(***************************************************************************)
(* Semantic versions and their order: semver_compare, and the Pack wrapper *)
(* that PackageDatabase.h compares.  A version has its numbers as they are *)
(* published, of any size; the code reads them with strtol into an int.    *)
(***************************************************************************)
EXTENDS Integers, Sequences

CONSTANTS
    NoPre,    \* the null prerelease of a version without one
    MaxInt,   \* INT_MAX
    MaxLong   \* LONG_MAX

\* Between the dots of a prerelease: <<0, n>> is what strtol reads to its end
\* as the number n, which may have a sign, <<1, k>> the k-th word in strncmp order.
Identifier == {0, 1} \X Int

Semantic == [major : Nat, minor : Nat, patch : Nat, pre : {NoPre} \cup Seq(Identifier)]

ASSUME NoPreAssumption == NoPre \notin Seq(Identifier)
ASSUME WidthAssumption == MaxInt \in Nat /\ MaxLong \in Nat /\ MaxInt <= MaxLong

(***************************************************************************)
(* Reading a number                                                        *)
(***************************************************************************)
\* strtol stops at the ends of a long.
Saturate(n) == IF n > MaxLong THEN MaxLong ELSE IF n < -MaxLong - 1 THEN -MaxLong - 1 ELSE n

\* An int keeps the low bits of the long it is assigned.
ToInt(n) == ((Saturate(n) + MaxInt + 1) % (2 * (MaxInt + 1))) - (MaxInt + 1)

Read(id) == IF id[1] = 0 THEN <<0, ToInt(id[2])>> ELSE id

(***************************************************************************)
(* The order                                                               *)
(***************************************************************************)
Sign(m, n) == IF m < n THEN -1 ELSE IF m = n THEN 0 ELSE 1

Least(S) == CHOOSE i \in S : \A j \in S : i <= j

\* The first of a list of comparisons that is not zero decides.
Lexicographic(cs) ==
    LET decisive == {i \in DOMAIN cs : cs[i] # 0}
    IN IF decisive = {} THEN 0 ELSE cs[Least(decisive)]

\* A number precedes a word; numbers and words compare among themselves.
CompareIdentifier(a, b) == Lexicographic(<<Sign(a[1], b[1]), Sign(a[2], b[2])>>)

\* The identifiers as they are compared; strtol reads the empty string as the
\* number 0, up to its end.
Identifiers(pre) ==
    IF pre = <<>> THEN << <<0, 0>> >> ELSE [i \in DOMAIN pre |-> Read(pre[i])]

ComparePrerelease(x, y) ==
    IF x = NoPre /\ y = NoPre THEN 0
    ELSE IF y = NoPre THEN -1
    ELSE IF x = NoPre THEN 1
    ELSE LET a == Identifiers(x)
             b == Identifiers(y)
             common == IF Len(a) < Len(b) THEN Len(a) ELSE Len(b)
         IN Lexicographic([i \in 1..common |-> CompareIdentifier(a[i], b[i])]
                          \o <<Sign(Len(a), Len(b))>>)

CompareVersion(x, y) ==
    Lexicographic(<<Sign(x.major, y.major), Sign(x.minor, y.minor), Sign(x.patch, y.patch)>>)

SemverCompare(x, y) ==
    Lexicographic(<<CompareVersion(x, y), ComparePrerelease(x.pre, y.pre)>>)

(***************************************************************************)
(* Pack                                                                    *)
(***************************************************************************)
\* The constructor from a string reads the numbers and turns a missing
\* prerelease into an empty one.
Pack(x) == [major |-> ToInt(x.major), minor |-> ToInt(x.minor), patch |-> ToInt(x.patch),
            pre   |-> IF x.pre = NoPre THEN <<>> ELSE x.pre]

\* ++ of an int, which wraps in the build when nothing is greater.
Increment(n) == IF n = MaxInt THEN -MaxInt - 1 ELSE n + 1

\* Mutant: the prerelease of the requirement is kept.
NextMajorKeeps(x) == [x EXCEPT !.major = Increment(@), !.minor = 0, !.patch = 0]

\* The exclusive end of a caret range; its empty prerelease, the number 0,
\* comes before words and before numbers greater than 0.
NextMajorVersion(x) ==
    [x EXCEPT !.major = Increment(@), !.minor = 0, !.patch = 0, !.pre = <<>>]
=============================================================================
