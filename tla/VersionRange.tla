---------------------------- MODULE VersionRange ----------------------------
(***************************************************************************)
(* Range<V> and version_range: a requirement such as ">=1.47.37,<1.50.0"   *)
(* is read part by part, each part being intersected with the range so     *)
(* far; candidates are those the range contains.  Like the template, the   *)
(* module is parameterised by the versions and their comparison.  Every    *)
(* range version_range builds has at most one segment, so intersection and *)
(* containment are those of ranges with at most one segment.               *)
(***************************************************************************)
EXTENDS Integers, Sequences

CONSTANTS
    Version,          \* versions, of candidates and in requirements
    Compare(_, _),    \* -1, 0 or 1
    NextMajor(_),     \* the version that ends a caret range
    Requirements      \* requirements: sequences of [op, v]

Operator == {">=", ">", "<=", "<", "==", "^"}
Part == [op : Operator, v : Version]

ASSUME OrderAssumption ==
    /\ \A x, y \in Version : Compare(x, y) \in Int
    /\ \A x, y \in Version : Compare(x, y) <= 0 <=> Compare(y, x) >= 0
    /\ \A x, y, z \in Version : Compare(x, y) <= 0 /\ Compare(y, z) <= 0 => Compare(x, z) <= 0
ASSUME RequirementAssumption ==
    /\ Requirements \subseteq Seq(Part)
    /\ \A x \in Version : NextMajor(x) \in Version

VARIABLES
    todo,     \* the parts still to read
    read,     \* the parts that have been read
    range     \* their intersection, as code computes it: its segments

vars == <<todo, read, range>>

(***************************************************************************)
(* Bounds, segments, ranges                                                *)
(***************************************************************************)
Unbounded == [kind |-> "unbounded"]
Included(x) == [kind |-> "included", v |-> x]
Excluded(x) == [kind |-> "excluded", v |-> x]
Bound == {Unbounded} \cup [kind : {"included", "excluded"}, v : Version]

Segment(lo, hi) == [lo |-> lo, hi |-> hi]
Full == << Segment(Unbounded, Unbounded) >>

Above(lo, x) ==
    \/ lo.kind = "unbounded"
    \/ lo.kind = "included" /\ Compare(x, lo.v) >= 0
    \/ lo.kind = "excluded" /\ Compare(x, lo.v) > 0

Below(hi, x) ==
    \/ hi.kind = "unbounded"
    \/ hi.kind = "included" /\ Compare(x, hi.v) <= 0
    \/ hi.kind = "excluded" /\ Compare(x, hi.v) < 0

\* Range::contains; no segment contradicts, so an empty range contains all.
Contains(r, x) == \A i \in DOMAIN r : Above(r[i].lo, x) /\ Below(r[i].hi, x)

\* Of two bounds the right one, if it is the only one or `wins'.
Pick(l, r, wins) ==
    IF l = Unbounded THEN r ELSE IF r = Unbounded THEN l ELSE IF wins THEN r ELSE l

\* Mutant: an included start wins over an equal excluded one.
LooserStart(l, r) == Pick(l, r,
    \/ l.kind = r.kind /\ Compare(l.v, r.v) < 0
    \/ l.kind = "included" /\ r.kind = "excluded" /\ Compare(l.v, r.v) < 0
    \/ l.kind = "excluded" /\ r.kind = "included" /\ Compare(r.v, l.v) < 0)

\* The later of two starts, and on a tie the excluded one, except that of an
\* excluded and then an included start the code takes the earlier one.
TighterStart(l, r) == Pick(l, r,
    \/ l.kind = r.kind /\ Compare(l.v, r.v) < 0
    \/ l.kind = "included" /\ r.kind = "excluded" /\ Compare(l.v, r.v) <= 0
    \/ l.kind = "excluded" /\ r.kind = "included" /\ Compare(r.v, l.v) < 0)

\* The earlier of two ends, and on a tie the excluded one, except that of an
\* excluded and then an included end the code takes the later one.
TighterEnd(l, r) == Pick(l, r,
    \/ l.kind = r.kind /\ Compare(r.v, l.v) < 0
    \/ l.kind = "included" /\ r.kind = "excluded" /\ Compare(l.v, r.v) >= 0
    \/ l.kind = "excluded" /\ r.kind = "included" /\ Compare(r.v, l.v) > 0)

\* Mutant: a segment of one version counts as empty.
ValidSegmentStrict(lo, hi) ==
    \/ "unbounded" \in {lo.kind, hi.kind}
    \/ Compare(lo.v, hi.v) < 0

ValidSegment(lo, hi) ==
    \/ "unbounded" \in {lo.kind, hi.kind}
    \/ lo.kind = "included" /\ hi.kind = "included" /\ Compare(lo.v, hi.v) <= 0
    \/ Compare(lo.v, hi.v) < 0

\* Range::intersection_with for ranges of at most one segment: its loop ends
\* after one round, because the end it takes is that of one of the two.
Intersection(l, r) ==
    IF l = <<>> \/ r = <<>> THEN <<>>
    ELSE LET lo == TighterStart(l[1].lo, r[1].lo)
             hi == TighterEnd(l[1].hi, r[1].hi)
         IN IF ValidSegment(lo, hi) THEN << Segment(lo, hi) >> ELSE <<>>

\* Mutant: "<=" excludes its version.
PartRangeExcludes(part) ==
    CASE part.op = ">=" -> << Segment(Included(part.v), Unbounded) >>
      [] part.op = ">"  -> << Segment(Excluded(part.v), Unbounded) >>
      [] part.op \in {"<", "<="} -> << Segment(Unbounded, Excluded(part.v)) >>
      [] part.op = "==" -> << Segment(Included(part.v), Included(part.v)) >>
      [] part.op = "^"  -> << Segment(Included(part.v), Excluded(NextMajor(part.v))) >>

\* The range of one part.
PartRange(part) ==
    CASE part.op = ">=" -> << Segment(Included(part.v), Unbounded) >>
      [] part.op = ">"  -> << Segment(Excluded(part.v), Unbounded) >>
      [] part.op = "<=" -> << Segment(Unbounded, Included(part.v)) >>
      [] part.op = "<"  -> << Segment(Unbounded, Excluded(part.v)) >>
      [] part.op = "==" -> << Segment(Included(part.v), Included(part.v)) >>
      [] part.op = "^"  -> << Segment(Included(part.v), Excluded(NextMajor(part.v))) >>

(***************************************************************************)
(* version_range: from the full range, one comma-separated part at a time  *)
(***************************************************************************)
Init ==
    /\ todo \in Requirements
    /\ read = <<>>
    /\ range = Full

ReadPart ==
    /\ todo # <<>>
    /\ range' = Intersection(range, PartRange(Head(todo)))
    /\ read' = Append(read, Head(todo))
    /\ todo' = Tail(todo)

Next == ReadPart

Spec == Init /\ [][Next]_vars

(***************************************************************************)
(* Reference: what the operators of a requirement mean                     *)
(***************************************************************************)
Satisfies(x, part) ==
    \/ part.op = ">=" /\ Compare(x, part.v) >= 0
    \/ part.op = ">"  /\ Compare(x, part.v) > 0
    \/ part.op = "<=" /\ Compare(x, part.v) <= 0
    \/ part.op = "<"  /\ Compare(x, part.v) < 0
    \/ part.op = "==" /\ Compare(x, part.v) = 0
    \/ part.op = "^"  /\ Compare(x, part.v) >= 0 /\ Compare(x, NextMajor(part.v)) < 0

SatisfiesAll(x) == \A i \in DOMAIN read : Satisfies(x, read[i])

\* A part that excludes its start, or its end, comes before one that includes it.
Mixed ==
    \E i, j \in DOMAIN read :
        /\ i < j
        /\ \/ read[i].op = ">" /\ read[j].op \in {">=", "==", "^"}
           \/ read[i].op \in {"<", "^"} /\ read[j].op \in {"<=", "=="}

(***************************************************************************)
(* Properties                                                              *)
(***************************************************************************)
\* Ranges are well formed (Range::check_invariants): at most one segment, and
\* its start is not after its end.
TypeOK ==
    /\ todo \in Seq(Part)
    /\ read \in Seq(Part)
    /\ range = <<>> \/ \E lo, hi \in Bound : range = << Segment(lo, hi) >> /\ ValidSegment(lo, hi)

\* A range is exact (version_range): unless an excluded end precedes an
\* included one, it contains the versions that satisfy every part, or every
\* version when the parts have left it without segments, because
\* Range::contains finds no segment that says no.
ExactUnlessMixed ==
    ~Mixed => \A x \in Version : Contains(range, x) <=> SatisfiesAll(x) \/ range = <<>>

\* No version that satisfies every part is ever rejected, mixed or not.
NothingLost == \A x \in Version : SatisfiesAll(x) => Contains(range, x)

\* A range is found empty only when no version can satisfy the requirement.
EmptyIsUnsatisfiable == range = <<>> => \A x \in Version : ~ SatisfiesAll(x)
=============================================================================
