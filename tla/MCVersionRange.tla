--------------------------- MODULE MCVersionRange ---------------------------
\* Versions are the numbers 0 to 5 in their order; 0 to 2 are of one major
\* version, 3 to 5 of the next.  Requirements have at most three parts.
EXTENDS VersionRange

Versions == 0..6
ByNumber(x, y) == x - y
MajorEnd(x) == IF x < 3 THEN 3 ELSE 6
Lists == UNION {[1..n -> [op : {">=", ">", "<=", "<", "==", "^"}, v : 0..5]] : n \in 1..3}
=============================================================================
