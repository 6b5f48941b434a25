---------------------------- MODULE MCRequirements ----------------------------
EXTENDS Requirements, TLC

CONSTANTS a, b, c

\* Every version has a major number of its own.
Majors == [v \in Versions |-> v]

Needs(f) == [p \in Packages |-> IF p \in DOMAIN f THEN f[p] ELSE None]

\* a needs b and then c, b needs c; or a and b need c in versions that
\* exclude one another now and then.
SomeRegistries ==
    { [p \in Packages |->
         IF p = a THEN <<Needs(b :> {1}), Needs(c :> {1, 2})>>
         ELSE IF p = b THEN <<Needs(c :> AnyVersion), Needs(c :> {2})>>
         ELSE <<Needs(<<>>), Needs(<<>>)>>],
      [p \in Packages |->
         IF p = c THEN <<Needs(<<>>), Needs(<<>>)>>
         ELSE <<Needs(c :> {1}), Needs(c :> {2})>>] }
===============================================================================
