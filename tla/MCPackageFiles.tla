---------------------------- MODULE MCPackageFiles ----------------------------
EXTENDS PackageFiles, TLC

CONSTANTS p1, p2, f1, f2, f3, h

\* What the scripts of p1 and p2 write, version 1 and version 2.
Writes(p1v1, p1v2, p2v1, p2v2) ==
    [p \in Packages |-> IF p = p1 THEN <<p1v1, p1v2>> ELSE <<p2v1, p2v2>>]

\* A file that moves from one package to the other and one the local build
\* makes too; every file shared; a hidden file shared; versions without files.
SomePayloads ==
    { Writes({f1, h}, {f2}, {f2}, {f3}),
      Writes({f1, f2}, {f1}, {f2}, {f1, f2}),
      Writes({f1, h}, {f1}, {f2}, {f2, h}),
      Writes({}, {f1}, {f1, f2}, {}) }
===============================================================================
