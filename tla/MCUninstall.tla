----------------------------- MODULE MCUninstall -----------------------------
\* Every lock file whose packages require any others, cycles included.
EXTENDS Uninstall, Naturals

CyclicGraphs == [Pkg -> SUBSET Pkg]
=============================================================================
