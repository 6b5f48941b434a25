\* Three packages, every graph.
SPECIFICATION FairSpec
CONSTANTS
    Pkg = {1, 2, 3}
    Graphs <- CyclicGraphs
INVARIANTS ListIsExact DiskClosed DirectKept
PROPERTIES Terminates SpecStaysLocked
\* The command ends.
CHECK_DEADLOCK FALSE
