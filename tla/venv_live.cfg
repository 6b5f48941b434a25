\* Every command, two processes, under fair scheduling.
SPECIFICATION FairSpec
CONSTANTS
  Procs = {p1, p2}
  Pkg = {a}
  Ver = {v1, v2}
  Flag = {f}
  None = None
  Broken = Broken
  Torn = Torn
  NoProc = NoProc
  Commands = {"install", "uninstall", "run", "use"}
  GitFaults = TRUE
  MaxStarts = 2
  MaxCrashes = 1
INVARIANT DirtyGuards
PROPERTIES LockReleased CommandEnds
CHECK_DEADLOCK FALSE
