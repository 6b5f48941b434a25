\* One process at a time: kills, failing scripts, a failing git_reset.
SPECIFICATION Spec
CONSTANTS
  Procs = {p1}
  Pkg = {a, b}
  Ver = {v1}
  Flag = {}
  None = None
  Broken = Broken
  Torn = Torn
  NoProc = NoProc
  Commands = {"install", "uninstall"}
  GitFaults = TRUE
  MaxStarts = 4
  MaxCrashes = 2
SYMMETRY Symmetric
INVARIANT DirtyGuards
PROPERTY RecoveryRestores
CHECK_DEADLOCK FALSE
