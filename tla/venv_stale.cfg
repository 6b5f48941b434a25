\* Two installs: the second read the documents before it had the lock.
SPECIFICATION Spec
CONSTANTS
  Procs = {p1, p2}
  Pkg = {a}
  Ver = {v1}
  Flag = {}
  None = None
  Broken = Broken
  Torn = Torn
  NoProc = NoProc
  Commands = {"install"}
  GitFaults = FALSE
  MaxStarts = 2
  MaxCrashes = 0
PROPERTY HolderIsCurrent
CHECK_DEADLOCK FALSE
