\* Two processes that lock, next to unlocked edits of ttrek.json; two may die.
SPECIFICATION Spec
CONSTANTS
  Procs = {p1, p2}
  Pkg = {a}
  Ver = {v1, v2}
  Flag = {f}
  None = None
  Broken = Broken
  Torn = Torn
  NoProc = NoProc
  Commands = {"install", "uninstall", "use"}
  GitFaults = TRUE
  MaxStarts = 3
  MaxCrashes = 2
INVARIANTS TypeOK LockMatchesHead Exclusive
PROPERTY ImplementsStore
SYMMETRY Symmetric
CHECK_DEADLOCK FALSE
