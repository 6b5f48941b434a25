\* Two packages, up to two of five versions in the registry.
SPECIFICATION DatabaseSpec
CONSTANTS
  Pkg = {a, b}
  Published <- Versions
  Parts <- Requirements
  MaxVersions = 2
  None = None
  NoPre = NoPre
  MaxInt = 7
  MaxLong = 31
SYMMETRY Symmetric
INVARIANTS LockedIsMarked CaretKeepsMajor NewestNumberFirst
\* The solver has asked for everything.
CHECK_DEADLOCK FALSE
