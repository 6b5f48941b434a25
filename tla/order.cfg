\* Three packages, two or three of them locked; three rounds, which may run out.
SPECIFICATION OrderSpec
CONSTANTS
  Pkg = {a, b, c}
  Solutions <- Solved
  Relations <- Registry
  LockFiles <- Locks
  Forced = {TRUE, FALSE}
  MaxDepth = 3
SYMMETRY Symmetric
INVARIANTS ResolvedAfterDeps ResolvableComeOut NothingStale DependantsRebuilt AllDependantsRebuilt RebuiltForAReason AnnouncedUnlessCut DependenciesReady
\* The plan is carried out.
CHECK_DEADLOCK FALSE
