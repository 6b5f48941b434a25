\* Two packages, two flags, three recipes; any line of a script may fail.
SPECIFICATION ScriptSpec
CONSTANTS
  Name = {"ssl", "gtk", "u"}
  Lines <- CommandLines
  Pkg = {p, q}
  KnownSets <- Known
  Recipes <- SomeRecipes
  Builds <- SomeBuilds
  None = None
  NoFlag = NoFlag
  Project = Project
INVARIANTS ExactIffUnchanged KeptIsCurrent SourcesKept
PROPERTIES ImplementsUse OthersKept
