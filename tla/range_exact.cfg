\* Requirements of up to three parts over six versions of two major versions.
SPECIFICATION Spec
CONSTANTS
  Version <- Versions
  Compare <- ByNumber
  NextMajor <- MajorEnd
  Requirements <- Lists
INVARIANTS ExactUnlessMixed NothingLost EmptyIsUnsatisfiable
\* Reading a requirement ends.
CHECK_DEADLOCK FALSE
