SPECIFICATION Spec
CONSTANTS
    p1 = p1  p2 = p2
    f1 = f1  f2 = f2  f3 = f3  h = h
    Packages = {p1, p2}
    Versions = {1, 2}
    Files = {f1, f2, f3, h}
    Hidden = {h}
    Built = {f3}
    Payloads <- SomePayloads
    Project = Project
    None = None
    MaxDeaths = 1
INVARIANTS CommitIsListed NothingMissing InstalledIsWhole
PROPERTY BuiltStays
