SPECIFICATION Spec
CONSTANTS
    a = a  b = b  c = c
    Packages = {a, b, c}
    Versions = {1, 2}
    Major <- Majors
    Requests = {{1}, {1, 2}}
    Registries <- SomeRegistries
    AnyVersion = AnyVersion
    None = None
    MaxNamed = 1
    MaxEdits = 1
    MaxDeaths = 1
INVARIANTS LockFits SpecIsMet
PROPERTY OthersStay
