CONSTANTS
    None = None
    ByHand = ByHand
    Ids = {r1}
    People = {p1}
    Releases = {a, b}
    Handled = {}
    Keys = {1, 2, 3, 4, 5, 6, 7, 8}
    Versions = {0, 1, 2}
    FirstVersion = 0
    Medium = "book"
    MaxTurn = 2
    MaxLate = 1
    CancelsRefused = TRUE
    MaxAutoStarts = 1
    MaxCrashes = 2
SPECIFICATION Spec
SYMMETRY ReleaseSymmetry
INVARIANTS KeepsWhatFits SnapshotCurrent ResultIsOfRelease NamedOrDropped
VIEW ByKeysInUse
