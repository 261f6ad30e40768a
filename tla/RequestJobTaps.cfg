CONSTANTS
    None = None
    ByHand = ByHand
    Ids = {r1}
    People = {p1, p2}
    Releases = {a, b, c}
    Handled = {a, b, c}
    Keys = {1, 2, 3, 4, 5}
    Versions = {0, 1, 2}
    FirstVersion = 0
    Medium = "book"
    MaxTurn = 2
    MaxLate = 0
    CancelsRefused = FALSE
    MaxAutoStarts = 1
    MaxCrashes = 0
SPECIFICATION Spec
SYMMETRY ReleaseSymmetry
INVARIANTS NothingLeft AutoStartsCapped OneDropPerDownload
PROPERTIES DropsOnlyItsOwn
