CONSTANTS
    None = None
    ByHand = ByHand
    Ids = {r1, r2}
    People = {p1}
    Releases = {a}
    Handled = {}
    Keys = {1, 2, 3, 4, 5}
    Versions = {0, 1, 2}
    FirstVersion = 0
    Medium = "book"
    MaxTurn = 2
    MaxLate = 1
    CancelsRefused = FALSE
    MaxAutoStarts = 1
    MaxCrashes = 0
SPECIFICATION Spec
SYMMETRY IdSymmetry
PROPERTIES DropsOnlyItsOwn
