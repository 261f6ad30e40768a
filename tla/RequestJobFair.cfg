CONSTANTS
    None = None
    ByHand = ByHand
    Ids = {r1}
    People = {p1}
    Releases = {a, b}
    Handled = {}
    Keys = {1, 2, 3, 4, 5}
    Versions = {0, 1, 2}
    FirstVersion = 0
    Medium = "book"
    MaxTurn = 1
    MaxLate = 0
    CancelsRefused = TRUE
    MaxAutoStarts = 1
    MaxCrashes = 0
SPECIFICATION FairSpec
PROPERTIES FollowsLifecycle RunEnds
