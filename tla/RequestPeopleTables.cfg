CONSTANTS
    None = None
    Ids = {r1, r2, r3}
    People = {p1, p2}
    Catalogue = {x, y}
    MaxLive = 1
SPECIFICATION Spec
SYMMETRY PeopleSymmetry
INVARIANTS FoundByItsKeys ArrivedIsClaimed
PROPERTIES ClaimedByThoseOnIt PlacesAreKept
