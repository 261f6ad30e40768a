CONSTANTS
    None = None
    t1 = t1
    t2 = t2
    e1 = e1
    e2 = e2
    d1 = d1
    Kept = 2
    Things <- AlbumAndEpisode
    Digests <- OneDigest
    Heard = {e2}
    MaxEntries = 3
    MaxPlays = 2
SPECIFICATION Spec
INVARIANTS PositionIsItsItems DigestsAtHome WalkIsPlays ForwardUndoesBack NextRecordsOnce
PROPERTIES NothingLost
