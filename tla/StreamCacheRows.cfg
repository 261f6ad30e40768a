CONSTANTS
    None = None
    Tracks = {x, y}
    Formats = {1, 2}
    Chunks = {0}
    Length <- LengthOne
    CapBytes = 2
    Clients = {c1, c2}
    Writers = {w1, w2}
    WritesFail = FALSE
SPECIFICATION Spec
SYMMETRY CacheSymmetry
INVARIANTS CapHolds BitHasBytes RowStays NoStrayFile BytesAreCounted
