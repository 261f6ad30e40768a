CONSTANTS
    None = None
    Tracks = {x}
    Formats = {1}
    Chunks = {0, 1}
    Length <- LengthByChunk
    CapBytes = 2
    Clients = {c1, c2}
    Writers = {w1, w2}
    WritesFail = TRUE
SPECIFICATION FairSpec
PROPERTIES ClientsAnswered
