CONSTANTS
    None = None
    c1 = c1
    c2 = c2
    e1 = e1
    Kept = 2
    Things <- BookAndEpisode
    Picks <- EpisodePicked
    Ids = {p1}
    Runs = {1, 2}
    MaxEntries = 3
    MaxPlays = 2
SPECIFICATION Spec
INVARIANTS PicksCurrent PlayIsCurrent
PROPERTIES RecordedOnce SeekKeepsPlan HistoryOnlyGrows
