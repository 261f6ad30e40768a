CONSTANTS
    None = None
    show = show
    book = book
    album = album
    single = single
    shelves = shelves
    music = music
    other = other
    AbsLibraries = {shelves}
    MusicLibraries = {music, other}
    LibraryOf <- OneEach
    Shows = {show}
    Size = 1
    RefreshAfter = 2
    MaxEvents = 2
SPECIFICATION FairSpec
PROPERTIES MarkedWasRead WhatIsThereStays SourceMirrored
