CONSTANTS
    None = None
    Medium = "book"
    StallAfter = 3
    HoldAfter = 2
    Whole = 2
    ChecksLose = FALSE
    MaxGap = 4
    Cap = 4
SPECIFICATION FairSpec
PROPERTIES StallIsReal HoldIsWhole DeadEndsFailed
