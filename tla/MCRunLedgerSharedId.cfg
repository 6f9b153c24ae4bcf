SPECIFICATION ViewSpec
CONSTANTS
    r1 = r1
    r2 = r2
    r3 = r3
    Reviews <- TwoReviews
    Uploaded <- TwoReviews
    Names = {"main.tex", "paper.tex"}
    NameOf <- OwnNames
    ArtifactFiles <- TwoFiles
    MaxRunId = 3
    MaxParallel = 2
    DASHBOARD_ROWS = 1
    BASE = 10
    WIDEST = 999
    MAX_BUSY = 0
INVARIANT
    EveryRunRecorded
CHECK_DEADLOCK FALSE
