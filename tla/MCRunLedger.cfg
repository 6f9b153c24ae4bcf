SPECIFICATION ViewSpec
CONSTANTS
    r1 = r1
    r2 = r2
    r3 = r3
    Reviews <- ThreeReviews
    Uploaded <- TwoReviews
    Names = {"main.tex", "paper.tex"}
    NameOf <- SameName
    ArtifactFiles <- TwoFiles
    MaxRunId = 3
    MaxParallel = 3
    DASHBOARD_ROWS = 1
    BASE = 3
    WIDEST = 2
    MAX_BUSY = 1
SYMMETRY UploadsAlike
INVARIANT LaterRunsGetLaterIds
INVARIANT RecordedUnlessShared
INVARIANT ReviewsOwnBytes
PROPERTY SavedRunsKept
CHECK_DEADLOCK FALSE
