SPECIFICATION ReportSpec
CONSTANTS
    Ids <- SomeIds
    Keys <- SomeKeys
    Weakens <- Weakening
    Claims = {"C1", "C2", "C3"}
    Severities = {"critical", "major", "minor"}
    HumanForMajor = TRUE
    ApproveAll = FALSE
    MaxFindings = 3
    Sources <- AllSources
    REVIEWER_KINDS <- SomeKinds
    ReviewerOf <- ReplyNames
    Documents <- SomeDocuments
    Structural <- SomeStructural
    Comments = {"%"}
    Reread <- SomeReread
    Swallowing <- SomeStructural
    Lettered <- SomeLettered
    NGRAM = 4
INVARIANT NothingLost
INVARIANT NoSilentMajorRevision
INVARIANT EveryInstructionSettled
INVARIANT ReportFaithful
INVARIANT NoFalseAlarm
\* A review ends with its report.
CHECK_DEADLOCK FALSE
