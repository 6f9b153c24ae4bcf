\* Every project of up to three files under a depth limit of two includes and
\* a fragment limit of six, and four PDF files.
CONSTANTS
    main = main
    sec = sec
    app = app
    locked = locked
    secret = secret
    Nowhere = Nowhere
    Figure = Figure
    Keys = {"smith", "jones"}
    NoKey = NoKey
    Files <- AllFiles
    Inside <- InRoot
    Readable = {main, sec, app, secret}
    Root = main
    Projects <- SomeProjects
    MAX_INCLUDE_DEPTH = 2
    MAX_TOTAL_FRAGMENTS = 6
    PagesOf <- SomePdfs
    ENV_LINES = 3
    Configs <- SomeConfigs
    PROMPT_CHARS = 4
SPECIFICATION FairPipelineSpec
INVARIANT ChainBounded
INVARIANT IncludesAccounted
INVARIANT ProseKept
INVARIANT DocumentLinked
INVARIANT PdfComplete
INVARIANT Egress
PROPERTY PipelineEnds
\* A review that has ended takes no more steps.
CHECK_DEADLOCK FALSE
