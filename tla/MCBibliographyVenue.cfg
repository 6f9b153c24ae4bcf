SPECIFICATION Spec
CONSTANTS
    r1 = r1
    r2 = r2
    Reviews = {r1, r2}
    Papers <- MCPapers
    Sources <- MCSources
    Cited <- MCCited
    Plain <- MCPlain
    ArxivIdOf <- MCArxivIdOf
    ArxivMentions = {"arXiv:2001.00001v1"}
    DoiOf <- MCDoiOf
    ShortWords = {"of"}
    Within <- MCWithin
    Responses <- MCResponses
    MAX_RESPONSE_BYTES = 3
    FileRank <- MCFileRank
    SizeOf <- MCSizeOf
    MaxEntries = 1
    MaxBytes = 2
    MaxTime = 2
INVARIANT VerifiedMeansAgreement
CHECK_DEADLOCK FALSE
