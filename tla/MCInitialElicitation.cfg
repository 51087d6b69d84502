SPECIFICATION Spec
CONSTANTS
    Requests <- MCRequests
    Good <- MCGood
    Bad <- MCBad
    Unwelcome <- MCUnwelcome
    NoText = "none"
    Modes = {"off", "read-write", "read-only", "refresh"}
    MaxParseRetries = 1
    MapAttempts = 2
    MaxMishaps = 2
    Bidders <- MCBidders
    Items <- MCItems
    Truth <- MCTruth
    Answers <- MCAnswers
    Extraction <- MCExtraction
    UpheldModes <- MCUpheldModes
    RawMap <- MCRawMap
    Entailed <- MCEntailed
    Values <- MCValues
    Queried <- MCQueried
    Plans <- MCPlans
    MaxCandidates = 4
    ChunkSize = 3
    MaxSessions = 2
INVARIANTS
    ElicitationReplays
    ComplementsAreValued
    AnswersReplay
    RejectedAreEvicted
CHECK_DEADLOCK FALSE
