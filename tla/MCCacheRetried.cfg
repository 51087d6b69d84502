SPECIFICATION CacheSpec
CONSTANTS
    Requests <- MCRequests
    Good = {"values"}
    Bad = {"malformed"}
    NoText = "none"
    Modes = {"read-write", "read-only"}
    MaxParseRetries = 1
    MapAttempts = 1
    Unwelcome = {"malformed"}
    MaxMishaps = 1
INVARIANTS
    EveryAnswerReplays
