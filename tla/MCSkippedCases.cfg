SPECIFICATION Spec
CONSTANTS
    NoFile = NoFile
    Torn = Torn
    Batches = 2
    PromptTokens = 1
    MaxTokens = 2
    Replies <- MCReplies
    Invocations <- MCInvocations
    Sizes <- MCSizes
    FixedSize = 1
    CoverageOrder <- MCCoverageOrder
    Scripts <- MCSweepsOnly
    ScriptBound = 2
    MishapBound = 1
INVARIANT SkippedCasesAreComplete
