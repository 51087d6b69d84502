SPECIFICATION Spec
CONSTANTS
    NoFile = NoFile
    Torn = Torn
    Batches = 2
    PromptTokens = 1
    MaxTokens = 2
    Replies <- MCReplies
    Invocations <- MCInvocations
    Sizes <- MCSizes
    FixedSize = 1
    CoverageOrder <- MCCoverageOrder
    Scripts <- MCScripts
    ScriptBound = 3
    MishapBound = 1
INVARIANTS
    AcceptedAreCanonical
    CeilingPassedByOneCall
    BatchesQuoteEachOther
    PacksAreGenuine
    PreparedCasesMatchMasters
    ZeroSweepLeavesNoGap
PROPERTIES
    ResumePaysOnce
    FrozenRunsUseFrozenInputs
