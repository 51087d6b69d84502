SPECIFICATION TSpec
CONSTANTS
    Items = {1, 2}
    Bidders = {"b1", "b2"}
    Order <- MCOrder
    MaxRounds = 4
    Step = 1
    Reserve = 0
    NoBundle = NoBundle
    Responses = {}
    TopK = 1
    Scale = 1
    AtomOrder <- MCAtomOrder
    Unit = 2
    Policies <- MCPolicies
    Truths <- MCTruths
    Guesses <- MCGuesses
INVARIANTS
    RowsFollowTheClock
    VerdictsAreEarned
    AuditedAwardsAreVerified
    CounterfactualsAreVerified
    LoopsEndByThemselves
    SupportIsWhatWasDemanded
    CapsOverrunByOne
    AuditedCorrectionsReachTheBids
CHECK_DEADLOCK FALSE
