SPECIFICATION TSpec
CONSTANTS
    Items = {1, 2}
    Bidders = {"b1", "b2"}
    Order <- MCOrder
    MaxRounds = 6
    Step = 1
    Reserve = 0
    NoBundle = NoBundle
    Responses = {}
    TopK = 2
    Named <- MCNamed
    Values = {0, 1, 3, 7}
INVARIANTS
    ClearedAwardsFirstChoice
    StopsOnlyClearedOrCapped
    PriceCountsOverdemand
    ClearsUnlessCapIsTight
    ClearingIsCompetitive
    OutcomeIsEfficient
CHECK_DEADLOCK FALSE
