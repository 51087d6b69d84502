SPECIFICATION Spec
CONSTANTS
    Scale = 2
    Items = {"A", "B"}
    Values = {0, 1, 2}
    PriceVectors <- MCPrices
    MaxEvents = 2
INVARIANTS
    OnlyLastAnswerUndercuts
    NeverUnderAnswer
    AskedOnce
    FloorsOverstateOnlyUnwanted
    AnchorsNeverUnderstate
CHECK_DEADLOCK FALSE
