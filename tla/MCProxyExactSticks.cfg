SPECIFICATION Spec
CONSTANTS
    Scale = 2
    Items = {"A", "B"}
    Values = {0, 1, 2}
    PriceVectors <- MCPrices
    MaxEvents = 3
INVARIANTS
    ExactAnswersStick
CHECK_DEADLOCK FALSE
