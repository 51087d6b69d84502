SPECIFICATION TSpec
CONSTANTS
    Items = {1, 2}
    Bidders = {"b1", "b2"}
    Order <- MCOrder
    MaxRounds = 4
    Step = 1
    Reserve = 0
    NoBundle = NoBundle
    Responses = {}
    TopK = 2
    Scale = 1
    AtomOrder <- MCAtomOrder
    Unit = 2
    Policies <- MCFrontierOverAllAtoms
    Truths <- MCTruths
    Guesses <- MCMonotoneGuesses
INVARIANTS
    AwardsAreVerified
CHECK_DEADLOCK FALSE
