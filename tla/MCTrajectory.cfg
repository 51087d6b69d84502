SPECIFICATION TSpec
CONSTANTS
    Items = {1, 2}
    Bidders = {"b1", "b2"}
    Order <- MCOrder
    MaxRounds = 3
    Step = 2
    Reserve = 0
    NoBundle = NoBundle
    Responses = {}
    TopK = 1
    Scale = 1
    AtomOrder <- MCAtomOrder
    Unit = 2
    Policies <- MCTargetedOverRevealed
    Truths <- MCTruths
    Guesses <- MCGuesses
INVARIANTS
    TrajectoryIsTheExperiment
CHECK_DEADLOCK FALSE
