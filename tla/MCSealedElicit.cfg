SPECIFICATION Spec
CONSTANTS
    Items = {1, 2}
    Bidders = {"b1", "b2"}
    Order <- MCOrder
    AtomOrder <- MCAtomOrder
    Unit = 2
    Scale = 1
    Policies <- MCPolicies
    Truths <- MCTruths
    Guesses <- MCGuesses
INVARIANTS
    AttemptedIsAsked
    FrontierIsVerified
    StopsAtFixpoint
PROPERTIES
    ImplementsAuction
    Finishes
