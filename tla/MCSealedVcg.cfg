SPECIFICATION VcgSpec
CONSTANTS
    Order <- MCOrder
    Named <- MCNamed
    ReportValues = {0, 1, 3}
INVARIANTS
    NeverRaises
    IndividuallyRational
    TruthIsDominant
CHECK_DEADLOCK FALSE
