SPECIFICATION Spec
CONSTANTS
    c1 = c1
    c2 = c2
    Calls = {c1, c2}
    MaxBinding = 2
    MaxConfig = 3
SYMMETRY Symmetry
INVARIANTS
    CustodyEndsWithConsent
PROPERTIES
    ServedMovesOn
CHECK_DEADLOCK FALSE
