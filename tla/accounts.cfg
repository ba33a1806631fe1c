SPECIFICATION Spec
CONSTANTS
    Clients = {c1, c2}
    Limit = 1
    MaxWindow = 2
    MaxRequests = 2
    MaxOthers = 2
    MaxBegun = 3
SYMMETRY Symmetry
INVARIANTS
    AttemptsBounded
    OneIdentity
    GrantedOnce
CHECK_DEADLOCK FALSE
