SPECIFICATION Spec
CONSTANTS
    Operations = {"publish", "withdraw", "reinstate", "verify", "refresh"}
    Listings = {l1, l2}
    Bindings = {b1}
    Owner = owner
    Admin = admin
    Agent = a
    Actors = {b1, owner, admin}
    Targets = {l1, l2, a}
    Keys = {k1}
    Requests = {c1, c2}
    MaxWrites = 2
    MaxLimit = 1
    Legacy = TRUE
    None = None
SYMMETRY Symmetry
INVARIANTS
    AppliedOnce
    GroundedStaysDown
PROPERTIES
    WithinPlan
CHECK_DEADLOCK FALSE
