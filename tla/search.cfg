SPECIFICATION WalkSpec
CONSTANTS
    Rows <- MCRows
    Surfaces = {"listings", "publications", "agents", "owner"}
    PageSize = 1
    Budget = 2
    MaxClock = 2
INVARIANTS
    EveryRowOnce
PROPERTIES
    WalkEnds
