SPECIFICATION Spec
CONSTANTS
    Merchants = {m1}
    Buyers = {b1}
    Titles = {t1}
    Contents = {c1, c2}
    PageCap = 2
    SteadyClock = TRUE
    MaxRows = 3
    MaxEvents = 4
    MaxClock = 5
SYMMETRY Symmetry
INVARIANTS
    NothingLostNothingTwice
    OnePublishedPerTitle
    FeedMirrorsDirectory
